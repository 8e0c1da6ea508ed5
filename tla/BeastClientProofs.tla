--------------------------- MODULE BeastClientProofs ---------------------------
(***************************************************************************)
(* Proofs about BeastClient for any number of connections and of messages  *)
(* of any size: when the application is called back, what it is told, and  *)
(* what of the stream of the server it is shown.                           *)
(***************************************************************************)
EXTENDS BeastClient, SequenceTheorems, TLAPS

-----------------------------------------------------------------------------
(* The life of a connection, in the caller and in the io thread.           *)
LifeInv ==
  /\ pc \in {"tell", "doRead"} => mRunning
  /\ pc \in {"post", "stop", "join"} => ~mRunning
  /\ io # "none" => mRunning \/ pc # "idle"
  /\ mRunning => io # "none" /\ ~ioStopped
  /\ ioStopped => pc = "join" \/ io = "none"
  /\ pc = "join" => ioStopped
  /\ pc = "idle" /\ ~mRunning => reads = 0 /\ closes = 0 /\ ~mConnected

(* The handler of a read that had a stream: not one that Join aborted.     *)
Live(h) == h.op = "read" /\ h.ec # "aborted"

(* The io thread runs such a handler, and may start the next read.         *)
Reading ==
  \/ io = "deliver"
  \/ io = "read" /\ cur.ec # "aborted"

NoneLive == \A i \in 1..Len(ready) : ~Live(ready[i])

(* The chain of reads has one end: connect() about to start the first, a   *)
(* read outstanding, a handler that waits, or one that runs.               *)
OneReader ==
  /\ pc \in {"tell", "doRead"} => reads = 0 /\ ~Reading /\ NoneLive
  /\ reads > 0 => ~Reading /\ NoneLive
  /\ Reading => NoneLive
  /\ \A i, j \in 1..Len(ready) : Live(ready[i]) /\ Live(ready[j]) => i = j
  /\ pc = "idle" /\ ~mRunning => NoneLive

Good(h) == h.op = "read" /\ h.ec = "ok"

(* mBuffer ends with the beginning of the message of frame f.              *)
Begun(f) ==
  \A i \in 1..part : mBuffer[Len(mBuffer) - part + i] = <<f, i>>

(* The message that has begun is the next one of the server, or the one    *)
(* whose handler waits or runs.                                            *)
ReadInv ==
  /\ pc = "idle" /\ ~mRunning => part = 0
  /\ pc \in {"tell", "doRead"} => part = 0
  /\ io = "deliver" => part = 0
  /\ reads > 0 => Begun(sent + 1)
  /\ \A i \in 1..Len(ready) : Good(ready[i]) => Begun(ready[i].frame)
  /\ io = "read" /\ cur.ec = "ok" => Begun(cur.frame)

(* mFrameBuffer ends with the message of frame f.                          *)
Ends(f) ==
  /\ Len(mFrameBuffer) >= size
  /\ mFrameBuffer[Len(mFrameBuffer)] = FRAME_DELIMITER
  /\ \A i \in 1..size - 1 :
       mFrameBuffer[Len(mFrameBuffer) - size + i] = <<f, i>>

(* The message that was read is cut last.                                  *)
LastCut ==
  /\ mFrameBuffer = <<>> /\ shown # <<>>
  /\ Last(shown) \in {cur.frame, 0}

TailInv == io = "deliver" => Ends(cur.frame) \/ LastCut

(* A message can still be taken from mBuffer in this connection.           *)
Expecting ==
  \/ pc \in {"tell", "doRead"} \/ reads > 0
  \/ \E i \in 1..Len(ready) : Good(ready[i])
  \/ io = "read" /\ cur.ec = "ok"

(* A connection that finds bytes of an earlier one never gets rid of them; *)
(* one that finds none takes each message from an empty buffer.            *)
ResidueInv ==
  /\ "bytes" \in inherited => Len(mBuffer) > part
  /\ "bytes" \notin inherited =>
       /\ Expecting => Len(mBuffer) = part
       /\ io # "deliver" => mFrameBuffer = <<>>
       /\ io = "deliver" =>
            mBuffer = <<>> /\ (mFrameBuffer = <<>> \/ Len(mFrameBuffer) = size)

(* A frame newer than all that were shown.                                 *)
Above(f) == f \in 1..sent /\ \A i \in 1..Len(shown) : shown[i] < f

(* The frame in hand is newer than the shown ones, as is one that waits.   *)
OrderInv ==
  "bytes" \notin inherited =>
    /\ \A i \in 1..Len(shown) : shown[i] <= sent
    /\ \A i \in 1..Len(ready) : Good(ready[i]) => Above(ready[i].frame)
    /\ io = "read" /\ cur.ec = "ok" => Above(cur.frame)
    /\ io = "deliver" /\ mFrameBuffer # <<>> => Above(cur.frame)

(* While no handler of an earlier connection is left, an operation fails   *)
(* only once the server is gone.                                           *)
LossInv ==
  "handlers" \notin inherited /\ mRunning =>
    /\ net \in {"up", "down"}
    /\ net = "up" =>
         /\ closes = 0
         /\ \A i \in 1..Len(ready) : Good(ready[i])
         /\ io \notin {"doClose", "closed", "fail", "tellLost"}
         /\ io = "read" => cur.ec = "ok"

(* What the application is told of the connection.                         *)
ToldInv ==
  /\ "handlers" \notin inherited /\ pc \in {"tell", "doRead"} =>
       ready = <<>> /\ reads = 0 /\ closes = 0 /\ io = "idle"
  /\ "handlers" \notin inherited /\ mConnected /\ pc # "tell" =>
       told = "connected"
  /\ io = "tellLost" => ~mConnected
  /\ ReportsInOrder

Inv == /\ TypeOK /\ LifeInv /\ OneReader
       /\ ReadInv /\ TailInv /\ ResidueInv /\ OrderInv
       /\ LossInv /\ ToldInv

-----------------------------------------------------------------------------
(* The actions of Next, one by one.                                        *)
LEMMA NextCases ==
  ASSUME Next
  PROVE  \/ Connect \/ ConnectFails \/ Disconnect \/ TellConnected
         \/ FirstRead \/ PostClose \/ StopIo \/ Join
         \/ Take \/ ThreadExits \/ ReadDone \/ Fail \/ Deliver
         \/ NextRead \/ DoClose \/ Closed \/ TellLost
         \/ PartArrives \/ MessageArrives \/ PeerCloses
         \/ \E ec \in {"closed", "error"} : ReadFails(ec)
         \/ \E ec \in {"ok", "error"} : CloseEnds(ec)
  BY DEF Next, CallStep, IoStep, Network, OperationFails

(* What a posted handler changes in the queue.                             *)
LEMMA PostFacts ==
  ASSUME TypeOK, NEW h \in Handler, Post(h)
  PROVE  /\ ready' \in Seq(Handler) /\ ready' # <<>>
         /\ Len(ready) \in Nat /\ Len(ready') = Len(ready) + 1
         /\ ready'[Len(ready) + 1] = h
         /\ \A i \in 1..Len(ready) : ready'[i] = ready[i]
         /\ \A i \in 1..Len(ready') :
              i \in 1..Len(ready) \/ i = Len(ready) + 1
<1>1. ready \in Seq(Handler) /\ ready' = Append(ready, h)
  BY DEF TypeOK, Post
<1>2. Len(ready) \in Nat
  BY <1>1, LenProperties
<1>3. /\ ready' \in Seq(Handler) /\ Len(ready') = Len(ready) + 1
      /\ ready'[Len(ready) + 1] = h
      /\ \A i \in 1..Len(ready) : ready'[i] = ready[i]
  BY <1>1, AppendProperties
<1> QED BY <1>1, <1>2, <1>3

(* What Take changes in it.                                                *)
LEMMA TakeFacts ==
  ASSUME TypeOK, Take
  PROVE  /\ ready' \in Seq(Handler) /\ cur' \in Handler
         /\ Len(ready) \in Nat \ {0}
         /\ cur' = ready[1] /\ 1 \in 1..Len(ready)
         /\ \A i \in 1..Len(ready') :
              i + 1 \in 1..Len(ready) /\ ready'[i] = ready[i + 1]
<1>1. /\ ready \in Seq(Handler) /\ ready # <<>>
      /\ cur' = Head(ready) /\ ready' = Tail(ready)
  BY DEF TypeOK, Take
<1>2. Len(ready) \in Nat \ {0}
  BY <1>1
<1>3. /\ ready' \in Seq(Handler) /\ Len(ready') = Len(ready) - 1
      /\ \A i \in 1..Len(ready') : ready'[i] = ready[i + 1]
  BY <1>1
<1>4. cur' = ready[1] /\ ready[1] \in Handler
  BY <1>1, <1>2
<1> QED BY <1>2, <1>3, <1>4

(* Join leaves no handler of a read that had a stream.                     *)
LEMMA JoinFacts ==
  ASSUME TypeOK, Join
  PROVE  /\ ready' \in Seq(Handler)
         /\ \A i \in 1..Len(ready') : ~Live(ready'[i])
<1> DEFINE old == [i \in DOMAIN ready |-> Aborted(ready[i])]
           rds == [i \in 1..reads |-> HandlerOf("read", "aborted", 0)]
           cls == [i \in 1..closes |-> HandlerOf("closed", "aborted", 0)]
<1>1. /\ ready \in Seq(Handler) /\ Len(ready) \in Nat
      /\ DOMAIN ready = 1..Len(ready) /\ reads \in Nat /\ closes \in Nat
  BY LenProperties DEF TypeOK
<1>2. /\ HandlerOf("read", "aborted", 0) \in Handler
      /\ HandlerOf("closed", "aborted", 0) \in Handler
      /\ ~Live(HandlerOf("read", "aborted", 0))
      /\ ~Live(HandlerOf("closed", "aborted", 0))
  BY ClientAssumption DEF HandlerOf, Handler, Frames, Live
<1>3. \A h \in Handler : Aborted(h) \in Handler /\ ~Live(Aborted(h))
  BY ClientAssumption DEF Aborted, HandlerOf, Handler, Frames, Live
<1>4. /\ old \in Seq(Handler) /\ Len(old) = Len(ready)
      /\ \A i \in 1..Len(old) : ~Live(old[i])
  <2>1. \A i \in 1..Len(ready) : ready[i] \in Handler
    BY <1>1, ElementOfSeq
  <2> QED BY <1>1, <1>3, <2>1
<1>5. /\ rds \in Seq(Handler) /\ Len(rds) = reads
      /\ \A i \in 1..Len(rds) : ~Live(rds[i])
  BY <1>1, <1>2
<1>6. /\ cls \in Seq(Handler) /\ Len(cls) = closes
      /\ \A i \in 1..Len(cls) : ~Live(cls[i])
  BY <1>1, <1>2
<1>7. \A s, t \in Seq(Handler) :
        /\ \A i \in 1..Len(s) : ~Live(s[i])
        /\ \A i \in 1..Len(t) : ~Live(t[i])
        => /\ s \o t \in Seq(Handler)
           /\ \A i \in 1..Len(s \o t) : ~Live((s \o t)[i])
  <2> SUFFICES ASSUME NEW s \in Seq(Handler), NEW t \in Seq(Handler),
                      \A i \in 1..Len(s) : ~Live(s[i]),
                      \A i \in 1..Len(t) : ~Live(t[i])
               PROVE  s \o t \in Seq(Handler)
                      /\ \A i \in 1..Len(s \o t) : ~Live((s \o t)[i])
    OBVIOUS
  <2>1. /\ Len(s) \in Nat /\ Len(t) \in Nat
        /\ s \o t \in Seq(Handler) /\ Len(s \o t) = Len(s) + Len(t)
        /\ \A i \in 1..(Len(s) + Len(t)) :
             (s \o t)[i] = IF i <= Len(s) THEN s[i] ELSE t[i - Len(s)]
    BY ConcatProperties, LenProperties
  <2>2. ASSUME NEW i \in 1..(Len(s) + Len(t))
        PROVE  ~Live((s \o t)[i])
    <3>1. CASE i <= Len(s)
      BY <2>1, <3>1
    <3>2. CASE ~(i <= Len(s))
      <4>1. i - Len(s) \in 1..Len(t)
        BY <2>1, <3>2
      <4> QED BY <2>1, <3>2, <4>1
    <3> QED BY <3>1, <3>2
  <2> QED BY <2>1, <2>2
<1>8. ready' = (old \o rds) \o cls
  BY DEF Join
<1> HIDE DEF old, rds, cls
<1> QED BY <1>4, <1>5, <1>6, <1>7, <1>8

-----------------------------------------------------------------------------
(* Bytes and messages.                                                     *)

(* A message is the text of its frame and the delimiter.                   *)
LEMMA MessageFacts ==
  ASSUME TypeOK, NEW f \in Frames
  PROVE  /\ size \in Nat /\ size >= 2
         /\ Message(f) \in Seq(Byte) /\ Len(Message(f)) = size
         /\ Message(f)[size] = FRAME_DELIMITER
         /\ \A i \in 1..size - 1 : Message(f)[i] = <<f, i>>
<1> DEFINE text == [i \in 1..size - 1 |-> <<f, i>>]
<1>1. size \in Nat /\ size >= 2
  BY ClientAssumption DEF TypeOK
<1>2. FRAME_DELIMITER \in Byte
  BY ClientAssumption DEF FRAME_DELIMITER, Byte, Frames
<1>3. \A i \in 1..size - 1 : <<f, i>> \in Byte
  BY <1>1 DEF Byte
<1>4. /\ text \in Seq(Byte) /\ Len(text) = size - 1
      /\ \A i \in 1..size - 1 : text[i] = <<f, i>>
  BY <1>1, <1>3
<1>5. Message(f) = Append(text, FRAME_DELIMITER)
  BY DEF Message
<1> HIDE DEF text
<1>6. /\ Message(f) \in Seq(Byte) /\ Len(Message(f)) = Len(text) + 1
      /\ \A i \in 1..Len(text) : Message(f)[i] = text[i]
      /\ Message(f)[Len(text) + 1] = FRAME_DELIMITER
  BY <1>2, <1>4, <1>5, AppendProperties
<1> QED BY <1>1, <1>4, <1>6

(* A byte of a text is no delimiter.                                       *)
LEMMA TextIsNoDelimiter ==
  \A f, i : i # 0 => <<f, i>> # FRAME_DELIMITER
  BY DEF FRAME_DELIMITER

(* A piece of a sequence of bytes.                                         *)
LEMMA PieceFacts ==
  ASSUME NEW s \in Seq(Byte), NEW a \in 1..Len(s) + 1, NEW b \in 0..Len(s),
         a <= b + 1
  PROVE  /\ SubSeq(s, a, b) \in Seq(Byte) /\ Len(SubSeq(s, a, b)) = b + 1 - a
         /\ \A i \in 1..b + 1 - a : SubSeq(s, a, b)[i] = s[a + i - 1]
<1>1. Len(s) \in Nat /\ \A i \in 1..Len(s) : s[i] \in Byte
  BY ElementOfSeq, LenProperties
<1>2. /\ a \in Int /\ b \in Int /\ (\A i \in a..b : s[i] \in Byte)
      /\ b - a + 1 = b + 1 - a
  BY <1>1
<1>3. /\ SubSeq(s, a, b) \in Seq(Byte)
      /\ Len(SubSeq(s, a, b)) = IF a <= b THEN b - a + 1 ELSE 0
      /\ \A i \in 1..b - a + 1 : SubSeq(s, a, b)[i] = s[a + i - 1]
  BY <1>2, SubSeqProperties
<1> QED BY <1>2, <1>3

(* Two sequences of bytes, one behind the other.                           *)
LEMMA JoinedFacts ==
  ASSUME NEW s \in Seq(Byte), NEW t \in Seq(Byte)
  PROVE  /\ Len(s) \in Nat /\ Len(t) \in Nat
         /\ s \o t \in Seq(Byte) /\ Len(s \o t) = Len(s) + Len(t)
         /\ \A i \in 1..Len(s) : (s \o t)[i] = s[i]
         /\ \A i \in 1..Len(t) : (s \o t)[Len(s) + i] = t[i]
<1>1. /\ Len(s) \in Nat /\ Len(t) \in Nat
      /\ s \o t \in Seq(Byte) /\ Len(s \o t) = Len(s) + Len(t)
      /\ \A i \in 1..(Len(s) + Len(t)) :
           (s \o t)[i] = IF i <= Len(s) THEN s[i] ELSE t[i - Len(s)]
  BY ConcatProperties, LenProperties
<1>2. \A i \in 1..Len(t) :
        /\ Len(s) + i \in 1..(Len(s) + Len(t))
        /\ ~(Len(s) + i <= Len(s)) /\ Len(s) + i - Len(s) = i
  BY <1>1
<1> QED BY <1>1, <1>2

(* mBuffer with a message that has begun ends with all of it.              *)
LEMMA WithMessageFacts ==
  ASSUME TypeOK, Begun(cur.frame)
  PROVE  /\ WithMessage \in Seq(Byte) /\ Len(mBuffer) \in Nat
         /\ part \in Nat /\ part <= Len(mBuffer)
         /\ size \in Nat /\ size >= 2 /\ part < size
         /\ Len(WithMessage) = Len(mBuffer) - part + size
         /\ WithMessage[Len(WithMessage)] = FRAME_DELIMITER
         /\ \A i \in 1..size - 1 :
              WithMessage[Len(WithMessage) - size + i] = <<cur.frame, i>>
<1> DEFINE f == cur.frame
           m == Message(f)
           end == SubSeq(m, part + 1, size)
           len == Len(mBuffer)
<1>1. /\ f \in Frames /\ mBuffer \in Seq(Byte) /\ len \in Nat
      /\ part \in Nat /\ part <= len /\ part < size
  BY LenProperties DEF TypeOK, Handler
<1>2. /\ size \in Nat /\ size >= 2 /\ m \in Seq(Byte) /\ Len(m) = size
      /\ m[size] = FRAME_DELIMITER
      /\ \A i \in 1..size - 1 : m[i] = <<f, i>>
  BY <1>1, MessageFacts
<1> HIDE DEF m
<1>3. /\ end \in Seq(Byte) /\ Len(end) = size - part
      /\ \A i \in 1..size - part : end[i] = m[part + i]
  <2>1. /\ part + 1 \in 1..Len(m) + 1 /\ size \in 0..Len(m)
        /\ part + 1 <= size + 1 /\ size + 1 - (part + 1) = size - part
        /\ \A i \in 1..size - part : part + 1 + i - 1 = part + i
    BY <1>1, <1>2
  <2> QED BY <1>2, <2>1, PieceFacts
<1>4. WithMessage = mBuffer \o end
  BY DEF WithMessage, m
<1> HIDE DEF end
<1>5. /\ WithMessage \in Seq(Byte) /\ Len(WithMessage) = len + (size - part)
      /\ \A i \in 1..len : WithMessage[i] = mBuffer[i]
      /\ \A i \in 1..Len(end) : WithMessage[len + i] = end[i]
  BY <1>1, <1>3, <1>4, JoinedFacts
<1>6. \A i \in 1..part : mBuffer[len - part + i] = <<f, i>>
  BY DEF Begun
<1> HIDE DEF f, len
<1>7. ASSUME NEW i \in 1..size - 1
      PROVE  WithMessage[len - part + i] = <<f, i>>
  <2>1. CASE i <= part
    <3>1. i \in 1..part /\ len - part + i \in 1..len
      BY <1>1, <1>2, <2>1
    <3> QED BY <1>5, <1>6, <3>1
  <2>2. CASE ~(i <= part)
    <3>1. /\ i - part \in 1..size - part /\ part + (i - part) = i
          /\ len + (i - part) = len - part + i
      BY <1>1, <1>2, <2>2
    <3>2. WithMessage[len + (i - part)] = m[part + (i - part)]
      BY <1>3, <1>5, <3>1
    <3> QED BY <1>2, <3>1, <3>2
  <2> QED BY <2>1, <2>2
<1>8. WithMessage[len + (size - part)] = FRAME_DELIMITER
  <2>1. size - part \in 1..size - part /\ part + (size - part) = size
    BY <1>1, <1>2
  <2> QED BY <1>2, <1>3, <1>5, <2>1
<1>9. /\ Len(WithMessage) = len - part + size
      /\ \A i \in 1..size - 1 : Len(WithMessage) - size + i = len - part + i
  BY <1>1, <1>2, <1>5
<1> QED BY <1>1, <1>2, <1>5, <1>7, <1>8, <1>9 DEF f, len

(* What is left of it when as many bytes as the message has are consumed.  *)
LEMMA ConsumedFacts ==
  ASSUME TypeOK, Begun(cur.frame)
  PROVE  /\ Consumed(WithMessage) \in Seq(Byte)
         /\ Len(Consumed(WithMessage)) = Len(mBuffer) - part
<1> DEFINE w == WithMessage
<1>1. /\ w \in Seq(Byte) /\ Len(mBuffer) \in Nat /\ part \in Nat
      /\ part <= Len(mBuffer) /\ size \in Nat
      /\ Len(w) = Len(mBuffer) - part + size
  BY WithMessageFacts
<1>2. Consumed(w) = SubSeq(w, size + 1, Len(w))
  BY DEF Consumed
<1> HIDE DEF w
<1>3. /\ size + 1 \in 1..Len(w) + 1 /\ Len(w) \in 0..Len(w)
      /\ size + 1 <= Len(w) + 1
      /\ Len(w) + 1 - (size + 1) = Len(mBuffer) - part
  BY <1>1
<1>4. Consumed(w) \in Seq(Byte)
      /\ Len(Consumed(w)) = Len(w) + 1 - (size + 1)
  BY <1>1, <1>2, <1>3, PieceFacts
<1> QED BY <1>3, <1>4 DEF w

(* The handler of async_read, of a message that it takes.                  *)
LEMMA TakenFacts ==
  ASSUME TypeOK, Begun(cur.frame), ReadDone, cur.ec = "ok", mRunning, mConnected
  PROVE  /\ io' = "deliver" /\ cur' = cur /\ size' = size /\ part' = 0
         /\ mBuffer' \in Seq(Byte) /\ Len(mBuffer') = Len(mBuffer) - part
         /\ mFrameBuffer' \in Seq(Byte)
         /\ Len(mFrameBuffer')
               = Len(mFrameBuffer) + (Len(mBuffer) - part + size)
         /\ Ends(cur.frame)'
<1> DEFINE w == WithMessage
           k == Len(mFrameBuffer)
<1>1. ReadOutcome = "deliver"
  BY DEF ReadOutcome
<1>2. /\ io' = "deliver" /\ cur' = cur /\ size' = size /\ part' = 0
      /\ mFrameBuffer' = mFrameBuffer \o w /\ mBuffer' = Consumed(w)
  BY <1>1 DEF ReadDone, Serve
<1>3. /\ w \in Seq(Byte) /\ Len(mBuffer) \in Nat /\ part \in Nat
      /\ part <= Len(mBuffer) /\ size \in Nat /\ size >= 2
      /\ Len(w) = Len(mBuffer) - part + size
      /\ w[Len(w)] = FRAME_DELIMITER
      /\ \A i \in 1..size - 1 : w[Len(w) - size + i] = <<cur.frame, i>>
  BY WithMessageFacts
<1>4. mBuffer' \in Seq(Byte) /\ Len(mBuffer') = Len(mBuffer) - part
  BY <1>2, ConsumedFacts
<1> HIDE DEF w
<1>5. /\ k \in Nat /\ mFrameBuffer' \in Seq(Byte)
      /\ Len(mFrameBuffer') = k + Len(w)
      /\ \A i \in 1..Len(w) : mFrameBuffer'[k + i] = w[i]
  <2>1. mFrameBuffer \in Seq(Byte)
    BY DEF TypeOK
  <2>2. \A t \in Seq(Byte) :
          /\ Len(mFrameBuffer) \in Nat /\ Len(t) \in Nat
          /\ mFrameBuffer \o t \in Seq(Byte)
          /\ Len(mFrameBuffer \o t) = Len(mFrameBuffer) + Len(t)
          /\ \A i \in 1..Len(t) :
               (mFrameBuffer \o t)[Len(mFrameBuffer) + i] = t[i]
    BY <2>1, JoinedFacts
  <2> QED BY <1>2, <1>3, <2>2
<1> HIDE DEF k
<1>6. /\ Len(w) \in 1..Len(w) /\ k + Len(w) >= size
      /\ \A i \in 1..size - 1 :
           /\ Len(w) - size + i \in 1..Len(w)
           /\ k + (Len(w) - size + i) = k + Len(w) - size + i
  BY <1>3, <1>5
<1>7. mFrameBuffer'[k + Len(w)] = FRAME_DELIMITER
  BY <1>3, <1>5, <1>6
<1>8. \A i \in 1..size - 1 :
        mFrameBuffer'[k + Len(w) - size + i] = <<cur.frame, i>>
  BY <1>3, <1>5, <1>6
<1>9. /\ Len(mFrameBuffer') >= size'
      /\ mFrameBuffer'[Len(mFrameBuffer')] = FRAME_DELIMITER
      /\ \A i \in 1..size' - 1 :
           mFrameBuffer'[Len(mFrameBuffer') - size' + i] = <<cur'.frame, i>>
  <2>1. Len(mFrameBuffer') = k + Len(w) /\ size' = size /\ cur' = cur
    BY <1>2, <1>5
  <2>2. Len(mFrameBuffer') >= size'
    BY <1>6, <2>1
  <2>3. mFrameBuffer'[Len(mFrameBuffer')] = FRAME_DELIMITER
    BY <1>7, <2>1
  <2>4. ASSUME NEW i \in 1..size' - 1
        PROVE  mFrameBuffer'[Len(mFrameBuffer') - size' + i] = <<cur'.frame, i>>
    <3>1. i \in 1..size - 1 /\ cur'.frame = cur.frame
      BY <2>1
    <3>2. mFrameBuffer'[k + Len(w) - size + i] = <<cur.frame, i>>
      BY <1>8, <3>1
    <3>3. Len(mFrameBuffer') - size' + i = k + Len(w) - size + i
      BY <1>3, <1>5, <2>1
    <3> QED BY <3>1, <3>2, <3>3
  <2> QED BY <2>2, <2>3, <2>4
<1>10. Ends(cur.frame)'
  BY <1>9 DEF Ends
<1> QED BY <1>2, <1>3, <1>4, <1>5, <1>10 DEF k

(* The beginning of a message is behind what mBuffer holds.                *)
LEMMA BegunFacts ==
  ASSUME TypeOK, PartArrives
  PROVE  /\ mBuffer' \in Seq(Byte) /\ part' \in 1..size - 1
         /\ Len(mBuffer) \in Nat /\ Len(mBuffer') = Len(mBuffer) + part'
         /\ Begun(sent + 1)'
<1> DEFINE f == sent + 1
           m == Message(f)
           piece == SubSeq(m, 1, part')
<1>1. /\ part' \in 1..size - 1 /\ mBuffer' = mBuffer \o piece
      /\ sent' + 1 = f /\ f \in Frames /\ mBuffer \in Seq(Byte)
  BY ClientAssumption DEF PartArrives, TypeOK, Frames
<1>2. /\ size \in Nat /\ m \in Seq(Byte) /\ Len(m) = size
      /\ \A i \in 1..size - 1 : m[i] = <<f, i>>
  BY <1>1, MessageFacts
<1> HIDE DEF m, f
<1>3. /\ piece \in Seq(Byte) /\ Len(piece) = part'
      /\ \A i \in 1..part' : piece[i] = m[i]
  <2>1. ASSUME NEW k \in 1..size - 1
        PROVE  /\ SubSeq(m, 1, k) \in Seq(Byte) /\ Len(SubSeq(m, 1, k)) = k
               /\ \A i \in 1..k : SubSeq(m, 1, k)[i] = m[i]
    <3>1. /\ 1 \in 1..Len(m) + 1 /\ k \in 0..Len(m) /\ 1 <= k + 1
          /\ k + 1 - 1 = k /\ \A i \in 1..k : 1 + i - 1 = i
      BY <1>2
    <3> QED BY <1>2, <3>1, PieceFacts
  <2> QED BY <1>1, <2>1
<1> HIDE DEF piece
<1>4. /\ Len(mBuffer) \in Nat /\ mBuffer' \in Seq(Byte)
      /\ Len(mBuffer') = Len(mBuffer) + part'
      /\ \A i \in 1..part' : mBuffer'[Len(mBuffer) + i] = piece[i]
  BY <1>1, <1>3, JoinedFacts
<1>5. ASSUME NEW i \in 1..part'
      PROVE  mBuffer'[Len(mBuffer') - part' + i] = <<sent' + 1, i>>
  <2>1. /\ i \in 1..size - 1
        /\ Len(mBuffer') - part' + i = Len(mBuffer) + i
    BY <1>1, <1>2, <1>4
  <2> QED BY <1>1, <1>2, <1>3, <1>4, <2>1
<1> QED BY <1>1, <1>4, <1>5 DEF Begun

(* A round of the loop cuts a frame in front of the message that was read, *)
(* or that message itself.                                                 *)
LEMMA CutFacts ==
  ASSUME TypeOK, TailInv, Deliver
  PROVE  /\ mFrameBuffer' \in Seq(Byte)
         /\ shown' = shown \/ \E f \in Frames : shown' = Append(shown, f)
         /\ TailInv'
         /\ Len(mFrameBuffer) = size =>
              mFrameBuffer' = <<>> /\ shown' = Append(shown, cur.frame)
<1> DEFINE n == Len(mFrameBuffer)
           f == cur.frame
<1>1. /\ io = "deliver" /\ io' = "deliver" /\ UNCHANGED <<cur, size>>
      /\ mFrameBuffer \in Seq(Byte) /\ n \in Nat /\ f \in Frames
      /\ size \in Nat /\ size >= 2
  BY LenProperties, MessageFacts DEF Deliver, Serve, TypeOK, Handler
<1>2. PICK p \in Delimiters :
        /\ \A i \in Delimiters : p <= i
        /\ mFrameBuffer' = Erased(p)
        /\ shown' = IF CompleteFrame(p) = <<>> THEN shown
                    ELSE Append(shown, FrameOf(CompleteFrame(p)))
  BY DEF Deliver
<1>3. p \in 1..n /\ mFrameBuffer[p] = FRAME_DELIMITER
  BY <1>1 DEF Delimiters
<1>4. Ends(f)
  <2>1. mFrameBuffer # <<>>
    BY <1>1, <1>3
  <2> QED BY <1>1, <2>1 DEF TailInv, LastCut
<1>5. /\ n >= size /\ mFrameBuffer[n] = FRAME_DELIMITER
      /\ \A i \in 1..size - 1 : mFrameBuffer[n - size + i] = <<f, i>>
  BY <1>4 DEF Ends
<1>6. p = n \/ p <= n - size
  <2> SUFFICES ASSUME p # n, p > n - size PROVE FALSE
    BY <1>1, <1>3
  <2> DEFINE i == p - (n - size)
  <2>1. i \in 1..size - 1 /\ n - size + i = p /\ i # 0
    BY <1>1, <1>3
  <2>2. mFrameBuffer[p] = <<f, i>>
    BY <1>5, <2>1
  <2> HIDE DEF i
  <2> QED BY <1>3, <2>1, <2>2, TextIsNoDelimiter
<1> DEFINE text == CompleteFrame(p)
           rest == Erased(p)
<1>7. /\ text \in Seq(Byte) /\ Len(text) = p - 1
      /\ \A i \in 1..p - 1 : text[i] = mFrameBuffer[i]
  <2>1. /\ 1 \in 1..n + 1 /\ p - 1 \in 0..n /\ 1 <= p - 1 + 1
        /\ p - 1 + 1 - 1 = p - 1 /\ \A i \in 1..p - 1 : 1 + i - 1 = i
    BY <1>1, <1>3
  <2> QED BY <1>1, <2>1, PieceFacts DEF CompleteFrame
<1>8. /\ rest \in Seq(Byte) /\ Len(rest) = n - p
      /\ \A i \in 1..n - p : rest[i] = mFrameBuffer[p + i]
  <2>1. /\ p + 1 \in 1..n + 1 /\ n \in 0..n /\ p + 1 <= n + 1
        /\ n + 1 - (p + 1) = n - p /\ \A i \in 1..n - p : p + 1 + i - 1 = p + i
    BY <1>1, <1>3
  <2> QED BY <1>1, <2>1, PieceFacts DEF Erased
<1>9. /\ mFrameBuffer' = rest
      /\ shown' = IF text = <<>> THEN shown ELSE Append(shown, FrameOf(text))
  BY <1>2
<1> HIDE DEF text, rest
<1>10. text # <<>> => FrameOf(text) \in Frames
  <2> SUFFICES ASSUME text # <<>> PROVE FrameOf(text) \in Frames
    OBVIOUS
  <2>1. text[1] \in Byte
    BY <1>7
  <2>2. text[1][1] \in Frames /\ 0 \in Frames
    BY <2>1, ClientAssumption DEF Byte, Frames
  <2> QED BY <2>2 DEF FrameOf
<1>11. shown' = shown \/ \E g \in Frames : shown' = Append(shown, g)
  BY <1>9, <1>10
<1>12. CASE p = n
  <2>1. rest = <<>>
    BY <1>1, <1>8, <1>12, EmptySeq
  <2>2. /\ text # <<>> /\ 1 \in 1..n - 1 /\ n - 1 \in 1..n - 1
        /\ n - size + (size - 1) = n - 1 /\ size - 1 \in 1..size - 1
    BY <1>1, <1>5, <1>7, <1>12
  <2>3. text[n - 1] = <<f, size - 1>>
    BY <1>5, <1>7, <1>12, <2>2
  <2>4. FrameOf(text) \in {f, 0}
    <3> SUFFICES ASSUME \A i \in DOMAIN text : text[i] = <<text[1][1], i>>
                 PROVE  text[1][1] = f
      BY DEF FrameOf
    <3>1. n - 1 \in DOMAIN text
      BY <1>7, <1>12, <2>2
    <3> QED BY <2>3, <3>1
  <2>5. LastCut'
    <3>1. /\ shown' = Append(shown, FrameOf(text)) /\ shown \in Seq(Frames)
          /\ FrameOf(text) \in Frames
      BY <1>9, <1>10, <2>2 DEF TypeOK
    <3>2. shown' # <<>> /\ Last(shown') = FrameOf(text)
      BY <3>1, AppendProperties, LenProperties DEF Last
    <3> QED BY <1>1, <1>9, <2>1, <2>4, <3>2 DEF LastCut
  <2>6. n = size => FrameOf(text) = f
    <3> SUFFICES ASSUME n = size PROVE FrameOf(text) = f
      OBVIOUS
    <3>1. \A i \in 1..n - 1 : text[i] = <<f, i>>
      <4>1. \A i \in 1..n - 1 : i \in 1..size - 1 /\ n - size + i = i
        BY <1>1
      <4> QED BY <1>5, <1>7, <1>12, <4>1
    <3>2. DOMAIN text = 1..n - 1 /\ text[1][1] = f
      BY <1>7, <1>12, <2>2, <3>1
    <3> QED BY <3>1, <3>2 DEF FrameOf
  <2> QED BY <1>7, <1>8, <1>9, <1>11, <2>1, <2>2, <2>5, <2>6 DEF TailInv
<1>13. CASE p <= n - size
  <2>1. Len(rest) >= size /\ n - p \in 1..n - p /\ p + (n - p) = n
    BY <1>1, <1>3, <1>8, <1>13
  <2>2. rest[Len(rest)] = FRAME_DELIMITER
    BY <1>5, <1>8, <2>1
  <2>3. ASSUME NEW i \in 1..size - 1
        PROVE  rest[Len(rest) - size + i] = <<f, i>>
    <3>1. /\ n - p - size + i \in 1..n - p
          /\ p + (n - p - size + i) = n - size + i
      BY <1>1, <1>3, <1>13
    <3> QED BY <1>5, <1>8, <3>1
  <2>4. Ends(f)'
    BY <1>1, <1>9, <2>1, <2>2, <2>3 DEF Ends
  <2>5. n # size
    BY <1>1, <1>3, <1>13
  <2> QED BY <1>1, <1>8, <1>9, <1>11, <2>4, <2>5 DEF TailInv
<1> QED BY <1>6, <1>12, <1>13

(* The handler of async_read, of a message that it does not take.          *)
LEMMA EarlyFacts ==
  ASSUME TypeOK, Begun(cur.frame), ReadDone, cur.ec = "ok",
         ~(mRunning /\ mConnected)
  PROVE  /\ io' = "idle" /\ cur' = NoHandler /\ part' = 0
         /\ UNCHANGED <<size, mFrameBuffer>>
         /\ mBuffer' \in Seq(Byte)
         /\ Len(mBuffer') = Len(mBuffer) - part + size
<1>1. ReadOutcome = "idle"
  BY DEF ReadOutcome
<1>2. /\ io' = "idle" /\ cur' = NoHandler /\ part' = 0
      /\ UNCHANGED <<size, mFrameBuffer>> /\ mBuffer' = WithMessage
  BY <1>1 DEF ReadDone, Serve
<1> QED BY <1>2, WithMessageFacts

(* The handler of async_read that failed.                                  *)
LEMMA FailedFacts ==
  ASSUME ReadDone, cur.ec # "ok"
  PROVE  io' \in {"idle", "doClose", "fail"} /\ UNCHANGED readVars
  BY DEF ReadDone, ReadOutcome, Serve

(* No handler: none that was queued, or that is newer than a frame.        *)
LEMMA NoHandlerFacts == NoHandler \in Handler
  BY ClientAssumption DEF NoHandler, HandlerOf, Handler, Frames

(* What connect() finds.                                                   *)
LEMMA FoundFacts ==
  ASSUME Connect
  PROVE  /\ inherited' \subseteq {"handlers", "bytes"}
         /\ "handlers" \in inherited' <=> ready # <<>>
         /\ "bytes" \in inherited' <=> mBuffer # <<>>
  BY DEF Connect

-----------------------------------------------------------------------------
(* Every step keeps each part of the invariant.                            *)

(* The types: a second read is never started.                              *)
LEMMA TypesNext ==
  ASSUME TypeOK, OneReader, ReadInv, TailInv, Next
  PROVE  TypeOK'
<1> USE ClientAssumption DEF TypeOK, OneReader, Reading,
            opVars, viewVars, readVars, Call, Serve
<1>0. NoHandler \in Handler
  BY NoHandlerFacts
<1>1. CASE Connect
  <2>1. ioStopped' \in BOOLEAN /\ mRunning' \in BOOLEAN
        /\ mConnected' \in BOOLEAN
    BY <1>1, Zenon DEF Connect, Connecting
  <2>2. connects' \in 0..MaxConnects
    BY <1>1 DEF Connect, Connecting
  <2>3. part' = 0 /\ part' < size'
    BY <1>1, ClientAssumption DEF Connect, Connecting, ReadInv
  <2>4. inherited' \subseteq {"handlers", "bytes"}
    BY <1>1, FoundFacts
  <2> HIDE DEF ReadInv
  <2>5. /\ UNCHANGED <<cur, ready, opVars, viewVars, sent>>
        /\ net' = "up" /\ io' = "idle" /\ pc' = "tell" /\ size' \in Sizes
    BY <1>1 DEF Connect, Connecting, Told
  <2> QED BY <2>1, <2>2, <2>3, <2>4, <2>5
<1>2. CASE ConnectFails
  <2>1. ioStopped' \in BOOLEAN
    BY <1>2, Zenon DEF ConnectFails, Connecting
  <2>2. connects' \in 0..MaxConnects
    BY <1>2 DEF ConnectFails, Connecting
  <2> QED BY <1>2, <2>1, <2>2 DEF ConnectFails, Connecting
<1>3. CASE Disconnect
  <2>1. mRunning' \in BOOLEAN
    BY <1>3, Zenon DEF Disconnect
  <2> QED BY <1>3, <2>1 DEF Disconnect
<1>4. CASE TellConnected
  BY <1>4 DEF TellConnected
<1>5. CASE FirstRead
  BY <1>5 DEF FirstRead, DoRead
<1>6. CASE PostClose
  <2>1. HandlerOf("doClose", "ok", 0) \in Handler
    BY ClientAssumption DEF HandlerOf, Handler, Frames
  <2>2. ready' \in Seq(Handler)
    BY <1>6, <2>1, PostFacts DEF PostClose
  <2> QED BY <1>6, <2>2 DEF PostClose
<1>7. CASE StopIo
  BY <1>7 DEF StopIo, Stopped
<1>8. CASE Join
  <2>1. part' = 0 /\ part' \in 0..Len(mBuffer) /\ part' < size
    BY <1>8, LenProperties, ClientAssumption DEF Join
  <2>2. mConnected' \in BOOLEAN
    BY <1>8, Zenon DEF Join
  <2>3. ready' \in Seq(Handler)
    BY <1>8, JoinFacts
  <2>4. UNCHANGED <<io, cur, ioStopped, mRunning, connects, sent, shown, told,
                    mBuffer, mFrameBuffer, size, inherited>>
        /\ pc' = "idle" /\ net' = "none" /\ reads' = 0 /\ closes' = 0
    BY <1>8 DEF Join
  <2> QED BY <2>1, <2>2, <2>3, <2>4
<1>9. CASE Take
  <2>1. Head(ready) = ready[1]
    BY DEF TypeOK
  <2>2. io' \in {"doClose", "read", "closed"}
    BY <1>9, <2>1, TakeFacts DEF Take, Handler
  <2> QED BY <1>9, <2>2, TakeFacts DEF Take
<1>10. CASE ThreadExits
  BY <1>0, <1>10 DEF ThreadExits
<1>11. CASE ReadDone
  <2>1. /\ io' \in {"idle", "doClose", "deliver", "fail"} /\ cur' \in Handler
        /\ UNCHANGED <<pc, ioStopped, mRunning, connects, net, size, sent,
                       inherited, ready, mConnected, opVars, shown, told>>
    BY <1>0, <1>11 DEF ReadDone, ReadOutcome
  <2>2. CASE cur.ec # "ok"
    BY <1>11, <2>1, <2>2, FailedFacts
  <2>3. CASE cur.ec = "ok"
    <3>1. Begun(cur.frame)
      BY <1>11, <2>3 DEF ReadInv, ReadDone
    <3>2. /\ mBuffer' \in Seq(Byte) /\ part' = 0
          /\ mFrameBuffer' \in Seq(Byte)
      <4>1. CASE mRunning /\ mConnected
        BY <1>11, <2>3, <3>1, <4>1, TakenFacts
      <4>2. CASE ~(mRunning /\ mConnected)
        BY <1>11, <2>3, <3>1, <4>2, EarlyFacts
      <4> QED BY <4>1, <4>2
    <3>3. part' \in 0..Len(mBuffer') /\ part' < size'
      BY <2>1, <3>2, LenProperties, ClientAssumption
    <3> QED BY <2>1, <3>2, <3>3
  <2> QED BY <2>2, <2>3
<1>12. CASE Deliver
  <2>1. shown' \in Seq(Frames)
    <3>1. shown' = shown \/ \E f \in Frames : shown' = Append(shown, f)
      BY <1>12, CutFacts
    <3>2. \A f \in Frames : Append(shown, f) \in Seq(Frames)
      BY AppendProperties
    <3> QED BY <3>1, <3>2
  <2>2. mFrameBuffer' \in Seq(Byte)
    BY <1>12, CutFacts
  <2>3. io' = "deliver" /\ UNCHANGED cur
        /\ UNCHANGED <<pc, ioStopped, mRunning, connects, net, size, sent,
                       inherited, ready, mConnected, opVars, mBuffer, part,
                       told>>
    BY <1>12 DEF Deliver
  <2> QED BY <2>1, <2>2, <2>3
<1>13. CASE Fail
  BY <1>0, <1>13 DEF Fail, FailOutcome
<1>14. CASE NextRead
  BY <1>0, <1>14 DEF NextRead, DoRead
<1>15. CASE DoClose
  BY <1>0, <1>15 DEF DoClose
<1>16. CASE Closed
  <2>1. mConnected' \in BOOLEAN
    BY <1>16, Zenon DEF Closed
  <2> QED BY <1>0, <1>16, <2>1 DEF Closed
<1>17. CASE TellLost
  BY <1>0, <1>17 DEF TellLost
<1>18. CASE PartArrives
  <2>1. /\ mBuffer' \in Seq(Byte) /\ part' \in 0..Len(mBuffer')
        /\ part' < size' /\ size' = size
    <3>1. size \in Nat /\ size' = size
      BY <1>18, ClientAssumption DEF PartArrives, Outside
    <3> QED BY <1>18, <3>1, BegunFacts
  <2>2. UNCHANGED <<pc, io, cur, ioStopped, mRunning, mConnected, connects,
                    mFrameBuffer, size, shown, told, inherited, ready, net,
                    opVars, sent>>
    BY <1>18 DEF PartArrives, Outside
  <2> QED BY <2>1, <2>2
<1>19. CASE MessageArrives
  <2>1. HandlerOf("read", "ok", sent + 1) \in Handler
    BY <1>19, ClientAssumption DEF MessageArrives, HandlerOf, Handler, Frames
  <2>2. ready' \in Seq(Handler)
    BY <1>19, <2>1, PostFacts DEF MessageArrives
  <2> QED BY <1>19, <2>2 DEF MessageArrives, Outside
<1>20. CASE PeerCloses
  BY <1>20 DEF PeerCloses, Outside
<1>21. ASSUME NEW ec \in {"closed", "error"}, ReadFails(ec)
      PROVE  TypeOK'
  <2>1. HandlerOf("read", ec, 0) \in Handler
    BY ClientAssumption DEF HandlerOf, Handler, Frames
  <2>2. ready' \in Seq(Handler)
    BY <1>21, <2>1, PostFacts DEF ReadFails
  <2> QED BY <1>21, <2>2 DEF ReadFails, Outside, Ended
<1>22. ASSUME NEW ec \in {"ok", "error"}, CloseEnds(ec)
      PROVE  TypeOK'
  <2>1. HandlerOf("closed", ec, 0) \in Handler
    BY ClientAssumption DEF HandlerOf, Handler, Frames
  <2>2. ready' \in Seq(Handler)
    BY <1>22, <2>1, PostFacts DEF CloseEnds
  <2> QED BY <1>22, <2>2 DEF CloseEnds, Outside, Ended
<1> QED BY NextCases, <1>1, <1>2, <1>3, <1>4, <1>5, <1>6, <1>7, <1>8, <1>9,
    <1>10, <1>11, <1>12, <1>13, <1>14, <1>15, <1>16, <1>17, <1>18, <1>19,
    <1>20, <1>21, <1>22

(* The caller's thread starts and joins the io thread.                     *)
LEMMA LifeNext ==
  ASSUME TypeOK, LifeInv, Next
  PROVE  LifeInv'
<1> USE DEF TypeOK, LifeInv, opVars, viewVars, readVars, Call, Serve
<1>1. CASE Connect
  BY <1>1 DEF Connect, Connecting, Told
<1>2. CASE ConnectFails
  BY <1>2 DEF ConnectFails, Connecting
<1>3. CASE Disconnect
  BY <1>3 DEF Disconnect
<1>4. CASE TellConnected
  BY <1>4 DEF TellConnected
<1>5. CASE FirstRead
  BY <1>5 DEF FirstRead, DoRead
<1>6. CASE PostClose
  BY <1>6 DEF PostClose
<1>7. CASE StopIo
  BY <1>7 DEF StopIo, Stopped
<1>8. CASE Join
  BY <1>8 DEF Join, Joined
<1>9. CASE Take
  <2>1. Head(ready) = ready[1]
    BY DEF TypeOK
  <2>2. io' # "none"
    BY <1>9, <2>1, TakeFacts DEF Take, Handler
  <2> QED BY <1>9, <2>2 DEF Take
<1>10. CASE ThreadExits
  BY <1>10 DEF ThreadExits
<1>11. CASE ReadDone
  BY <1>11 DEF ReadDone, ReadOutcome
<1>12. CASE Deliver
  BY <1>12 DEF Deliver
<1>13. CASE Fail
  BY <1>13 DEF Fail, FailOutcome
<1>14. CASE NextRead
  BY <1>14 DEF NextRead, DoRead
<1>15. CASE DoClose
  BY <1>15 DEF DoClose
<1>16. CASE Closed
  BY <1>16 DEF Closed
<1>17. CASE TellLost
  BY <1>17 DEF TellLost
<1>18. CASE PartArrives
  BY <1>18 DEF PartArrives, Polled, Outside
<1>19. CASE MessageArrives
  BY <1>19 DEF MessageArrives, Polled, Outside
<1>20. CASE PeerCloses
  BY <1>20 DEF PeerCloses, Outside
<1>21. ASSUME NEW ec \in {"closed", "error"}, ReadFails(ec)
      PROVE  LifeInv'
  BY <1>21 DEF ReadFails, Polled, Outside, Ended
<1>22. ASSUME NEW ec \in {"ok", "error"}, CloseEnds(ec)
      PROVE  LifeInv'
  BY <1>22 DEF CloseEnds, Polled, Outside, Ended
<1> QED BY NextCases, <1>1, <1>2, <1>3, <1>4, <1>5, <1>6, <1>7, <1>8, <1>9,
    <1>10, <1>11, <1>12, <1>13, <1>14, <1>15, <1>16, <1>17, <1>18, <1>19,
    <1>20, <1>21, <1>22

(* The chain of reads keeps one end.                                       *)
LEMMA OneReaderNext ==
  ASSUME TypeOK, LifeInv, OneReader, Next
  PROVE  OneReader'
<1> USE DEF TypeOK, LifeInv, OneReader, NoneLive, Reading,
            opVars, viewVars, readVars, Call, Serve
<1>1. CASE Connect
  BY <1>1 DEF Connect, Connecting, Told
<1>2. CASE ConnectFails
  BY <1>2 DEF ConnectFails, Connecting
<1>3. CASE Disconnect
  BY <1>3 DEF Disconnect
<1>4. CASE TellConnected
  BY <1>4 DEF TellConnected
<1>5. CASE FirstRead
  BY <1>5 DEF FirstRead, DoRead
<1>6. CASE PostClose
  <2> DEFINE h == HandlerOf("doClose", "ok", 0)
  <2>1. h \in Handler /\ ~Live(h)
    BY ClientAssumption DEF HandlerOf, Handler, Frames, Live
  <2> HIDE DEF h
  <2>2. \/ UNCHANGED ready
        \/ \A i \in 1..Len(ready') : Live(ready'[i]) =>
             i \in 1..Len(ready) /\ ready'[i] = ready[i]
    BY <1>6, <2>1, PostFacts DEF PostClose, h
  <2> QED BY <1>6, <2>2 DEF PostClose
<1>7. CASE StopIo
  BY <1>7 DEF StopIo, Stopped
<1>8. CASE Join
  <2>1. \A i \in 1..Len(ready') : ~Live(ready'[i])
    BY <1>8, JoinFacts
  <2>2. io = "none" /\ io' = "none" /\ pc' = "idle" /\ reads' = 0
    BY <1>8 DEF Join, Joined
  <2> QED BY <2>1, <2>2
<1>9. CASE Take
  <2>1. Head(ready) = ready[1]
    BY DEF TypeOK
  <2>2. Reading' => Live(ready[1])
    BY <1>9, <2>1, TakeFacts DEF Take, Handler, Live
  <2>3. \A i \in 1..Len(ready') : i + 1 # 1 /\ Len(ready) \in Nat
    BY TakeFacts, <1>9
  <2>4. NoneLive => NoneLive'
    BY TakeFacts, <1>9
  <2>5. Reading' => NoneLive'
    BY TakeFacts, <1>9, <2>2, <2>3
  <2>6. \A i, j \in 1..Len(ready') :
           Live(ready'[i]) /\ Live(ready'[j]) => i = j
    <3> HIDE DEF TypeOK, LifeInv, NoneLive, Reading
    <3>1. \A i \in 1..Len(ready') :
            i + 1 \in 1..Len(ready) /\ ready'[i] = ready[i + 1]
      BY TakeFacts, <1>9
    <3>2. \A i, j \in 1..Len(ready') :
            Live(ready'[i]) /\ Live(ready'[j]) => i + 1 = j + 1
      BY <3>1
    <3>3. \A i, j \in 1..Len(ready') : i + 1 = j + 1 => i = j
      OBVIOUS
    <3> QED BY <3>2, <3>3
  <2>7. ~NoneLive => reads = 0 /\ pc \notin {"tell", "doRead"}
    OBVIOUS
  <2>8. Reading' => ~NoneLive
    BY TakeFacts, <1>9, <2>2
  <2>9. UNCHANGED <<pc, reads, mRunning>>
    BY <1>9 DEF Take
  <2> HIDE DEF NoneLive, Reading
  <2> QED BY <2>4, <2>5, <2>6, <2>7, <2>8, <2>9
<1>10. CASE ThreadExits
  BY <1>10 DEF ThreadExits
<1>11. CASE ReadDone
  BY <1>11 DEF ReadDone, ReadOutcome
<1>12. CASE Deliver
  BY <1>12 DEF Deliver
<1>13. CASE Fail
  BY <1>13 DEF Fail, FailOutcome
<1>14. CASE NextRead
  BY <1>14 DEF NextRead, DoRead
<1>15. CASE DoClose
  BY <1>15 DEF DoClose
<1>16. CASE Closed
  BY <1>16 DEF Closed
<1>17. CASE TellLost
  BY <1>17 DEF TellLost
<1>18. CASE PartArrives
  BY <1>18 DEF PartArrives, Polled, Outside
<1>19. CASE MessageArrives
  <2>1. HandlerOf("read", "ok", sent + 1) \in Handler
    BY <1>19, ClientAssumption DEF MessageArrives, HandlerOf, Handler, Frames
  <2>2. NoneLive /\ ~Reading /\ reads' = 0
        /\ UNCHANGED <<pc, io, cur, mRunning>>
    BY <1>19 DEF MessageArrives, Outside
  <2>3. pc \notin {"tell", "doRead"} /\ (pc = "idle" => mRunning)
    BY <1>19 DEF MessageArrives, LifeInv
  <2>4. \A i \in 1..Len(ready') : Live(ready'[i]) => i = Len(ready) + 1
    BY <1>19, <2>1, <2>2, PostFacts DEF MessageArrives
  <2> QED BY <2>2, <2>3, <2>4
<1>20. CASE PeerCloses
  BY <1>20 DEF PeerCloses, Outside
<1>21. ASSUME NEW ec \in {"closed", "error"}, ReadFails(ec)
      PROVE  OneReader'
  <2>1. HandlerOf("read", ec, 0) \in Handler
    BY ClientAssumption DEF HandlerOf, Handler, Frames
  <2>2. NoneLive /\ ~Reading /\ reads' = 0
        /\ UNCHANGED <<pc, io, cur, mRunning>>
    BY <1>21 DEF ReadFails, Outside
  <2>3. pc \notin {"tell", "doRead"} /\ (pc = "idle" => mRunning)
    BY <1>21 DEF ReadFails, LifeInv
  <2>4. \A i \in 1..Len(ready') : Live(ready'[i]) => i = Len(ready) + 1
    BY <1>21, <2>1, <2>2, PostFacts DEF ReadFails
  <2> QED BY <2>2, <2>3, <2>4
<1>22. ASSUME NEW ec \in {"ok", "error"}, CloseEnds(ec)
      PROVE  OneReader'
  <2> DEFINE h == HandlerOf("closed", ec, 0)
  <2>1. h \in Handler /\ ~Live(h)
    BY ClientAssumption DEF HandlerOf, Handler, Frames, Live
  <2> HIDE DEF h
  <2>2. \A i \in 1..Len(ready') : Live(ready'[i]) =>
           i \in 1..Len(ready) /\ ready'[i] = ready[i]
    BY <1>22, <2>1, PostFacts DEF CloseEnds, h
  <2> QED BY <1>22, <2>2 DEF CloseEnds, Outside
<1> QED BY NextCases, <1>1, <1>2, <1>3, <1>4, <1>5, <1>6, <1>7, <1>8, <1>9,
    <1>10, <1>11, <1>12, <1>13, <1>14, <1>15, <1>16, <1>17, <1>18, <1>19,
    <1>20, <1>21, <1>22

(* A step that leaves the bytes and the chain of reads as they are.        *)
Calm ==
  /\ UNCHANGED <<readVars, size, shown, sent, inherited>>
  /\ reads' > 0 => reads > 0
  /\ \A i \in 1..Len(ready') : Good(ready'[i]) =>
       \E j \in 1..Len(ready) : ready'[i] = ready[j]
  /\ io' \in {"read", "deliver"} => io' = io /\ cur' = cur
  /\ io = "deliver" => io' = "deliver"
  /\ pc' \in {"tell", "doRead"} => pc \in {"tell", "doRead"}
  /\ pc' = "idle" /\ ~mRunning' => pc = "idle" /\ ~mRunning

(* The queue with one more handler, of no message.                         *)
LEMMA OtherPosted ==
  ASSUME TypeOK, NEW h \in Handler, Post(h), ~Good(h)
  PROVE  \A i \in 1..Len(ready') : Good(ready'[i]) =>
           \E j \in 1..Len(ready) : ready'[i] = ready[j]
<1> SUFFICES ASSUME NEW i \in 1..Len(ready'), Good(ready'[i])
             PROVE  \E j \in 1..Len(ready) : ready'[i] = ready[j]
  OBVIOUS
<1>1. i \in 1..Len(ready)
  BY PostFacts
<1> QED BY <1>1, PostFacts

(* Most steps do.                                                          *)
LEMMA Kinds ==
  ASSUME TypeOK, LifeInv, Next
  PROVE  \/ Calm \/ Connect \/ FirstRead \/ Join
         \/ Take \/ ReadDone \/ Deliver \/ NextRead
         \/ PartArrives \/ MessageArrives
<1> USE DEF Calm, opVars, viewVars, readVars, Call, Serve
<1>2. CASE ConnectFails
  BY <1>2 DEF ConnectFails, Connecting
<1>3. CASE Disconnect
  BY <1>3 DEF Disconnect
<1>4. CASE TellConnected
  BY <1>4 DEF TellConnected
<1>6. CASE PostClose
  <2>1. /\ HandlerOf("doClose", "ok", 0) \in Handler
        /\ ~Good(HandlerOf("doClose", "ok", 0))
    BY ClientAssumption DEF HandlerOf, Handler, Frames, Good
  <2>2. \A i \in 1..Len(ready') : Good(ready'[i]) =>
          \E j \in 1..Len(ready) : ready'[i] = ready[j]
    BY <1>6, <2>1, OtherPosted DEF PostClose
  <2> QED BY <1>6, <2>2 DEF PostClose
<1>7. CASE StopIo
  BY <1>7 DEF StopIo
<1>10. CASE ThreadExits
  BY <1>10 DEF ThreadExits
<1>13. CASE Fail
  BY <1>13 DEF Fail, FailOutcome
<1>15. CASE DoClose
  BY <1>15 DEF DoClose
<1>16. CASE Closed
  BY <1>16 DEF Closed
<1>17. CASE TellLost
  BY <1>17 DEF TellLost
<1>20. CASE PeerCloses
  BY <1>20 DEF PeerCloses, Outside
<1>21. ASSUME NEW ec \in {"closed", "error"}, ReadFails(ec)
       PROVE  Calm
  <2>1. /\ HandlerOf("read", ec, 0) \in Handler
        /\ ~Good(HandlerOf("read", ec, 0))
    BY ClientAssumption DEF HandlerOf, Handler, Frames, Good
  <2>2. \A i \in 1..Len(ready') : Good(ready'[i]) =>
          \E j \in 1..Len(ready) : ready'[i] = ready[j]
    BY <1>21, <2>1, OtherPosted DEF ReadFails
  <2> QED BY <1>21, <2>2 DEF ReadFails, Outside
<1>22. ASSUME NEW ec \in {"ok", "error"}, CloseEnds(ec)
       PROVE  Calm
  <2>1. /\ HandlerOf("closed", ec, 0) \in Handler
        /\ ~Good(HandlerOf("closed", ec, 0))
    BY ClientAssumption DEF HandlerOf, Handler, Frames, Good
  <2>2. \A i \in 1..Len(ready') : Good(ready'[i]) =>
          \E j \in 1..Len(ready) : ready'[i] = ready[j]
    BY <1>22, <2>1, OtherPosted DEF CloseEnds
  <2> QED BY <1>22, <2>2 DEF CloseEnds, Outside
<1> QED BY NextCases, <1>2, <1>3, <1>4, <1>6, <1>7, <1>10, <1>13, <1>15,
    <1>16, <1>17, <1>20, <1>21, <1>22

(* The beginning in mBuffer stays that of the message that is read.        *)
LEMMA ReadNext ==
  ASSUME TypeOK, LifeInv, OneReader, ReadInv, Next
  PROVE  ReadInv'
<1> USE DEF opVars, viewVars, readVars, Call, Serve
<1>0. part' = 0 => ReadInv'
  <2> SUFFICES ASSUME part' = 0 PROVE ReadInv'
    OBVIOUS
  <2>1. \A f : Begun(f)'
    BY DEF Begun
  <2> QED BY <2>1 DEF ReadInv
<1>1. CASE Calm
  <2>1. \A f : Begun(f)' = Begun(f)
    BY <1>1 DEF Calm, Begun
  <2>2. part' = part /\ sent' = sent
    BY <1>1 DEF Calm
  <2>3. \A i \in 1..Len(ready') : Good(ready'[i]) => Begun(ready'[i].frame)
    BY <1>1 DEF Calm, ReadInv
  <2>4. reads' > 0 => Begun(sent + 1)
    BY <1>1 DEF Calm, ReadInv
  <2>5. io' = "read" /\ cur'.ec = "ok" => Begun(cur'.frame)
    BY <1>1 DEF Calm, ReadInv
  <2>6. /\ pc' = "idle" /\ ~mRunning' => part' = 0
        /\ pc' \in {"tell", "doRead"} => part' = 0
        /\ io' = "deliver" => part' = 0
    BY <1>1 DEF Calm, ReadInv
  <2> QED BY <2>1, <2>2, <2>3, <2>4, <2>5, <2>6 DEF ReadInv
<1>2. CASE Connect
  BY <1>0, <1>2 DEF Connect, Connecting, ReadInv
<1>3. CASE FirstRead
  BY <1>0, <1>3 DEF FirstRead, DoRead, ReadInv
<1>4. CASE Join
  BY <1>0, <1>4 DEF Join
<1>5. CASE Take
  <2>1. /\ UNCHANGED <<mBuffer, part, reads, sent, pc, mRunning>>
        /\ io' = ready[1].op /\ cur' = ready[1]
        /\ ready[1] \in Handler /\ 1 \in 1..Len(ready)
    BY <1>5, TakeFacts DEF Take
  <2>2. \A f : Begun(f)' = Begun(f)
    BY <2>1 DEF Begun
  <2>3. \A i \in 1..Len(ready') : Good(ready'[i]) => Begun(ready'[i].frame)
    BY <1>5, TakeFacts DEF ReadInv
  <2>4. io' # "deliver"
    BY <2>1 DEF Handler
  <2>5. io' = "read" /\ cur'.ec = "ok" => Begun(cur'.frame)
    BY <2>1 DEF ReadInv, Good
  <2>6. reads' > 0 => Begun(sent' + 1)
    BY <2>1 DEF ReadInv
  <2>7. /\ pc' = "idle" /\ ~mRunning' => part' = 0
        /\ pc' \in {"tell", "doRead"} => part' = 0
    BY <2>1 DEF ReadInv
  <2> QED BY <2>2, <2>3, <2>4, <2>5, <2>6, <2>7 DEF ReadInv
<1>6. CASE ReadDone
  <2>1. CASE cur.ec = "ok"
    BY <1>0, <1>6, <2>1 DEF ReadDone
  <2>2. CASE cur.ec # "ok"
    <3>1. /\ UNCHANGED <<mBuffer, part, reads, sent, pc, mRunning, ready>>
          /\ io' \notin {"read", "deliver"}
      BY <1>6, <2>2, FailedFacts DEF ReadDone
    <3>2. \A f : Begun(f)' = Begun(f)
      BY <3>1 DEF Begun
    <3> QED BY <3>1, <3>2 DEF ReadInv
  <2> QED BY <2>1, <2>2
<1>7. CASE Deliver
  BY <1>0, <1>7 DEF Deliver, ReadInv
<1>8. CASE NextRead
  BY <1>0, <1>8 DEF NextRead, DoRead, ReadInv
<1>9. CASE PartArrives
  <2>1. /\ reads > 0 /\ io = "idle"
        /\ UNCHANGED <<pc, io, mRunning, reads, ready, sent>>
    BY <1>9 DEF PartArrives, Outside
  <2>2. NoneLive /\ pc \notin {"tell", "doRead"} /\ (pc = "idle" => mRunning)
    BY <2>1 DEF TypeOK, OneReader, LifeInv
  <2>3. \A i \in 1..Len(ready) : ~Good(ready[i])
    BY <2>2 DEF NoneLive, Live, Good
  <2>4. Begun(sent + 1)'
    BY <1>9, BegunFacts
  <2> QED BY <2>1, <2>2, <2>3, <2>4 DEF ReadInv
<1>10. CASE MessageArrives
  <2> DEFINE h == HandlerOf("read", "ok", sent + 1)
  <2>1. h \in Handler /\ h.frame = sent + 1
    BY <1>10, ClientAssumption
    DEF MessageArrives, HandlerOf, Handler, Frames, TypeOK
  <2>2. /\ reads > 0 /\ reads' = 0 /\ Post(h)
        /\ UNCHANGED <<pc, io, cur, mRunning, mBuffer, part>>
    BY <1>10 DEF MessageArrives, Outside, TypeOK
  <2> HIDE DEF h
  <2>3. \A f : Begun(f)' = Begun(f)
    BY <2>2 DEF Begun
  <2>4. \A i \in 1..Len(ready') : Good(ready'[i]) => Begun(ready'[i].frame)
    BY <2>1, <2>2, PostFacts DEF ReadInv
  <2> QED BY <2>2, <2>3, <2>4 DEF ReadInv
<1> QED BY Kinds, <1>1, <1>2, <1>3, <1>4, <1>5, <1>6, <1>7, <1>8, <1>9, <1>10

(* The message that was read stays the last in mFrameBuffer until it is    *)
(* cut, which ends the loop.                                               *)
LEMMA TailNext ==
  ASSUME TypeOK, LifeInv, ReadInv, TailInv, Next
  PROVE  TailInv'
<1> USE DEF opVars, viewVars, readVars, Call, Serve
<1>0. CASE /\ UNCHANGED <<mFrameBuffer, shown, size>>
           /\ io' = "deliver" => io = "deliver" /\ cur' = cur
  BY <1>0 DEF TailInv, Ends, LastCut
<1>1. CASE Calm
  BY <1>0, <1>1 DEF Calm
<1>2. CASE Connect
  BY <1>2 DEF Connect, TailInv
<1>3. CASE FirstRead
  BY <1>0, <1>3 DEF FirstRead, DoRead
<1>4. CASE Join
  BY <1>0, <1>4 DEF Join
<1>5. CASE Take
  <2>1. io' = ready[1].op /\ ready[1] \in Handler
    BY <1>5, TakeFacts DEF Take
  <2> QED BY <2>1 DEF Handler, TailInv
<1>6. CASE ReadDone
  <2>1. CASE cur.ec = "ok"
    <3>1. Begun(cur.frame)
      BY <1>6, <2>1 DEF ReadInv, ReadDone
    <3>2. CASE mRunning /\ mConnected
      BY <1>6, <2>1, <3>1, <3>2, TakenFacts DEF TailInv
    <3>3. CASE ~(mRunning /\ mConnected)
      BY <1>6, <2>1, <3>1, <3>3, EarlyFacts DEF TailInv
    <3> QED BY <3>2, <3>3
  <2>2. CASE cur.ec # "ok"
    BY <1>6, <2>2, FailedFacts DEF TailInv
  <2> QED BY <2>1, <2>2
<1>7. CASE Deliver
  BY <1>7, CutFacts
<1>8. CASE NextRead
  BY <1>8 DEF NextRead, TailInv
<1>9. CASE PartArrives
  BY <1>0, <1>9 DEF PartArrives, Outside
<1>10. CASE MessageArrives
  BY <1>0, <1>10 DEF MessageArrives, Outside
<1> QED BY Kinds, <1>1, <1>2, <1>3, <1>4, <1>5, <1>6, <1>7, <1>8, <1>9, <1>10

(* What an earlier connection has left in mBuffer is never consumed, and a *)
(* connection that found nothing leaves nothing behind its own messages.   *)
LEMMA ResidueNext ==
  ASSUME TypeOK, LifeInv, OneReader, ReadInv, TailInv, ResidueInv, Next
  PROVE  ResidueInv'
<1> USE DEF opVars, viewVars, readVars, Call, Serve
<1>0. Len(mBuffer) \in Nat /\ part \in Nat /\ part <= Len(mBuffer)
  BY LenProperties DEF TypeOK
<1>11. ASSUME UNCHANGED <<readVars, size, inherited>>, Expecting' => Expecting,
              io = "deliver" <=> io' = "deliver"
       PROVE  ResidueInv'
  BY <1>11 DEF ResidueInv
<1>1. CASE Calm
  <2>1. Expecting' => Expecting
    BY <1>1 DEF Calm, Expecting
  <2> QED BY <1>1, <1>11, <2>1 DEF Calm
<1>2. CASE Connect
  <2>1. /\ UNCHANGED readVars /\ io' = "idle" /\ part = 0 /\ io = "none"
        /\ "bytes" \in inherited' <=> mBuffer # <<>>
    BY <1>2, FoundFacts DEF Connect, Connecting, ReadInv, LifeInv
  <2>2. mBuffer # <<>> <=> Len(mBuffer) > 0
    BY <1>0, EmptySeq DEF TypeOK
  <2>3. mBuffer = <<>> => mFrameBuffer = <<>>
    BY <2>1, <2>2 DEF ResidueInv
  <2> QED BY <1>0, <2>1, <2>2, <2>3 DEF ResidueInv
<1>3. CASE FirstRead
  BY <1>3, <1>11 DEF FirstRead, DoRead, Expecting
<1>4. CASE Join
  <2>1. /\ UNCHANGED <<mBuffer, mFrameBuffer, size, inherited, io>> /\ part' = 0
        /\ io = "none" /\ pc' = "idle" /\ reads' = 0
    BY <1>4 DEF Join, Joined
  <2>2. ~Expecting'
    BY <1>4, <2>1, JoinFacts DEF Expecting, Live, Good
  <2> QED BY <1>0, <2>1, <2>2 DEF ResidueInv
<1>5. CASE Take
  <2>1. /\ UNCHANGED <<readVars, size, inherited, pc, reads>>
        /\ io = "idle" /\ io' = ready[1].op /\ cur' = ready[1]
        /\ ready[1] \in Handler /\ 1 \in 1..Len(ready)
    BY <1>5, TakeFacts DEF Take
  <2>2. io' # "deliver"
    BY <2>1 DEF Handler
  <2>3. \A i \in 1..Len(ready') :
          i + 1 \in 1..Len(ready) /\ ready'[i] = ready[i + 1]
    BY <1>5, TakeFacts
  <2>4. Expecting' => Expecting
    BY <2>1, <2>3 DEF Expecting, Good
  <2> QED BY <1>11, <2>1, <2>2, <2>4
<1>6. CASE ReadDone
  <2>1. /\ io = "read" /\ UNCHANGED <<inherited, ready, reads, pc, size>>
    BY <1>6 DEF ReadDone
  <2>2. CASE cur.ec # "ok"
    <3>1. UNCHANGED readVars /\ io' \notin {"read", "deliver"}
      BY <1>6, <2>2, FailedFacts
    <3>2. Expecting' => Expecting
      BY <2>1, <3>1 DEF Expecting
    <3> QED BY <1>11, <2>1, <3>1, <3>2
  <2>3. CASE cur.ec = "ok"
    <3>1. Begun(cur.frame) /\ Expecting
      BY <2>1, <2>3 DEF ReadInv, Expecting
    <3>2. size \in Nat /\ part < size
      BY ClientAssumption DEF TypeOK
    <3>3. CASE mRunning /\ mConnected
      <4>1. /\ io' = "deliver" /\ part' = 0 /\ mBuffer' \in Seq(Byte)
            /\ Len(mBuffer') = Len(mBuffer) - part
            /\ Len(mFrameBuffer')
                  = Len(mFrameBuffer) + (Len(mBuffer) - part + size)
        BY <1>6, <2>3, <3>1, <3>3, TakenFacts
      <4>2. "bytes" \in inherited' => Len(mBuffer') > part'
        BY <1>0, <2>1, <4>1 DEF ResidueInv
      <4>3. ASSUME "bytes" \notin inherited'
            PROVE  /\ Len(mBuffer') = part' /\ mBuffer' = <<>>
                   /\ Len(mFrameBuffer') = size'
        <5>1. Len(mBuffer) = part /\ mFrameBuffer = <<>>
          BY <2>1, <3>1, <4>3 DEF ResidueInv
        <5>2. Len(mBuffer') = 0 /\ Len(mFrameBuffer') = size
          <6>1. Len(mFrameBuffer) = 0
            BY <5>1
          <6> QED BY <1>0, <3>2, <4>1, <5>1, <6>1
        <5> QED BY <2>1, <4>1, <5>2, EmptySeq
      <4> QED BY <4>1, <4>2, <4>3 DEF ResidueInv
    <3>4. CASE ~(mRunning /\ mConnected)
      <4>1. /\ io' = "idle" /\ part' = 0 /\ UNCHANGED mFrameBuffer
            /\ Len(mBuffer') = Len(mBuffer) - part + size
        BY <1>6, <2>3, <3>1, <3>4, EarlyFacts
      <4>2. Len(mBuffer') > part'
        BY <1>0, <3>2, <4>1
      <4>3. ~Expecting'
        <5>1. Reading
          BY <2>1, <2>3 DEF Reading
        <5>2. NoneLive /\ reads = 0 /\ pc \notin {"tell", "doRead"}
          BY <5>1 DEF OneReader, TypeOK
        <5> QED BY <2>1, <4>1, <5>2 DEF Expecting, NoneLive, Live, Good
      <4> QED BY <2>1, <4>1, <4>2, <4>3 DEF ResidueInv
    <3> QED BY <3>3, <3>4
  <2> QED BY <2>2, <2>3
<1>7. CASE Deliver
  <2>1. /\ io = "deliver" /\ io' = "deliver"
        /\ UNCHANGED <<inherited, mBuffer, part, size>>
    BY <1>7 DEF Deliver
  <2>2. mFrameBuffer # <<>>
    BY <1>7 DEF Deliver, Delimiters
  <2>3. ASSUME "bytes" \notin inherited
        PROVE  mBuffer = <<>> /\ Len(mBuffer) = part /\ mFrameBuffer' = <<>>
    <3>1. mBuffer = <<>> /\ Len(mFrameBuffer) = size /\ part = 0
      BY <2>1, <2>2, <2>3 DEF ResidueInv, ReadInv
    <3> QED BY <1>7, <3>1, CutFacts
  <2> QED BY <2>1, <2>3 DEF ResidueInv
<1>8. CASE NextRead
  <2>1. /\ io = "deliver" /\ io' = "idle" /\ Delimiters = {} /\ part = 0
        /\ UNCHANGED <<readVars, inherited>>
    BY <1>8 DEF NextRead, DoRead, ReadInv
  <2>2. mFrameBuffer = <<>>
    <3> SUFFICES ASSUME Ends(cur.frame) PROVE FALSE
      BY <2>1 DEF TailInv, LastCut
    <3>1. /\ mFrameBuffer \in Seq(Byte) /\ Len(mFrameBuffer) \in Nat
          /\ size \in Nat /\ size >= 2
      BY LenProperties, ClientAssumption DEF TypeOK
    <3>2. Len(mFrameBuffer) \in Delimiters
      BY <3>1 DEF Ends, Delimiters
    <3> QED BY <2>1, <3>2
  <2>3. "bytes" \notin inherited => Len(mBuffer) = part
    BY <2>1 DEF ResidueInv
  <2> QED BY <2>1, <2>2, <2>3 DEF ResidueInv
<1>9. CASE PartArrives
  <2>1. /\ UNCHANGED <<io, mFrameBuffer, inherited>> /\ io = "idle"
        /\ part = 0 /\ Expecting
    BY <1>9 DEF PartArrives, Outside, Expecting
  <2>2. part' \in Nat /\ Len(mBuffer') = Len(mBuffer) + part'
    BY <1>9, BegunFacts, ClientAssumption DEF TypeOK
  <2> QED BY <1>0, <2>1, <2>2 DEF ResidueInv
<1>10. CASE MessageArrives
  <2>1. UNCHANGED <<readVars, size, inherited, io>> /\ Expecting
    BY <1>10 DEF MessageArrives, Outside, Expecting
  <2> QED BY <1>11, <2>1
<1> QED BY Kinds, <1>1, <1>2, <1>3, <1>4, <1>5, <1>6, <1>7, <1>8, <1>9, <1>10

(* The frames in hand and those that wait stay newer than the shown ones.  *)
LEMMA OrderNext ==
  ASSUME TypeOK, LifeInv, OneReader, ReadInv, TailInv, ResidueInv, OrderInv,
         Next
  PROVE  OrderInv'
<1> USE DEF opVars, viewVars, readVars, Call, Serve
<1> SUFFICES ASSUME "bytes" \notin inherited'
             PROVE  /\ \A i \in 1..Len(shown') : shown'[i] <= sent'
                    /\ \A i \in 1..Len(ready') :
                         Good(ready'[i]) => Above(ready[i].frame)'
                    /\ io' = "read" /\ cur'.ec = "ok" => Above(cur.frame)'
                    /\ io' = "deliver" /\ mFrameBuffer' # <<>> =>
                         Above(cur.frame)'
  BY DEF OrderInv
<1>0. ASSUME Connect
      PROVE  "bytes" \notin inherited
  <2>1. mBuffer = <<>> /\ part = 0
    BY <1>0, FoundFacts DEF Connect, Connecting, ReadInv
  <2>2. ~(Len(mBuffer) > part)
    BY <2>1
  <2> QED BY <2>2 DEF ResidueInv
<1>11. ASSUME UNCHANGED <<shown, sent>>, "bytes" \notin inherited,
              \A i \in 1..Len(ready') : Good(ready'[i]) =>
                \E j \in 1..Len(ready) : ready'[i] = ready[j],
              io' = "read" => io = "read" /\ cur' = cur,
              io' = "deliver" => io = "deliver" /\ cur' = cur
                                   /\ mFrameBuffer' = mFrameBuffer
       PROVE  OrderInv'
  <2>1. \A f : Above(f)' = Above(f)
    BY <1>11 DEF Above
  <2>2. \A i \in 1..Len(ready') : Good(ready'[i]) => Above(ready'[i].frame)
    BY <1>11 DEF OrderInv
  <2>3. io' = "read" /\ cur'.ec = "ok" => Above(cur'.frame)
    BY <1>11 DEF OrderInv
  <2>4. io' = "deliver" /\ mFrameBuffer' # <<>> => Above(cur'.frame)
    BY <1>11 DEF OrderInv
  <2>5. \A i \in 1..Len(shown') : shown'[i] <= sent'
    BY <1>11 DEF OrderInv
  <2> QED BY <2>1, <2>2, <2>3, <2>4, <2>5 DEF OrderInv
<1>1. CASE Calm
  BY <1>1, <1>11 DEF Calm, OrderInv
<1>2. CASE Connect
  <2>1. UNCHANGED <<shown, sent, ready>> /\ io' = "idle"
    BY <1>2 DEF Connect, Connecting
  <2> QED BY <1>0, <1>2, <1>11, <2>1 DEF OrderInv
<1>3. CASE FirstRead
  <2>1. UNCHANGED <<shown, sent, ready, io, cur, mFrameBuffer, inherited>>
    BY <1>3 DEF FirstRead, DoRead
  <2> QED BY <1>11, <2>1 DEF OrderInv
<1>4. CASE Join
  <2>1. UNCHANGED <<shown, sent, io, cur, mFrameBuffer, inherited>>
    BY <1>4 DEF Join
  <2>2. \A i \in 1..Len(ready') : ~Good(ready'[i])
    BY <1>4, JoinFacts DEF Live, Good
  <2> QED BY <1>11, <2>1, <2>2 DEF OrderInv
<1>5. CASE Take
  <2>1. /\ UNCHANGED <<shown, sent, inherited>>
        /\ io' = ready[1].op /\ cur' = ready[1]
        /\ ready[1] \in Handler /\ 1 \in 1..Len(ready)
    BY <1>5, TakeFacts DEF Take
  <2>2. io' # "deliver" /\ (io' = "read" /\ cur'.ec = "ok" => Good(ready[1]))
    BY <2>1 DEF Handler, Good
  <2>3. \A i \in 1..Len(ready') :
          i + 1 \in 1..Len(ready) /\ ready'[i] = ready[i + 1]
    BY <1>5, TakeFacts
  <2>4. \A f : Above(f)' = Above(f)
    BY <2>1 DEF Above
  <2>5. \A i \in 1..Len(ready') : Good(ready'[i]) => Above(ready'[i].frame)
    BY <2>1, <2>3 DEF OrderInv
  <2>6. io' = "read" /\ cur'.ec = "ok" => Above(cur'.frame)
    BY <2>1, <2>2 DEF OrderInv
  <2> QED BY <2>1, <2>2, <2>4, <2>5, <2>6 DEF OrderInv
<1>6. CASE ReadDone
  <2>1. io = "read" /\ UNCHANGED <<shown, sent, ready, inherited>>
    BY <1>6 DEF ReadDone
  <2>2. CASE cur.ec # "ok"
    <3>1. io' \notin {"read", "deliver"}
      BY <1>6, <2>2, FailedFacts
    <3> QED BY <1>11, <2>1, <3>1 DEF OrderInv
  <2>3. CASE cur.ec = "ok"
    <3>1. Begun(cur.frame) /\ Above(cur.frame)
      BY <2>1, <2>3 DEF ReadInv, OrderInv
    <3>2. io' \in {"idle", "deliver"} /\ (io' = "deliver" => cur' = cur)
      <4>1. CASE mRunning /\ mConnected
        BY <1>6, <2>3, <3>1, <4>1, TakenFacts
      <4>2. CASE ~(mRunning /\ mConnected)
        BY <1>6, <2>3, <3>1, <4>2, EarlyFacts
      <4> QED BY <4>1, <4>2
    <3>3. \A f : Above(f)' = Above(f)
      BY <2>1 DEF Above
    <3>4. io' = "deliver" => Above(cur'.frame)
      BY <3>1, <3>2
    <3> QED BY <2>1, <3>2, <3>3, <3>4 DEF OrderInv
  <2> QED BY <2>2, <2>3
<1>7. CASE Deliver
  <2>1. /\ io = "deliver" /\ io' = "deliver"
        /\ UNCHANGED <<inherited, ready, sent>>
    BY <1>7 DEF Deliver
  <2>2. mFrameBuffer # <<>>
    BY <1>7 DEF Deliver, Delimiters
  <2>3. Above(cur.frame) /\ Len(mFrameBuffer) = size
    BY <2>1, <2>2 DEF OrderInv, ResidueInv
  <2>4. mFrameBuffer' = <<>> /\ shown' = Append(shown, cur.frame)
    BY <1>7, <2>3, CutFacts
  <2>5. \A i \in 1..Len(ready) : ~Good(ready[i])
    BY <2>1 DEF OneReader, Reading, NoneLive, Live, Good
  <2>6. \A i \in 1..Len(shown') : shown'[i] <= sent
    <3>1. /\ shown \in Seq(Frames) /\ cur.frame \in Frames
          /\ \A i \in 1..Len(shown) : shown[i] <= sent
          /\ cur.frame <= sent
      BY <2>1, <2>3 DEF TypeOK, Handler, OrderInv, Above
    <3>2. /\ Len(shown) \in Nat /\ Len(shown') = Len(shown) + 1
          /\ shown'[Len(shown) + 1] = cur.frame
          /\ \A i \in 1..Len(shown) : shown'[i] = shown[i]
      BY <2>4, <3>1, AppendProperties, LenProperties
    <3> QED BY <3>1, <3>2
  <2> QED BY <2>1, <2>4, <2>5, <2>6 DEF OrderInv
<1>8. CASE NextRead
  <2>1. UNCHANGED <<shown, sent, ready, inherited>> /\ io' = "idle"
    BY <1>8 DEF NextRead, DoRead
  <2> QED BY <1>11, <2>1 DEF OrderInv
<1>9. CASE PartArrives
  <2>1. UNCHANGED <<shown, sent, ready, io, cur, mFrameBuffer, inherited>>
    BY <1>9 DEF PartArrives, Outside
  <2> QED BY <1>11, <2>1 DEF OrderInv
<1>10. CASE MessageArrives
  <2> DEFINE h == HandlerOf("read", "ok", sent + 1)
  <2>1. h \in Handler /\ h.frame = sent + 1
    BY <1>10, ClientAssumption
    DEF MessageArrives, HandlerOf, Handler, Frames, TypeOK
  <2>2. /\ sent' = sent + 1 /\ Post(h)
        /\ UNCHANGED <<io, cur, shown, mFrameBuffer, inherited>>
    BY <1>10 DEF MessageArrives, Outside
  <2> HIDE DEF h
  <2>3. /\ sent \in Nat /\ Len(shown) \in Nat
        /\ \A i \in 1..Len(shown) : shown[i] \in Nat /\ shown[i] <= sent
    <3>1. shown \in Seq(Frames) /\ sent \in Nat
      BY ClientAssumption DEF TypeOK
    <3>2. \A i \in 1..Len(shown) : shown[i] \in Nat
      BY <3>1, ElementOfSeq, ClientAssumption DEF Frames
    <3> QED BY <2>2, <3>1, <3>2, LenProperties DEF OrderInv
  <2>4. \A i \in 1..Len(shown') : shown'[i] <= sent'
    BY <2>2, <2>3
  <2>5. \A f : Above(f) => Above(f)'
    BY <2>2, <2>3 DEF Above
  <2>6. \A f : f = sent + 1 => Above(f)'
    BY <2>2, <2>3 DEF Above
  <2>7. \A i \in 1..Len(ready') : Good(ready'[i]) => Above(ready[i].frame)'
    <3>1. ASSUME NEW i \in 1..Len(ready'), Good(ready'[i])
          PROVE  Above(ready[i].frame)'
      <4>1. CASE i \in 1..Len(ready)
        <5>1. ready'[i] = ready[i] /\ Above(ready[i].frame)
          BY <2>1, <2>2, <3>1, <4>1, PostFacts DEF OrderInv
        <5> QED BY <2>5, <5>1
      <4>2. CASE i = Len(ready) + 1
        <5>1. ready'[i].frame = sent + 1
          BY <2>1, <2>2, <4>2, PostFacts
        <5> QED BY <2>6, <5>1
      <4> QED BY <2>1, <2>2, <4>1, <4>2, PostFacts
    <3> QED BY <3>1
  <2> QED BY <2>2, <2>4, <2>5, <2>7 DEF OrderInv
<1> QED BY Kinds, <1>1, <1>2, <1>3, <1>4, <1>5, <1>6, <1>7, <1>8, <1>9,
    <1>10 DEF OrderInv

(* Only a server that is gone ends what runs on the stream.                *)
LEMMA LossNext ==
  ASSUME TypeOK, LifeInv, LossInv, Next
  PROVE  LossInv'
<1> USE DEF TypeOK, LifeInv, LossInv, opVars, viewVars, readVars, Call, Serve
<1>1. CASE Connect
  <2>1. ready' = ready /\ closes' = closes /\ net' = "up" /\ io' = "idle"
    BY <1>1 DEF Connect, Connecting
  <2>2. closes = 0
    BY <1>1 DEF Connect, Connecting
  <2>3. "handlers" \notin inherited' => ready = <<>>
    BY <1>1, FoundFacts
  <2>4. "handlers" \notin inherited' => Len(ready) = 0
    BY <2>3
  <2> QED BY <2>1, <2>2, <2>4
<1>2. CASE ConnectFails
  BY <1>2 DEF ConnectFails, Connecting
<1>3. CASE Disconnect
  BY <1>3 DEF Disconnect
<1>4. CASE TellConnected
  BY <1>4 DEF TellConnected
<1>5. CASE FirstRead
  BY <1>5 DEF FirstRead, DoRead
<1>6. CASE PostClose
  BY <1>6 DEF PostClose
<1>7. CASE StopIo
  BY <1>7 DEF StopIo, Stopped
<1>8. CASE Join
  BY <1>8 DEF Join, Joined
<1>9. CASE Take
  <2>1. Head(ready) = ready[1]
    BY DEF TypeOK
  <2>2. UNCHANGED <<inherited, mRunning, net, closes>> /\ io' = ready[1].op
    BY <1>9, <2>1 DEF Take
  <2> SUFFICES ASSUME "handlers" \notin inherited, mRunning, net = "up"
               PROVE  /\ closes = 0
                      /\ \A i \in 1..Len(ready') : Good(ready'[i])
                      /\ io' = "read" /\ cur'.ec = "ok"
    BY <2>2
  <2> QED BY SMTT(60), <1>9, <2>2, TakeFacts DEF Good
<1>10. CASE ThreadExits
  BY <1>10 DEF ThreadExits
<1>11. CASE ReadDone
  BY <1>11 DEF ReadDone, ReadOutcome
<1>12. CASE Deliver
  BY <1>12 DEF Deliver
<1>13. CASE Fail
  BY <1>13 DEF Fail, FailOutcome
<1>14. CASE NextRead
  BY <1>14 DEF NextRead, DoRead
<1>15. CASE DoClose
  BY <1>15 DEF DoClose
<1>16. CASE Closed
  BY <1>16 DEF Closed
<1>17. CASE TellLost
  BY <1>17 DEF TellLost
<1>18. CASE PartArrives
  BY <1>18 DEF PartArrives, Polled, Outside
<1>19. CASE MessageArrives
  <2> DEFINE h == HandlerOf("read", "ok", sent + 1)
  <2>1. h \in Handler /\ Good(h)
    BY <1>19, ClientAssumption
    DEF MessageArrives, HandlerOf, Handler, Frames, Good
  <2> HIDE DEF h
  <2>2. UNCHANGED <<inherited, mRunning, net, closes, io, cur>> /\ Post(h)
    BY <1>19 DEF MessageArrives, Outside, h
  <2> QED BY <2>1, <2>2, PostFacts
<1>20. CASE PeerCloses
  BY <1>20 DEF PeerCloses, Outside
<1>21. ASSUME NEW ec \in {"closed", "error"}, ReadFails(ec)
      PROVE  LossInv'
  BY <1>21 DEF ReadFails, Polled, Outside, Ended
<1>22. ASSUME NEW ec \in {"ok", "error"}, CloseEnds(ec)
      PROVE  LossInv'
  BY <1>22 DEF CloseEnds, Polled, Outside, Ended
<1> QED BY NextCases, <1>1, <1>2, <1>3, <1>4, <1>5, <1>6, <1>7, <1>8, <1>9,
    <1>10, <1>11, <1>12, <1>13, <1>14, <1>15, <1>16, <1>17, <1>18, <1>19,
    <1>20, <1>21, <1>22

(* The loss is reported by the handler of async_close alone, and only of a *)
(* connection that was reported.                                           *)
LEMMA ToldNext ==
  ASSUME TypeOK, LifeInv, ToldInv, Next
  PROVE  ToldInv'
<1> USE DEF TypeOK, LifeInv, ToldInv, ReportsInOrder,
            opVars, viewVars, readVars, Call, Serve
<1>1. CASE Connect
  <2>1. /\ "handlers" \notin inherited' => ready = <<>>
    BY <1>1, FoundFacts
  <2>3. /\ ready' = ready
        /\ io' = "idle" /\ pc' = "tell" /\ UNCHANGED opVars
    BY <1>1 DEF Connect, Connecting, Told
  <2>2. reads = 0 /\ closes = 0
    BY <1>1 DEF Connect, Connecting
  <2> QED BY <2>1, <2>2, <2>3
<1>2. CASE ConnectFails
  BY <1>2 DEF ConnectFails, Connecting
<1>3. CASE Disconnect
  BY <1>3 DEF Disconnect
<1>4. CASE TellConnected
  BY <1>4 DEF TellConnected
<1>5. CASE FirstRead
  BY <1>5 DEF FirstRead, DoRead
<1>6. CASE PostClose
  BY <1>6 DEF PostClose
<1>7. CASE StopIo
  BY <1>7 DEF StopIo, Stopped
<1>8. CASE Join
  BY <1>8 DEF Join, Joined
<1>9. CASE Take
  <2>1. Head(ready) = ready[1] /\ ready # <<>>
    BY <1>9 DEF TypeOK, Take
  <2>2. io' \in {"doClose", "read", "closed"}
    BY <1>9, <2>1, TakeFacts DEF Take, Handler
  <2>3. UNCHANGED <<pc, mConnected, told, inherited>>
    BY <1>9 DEF Take
  <2> QED BY <2>1, <2>2, <2>3
<1>10. CASE ThreadExits
  BY <1>10 DEF ThreadExits
<1>11. CASE ReadDone
  BY <1>11 DEF ReadDone, ReadOutcome
<1>12. CASE Deliver
  BY <1>12 DEF Deliver
<1>13. CASE Fail
  BY <1>13 DEF Fail, FailOutcome
<1>14. CASE NextRead
  BY <1>14 DEF NextRead, DoRead
<1>15. CASE DoClose
  BY <1>15 DEF DoClose
<1>16. CASE Closed
  BY <1>16 DEF Closed
<1>17. CASE TellLost
  BY <1>17 DEF TellLost
<1>18. CASE PartArrives
  BY <1>18 DEF PartArrives, Polled, Outside
<1>19. CASE MessageArrives
  BY <1>19 DEF MessageArrives, Polled, Outside
<1>20. CASE PeerCloses
  BY <1>20 DEF PeerCloses, Outside
<1>21. ASSUME NEW ec \in {"closed", "error"}, ReadFails(ec)
      PROVE  ToldInv'
  BY <1>21 DEF ReadFails, Polled, Outside, Ended
<1>22. ASSUME NEW ec \in {"ok", "error"}, CloseEnds(ec)
      PROVE  ToldInv'
  BY <1>22 DEF CloseEnds, Polled, Outside, Ended
<1> QED BY NextCases, <1>1, <1>2, <1>3, <1>4, <1>5, <1>6, <1>7, <1>8, <1>9,
    <1>10, <1>11, <1>12, <1>13, <1>14, <1>15, <1>16, <1>17, <1>18, <1>19,
    <1>20, <1>21, <1>22

-----------------------------------------------------------------------------
(* The program starts in the invariant.                                    *)
LEMMA InitInv ==
  ASSUME Init
  PROVE  Inv
<1>1. /\ ready = <<>> /\ shown = <<>> /\ mBuffer = <<>> /\ mFrameBuffer = <<>>
      /\ part = 0 /\ reads = 0 /\ closes = 0 /\ inherited = {}
      /\ pc = "idle" /\ io = "none"
  BY DEF Init
<1>2. /\ Len(ready) = 0 /\ Len(shown) = 0 /\ Len(mBuffer) = 0
      /\ ready \in Seq(Handler) /\ shown \in Seq(Frames)
      /\ mBuffer \in Seq(Byte) /\ mFrameBuffer \in Seq(Byte)
  BY <1>1
<1>3. TypeOK
  <2>1. /\ ioStopped \in BOOLEAN /\ mRunning \in BOOLEAN
        /\ mConnected \in BOOLEAN
    BY Zenon DEF Init
  <2>2. cur \in Handler
    BY NoHandlerFacts DEF Init
  <2> QED BY <1>1, <1>2, <2>1, <2>2, ClientAssumption DEF Init, TypeOK
<1>4. LifeInv /\ OneReader
  BY <1>1, <1>2 DEF Init, LifeInv, OneReader, Reading, NoneLive
<1>5. ReadInv /\ TailInv
  BY <1>1, <1>2 DEF ReadInv, Begun, TailInv
<1>6. ResidueInv /\ OrderInv
  BY <1>1, <1>2 DEF ResidueInv, OrderInv, Expecting
<1>7. LossInv /\ ToldInv
  BY <1>1, <1>2 DEF Init, LossInv, ToldInv, ReportsInOrder
<1> QED BY <1>3, <1>4, <1>5, <1>6, <1>7 DEF Inv

(* Every step keeps it.                                                    *)
LEMMA InvNext ==
  ASSUME Inv, [Next]_vars
  PROVE  Inv'
<1>1. CASE Next
  BY <1>1, TypesNext, LifeNext, OneReaderNext, ReadNext, TailNext,
     ResidueNext, OrderNext, LossNext, ToldNext DEF Inv
<1>2. CASE UNCHANGED vars
  <2> USE <1>2 DEF vars, opVars, viewVars, readVars
  <2>1. (TypeOK /\ LifeInv /\ OneReader)'
    BY DEF Inv, TypeOK, LifeInv, OneReader, Reading, NoneLive
  <2>2. (ReadInv /\ TailInv)'
    BY DEF Inv, ReadInv, Begun, TailInv, Ends, LastCut
  <2>3. (ResidueInv /\ OrderInv)'
    BY DEF Inv, ResidueInv, Expecting, OrderInv, Above
  <2>4. (LossInv /\ ToldInv)'
    BY DEF Inv, LossInv, ToldInv, ReportsInOrder
  <2> QED BY <2>1, <2>2, <2>3, <2>4 DEF Inv
<1> QED BY <1>1, <1>2

(* So it holds always.                                                     *)
LEMMA InvInvariant == Spec => []Inv
  BY InitInv, InvNext, PTL DEF Spec

-----------------------------------------------------------------------------
(* Every variable keeps its type: there is never a second async_read on    *)
(* the stream.                                                             *)
THEOREM TypesHold == Spec => []TypeOK
<1>1. Inv => TypeOK
  BY DEF Inv
<1> QED BY <1>1, InvInvariant, PTL

(* mOnDisconnected() is called after mOnConnected(), unless connect()      *)
(* found handlers of an earlier connection.                                *)
THEOREM LossToldAfterConnection == Spec => []ReportsInOrder
<1>1. Inv => ReportsInOrder
  BY DEF Inv, ToldInv
<1> QED BY <1>1, InvInvariant, PTL

(* Whatever mBuffer holds of earlier messages, of this connection or of    *)
(* another, the frame that was read is the last of each read that the      *)
(* application is given, or a torn one ends with it.                       *)
THEOREM ReadsEndWithNewest == Spec => []NewestIsLast
<1>1. ASSUME Inv PROVE NewestIsLast
  <2> SUFFICES ASSUME io = "deliver", Delimiters = {}
               PROVE  shown # <<>> /\ Last(shown) \in {cur.frame, 0}
    BY DEF NewestIsLast
  <2>1. /\ mFrameBuffer \in Seq(Byte) /\ Len(mFrameBuffer) \in Nat
        /\ size \in Nat /\ size >= 2
    BY <1>1, LenProperties, ClientAssumption DEF Inv, TypeOK
  <2>2. ~Ends(cur.frame)
    <3>1. Ends(cur.frame) => Len(mFrameBuffer) \in Delimiters
      BY <2>1 DEF Ends, Delimiters
    <3> QED BY <3>1
  <2> QED BY <1>1, <2>2 DEF Inv, TailInv, LastCut
<1> QED BY <1>1, InvInvariant, PTL

(* Only the loss of the server, or disconnect(), takes mConnected back,    *)
(* unless connect() found handlers of an earlier connection.               *)
THEOREM OnlyServerLoses == Spec => LostByServerUnlessInherited
<1>1. ASSUME Inv, [Next]_vars
      PROVE  ["handlers" \notin inherited /\ mConnected /\ ~mConnected'
                => net = "down" \/ ~mRunning]_vars
  <2> SUFFICES ASSUME Next, "handlers" \notin inherited,
                      mConnected, ~mConnected', mRunning
               PROVE  net = "down"
    BY <1>1
  <2>1. Closed \/ Join
    <3> USE DEF opVars, viewVars, readVars, Call, Serve
    <3>1. CASE Connect
      BY <3>1 DEF Connect, Connecting, Told
    <3>2. CASE ConnectFails
      BY <3>2 DEF ConnectFails, Connecting
    <3>3. CASE Disconnect
      BY <3>3 DEF Disconnect
    <3>4. CASE TellConnected
      BY <3>4 DEF TellConnected
    <3>5. CASE FirstRead
      BY <3>5 DEF FirstRead, DoRead
    <3>6. CASE PostClose
      BY <3>6 DEF PostClose
    <3>7. CASE StopIo
      BY <3>7 DEF StopIo, Stopped
    <3>8. CASE Take
      BY <3>8 DEF Take
    <3>9. CASE ThreadExits
      BY <3>9 DEF ThreadExits
    <3>10. CASE ReadDone
      BY <3>10 DEF ReadDone, ReadOutcome
    <3>11. CASE Deliver
      BY <3>11 DEF Deliver
    <3>12. CASE Fail
      BY <3>12 DEF Fail, FailOutcome
    <3>13. CASE NextRead
      BY <3>13 DEF NextRead, DoRead
    <3>14. CASE DoClose
      BY <3>14 DEF DoClose
    <3>15. CASE TellLost
      BY <3>15 DEF TellLost
    <3>16. CASE PartArrives
      BY <3>16 DEF PartArrives, Polled, Outside
    <3>17. CASE MessageArrives
      BY <3>17 DEF MessageArrives, Polled, Outside
    <3>18. CASE PeerCloses
      BY <3>18 DEF PeerCloses, Outside
    <3>19. ASSUME NEW ec \in {"closed", "error"}, ReadFails(ec)
           PROVE  Closed \/ Join
      BY <3>19 DEF ReadFails, Outside
    <3>20. ASSUME NEW ec \in {"ok", "error"}, CloseEnds(ec)
           PROVE  Closed \/ Join
      BY <3>20 DEF CloseEnds, Outside
    <3> QED BY NextCases, <3>1, <3>2, <3>3, <3>4, <3>5, <3>6, <3>7,
        <3>8, <3>9, <3>10, <3>11, <3>12, <3>13, <3>14, <3>15, <3>16,
        <3>17, <3>18, <3>19, <3>20
  <2>2. CASE Closed
    BY <1>1, <2>2 DEF Inv, LossInv, Closed, Serve
  <2>3. CASE Join
    BY <1>1, <2>3 DEF Inv, LifeInv, Join, Call
  <2> QED BY <2>1, <2>2, <2>3
<1> QED BY <1>1, InvInvariant, PTL DEF Spec, LostByServerUnlessInherited

-----------------------------------------------------------------------------
(* What connect() and disconnect() promise: ClientContract.                *)
Active == mRunning \/ pc # "idle"

(* A step that calls nobody back, or the part of the contract it plays.    *)
Quiet == UNCHANGED <<told, shown>> /\ Active' = Active

Allowed ==
  \/ Quiet
  \/ ~Active /\ Active' /\ UNCHANGED <<told, shown>>
  \/ Active /\ Active' /\ told' \in {"connected", "lost"} /\ UNCHANGED shown
  \/ /\ Active /\ Active' /\ UNCHANGED told
     /\ \E f \in Frames : shown' = Append(shown, f)
  \/ Active /\ ~Active' /\ told' \in {told, "lost"} /\ UNCHANGED shown

(* These are the steps of the contract.                                    *)
LEMMA AllowedIsContract ==
  ASSUME Allowed
  PROVE  [Contract!Next]_(Contract!contractVars)
<1> USE DEF Contract!contractVars
<1>1. CASE Quiet
  BY <1>1 DEF Quiet, Active
<1>2. CASE ~Active /\ Active' /\ UNCHANGED <<told, shown>>
  BY <1>2 DEF Active, Contract!Next, Contract!Begin
<1>3. CASE /\ Active /\ Active' /\ told' \in {"connected", "lost"}
           /\ UNCHANGED shown
  BY <1>3 DEF Active, Contract!Next, Contract!Report
<1>4. CASE /\ Active /\ Active' /\ UNCHANGED told
           /\ \E f \in Frames : shown' = Append(shown, f)
  BY <1>4 DEF Active, Contract!Next, Contract!Show
<1>5. CASE Active /\ ~Active' /\ told' \in {told, "lost"} /\ UNCHANGED shown
  BY <1>5 DEF Active, Contract!Next, Contract!End
<1> QED BY <1>1, <1>2, <1>3, <1>4, <1>5 DEF Allowed

(* Every step is one of them: the io thread runs only while the client is  *)
(* active.                                                                 *)
LEMMA StepAllowed ==
  ASSUME TypeOK, LifeInv, TailInv, Next
  PROVE  Allowed
<1> USE DEF TypeOK, LifeInv, Active, Allowed, Quiet, opVars, viewVars, readVars,
            Call, Serve
<1>1. CASE Connect
  BY <1>1 DEF Connect, Connecting, Told
<1>2. CASE ConnectFails
  BY <1>2 DEF ConnectFails, Connecting
<1>3. CASE Disconnect
  BY <1>3 DEF Disconnect
<1>4. CASE TellConnected
  BY <1>4 DEF TellConnected, Active, Allowed
<1>5. CASE FirstRead
  BY <1>5 DEF FirstRead, DoRead
<1>6. CASE PostClose
  BY <1>6 DEF PostClose
<1>7. CASE StopIo
  BY <1>7 DEF StopIo, Stopped
<1>8. CASE Join
  BY <1>8 DEF Join, Joined
<1>9. CASE Take
  BY <1>9 DEF Take
<1>10. CASE ThreadExits
  BY <1>10 DEF ThreadExits
<1>11. CASE ReadDone
  BY <1>11 DEF ReadDone, ReadOutcome
<1>12. CASE Deliver
  <2>1. /\ Active /\ Active' /\ UNCHANGED told
    BY <1>12 DEF Deliver, Active
  <2>2. shown' = shown \/ \E f \in Frames : shown' = Append(shown, f)
    BY <1>12, CutFacts
  <2> QED BY <2>1, <2>2 DEF Allowed
<1>13. CASE Fail
  BY <1>13 DEF Fail, FailOutcome
<1>14. CASE NextRead
  BY <1>14 DEF NextRead, DoRead
<1>15. CASE DoClose
  BY <1>15 DEF DoClose
<1>16. CASE Closed
  BY <1>16 DEF Closed
<1>17. CASE TellLost
  BY <1>17 DEF TellLost
<1>18. CASE PartArrives
  BY <1>18 DEF PartArrives, Polled, Outside
<1>19. CASE MessageArrives
  BY <1>19 DEF MessageArrives, Polled, Outside
<1>20. CASE PeerCloses
  BY <1>20 DEF PeerCloses, Outside
<1>21. ASSUME NEW ec \in {"closed", "error"}, ReadFails(ec)
      PROVE  Allowed
  BY <1>21 DEF ReadFails, Polled, Outside, Ended
<1>22. ASSUME NEW ec \in {"ok", "error"}, CloseEnds(ec)
      PROVE  Allowed
  BY <1>22 DEF CloseEnds, Polled, Outside, Ended
<1> QED BY NextCases, <1>1, <1>2, <1>3, <1>4, <1>5, <1>6, <1>7, <1>8, <1>9,
    <1>10, <1>11, <1>12, <1>13, <1>14, <1>15, <1>16, <1>17, <1>18, <1>19,
    <1>20, <1>21, <1>22

(* No callback comes before connect() or after the disconnect() that ends  *)
(* the connection.                                                         *)
THEOREM KeepsContract == Spec => ContractSpec
<1>1. Init => Contract!Init
  BY DEF Init, Contract!Init
<1>2. Inv /\ [Next]_vars => [Contract!Next]_(Contract!contractVars)
  <2>1. ASSUME Inv, Next
        PROVE  [Contract!Next]_(Contract!contractVars)
    BY <2>1, StepAllowed, AllowedIsContract DEF Inv
  <2>2. UNCHANGED vars => UNCHANGED Contract!contractVars
    BY DEF vars, viewVars, readVars, Contract!contractVars
  <2> QED BY <2>1, <2>2
<1> QED BY <1>1, <1>2, InvInvariant, PTL DEF Spec, ContractSpec, Contract!Spec
-----------------------------------------------------------------------------
(* The stream of the server: FrameStream.                                  *)

(* A connection that finds no bytes shows its frames whole and in order,   *)
(* over all such connections: the steps that show one, and those of the    *)
(* server, are steps of FrameStream.                                       *)
THEOREM FramesStream == Spec => StreamUnlessInherited
<1>1. Init => Stream!Init
  BY DEF Init, Stream!Init
<1>2. ASSUME Inv, Next
      PROVE  ["bytes" \notin inherited => Stream!Next]_<<sent, shown>>
  <2> USE DEF viewVars, readVars, Call, Serve
  <2> SUFFICES ASSUME "bytes" \notin inherited
               PROVE  Stream!Next \/ UNCHANGED <<sent, shown>>
    BY Zenon
  <2>0. /\ TypeOK /\ LifeInv /\ OneReader /\ TailInv /\ ResidueInv /\ OrderInv
    BY <1>2 DEF Inv
  <2>1. CASE Calm
    BY <2>1 DEF Calm
  <2>2. CASE Connect
    BY <2>2 DEF Connect, Connecting
  <2>3. CASE FirstRead
    BY <2>3 DEF FirstRead
  <2>4. CASE Join
    BY <2>4 DEF Join
  <2>5. CASE Take
    BY <2>5 DEF Take
  <2>6. CASE ReadDone
    BY <2>6 DEF ReadDone
  <2>7. CASE Deliver
    <3>1. io = "deliver" /\ UNCHANGED sent /\ mFrameBuffer # <<>>
      BY <2>7 DEF Deliver, Delimiters
    <3>2. Above(cur.frame) /\ Len(mFrameBuffer) = size
      BY <2>0, <3>1 DEF OrderInv, ResidueInv
    <3>3. shown' = Append(shown, cur.frame)
      BY <2>0, <2>7, <3>2, CutFacts
    <3>4. /\ cur.frame \in 1..MaxFrames /\ cur.frame <= sent
          /\ shown \in Seq(Frames) /\ Len(shown) \in Nat
      BY <2>0, <3>2, LenProperties, ClientAssumption DEF TypeOK, Above
    <3>5. Stream!Newest < cur.frame
      <4>1. Stream!Newest = IF shown = <<>> THEN 0 ELSE shown[Len(shown)]
        BY DEF Stream!Newest
      <4>2. shown # <<>> => Len(shown) \in 1..Len(shown)
        BY <3>4
      <4> QED BY <3>2, <3>4, <4>1, <4>2 DEF Above
    <3>6. Stream!Show(cur.frame)
      BY <3>1, <3>3, <3>4, <3>5 DEF Stream!Show
    <3> QED BY <3>4, <3>6 DEF Stream!Next
  <2>8. CASE NextRead
    BY <2>8 DEF NextRead
  <2>9. CASE PartArrives
    BY <2>9 DEF PartArrives, Outside
  <2>10. CASE MessageArrives
    BY <2>10 DEF MessageArrives, Outside, Stream!Next, Stream!Publish
  <2> QED BY <1>2, <2>0, <2>1, <2>2, <2>3, <2>4, <2>5, <2>6, <2>7, <2>8,
      <2>9, <2>10, Kinds
<1>3. UNCHANGED vars => UNCHANGED <<sent, shown>>
  BY DEF vars, viewVars
<1>4. Inv /\ [Next]_vars
        => ["bytes" \notin inherited => Stream!Next]_<<sent, shown>>
  BY <1>2, <1>3
<1> QED BY <1>1, <1>4, InvInvariant, PTL DEF Spec, StreamUnlessInherited
=============================================================================
