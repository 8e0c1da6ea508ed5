----------------------------- MODULE BeastClient -----------------------------
(***************************************************************************)
(* Streaming::Beast::BeastClient: the caller's thread runs connect() and   *)
(* disconnect(), the io thread that connect() starts runs the handlers of  *)
(* the WebSocket and calls the application back.  The io_context outlives  *)
(* both: what disconnect() leaves queued is run after the next connect().  *)
(*                                                                         *)
(* A message of the server is the text of one frame and the delimiter, and *)
(* all messages of one server have one size.  Byte i of the text of frame  *)
(* f is <<f, i>>, and frame 0 is a string that is no frame of a server.    *)
(* A callback runs under mMutex and is one step.                           *)
(***************************************************************************)
EXTENDS Naturals, Sequences, SequencesExt

CONSTANTS MaxConnects,  \* bound: calls of connect() that find no connection
          MaxFrames,    \* bound: messages the servers send
          Sizes         \* bytes of a message, with its delimiter

ASSUME ClientAssumption ==
  /\ MaxConnects \in Nat /\ MaxFrames \in Nat
  /\ Sizes \subseteq Nat \ {0, 1} /\ Sizes # {}

VARIABLES
  pc,         \* the caller's statement
  io, cur,    \* the io thread's statement, and the handler it runs
  ready,      \* handlers mIoContext can run, in order
  ioStopped,  \* mIoContext.stopped()
  mRunning, mConnected,
  connects,   \* calls of connect()
  net,        \* the stream's connection: none, up, down (by the server), closed
  reads, closes, \* operations outstanding on the stream
  mBuffer,    \* what async_read has appended, less what was consumed
  part,       \* how much of it is the beginning of the next message
  mFrameBuffer, \* what is still to be cut into frames
  size,       \* of the messages of the server connected to
  sent,       \* messages sent by the servers
  shown,      \* frames given to mOnDataReceived
  told,       \* the last of mOnConnected and mOnDisconnected
  inherited   \* history: what connect() found of an earlier connection

opVars   == <<reads, closes>>
readVars == <<mBuffer, part, mFrameBuffer>>
viewVars == <<readVars, shown, told>>
vars == <<pc, io, cur, ready, ioStopped, mRunning, mConnected, connects, net,
          opVars, viewVars, size, sent, inherited>>

Frames == 0..MaxFrames
Byte == Frames \X Nat
FRAME_DELIMITER == <<0, 0>>
Handler == [op : {"doClose", "read", "closed"},
            ec : {"ok", "closed", "error", "aborted"}, frame : Frames]
HandlerOf(op, ec, f) == [op |-> op, ec |-> ec, frame |-> f]
NoHandler == HandlerOf("read", "ok", 0)

TypeOK ==
  /\ pc \in {"idle", "tell", "doRead", "post", "stop", "join"}
  /\ io \in {"none", "idle", "doClose", "read", "closed", "fail", "deliver",
             "tellLost"}
  /\ cur \in Handler /\ ready \in Seq(Handler)
  /\ ioStopped \in BOOLEAN /\ mRunning \in BOOLEAN /\ mConnected \in BOOLEAN
  /\ connects \in 0..MaxConnects /\ net \in {"none", "up", "down", "closed"}
  /\ reads \in 0..1 /\ closes \in Nat
  /\ mBuffer \in Seq(Byte) /\ part \in 0..Len(mBuffer) /\ part < size
  /\ mFrameBuffer \in Seq(Byte) /\ size \in Sizes
  /\ sent \in 0..MaxFrames /\ shown \in Seq(Frames)
  /\ told \in {"nothing", "connected", "lost"}
  /\ inherited \subseteq {"handlers", "bytes"}

Init ==
  /\ pc = "idle" /\ io = "none" /\ cur = NoHandler
  /\ ready = <<>> /\ ioStopped = FALSE
  /\ mRunning = FALSE /\ mConnected = FALSE /\ connects = 0
  /\ net = "none" /\ reads = 0 /\ closes = 0
  /\ mBuffer = <<>> /\ part = 0 /\ mFrameBuffer = <<>> /\ size \in Sizes
  /\ sent = 0 /\ shown = <<>> /\ told = "nothing" /\ inherited = {}

(* The two threads go from statement to statement.                         *)
Call(from, to) ==
  /\ pc = from /\ pc' = to
  /\ UNCHANGED <<io, cur, connects, mBuffer, mFrameBuffer, size, shown, sent,
                 inherited>>

Serve(from, to) ==
  /\ io = from /\ io' = to
  /\ cur' = IF to = "idle" THEN NoHandler ELSE cur
  /\ UNCHANGED <<pc, ioStopped, mRunning, connects, net, size, sent,
                 inherited>>

Post(h) == ready' = Append(ready, h)

-----------------------------------------------------------------------------
(* connect()                                                               *)

Connecting ==
  /\ pc = "idle" /\ ~mConnected /\ ~mRunning /\ connects < MaxConnects
  /\ connects' = connects + 1
  /\ ioStopped' = FALSE
  /\ UNCHANGED <<cur, ready, opVars, viewVars, sent>>

(* mOnConnected() is not called.                                           *)
Untold == "doRead"

Told == "tell"

(* Up to the start of the io thread, which no other thread can see: the    *)
(* handshake succeeds on a new stream, with any server.                    *)
Connect ==
  /\ Connecting
  /\ net' = "up" /\ mConnected' = TRUE /\ mRunning' = TRUE
  /\ io' = "idle" /\ pc' = Told
  /\ size' \in Sizes
  /\ inherited' = {found \in {"handlers", "bytes"} :
                     IF found = "handlers" THEN ready # <<>>
                     ELSE mBuffer # <<>>}

(* The server cannot be resolved or reached, or refuses the handshake.     *)
ConnectFails ==
  Connecting
    /\ UNCHANGED <<pc, io, mRunning, mConnected, net, size, inherited>>

(* mOnConnected()                                                          *)
TellConnected ==
  /\ Call("tell", "doRead")
  /\ told' = "connected"
  /\ UNCHANGED <<ready, ioStopped, mRunning, mConnected, net, opVars, part>>

(* doRead(), by connect() and by the handler of the previous read.         *)
DoRead ==
  /\ reads' = IF mRunning /\ mConnected THEN reads + 1 ELSE reads
  /\ UNCHANGED <<ready, mConnected, closes, part, told>>

FirstRead ==
  Call("doRead", "idle") /\ DoRead /\ UNCHANGED <<ioStopped, mRunning, net>>

-----------------------------------------------------------------------------
(* disconnect()                                                            *)

(* mRunning.exchange(false)                                                *)
Disconnect ==
  /\ Call("idle", "post") /\ mRunning
  /\ mRunning' = FALSE
  /\ UNCHANGED <<ready, ioStopped, mConnected, net, opVars, viewVars>>

PostClose ==
  /\ Call("post", "stop")
  /\ IF mConnected THEN Post(HandlerOf("doClose", "ok", 0)) ELSE UNCHANGED ready
  /\ UNCHANGED <<ioStopped, mRunning, mConnected, net, opVars, viewVars>>

(* Neither is the work guard dropped nor mIoContext stopped.               *)
KeepWork == FALSE

(* mWork.reset() and mIoContext.stop()                                     *)
Stopped == TRUE

StopIo ==
  /\ Call("stop", "join")
  /\ ioStopped' = Stopped
  /\ UNCHANGED <<ready, mRunning, mConnected, net, opVars, viewVars>>

(* disconnect() does not wait for its thread.                              *)
JoinedAtOnce == TRUE

Joined == io = "none"

(* The operations of a destroyed stream, completed or not, come to nothing *)
(* when their handlers are run at last.                                    *)
Aborted(h) == IF h.op = "doClose" THEN h ELSE HandlerOf(h.op, "aborted", 0)

(* mThread.join() and mWebSocket.reset(): every outstanding operation      *)
(* ends, its handler is queued; mConnected = false.  mBuffer keeps what it *)
(* has, though the rest of a message that has begun will never come.       *)
Join ==
  /\ Call("join", "idle") /\ Joined
  /\ net' = "none" /\ reads' = 0 /\ closes' = 0
  /\ ready' = [i \in DOMAIN ready |-> Aborted(ready[i])]
                \o [i \in 1..reads |-> HandlerOf("read", "aborted", 0)]
                \o [i \in 1..closes |-> HandlerOf("closed", "aborted", 0)]
  /\ mConnected' = FALSE /\ part' = 0
  /\ UNCHANGED <<ioStopped, mRunning, told>>

-----------------------------------------------------------------------------
(* The io thread                                                           *)

Take ==
  /\ ready # <<>> /\ ~ioStopped
  /\ io = "idle" /\ io' = Head(ready).op
  /\ cur' = Head(ready) /\ ready' = Tail(ready)
  /\ UNCHANGED <<pc, ioStopped, mRunning, mConnected, connects, net, opVars,
                 viewVars, size, sent, inherited>>

ThreadExits ==
  /\ ioStopped /\ Serve("idle", "none")
  /\ UNCHANGED <<ready, mConnected, opVars, viewVars>>

(* A server that closed is taken for one that has nothing more to say.     *)
CloseIgnored ==
  IF ~mRunning \/ ~mConnected \/ cur.ec = "closed" THEN "idle"
  ELSE IF cur.ec = "ok" THEN "deliver" ELSE "fail"

(* if (!ec)                                                                *)
TestInverted ==
  IF ~mRunning \/ ~mConnected THEN "idle"
  ELSE IF cur.ec # "ok" THEN "deliver" ELSE "fail"

(* Where the handler of async_read goes.                                   *)
ReadOutcome ==
  IF ~mRunning \/ ~mConnected THEN "idle"
  ELSE CASE cur.ec = "closed" -> "doClose"
         [] cur.ec = "ok" -> "deliver"
         [] OTHER -> "fail"

(* fail()                                                                  *)
FailOutcome ==
  IF cur.ec \in {"aborted", "closed"} \/ ~mRunning \/ ~mConnected THEN "idle"
  ELSE "doClose"

Message(f) == Append([i \in 1..size - 1 |-> <<f, i>>], FRAME_DELIMITER)

(* mBuffer with the message that was read; the rest of it comes with the   *)
(* completion.                                                             *)
WithMessage == mBuffer \o SubSeq(Message(cur.frame), part + 1, size)

(* consume() is forgotten: the message stays.                              *)
NotConsumed(bytes) == bytes

(* As many bytes as the message has, from the front: what was there before *)
(* the message is replaced by the end of the message.                      *)
Consumed(bytes) == SubSeq(bytes, size + 1, Len(bytes))

(* The handler of async_read: the whole of mBuffer goes to mFrameBuffer.   *)
(* Its early return leaves the message in mBuffer.                         *)
ReadDone ==
  /\ Serve("read", ReadOutcome)
  /\ IF cur.ec = "ok"
       THEN /\ part' = 0
            /\ IF ReadOutcome = "deliver"
                 THEN /\ mFrameBuffer' = mFrameBuffer \o WithMessage
                      /\ mBuffer' = Consumed(WithMessage)
                 ELSE mBuffer' = WithMessage /\ UNCHANGED mFrameBuffer
       ELSE UNCHANGED readVars
  /\ UNCHANGED <<ready, mConnected, opVars, shown, told>>

Fail ==
  /\ Serve("fail", FailOutcome)
  /\ UNCHANGED <<ready, mConnected, opVars, viewVars>>

Delimiters == {i \in DOMAIN mFrameBuffer : mFrameBuffer[i] = FRAME_DELIMITER}

CompleteFrame(position) == SubSeq(mFrameBuffer, 1, position - 1)

(* All of mFrameBuffer goes with its first frame.                          *)
Cleared(position) == <<>>

(* mFrameBuffer.erase()                                                    *)
Erased(position) == SubSeq(mFrameBuffer, position + 1, Len(mFrameBuffer))

(* The frame whose text this is, if it is one.                             *)
FrameOf(text) ==
  IF \A i \in DOMAIN text : text[i] = <<text[1][1], i>> THEN text[1][1] ELSE 0

(* One round of the loop: mOnDataReceived(), unless the frame is empty.    *)
Deliver ==
  /\ Serve("deliver", "deliver")
  /\ \E first \in Delimiters :
       /\ \A i \in Delimiters : first <= i
       /\ mFrameBuffer' = Erased(first)
       /\ shown' = IF CompleteFrame(first) = <<>> THEN shown
                   ELSE Append(shown, FrameOf(CompleteFrame(first)))
  /\ UNCHANGED <<ready, mConnected, opVars, mBuffer, part, told>>

(* The loop ends.                                                          *)
NextRead ==
  /\ Delimiters = {}
  /\ Serve("deliver", "idle") /\ DoRead
  /\ UNCHANGED <<mBuffer, mFrameBuffer, shown>>

(* doClose(), from a handler or posted by disconnect().                    *)
DoClose ==
  /\ Serve("doClose", "idle")
  /\ closes' = IF mConnected THEN closes + 1 ELSE closes
  /\ UNCHANGED <<ready, mConnected, reads, viewVars>>

(* The handler of async_close, whatever its error: mConnected.exchange().  *)
Closed ==
  /\ Serve("closed", IF mConnected THEN "tellLost" ELSE "idle")
  /\ mConnected' = FALSE
  /\ UNCHANGED <<ready, opVars, viewVars>>

(* mOnDisconnected()                                                       *)
TellLost ==
  /\ Serve("tellLost", "idle")
  /\ told' = "lost"
  /\ UNCHANGED <<ready, mConnected, opVars, readVars, shown>>

-----------------------------------------------------------------------------
(* The server and the network.  Only the io thread polls the socket.       *)

Polled == io # "none" /\ ~ioStopped

Outside == UNCHANGED <<pc, io, cur, ioStopped, mRunning, mConnected, connects,
                       mFrameBuffer, size, shown, told, inherited>>

(* The beginning of a message is appended to mBuffer.                      *)
PartArrives ==
  /\ Polled /\ io = "idle" /\ reads > 0
  /\ net = "up" /\ part = 0 /\ sent < MaxFrames
  /\ part' \in 1..size - 1
  /\ mBuffer' = mBuffer \o SubSeq(Message(sent + 1), 1, part')
  /\ Outside /\ UNCHANGED <<ready, net, opVars, sent>>

MessageArrives ==
  /\ Polled /\ reads > 0 /\ net = "up" /\ sent < MaxFrames
  /\ sent' = sent + 1 /\ reads' = reads - 1
  /\ Post(HandlerOf("read", "ok", sent + 1))
  /\ Outside /\ UNCHANGED <<net, closes, mBuffer, part>>

(* The server closes the WebSocket, or is lost.                            *)
PeerCloses ==
  /\ net = "up" /\ net' = "down"
  /\ Outside /\ UNCHANGED <<ready, opVars, mBuffer, part, sent>>

(* The connection has ended: by the server, or by the close of this side.  *)
Ended == net' = IF net = "up" THEN "closed" ELSE net

(* The stream fails, or the closing handshake of either side is over.      *)
ReadFails(ec) ==
  /\ Polled /\ reads > 0 /\ (net # "up" \/ closes > 0)
  /\ reads' = reads - 1 /\ Ended
  /\ Post(HandlerOf("read", ec, 0))
  /\ Outside /\ UNCHANGED <<closes, mBuffer, part, sent>>

(* The peer has answered the close frame, or there is nothing to close, or *)
(* the timeout of the handshake has passed.                                *)
CloseEnds(ec) ==
  /\ Polled /\ closes > 0
  /\ closes' = closes - 1 /\ Ended
  /\ Post(HandlerOf("closed", ec, 0))
  /\ Outside /\ UNCHANGED <<reads, mBuffer, part, sent>>

-----------------------------------------------------------------------------
(* What connect() and disconnect() do once they are called.                *)
CallStep == TellConnected \/ FirstRead \/ PostClose \/ StopIo \/ Join

IoStep ==
  \/ Take \/ ThreadExits \/ ReadDone \/ Fail \/ Deliver \/ NextRead
  \/ DoClose \/ Closed \/ TellLost

OperationFails ==
  \/ \E ec \in {"closed", "error"} : ReadFails(ec)
  \/ \E ec \in {"ok", "error"} : CloseEnds(ec)

Network == PartArrives \/ MessageArrives \/ PeerCloses \/ OperationFails

Next == Connect \/ ConnectFails \/ Disconnect \/ CallStep \/ IoStep \/ Network

Spec == Init /\ [][Next]_vars

(* Threads that can run do, and a stream that has failed says so.          *)
FairSpec ==
  /\ Spec
  /\ WF_vars(CallStep) /\ WF_vars(IoStep)
  /\ WF_vars(\E ec \in {"closed", "error"} : ReadFails(ec))
  /\ WF_vars(\E ec \in {"ok", "error"} : CloseEnds(ec))

-----------------------------------------------------------------------------
(* Properties.                                                             *)

(* When disconnect() has returned the application may destroy what its     *)
(* callbacks use: every step is one of the contract of IClient, which      *)
(* calls back until then and after the next connect() only                 *)
(* (Client.cpp:138-170, Client/Application.cpp:83-86).                     *)
Contract == INSTANCE ClientContract WITH active <- mRunning \/ pc # "idle"
ContractSpec == Contract!Spec

(* disconnect() returns, whatever the server and the io thread are doing   *)
(* (Client.cpp:153-159).                                                   *)
DisconnectReturns == pc = "post" ~> pc = "idle"

(* A connection is reported lost after it was reported there, and once     *)
(* (Client.cpp:96-112, 245-250).  The code keeps this while no handler of  *)
(* an earlier connection is left.                                          *)
ReportsInOrder ==
  io = "tellLost" /\ "handlers" \notin inherited =>
    pc # "tell" /\ told = "connected"

(* A viewer whose server is gone is told so, unless it has asked to        *)
(* disconnect (Client.cpp:203-211, 257-270).  The code keeps this while no *)
(* handler of an earlier connection is left.                               *)
LossReported ==
  (net \in {"down", "closed"} /\ mRunning /\ "handlers" \notin inherited)
    ~> (told = "lost" \/ ~mRunning)

(* What ends a connection is its server or disconnect() (Client.cpp:43),   *)
(* never a handler of an earlier connection: the code keeps this while     *)
(* none is left (see LostByServer).                                        *)
LostByServerUnlessInherited ==
  [][ "handlers" \notin inherited /\ mConnected /\ ~mConnected' =>
        net = "down" \/ ~mRunning ]_vars

(* The frames that reach the application are whole, the server's and in    *)
(* its order, over all connections (Client.cpp:213-229), as long as none   *)
(* has found bytes of an earlier one in mBuffer: what a disconnect() in    *)
(* the middle of a message leaves there, or one before a handler that has  *)
(* its message (Client.cpp:199-201), is repeated or torn ever after (see   *)
(* WholeFrames and FramesOnce).                                            *)
Stream == INSTANCE FrameStream WITH published <- sent
StreamUnlessInherited ==
  /\ Stream!Init
  /\ [][ "bytes" \notin inherited => Stream!Next ]_<<sent, shown>>

(* Whatever mBuffer held, and whatever is repeated of it, the application  *)
(* keeps the frame it was given last (Client/Application.cpp:111-115), and *)
(* of each read that is the frame just received, though it may be torn     *)
(* (Client.cpp:213-229).                                                   *)
NewestIsLast ==
  io = "deliver" /\ Delimiters = {} =>
    shown # <<>> /\ Last(shown) \in {cur.frame, 0}

(* "Already connected, disconnect first." (Client.cpp:43): the caller      *)
(* disconnects and connects again, and what ends the new connection is its *)
(* server or another disconnect().  The code does not keep this.           *)
LostByServer ==
  [][mConnected /\ ~mConnected' => net = "down" \/ ~mRunning]_vars

(* The frames are each a "completeFrame" (Client.cpp:220) of the server.   *)
(* The code does not keep this.                                            *)
WholeFrames == \A i \in DOMAIN shown : shown[i] # 0

(* "mOnDataReceived(completeFrame)" (Client.cpp:225) comes once for each   *)
(* frame.  The code does not keep this, not even for whole ones.           *)
FramesOnce ==
  \A i, j \in DOMAIN shown : shown[i] = shown[j] /\ shown[i] # 0 => i = j
=============================================================================
