---------------------------- MODULE SessionProofs ----------------------------
(***************************************************************************)
(* Proofs about Session.  For any number of io threads and of frames: the  *)
(* types, and that a session never has two async_write outstanding.  For   *)
(* one io thread: nothing starts after the close, and the viewer's frames  *)
(* are a stream.                                                           *)
(***************************************************************************)
EXTENDS Session, TLAPS

(* The number of the frame a send handler carries, from the broadcast to   *)
(* the write queue and from there to async_write.                          *)
FramesOK ==
  /\ pc[Main] \in {"send", "post"} => published \in Frames
  /\ \A i \in 1..Len(ready) : ready[i].op = "send" => ready[i].frame \in Frames
  /\ \A t \in IoThreads :
       /\ pc[t] \in {"sendEntry", "push"} =>
            cur[t].op = "send" /\ cur[t].frame \in Frames
       /\ pc[t] = "start" => cur[t].frame \in Frames
       /\ pc[t] \in {"writeDone", "check"} => cur[t].op = "write"

Typed == TypeOK /\ FramesOK

(* A thread on its way from a posted send to a write of its own.           *)
Starter(t) == pc[t] = "pop" \/ (pc[t] = "write" /\ cur[t].op # "write")

(* A thread that carries the write in progress: it is about to start it,   *)
(* or runs its completion handler.                                         *)
Holder(t) ==
  \/ pc[t] \in {"start", "writeDone", "check", "clearWriting"}
  \/ pc[t] = "write" /\ cur[t].op = "write"

(* A completion handler of a write that waits in mIoContext.               *)
Completed(i) == ready[i].op = "write"

(* A starter is alone, and the queue it was sent for is not empty.         *)
StarterInv ==
  /\ \A t \in IoThreads : Starter(t) => mWriteQueue # <<>>
  /\ \A s, t \in IoThreads : Starter(s) /\ Starter(t) => s = t
  /\ \A t \in IoThreads : pc[t] = "pop" => ~mIsWriting

(* mIsWriting is set while a write is in progress.                         *)
FlagInv ==
  /\ \A t \in IoThreads : Holder(t) => mIsWriting
  /\ \A i \in 1..Len(ready) : Completed(i) => mIsWriting
  /\ writes # {} => mIsWriting

(* The write in progress is in one place.                                  *)
PlaceInv ==
  /\ \A s, t \in IoThreads : Holder(s) /\ Holder(t) => s = t
  /\ \A i, j \in 1..Len(ready) : Completed(i) /\ Completed(j) => i = j
  /\ \A f, g \in writes : f = g
  /\ \A t \in IoThreads : Holder(t) =>
       writes = {} /\ \A i \in 1..Len(ready) : ~Completed(i)
  /\ \A i \in 1..Len(ready) : Completed(i) => writes = {}

(* One write at a time: what mIsWriting, startWriting and the completion   *)
(* handler of Session.cpp:91-160 keep together.                            *)
WriterInv == StarterInv /\ FlagInv /\ PlaceInv

-----------------------------------------------------------------------------
(* The actions of Next, one by one: what every step proof below splits on. *)
LEMMA NextCases ==
  ASSUME Next
  PROVE  \/ \E t \in IoThreads :
              \/ Take(t) \/ Accepted(t) \/ Read(t) \/ ReadDone(t)
              \/ SendEntry(t) \/ Push(t) \/ Write(t) \/ Pop(t)
              \/ StartWrite(t) \/ WriteDone(t) \/ Check(t) \/ ClearWriting(t)
              \/ ClosePosted(t) \/ RunDangling(t)
         \/ \E t \in Threads : CloseFlag(t) \/ CloseRelease(t)
         \/ Broadcast \/ Send \/ PostFrame \/ DropCopy \/ StopCopy
         \/ ClearSessions \/ Join
         \/ \E ok \in BOOLEAN : HandshakeEnds(ok) \/ ReadEnds(ok)
         \/ \E f \in Frames, ok \in BOOLEAN : WriteEnds(f, ok)
         \/ CloseEnds
  BY DEF Next, IoStep, Step, MainStep, Network, Threads

(* Posting a well-formed handler keeps the queue of handlers well-formed.  *)
LEMMA PostTyped ==
  ASSUME NEW q \in Seq(Handler), NEW h \in Handler,
         h.op = "send" => h.frame \in Frames,
         \A i \in 1..Len(q) : q[i].op = "send" => q[i].frame \in Frames
  PROVE  /\ Append(q, h) \in Seq(Handler)
         /\ \A i \in 1..Len(Append(q, h)) :
              Append(q, h)[i].op = "send" => Append(q, h)[i].frame \in Frames
<1>1. /\ Append(q, h) \in Seq(Handler)
      /\ Len(Append(q, h)) = Len(q) + 1
      /\ Append(q, h)[Len(q) + 1] = h
      /\ \A i \in 1..Len(q) : Append(q, h)[i] = q[i]
  OBVIOUS
<1> QED BY <1>1

(* Every step keeps the types.                                             *)
LEMMA TypedNext ==
  ASSUME Typed, Next
  PROVE  Typed'
<1>1. ASSUME NEW t \in IoThreads, Take(t)
      PROVE  Typed'
  <2> DEFINE h == Head(ready)
  <2>1. ready # <<>> /\ ready \in Seq(Handler)
    BY <1>1 DEF Take, Typed, TypeOK
  <2>2. h \in Handler /\ h = ready[1] /\ 1 \in 1..Len(ready)
    BY <2>1
  <2>3. h.op = "send" => h.frame \in Frames
    BY <2>2 DEF Typed, FramesOK
  <2>4. ready' \in Seq(Handler) /\ Len(ready') = Len(ready) - 1
        /\ \A i \in 1..Len(ready') : ready'[i] = ready[i + 1]
    BY <1>1, <2>1 DEF Take
  <2>5. \A i \in 1..Len(ready') :
           ready'[i].op = "send" => ready'[i].frame \in Frames
    BY <2>1, <2>4 DEF Typed, FramesOK
  <2>6. pc' = [pc EXCEPT ![t] = Entry[h.op]] /\ cur' = [cur EXCEPT ![t] = h]
    BY <1>1 DEF Take, Goto
  <2>7. h.op \in Ops /\ Entry[h.op] \in Labels
        /\ (Entry[h.op] = "sendEntry" => h.op = "send")
        /\ (Entry[h.op] = "writeDone" => h.op = "write")
        /\ Entry[h.op] \notin {"push", "start", "check"}
    BY <2>2 DEF Handler, Ops, Entry, Labels
  <2>8. TypeOK'
    BY <1>1, <2>2, <2>4, <2>6, <2>7
    DEF Take, Typed, TypeOK, Threads, opVars, queueVars, ownVars, histVars
  <2>9. FramesOK'
    BY <1>1, <2>2, <2>3, <2>5, <2>6, <2>7, SessionAssumption
    DEF Take, Typed, TypeOK, FramesOK, Threads, Frames, histVars
  <2> QED BY <2>8, <2>9 DEF Typed
<1>2. ASSUME NEW t \in IoThreads, Accepted(t)
      PROVE  Typed'
  <2>1. PICK l \in {"idle", "close", "doRead"} :
           pc' = [pc EXCEPT ![t] = l] /\ listed' \in BOOLEAN
    BY <1>2 DEF Accepted, Goto, Typed, TypeOK
  <2>2. UNCHANGED <<ready, cur, opVars, mIsClosing, queueVars, mSelfPtr, held,
                    histVars>>
    BY <1>2 DEF Accepted
  <2>3. TypeOK'
    BY <2>1, <2>2
    DEF Typed, TypeOK, Threads, Labels, opVars, queueVars, histVars
  <2>4. FramesOK'
    BY <2>1, <2>2, SessionAssumption
    DEF Typed, TypeOK, FramesOK, Threads, Frames, histVars
  <2> QED BY <2>3, <2>4 DEF Typed
<1>3. ASSUME NEW t \in IoThreads, Read(t)
      PROVE  Typed'
  <2>1. TypeOK'
    BY <1>3, SessionAssumption DEF Read, At, Goto, Typed, TypeOK, Threads,
       Labels, opVars, queueVars, ownVars, histVars
  <2>2. FramesOK'
    BY <1>3, SessionAssumption DEF Read, At, Goto, Typed, TypeOK,
       FramesOK, Threads, Frames, histVars
  <2> QED BY <2>1, <2>2 DEF Typed
<1>4. ASSUME NEW t \in IoThreads, ReadDone(t)
      PROVE  Typed'
  <2>1. TypeOK'
    BY <1>4, SessionAssumption DEF ReadDone, At, Goto, Typed, TypeOK,
       Threads, Labels, opVars, queueVars, ownVars, histVars
  <2>2. FramesOK'
    BY <1>4, SessionAssumption DEF ReadDone, At, Goto, Typed, TypeOK,
       FramesOK, Threads, Frames, histVars
  <2> QED BY <2>1, <2>2 DEF Typed
<1>5. ASSUME NEW t \in IoThreads, SendEntry(t)
      PROVE  Typed'
  <2>1. PICK l \in {"idle", "push"} : pc' = [pc EXCEPT ![t] = l]
    BY <1>5 DEF SendEntry, Goto
  <2>2. TypeOK'
    BY <1>5, <2>1 DEF SendEntry, Typed, TypeOK, Threads, Labels, opVars,
       queueVars, ownVars, histVars
  <2>3. cur[t].op = "send" /\ cur[t].frame \in Frames
    BY <1>5 DEF SendEntry, At, Typed, FramesOK
  <2>4. FramesOK'
    BY <1>5, <2>1, <2>3, SessionAssumption DEF SendEntry, Typed, TypeOK,
       FramesOK, Threads, Frames, histVars
  <2> QED BY <2>2, <2>4 DEF Typed
<1>6. ASSUME NEW t \in IoThreads, Push(t)
      PROVE  Typed'
  <2>1. PICK l \in {"write", "idle"} : pc' = [pc EXCEPT ![t] = l]
    BY <1>6 DEF Push, Goto
  <2>2. cur[t].frame \in Frames
    BY <1>6 DEF Push, At, Typed, FramesOK
  <2>3. mWriteQueue' \in Seq(Frames)
    BY <1>6, <2>2 DEF Push, Typed, TypeOK
  <2>4. TypeOK'
    BY <1>6, <2>1, <2>3 DEF Push, Typed, TypeOK, Threads, Labels, opVars,
       ownVars, histVars
  <2>5. FramesOK'
    BY <1>6, <2>1, SessionAssumption DEF Push, Typed, TypeOK, FramesOK,
       Threads, Frames, histVars
  <2> QED BY <2>4, <2>5 DEF Typed
<1>7. ASSUME NEW t \in IoThreads, Write(t)
      PROVE  Typed'
  <2>1. TypeOK'
    BY <1>7, SessionAssumption DEF Write, At, Goto, Typed, TypeOK,
       Threads, Labels, Frames, opVars, queueVars, ownVars, histVars
  <2>2. FramesOK'
    BY <1>7, SessionAssumption DEF Write, At, Goto, Typed, TypeOK,
       FramesOK, Threads, Frames, histVars
  <2> QED BY <2>1, <2>2 DEF Typed
<1>8. ASSUME NEW t \in IoThreads, Pop(t)
      PROVE  Typed'
  <2>1. CASE mWriteQueue = <<>>
    BY <1>8, <2>1, SessionAssumption
    DEF Pop, At, Goto, Typed, TypeOK, FramesOK, Threads, Labels, Frames,
        opVars, queueVars, ownVars, histVars
  <2>2. CASE mWriteQueue # <<>>
    <3> DEFINE f == Head(mWriteQueue)
    <3>0. mWriteQueue' = Tail(mWriteQueue)
      BY <1>8, <2>2 DEF Pop
    <3>1. f \in Frames /\ mWriteQueue' \in Seq(Frames)
      BY <2>2, <3>0 DEF Typed, TypeOK
    <3>2. cur' = [cur EXCEPT ![t] = HandlerOf("write", TRUE, f)]
          /\ mIsWriting' = TRUE /\ pc' = [pc EXCEPT ![t] = "start"]
      BY <1>8, <2>2 DEF Pop, Goto, FrontOf
    <3>3. HandlerOf("write", TRUE, f) \in Handler
          /\ HandlerOf("write", TRUE, f).frame = f
      BY <3>1 DEF HandlerOf, Handler, Ops, Frames
    <3>4. TypeOK'
      BY <1>8, <3>1, <3>2, <3>3
      DEF Pop, Typed, TypeOK, Threads, Labels, opVars, ownVars, histVars
    <3>5. FramesOK'
      BY <1>8, <3>1, <3>2, <3>3, SessionAssumption
      DEF Pop, Typed, TypeOK, FramesOK, Threads, Frames, histVars
    <3> QED BY <3>4, <3>5 DEF Typed
  <2> QED BY <2>1, <2>2
<1>9. ASSUME NEW t \in IoThreads, StartWrite(t)
      PROVE  Typed'
  <2>1. cur[t].frame \in Frames
    BY <1>9 DEF StartWrite, At, Typed, FramesOK
  <2>2. PICK l \in {"idle", "close"} :
           /\ pc' = [pc EXCEPT ![t] = l]
           /\ writes' \subseteq Frames /\ mIsWriting' \in BOOLEAN
    BY <1>9, <2>1 DEF StartWrite, Goto, Typed, TypeOK
  <2> QED BY <1>9, <2>2, SessionAssumption
      DEF StartWrite, Typed, TypeOK, FramesOK, Threads, Labels, Frames,
          opVars, ownVars, histVars
<1>10. ASSUME NEW t \in IoThreads, WriteDone(t)
      PROVE  Typed'
  <2>1. TypeOK'
    BY <1>10, SessionAssumption DEF WriteDone, At, Goto, Typed, TypeOK,
       Threads, Labels, Frames, opVars, queueVars, ownVars, histVars
  <2>2. FramesOK'
    BY <1>10, SessionAssumption DEF WriteDone, At, Goto, Typed, TypeOK,
       FramesOK, Threads, Frames, histVars
  <2> QED BY <2>1, <2>2 DEF Typed
<1>11. ASSUME NEW t \in IoThreads, Check(t)
      PROVE  Typed'
  <2>1. TypeOK'
    BY <1>11, SessionAssumption DEF Check, At, Goto, Typed, TypeOK,
       Threads, Labels, opVars, queueVars, ownVars, histVars
  <2>2. FramesOK'
    BY <1>11, SessionAssumption DEF Check, At, Goto, Typed, TypeOK,
       FramesOK, Threads, Frames, histVars
  <2> QED BY <2>1, <2>2 DEF Typed
<1>12. ASSUME NEW t \in IoThreads, ClearWriting(t)
      PROVE  Typed'
  <2>1. pc' = [pc EXCEPT ![t] = "idle"]
    BY <1>12 DEF ClearWriting, Goto
  <2>2. mIsWriting' = FALSE
        /\ UNCHANGED <<ready, cur, opVars, mIsClosing, mWriteQueue, ownVars,
                       histVars>>
    BY <1>12 DEF ClearWriting
  <2>3. TypeOK'
    BY <2>1, <2>2
    DEF Typed, TypeOK, Threads, Labels, opVars, ownVars, histVars
  <2>4. FramesOK'
    BY <2>1, <2>2, SessionAssumption
    DEF Typed, TypeOK, FramesOK, Threads, Frames, histVars
  <2> QED BY <2>3, <2>4 DEF Typed
<1>13. ASSUME NEW t \in IoThreads, ClosePosted(t)
      PROVE  Typed'
  <2>1. TypeOK'
    BY <1>13, SessionAssumption DEF ClosePosted, At, Goto, Typed, TypeOK,
       Threads, Labels, opVars, queueVars, ownVars, histVars
  <2>2. FramesOK'
    BY <1>13, SessionAssumption DEF ClosePosted, At, Goto, Typed, TypeOK,
       FramesOK, Threads, Frames, histVars
  <2> QED BY <2>1, <2>2 DEF Typed
<1>14. ASSUME NEW t \in IoThreads, RunDangling(t)
      PROVE  Typed'
  <2>1. pc' \in {pc, [pc EXCEPT ![t] = "idle"]} /\ crashed' \in BOOLEAN
    BY <1>14 DEF RunDangling, Goto, Typed, TypeOK
  <2>2. UNCHANGED <<ready, cur, opVars, mIsClosing, queueVars, ownVars,
                    published, wire>>
    BY <1>14 DEF RunDangling
  <2>3. CASE pc' = pc
    <3>1. TypeOK'
      BY <2>1, <2>2, <2>3 DEF Typed, TypeOK, opVars, queueVars, ownVars
    <3>2. FramesOK'
      BY <2>2, <2>3 DEF Typed, FramesOK
    <3> QED BY <3>1, <3>2 DEF Typed
  <2>4. CASE pc' = [pc EXCEPT ![t] = "idle"]
    <3>1. TypeOK'
      BY <2>1, <2>2, <2>4
      DEF Typed, TypeOK, Threads, Labels, opVars, queueVars, ownVars
    <3>2. FramesOK'
      BY <2>2, <2>4, SessionAssumption DEF Typed, TypeOK, FramesOK, Threads
    <3> QED BY <3>1, <3>2 DEF Typed
  <2> QED BY <2>1, <2>3, <2>4
<1>15. ASSUME NEW t \in Threads, CloseFlag(t)
      PROVE  Typed'
  <2>1. TypeOK'
    BY <1>15, SessionAssumption DEF CloseFlag, At, AfterClose, Goto,
       Typed, TypeOK, Threads, Labels, opVars, queueVars, ownVars,
       histVars
  <2>2. FramesOK'
    BY <1>15, SessionAssumption DEF CloseFlag, At, AfterClose, Goto,
       Typed, TypeOK, FramesOK, Threads, Frames, histVars
  <2> QED BY <2>1, <2>2 DEF Typed
<1>16. ASSUME NEW t \in Threads, CloseRelease(t)
      PROVE  Typed'
  <2>1. TypeOK'
    BY <1>16, SessionAssumption DEF CloseRelease, At, AfterClose, Post,
       HandlerOf, Handler, Ops, NoFrame, Goto, Typed, TypeOK, Threads,
       Labels, Frames, opVars, queueVars, ownVars, histVars
  <2>2. FramesOK'
    BY <1>16, SessionAssumption DEF CloseRelease, At, AfterClose, Post,
       HandlerOf, Handler, Ops, NoFrame, Goto, Typed, TypeOK, FramesOK,
       Threads, Frames, histVars
  <2> QED BY <2>1, <2>2 DEF Typed
<1>17. ASSUME Broadcast
      PROVE  Typed'
  <2>1. PICK l \in {"send", "loop"} : pc' = [pc EXCEPT ![Main] = l]
    BY <1>17 DEF Broadcast, Goto
  <2>2. published' \in Frames
    BY <1>17, SessionAssumption DEF Broadcast, Typed, TypeOK, Frames
  <2>3. TypeOK'
    BY <1>17, <2>1, <2>2, SessionAssumption DEF Broadcast, Typed, TypeOK,
       Threads, Labels, Frames, opVars, queueVars
  <2>4. FramesOK'
    BY <1>17, <2>1, <2>2, SessionAssumption DEF Broadcast, Typed, TypeOK,
       FramesOK, Threads
  <2> QED BY <2>3, <2>4 DEF Typed
<1>18. ASSUME Send
      PROVE  Typed'
  <2>1. TypeOK'
    BY <1>18, SessionAssumption DEF Send, Goto, Typed, TypeOK, Threads,
       Labels, opVars, queueVars, ownVars, histVars
  <2>2. FramesOK'
    BY <1>18, SessionAssumption DEF Send, Goto, Typed, TypeOK, FramesOK,
       Threads, Frames, histVars
  <2> QED BY <2>1, <2>2 DEF Typed
<1>19. ASSUME PostFrame
      PROVE  Typed'
  <2>1. TypeOK'
    BY <1>19, SessionAssumption DEF PostFrame, Post, HandlerOf, Handler,
       Ops, Goto, Typed, TypeOK, Threads, Labels, Frames, opVars,
       queueVars, ownVars, histVars
  <2>2. FramesOK'
    BY <1>19, SessionAssumption DEF PostFrame, Post, HandlerOf, Handler,
       Ops, Goto, Typed, TypeOK, FramesOK, Threads, Frames, histVars
  <2> QED BY <2>1, <2>2 DEF Typed
<1>20. ASSUME DropCopy
      PROVE  Typed'
  <2>1. TypeOK'
    BY <1>20, SessionAssumption DEF DropCopy, Goto, Typed, TypeOK,
       Threads, Labels, opVars, queueVars, ownVars, histVars
  <2>2. FramesOK'
    BY <1>20, SessionAssumption DEF DropCopy, Goto, Typed, TypeOK,
       FramesOK, Threads, Frames, histVars
  <2> QED BY <2>1, <2>2 DEF Typed
<1>21. ASSUME StopCopy
      PROVE  Typed'
  <2>1. TypeOK'
    BY <1>21, SessionAssumption DEF StopCopy, Goto, Typed, TypeOK,
       Threads, Labels, opVars, queueVars, ownVars, histVars
  <2>2. FramesOK'
    BY <1>21, SessionAssumption DEF StopCopy, Goto, Typed, TypeOK,
       FramesOK, Threads, Frames, histVars
  <2> QED BY <2>1, <2>2 DEF Typed
<1>22. ASSUME ClearSessions
      PROVE  Typed'
  <2>1. TypeOK'
    BY <1>22, SessionAssumption DEF ClearSessions, Goto, Typed, TypeOK,
       Threads, Labels, opVars, queueVars, ownVars, histVars
  <2>2. FramesOK'
    BY <1>22, SessionAssumption DEF ClearSessions, Goto, Typed, TypeOK,
       FramesOK, Threads, Frames, histVars
  <2> QED BY <2>1, <2>2 DEF Typed
<1>23. ASSUME Join
      PROVE  Typed'
  <2>1. pc' = [pc EXCEPT ![Main] = "gone"]
    BY <1>23 DEF Join, Goto
  <2>2. TypeOK'
    BY <1>23, <2>1
    DEF Join, Typed, TypeOK, Threads, Labels, opVars, queueVars, ownVars,
        histVars
  <2>3. FramesOK'
    BY <1>23, <2>1, SessionAssumption
    DEF Join, Typed, TypeOK, FramesOK, Threads, Frames, histVars
  <2> QED BY <2>2, <2>3 DEF Typed
<1>24. ASSUME CloseEnds
      PROVE  Typed'
  <2>1. TypeOK'
    BY <1>24, SessionAssumption DEF CloseEnds, Typed, TypeOK, Threads,
       Labels, opVars, queueVars, ownVars, histVars
  <2>2. FramesOK'
    BY <1>24, SessionAssumption DEF CloseEnds, Typed, TypeOK, FramesOK,
       Threads, Frames, histVars
  <2> QED BY <2>1, <2>2 DEF Typed
<1>25. ASSUME NEW ok \in BOOLEAN, HandshakeEnds(ok)
      PROVE  Typed'
  <2> DEFINE h == HandlerOf("accept", ok, NoFrame)
  <2>1. h \in Handler /\ h.op # "send"
    BY SessionAssumption DEF HandlerOf, Handler, Ops, NoFrame, Frames
  <2>2. ready' = Append(ready, h)
    BY <1>25 DEF HandshakeEnds, Post
  <2>3. ready' \in Seq(Handler)
        /\ \A i \in 1..Len(ready') :
             ready'[i].op = "send" => ready'[i].frame \in Frames
    BY <2>1, <2>2, PostTyped DEF Typed, TypeOK, FramesOK
  <2>4. TypeOK'
    BY <1>25, <2>3
    DEF HandshakeEnds, Typed, TypeOK, queueVars, ownVars, histVars
  <2>5. FramesOK'
    BY <1>25, <2>3 DEF HandshakeEnds, Typed, FramesOK, histVars
  <2> QED BY <2>4, <2>5 DEF Typed
<1>26. ASSUME NEW ok \in BOOLEAN, ReadEnds(ok)
      PROVE  Typed'
  <2> DEFINE h == HandlerOf("read", ok, NoFrame)
  <2>1. h \in Handler /\ h.op # "send"
    BY SessionAssumption DEF HandlerOf, Handler, Ops, NoFrame, Frames
  <2>2. ready' = Append(ready, h)
    BY <1>26 DEF ReadEnds, Post
  <2>3. ready' \in Seq(Handler)
        /\ \A i \in 1..Len(ready') :
             ready'[i].op = "send" => ready'[i].frame \in Frames
    BY <2>1, <2>2, PostTyped DEF Typed, TypeOK, FramesOK
  <2>4. TypeOK'
    BY <1>26, <2>3
    DEF ReadEnds, Typed, TypeOK, queueVars, ownVars, histVars
  <2>5. FramesOK'
    BY <1>26, <2>3 DEF ReadEnds, Typed, FramesOK, histVars
  <2> QED BY <2>4, <2>5 DEF Typed
<1>27. ASSUME NEW f \in Frames, NEW ok \in BOOLEAN, WriteEnds(f, ok)
      PROVE  Typed'
  <2> DEFINE h == HandlerOf("write", ok, f)
  <2>1. h \in Handler /\ h.op # "send"
    BY SessionAssumption DEF HandlerOf, Handler, Ops, NoFrame, Frames
  <2>2. ready' = Append(ready, h)
    BY <1>27 DEF WriteEnds, Post
  <2>3. ready' \in Seq(Handler)
        /\ \A i \in 1..Len(ready') :
             ready'[i].op = "send" => ready'[i].frame \in Frames
    BY <2>1, <2>2, PostTyped DEF Typed, TypeOK, FramesOK
  <2>4. TypeOK'
    BY <1>27, <2>3
    DEF WriteEnds, Typed, TypeOK, queueVars, ownVars, histVars
  <2>5. FramesOK'
    BY <1>27, <2>3 DEF WriteEnds, Typed, FramesOK, histVars
  <2> QED BY <2>4, <2>5 DEF Typed
<1> QED BY <1>1, <1>2, <1>3, <1>4, <1>5, <1>6, <1>7, <1>8, <1>9, <1>10,
    <1>11, <1>12, <1>13, <1>14, <1>15, <1>16, <1>17, <1>18, <1>19, <1>20,
    <1>21, <1>22, <1>23, <1>24, <1>25, <1>26, <1>27, NextCases

(* Typed holds always.                                                     *)
LEMMA TypedInvariant == Spec => []Typed
<1>1. ASSUME Init PROVE Typed
  <2>1. <<>> \in Seq(Handler) /\ <<>> \in Seq(Frames) /\ Len(<<>>) = 0
    OBVIOUS
  <2>2. HandlerOf("accept", TRUE, NoFrame) \in Handler
    BY SessionAssumption DEF HandlerOf, Handler, Ops, NoFrame
  <2>3. pc \in [Threads -> Labels] /\ pc[Main] = "loop"
        /\ \A t \in IoThreads : pc[t] = "idle"
    BY <1>1, SessionAssumption DEF Init, Threads, Labels
  <2>4. ready \in Seq(Handler) /\ mWriteQueue \in Seq(Frames)
        /\ wire \in Seq(Frames)
    BY <1>1, <2>1 DEF Init
  <2>5. published \in 0..MaxFrames /\ cur \in [IoThreads -> Handler]
        /\ writes \subseteq Frames
    <3> DEFINE h == HandlerOf("accept", TRUE, NoFrame)
    <3>1. published = 0 /\ writes = {} /\ cur = [t \in IoThreads |-> h]
      BY <1>1 DEF Init
    <3>2. h \in Handler
      BY <2>2
    <3> HIDE DEF h
    <3> QED BY <3>1, <3>2, SessionAssumption
  <2>6. TypeOK
    BY <1>1, <2>3, <2>4, <2>5 DEF Init, TypeOK
  <2>7. ready = <<>> /\ 1..Len(ready) = {}
    <3>1. ready = <<>>
      BY <1>1 DEF Init
    <3>2. Len(ready) = 0
      BY <3>1
    <3> QED BY <3>1, <3>2
  <2>8. FramesOK
    BY <2>3, <2>7 DEF FramesOK
  <2> QED BY <2>6, <2>8 DEF Typed
<1>2. Typed /\ UNCHANGED vars => Typed'
  <2>1. TypeOK /\ UNCHANGED vars => TypeOK'
    BY DEF TypeOK, vars, opVars, queueVars, ownVars, histVars
  <2>2. FramesOK /\ UNCHANGED vars => FramesOK'
    BY DEF FramesOK, vars, histVars
  <2> QED BY <2>1, <2>2 DEF Typed
<1> QED BY <1>1, <1>2, TypedNext, PTL DEF Spec

(* Every variable has its type: the frames in the handler queue, in the    *)
(* write queue, in flight and on the wire are frames that were broadcast.  *)
THEOREM TypesHold == Spec => []TypeOK
BY TypedInvariant, PTL DEF Typed



(* Posting a handler that is no write's completes no write.               *)
LEMMA NotCompleted ==
  ASSUME NEW q \in Seq(Handler), NEW h, h.op # "write"
  PROVE  \A i \in 1..Len(Append(q, h)) :
           Append(q, h)[i].op = "write" =>
             i \in 1..Len(q) /\ q[i].op = "write"
<1>1. /\ Len(Append(q, h)) = Len(q) + 1
      /\ Append(q, h)[Len(q) + 1] = h
      /\ \A i \in 1..Len(q) : Append(q, h)[i] = q[i]
  OBVIOUS
<1> QED BY <1>1

(* A step that moves no io thread and touches no frame keeps the write.    *)
LEMMA AsideKeepsWriter ==
  ASSUME WriterInv, UNCHANGED <<ready, cur, writes, mWriteQueue, mIsWriting>>,
         \A u \in IoThreads : pc'[u] = pc[u]
  PROVE  WriterInv'
<1>1. \A u \in IoThreads : (Starter(u)' <=> Starter(u))
                          /\ (Holder(u)' <=> Holder(u))
  BY DEF Starter, Holder
<1> QED BY <1>1 DEF WriterInv, StarterInv, FlagInv, PlaceInv, Completed

(* Every step keeps the write in progress in one place.                   *)
LEMMA WriterNext ==
  ASSUME Typed, WriterInv, Next
  PROVE  WriterInv'
<1>1. ASSUME NEW t \in IoThreads, Take(t)
      PROVE  WriterInv'
  <2> DEFINE h == Head(ready)
  <2>1. ready # <<>> /\ ready \in Seq(Handler)
    BY <1>1 DEF Take, Typed, TypeOK
  <2>2. h \in Handler /\ h = ready[1] /\ 1 \in 1..Len(ready)
    BY <2>1
  <2>3. Len(ready') = Len(ready) - 1
        /\ \A i \in 1..Len(ready') : ready'[i] = ready[i + 1]
    BY <1>1, <2>1 DEF Take
  <2>4. cur' = [cur EXCEPT ![t] = h] /\ pc' = [pc EXCEPT ![t] = Entry[h.op]]
    BY <1>1 DEF Take, Goto
  <2>5. Entry[h.op] \notin {"write", "pop", "start", "check", "clearWriting"}
        /\ (Entry[h.op] = "writeDone" => Completed(1))
    BY <2>2 DEF Entry, Handler, Ops, Completed
  <2>6. UNCHANGED <<writes, mIsWriting, mWriteQueue>>
    BY <1>1 DEF Take, opVars, queueVars
  <2>7. \A u \in IoThreads : (Starter(u)' => u # t /\ Starter(u))
                             /\ (Holder(u)' /\ u # t => Holder(u))
                             /\ (Holder(t)' => Completed(1))
                             /\ (pc'[u] = "pop" => pc[u] = "pop")
    BY <2>4, <2>5 DEF Starter, Holder, Typed, TypeOK, Threads
  <2>8. \A i \in 1..Len(ready') : Completed(i)' => Completed(i + 1)
                                   /\ i + 1 \in 1..Len(ready) /\ i + 1 # 1
    BY <2>1, <2>3 DEF Completed
  <2>9. StarterInv'
    BY <2>6, <2>7 DEF WriterInv, StarterInv
  <2>10. FlagInv'
    BY <2>2, <2>6, <2>7, <2>8 DEF WriterInv, FlagInv
  <2>11. Completed(1) => \A i \in 1..Len(ready') : ~Completed(i)'
    BY <2>2, <2>8 DEF WriterInv, PlaceInv
  <2>12. PlaceInv'
    <3>1. \A r, s \in IoThreads : Holder(r)' /\ Holder(s)' => r = s
      BY <2>2, <2>7 DEF WriterInv, PlaceInv
    <3>2. \A i, j \in 1..Len(ready') : Completed(i)' /\ Completed(j)' => i = j
      BY <2>8 DEF WriterInv, PlaceInv
    <3>3. \A u \in IoThreads : Holder(u)' =>
             writes' = {} /\ \A i \in 1..Len(ready') : ~Completed(i)'
      BY <2>2, <2>6, <2>7, <2>8, <2>11 DEF WriterInv, PlaceInv
    <3>4. \A i \in 1..Len(ready') : Completed(i)' => writes' = {}
      BY <2>6, <2>8 DEF WriterInv, PlaceInv
    <3> QED BY <2>6, <3>1, <3>2, <3>3, <3>4 DEF WriterInv, PlaceInv
  <2> QED BY <2>9, <2>10, <2>12 DEF WriterInv
<1>2. ASSUME NEW t \in IoThreads, Accepted(t)
      PROVE  WriterInv'
  <2>1. PICK l \in {"idle", "close", "doRead"} : pc' = [pc EXCEPT ![t] = l]
    BY <1>2 DEF Accepted, Goto
  <2>2. UNCHANGED <<ready, cur, writes, mIsWriting, mWriteQueue>>
    BY <1>2 DEF Accepted, opVars, queueVars
  <2> QED BY <2>1, <2>2
      DEF Typed, TypeOK, Threads, WriterInv, StarterInv, FlagInv, PlaceInv,
          Starter, Holder, Completed
<1>3. ASSUME NEW t \in IoThreads, Read(t)
      PROVE  WriterInv'
  BY <1>3, SessionAssumption DEF Read, At, Goto, Typed, TypeOK, FramesOK,
      WriterInv, StarterInv, FlagInv, PlaceInv, Starter, Holder, Completed,
      Threads, opVars, queueVars
<1>4. ASSUME NEW t \in IoThreads, ReadDone(t)
      PROVE  WriterInv'
  BY <1>4, SessionAssumption DEF ReadDone, At, Goto, Typed, TypeOK, FramesOK,
      WriterInv, StarterInv, FlagInv, PlaceInv, Starter, Holder, Completed,
      Threads, opVars, queueVars
<1>5. ASSUME NEW t \in IoThreads, SendEntry(t)
      PROVE  WriterInv'
  BY <1>5, SessionAssumption DEF SendEntry, At, Goto, Typed, TypeOK,
      FramesOK, WriterInv, StarterInv, FlagInv, PlaceInv, Starter, Holder,
      Completed, Threads, opVars, queueVars
<1>6. ASSUME NEW t \in IoThreads, Push(t)
      PROVE  WriterInv'
  BY SMTT(30), <1>6, SessionAssumption DEF Push, At, Handler, Goto, Typed,
      TypeOK,
      FramesOK, WriterInv, StarterInv, FlagInv, PlaceInv, Starter, Holder,
      Completed, Threads, opVars, queueVars
<1>7. ASSUME NEW t \in IoThreads, Write(t)
      PROVE  WriterInv'
  <2>1. pc[t] = "write"
    BY <1>7 DEF Write, At
  <2>2. PICK l \in {"idle", "pop"} :
           pc' = [pc EXCEPT ![t] = l] /\ (l = "pop" => ~mIsWriting)
    BY <1>7 DEF Write, Goto, WriteBlocked
  <2>3. UNCHANGED <<ready, cur, writes, mIsWriting, mWriteQueue>>
    BY <1>7 DEF Write, opVars, queueVars
  <2>4. l = "pop" => Starter(t)
    BY <2>1, <2>2 DEF WriterInv, FlagInv, Starter, Holder
  <2>5. \A u \in IoThreads : (Starter(u)' => Starter(u))
                             /\ (Holder(u)' => Holder(u))
                             /\ (pc'[u] = "pop" => ~mIsWriting)
    BY <2>2, <2>3, <2>4
    DEF Starter, Holder, Typed, TypeOK, Threads, WriterInv, StarterInv
  <2>6. \A i \in 1..Len(ready') : Completed(i)' <=> Completed(i)
    BY <2>3 DEF Completed
  <2> QED BY <2>3, <2>5, <2>6 DEF WriterInv, StarterInv, FlagInv, PlaceInv
<1>8. ASSUME NEW t \in IoThreads, Pop(t)
      PROVE  WriterInv'
  <2>1. pc[t] = "pop" /\ Starter(t) /\ ~mIsWriting /\ mWriteQueue # <<>>
    BY <1>8 DEF Pop, At, Starter, WriterInv, StarterInv
  <2>2. \A u \in IoThreads : ~Holder(u) /\ (u # t => ~Starter(u))
    BY <2>1 DEF WriterInv, StarterInv, FlagInv
  <2>3. writes = {} /\ \A i \in 1..Len(ready) : ~Completed(i)
    BY <2>1 DEF WriterInv, FlagInv
  <2>4. UNCHANGED <<ready, writes>> /\ mIsWriting' = TRUE
        /\ pc' = [pc EXCEPT ![t] = "start"]
        /\ \E h : cur' = [cur EXCEPT ![t] = h]
    BY <1>8, <2>1 DEF Pop, Goto, opVars
  <2>5. \A u \in IoThreads : ~Starter(u)' /\ (Holder(u)' => u = t)
                             /\ pc'[u] # "pop"
    BY <2>2, <2>4 DEF Starter, Holder, Typed, TypeOK, Threads
  <2>6. \A i \in 1..Len(ready') : ~Completed(i)'
    BY <2>3, <2>4 DEF Completed
  <2> QED BY <2>3, <2>4, <2>5, <2>6
      DEF WriterInv, StarterInv, FlagInv, PlaceInv
<1>9. ASSUME NEW t \in IoThreads, StartWrite(t)
      PROVE  WriterInv'
  <2>1. Holder(t) /\ mIsWriting
    BY <1>9 DEF StartWrite, At, Holder, WriterInv, FlagInv
  <2>2. writes = {} /\ (\A i \in 1..Len(ready) : ~Completed(i))
        /\ \A u \in IoThreads : Holder(u) => u = t
    BY <2>1 DEF WriterInv, PlaceInv
  <2>3. PICK l \in {"idle", "close"} :
           /\ pc' = [pc EXCEPT ![t] = l]
           /\ \/ mIsWriting' = mIsWriting /\ writes' = {cur[t].frame}
              \/ mIsWriting' = FALSE /\ writes' = {}
    BY <1>9, <2>2 DEF StartWrite, Goto
  <2>4. UNCHANGED <<ready, cur, mWriteQueue>>
    BY <1>9 DEF StartWrite
  <2>5. \A u \in IoThreads : (Starter(u)' => Starter(u)) /\ ~Holder(u)'
                             /\ (pc'[u] = "pop" => pc[u] = "pop")
    BY <2>2, <2>3, <2>4 DEF Starter, Holder, Typed, TypeOK, Threads
  <2>6. \A u \in IoThreads : pc[u] # "pop"
    BY <2>1 DEF WriterInv, StarterInv
  <2>7. \A i \in 1..Len(ready') : ~Completed(i)'
    BY <2>2, <2>4 DEF Completed
  <2> QED BY <2>1, <2>3, <2>4, <2>5, <2>6, <2>7
      DEF WriterInv, StarterInv, FlagInv, PlaceInv
<1>10. ASSUME NEW t \in IoThreads, WriteDone(t)
      PROVE  WriterInv'
  BY <1>10, SessionAssumption DEF WriteDone, At, Goto, Typed, TypeOK,
      FramesOK, WriterInv, StarterInv, FlagInv, PlaceInv, Starter, Holder,
      Completed, Threads, opVars, queueVars
<1>11. ASSUME NEW t \in IoThreads, Check(t)
      PROVE  WriterInv'
  BY <1>11, SessionAssumption DEF Check, At, Goto, Typed, TypeOK, FramesOK,
      WriterInv, StarterInv, FlagInv, PlaceInv, Starter, Holder, Completed,
      Threads, opVars, queueVars
<1>12. ASSUME NEW t \in IoThreads, ClearWriting(t)
      PROVE  WriterInv'
  BY <1>12, SessionAssumption DEF ClearWriting, At, Goto, Typed, TypeOK,
      FramesOK, WriterInv, StarterInv, FlagInv, PlaceInv, Starter, Holder,
      Completed, Threads, opVars, queueVars
<1>13. ASSUME NEW t \in IoThreads, ClosePosted(t)
      PROVE  WriterInv'
  BY <1>13, SessionAssumption DEF ClosePosted, At, Goto, Typed, TypeOK,
      FramesOK, WriterInv, StarterInv, FlagInv, PlaceInv, Starter, Holder,
      Completed, Threads, opVars, queueVars
<1>14. ASSUME NEW t \in IoThreads, RunDangling(t)
      PROVE  WriterInv'
  BY <1>14, SessionAssumption DEF RunDangling, Goto, Typed, TypeOK, FramesOK,
      WriterInv, StarterInv, FlagInv, PlaceInv, Starter, Holder, Completed,
      Threads, opVars, queueVars
<1>15. ASSUME NEW t \in Threads, CloseFlag(t)
      PROVE  WriterInv'
  <2>1. PICK l \in {"idle", "clear", "release"} : pc' = [pc EXCEPT ![t] = l]
    BY <1>15 DEF CloseFlag, AfterClose, Goto
  <2>2. UNCHANGED <<ready, cur, writes, mWriteQueue, mIsWriting>>
    BY <1>15 DEF CloseFlag, opVars, queueVars
  <2>3. \A s \in IoThreads : (Starter(s)' => Starter(s))
                            /\ (Holder(s)' => Holder(s))
                            /\ (pc'[s] = "pop" => pc[s] = "pop")
    BY <2>1, <2>2 DEF Typed, TypeOK, Threads, Starter, Holder
  <2> QED BY <2>2, <2>3
      DEF WriterInv, StarterInv, FlagInv, PlaceInv, Completed
<1>16. ASSUME NEW t \in Threads, CloseRelease(t)
      PROVE  WriterInv'
  <2> DEFINE h == HandlerOf("close", TRUE, NoFrame)
  <2>1. PICK l \in {"idle", "clear"} : pc' = [pc EXCEPT ![t] = l]
    BY <1>16 DEF CloseRelease, Goto, AfterClose
  <2>2. UNCHANGED <<cur, writes, mIsWriting, mWriteQueue>>
        /\ ready' = Append(ready, h)
    BY <1>16 DEF CloseRelease, Post, opVars, queueVars
  <2>3. h.op # "write"
    BY DEF HandlerOf
  <2>4. \A i \in 1..Len(ready') : Completed(i)' =>
           i \in 1..Len(ready) /\ Completed(i)
    BY <2>2, <2>3, NotCompleted DEF Completed, Typed, TypeOK
  <2>5. \A u \in IoThreads : (Starter(u)' => Starter(u))
                             /\ (Holder(u)' => Holder(u))
                             /\ (pc'[u] = "pop" => pc[u] = "pop")
    BY <2>1, <2>2 DEF Starter, Holder, Typed, TypeOK, Threads
  <2> QED BY <2>2, <2>4, <2>5 DEF WriterInv, StarterInv, FlagInv, PlaceInv
<1>17. ASSUME Broadcast
      PROVE  WriterInv'
  <2>1. UNCHANGED <<ready, cur, writes, mWriteQueue, mIsWriting>>
        /\ \A u \in IoThreads : pc'[u] = pc[u]
    BY <1>17, SessionAssumption DEF Broadcast, Goto, Typed, TypeOK, Threads,
       opVars, queueVars
  <2> QED BY <2>1, AsideKeepsWriter
<1>18. ASSUME Send
      PROVE  WriterInv'
  <2>1. UNCHANGED <<ready, cur, writes, mWriteQueue, mIsWriting>>
        /\ \A u \in IoThreads : pc'[u] = pc[u]
    BY <1>18, SessionAssumption DEF Send, Goto, Typed, TypeOK, Threads,
       opVars, queueVars
  <2> QED BY <2>1, AsideKeepsWriter
<1>19. ASSUME PostFrame
      PROVE  WriterInv'
  <2> DEFINE h == HandlerOf("send", TRUE, published)
  <2>1. pc' = [pc EXCEPT ![Main] = "drop"]
    BY <1>19 DEF PostFrame, Goto
  <2>2. UNCHANGED <<cur, writes, mIsWriting, mWriteQueue>>
        /\ ready' = Append(ready, h)
    BY <1>19 DEF PostFrame, Post, opVars, queueVars
  <2>3. h.op # "write"
    BY DEF HandlerOf
  <2>4. \A i \in 1..Len(ready') : Completed(i)' =>
           i \in 1..Len(ready) /\ Completed(i)
    BY <2>2, <2>3, NotCompleted DEF Completed, Typed, TypeOK
  <2>5. \A u \in IoThreads : (Starter(u)' => Starter(u))
                             /\ (Holder(u)' => Holder(u))
                             /\ (pc'[u] = "pop" => pc[u] = "pop")
    BY <2>1, <2>2, SessionAssumption
    DEF Starter, Holder, Typed, TypeOK, Threads
  <2> QED BY <2>2, <2>4, <2>5 DEF WriterInv, StarterInv, FlagInv, PlaceInv
<1>20. ASSUME DropCopy
      PROVE  WriterInv'
  <2>1. UNCHANGED <<ready, cur, writes, mWriteQueue, mIsWriting>>
        /\ \A u \in IoThreads : pc'[u] = pc[u]
    BY <1>20, SessionAssumption DEF DropCopy, Goto, Typed, TypeOK, Threads,
       opVars, queueVars
  <2> QED BY <2>1, AsideKeepsWriter
<1>21. ASSUME StopCopy
      PROVE  WriterInv'
  <2>1. UNCHANGED <<ready, cur, writes, mWriteQueue, mIsWriting>>
        /\ \A u \in IoThreads : pc'[u] = pc[u]
    BY <1>21, SessionAssumption DEF StopCopy, Goto, Typed, TypeOK, Threads,
       opVars, queueVars
  <2> QED BY <2>1, AsideKeepsWriter
<1>22. ASSUME ClearSessions
      PROVE  WriterInv'
  <2>1. UNCHANGED <<ready, cur, writes, mWriteQueue, mIsWriting>>
        /\ \A u \in IoThreads : pc'[u] = pc[u]
    BY <1>22, SessionAssumption DEF ClearSessions, Goto, Typed, TypeOK, Threads,
       opVars, queueVars
  <2> QED BY <2>1, AsideKeepsWriter
<1>23. ASSUME Join
      PROVE  WriterInv'
  <2>1. UNCHANGED <<ready, cur, writes, mWriteQueue, mIsWriting>>
        /\ \A u \in IoThreads : pc'[u] = pc[u]
    BY <1>23, SessionAssumption DEF Join, Goto, Typed, TypeOK, Threads,
       opVars, queueVars
  <2> QED BY <2>1, AsideKeepsWriter
<1>24. ASSUME CloseEnds
      PROVE  WriterInv'
  BY <1>24, AsideKeepsWriter DEF CloseEnds, queueVars
<1>25. ASSUME NEW ok \in BOOLEAN, HandshakeEnds(ok)
      PROVE  WriterInv'
  BY <1>25, SessionAssumption DEF HandshakeEnds, Post, HandlerOf, Handler,
      Ops, NoFrame, Typed, TypeOK, FramesOK, WriterInv, StarterInv, FlagInv,
      PlaceInv, Starter, Holder, Completed, Threads, opVars, queueVars
<1>26. ASSUME NEW ok \in BOOLEAN, ReadEnds(ok)
      PROVE  WriterInv'
  BY SMTT(30), <1>26, SessionAssumption DEF ReadEnds, Post, HandlerOf, Handler,
      Ops, NoFrame, Typed, TypeOK, FramesOK, WriterInv, StarterInv, FlagInv,
      PlaceInv, Starter, Holder, Completed, Threads, opVars, queueVars
<1>27. ASSUME NEW f \in Frames, NEW ok \in BOOLEAN, WriteEnds(f, ok)
      PROVE  WriterInv'
  BY <1>27, SessionAssumption DEF WriteEnds, Post, HandlerOf, Handler, Ops,
      Typed, TypeOK, FramesOK, WriterInv, StarterInv, FlagInv, PlaceInv,
      Starter, Holder, Completed, Threads, opVars, queueVars
<1> QED BY <1>1, <1>2, <1>3, <1>4, <1>5, <1>6, <1>7, <1>8, <1>9, <1>10,
    <1>11, <1>12, <1>13, <1>14, <1>15, <1>16, <1>17, <1>18, <1>19, <1>20,
    <1>21, <1>22, <1>23, <1>24, <1>25, <1>26, <1>27, NextCases

(* The argument that carries SingleWriter holds in every reachable state.  *)
THEOREM WriterInvariant == Spec => []WriterInv
<1>1. ASSUME Init PROVE WriterInv
  <2>1. \A t \in IoThreads : pc[t] = "idle"
    BY <1>1, SessionAssumption DEF Init, Threads
  <2>2. 1..Len(ready) = {}
    <3>1. ready = <<>>
      BY <1>1 DEF Init
    <3>2. Len(ready) = 0
      BY <3>1
    <3> QED BY <3>2
  <2>3. writes = {}
    BY <1>1 DEF Init
  <2> QED BY <2>1, <2>2, <2>3
      DEF WriterInv, StarterInv, FlagInv, PlaceInv, Starter, Holder
<1>2. WriterInv /\ UNCHANGED vars => WriterInv'
  BY DEF vars, opVars, queueVars, WriterInv, StarterInv, FlagInv, PlaceInv,
         Starter, Holder, Completed
<1> QED BY <1>1, <1>2, TypedInvariant, WriterNext, PTL DEF Spec

(* Beast's rule for async_write: whatever the number of io threads and the *)
(* order in which sends, completions, failures and closes meet, a session  *)
(* never starts a write while another is outstanding.                      *)
THEOREM OneWriter == Spec => []SingleWriter
<1>1. WriterInv => SingleWriter
  BY DEF WriterInv, PlaceInv, SingleWriter
<1> QED BY <1>1, WriterInvariant, PTL

-----------------------------------------------------------------------------
(* One io thread, as Server::Application starts the server (IServer.h:15,  *)
(* Server/Application.cpp:99-116): what follows is about that one.         *)
OneThread == \A s, t \in IoThreads : s = t

(* The closing lambda has been posted by whoever set mIsClosing, and no    *)
(* thread is between the test of write() and async_write once it has run.  *)
QuietInv ==
  /\ ~mSelfPtr => mIsClosing
  /\ \A i \in 1..Len(ready) : ready[i].op = "close" => mIsClosing
  /\ \A t \in IoThreads : pc[t] = "closePosted" => mIsClosing
  /\ \A t \in Threads : pc[t] = "release" => mIsClosing
  /\ \A t \in IoThreads : pc[t] \in {"pop", "start"} => mSelfPtr

(* The frames of a viewer, from the broadcast to the wire: those that      *)
(* send() has posted, the one its lambda brings to the queue, those in     *)
(* mWriteQueue, the one that write() has taken out, those written.         *)
Sent == IF pc[Main] \in {"send", "post"} THEN published - 1 ELSE published
Posted == {ready[i].frame : i \in {j \in 1..Len(ready) : ready[j].op = "send"}}
Arriving ==
  {cur[t].frame : t \in {s \in IoThreads : pc[s] \in {"sendEntry", "push"}}}
Queued == {mWriteQueue[i] : i \in 1..Len(mWriteQueue)}
Leaving ==
  writes \cup {cur[t].frame : t \in {s \in IoThreads : pc[s] = "start"}}
Written == {wire[i] : i \in 1..Len(wire)}

Before(S, T) == \A f \in S, g \in T : f < g

(* A frame that is further on its way is an older one.                     *)
StagesInv ==
  /\ Before(Written, Leaving \cup Queued \cup Arriving \cup Posted)
  /\ Before(Leaving, Queued \cup Arriving \cup Posted)
  /\ Before(Queued, Arriving \cup Posted)
  /\ Before(Arriving, Posted)
  /\ \A f \in Written \cup Leaving \cup Queued \cup Arriving \cup Posted :
       f <= Sent

(* mIoContext's queue and mWriteQueue keep the order of the broadcasts.    *)
QueuesInv ==
  /\ \A i, j \in 1..Len(ready) :
       i < j /\ ready[i].op = "send" /\ ready[j].op = "send" =>
         ready[i].frame < ready[j].frame
  /\ \A i, j \in 1..Len(mWriteQueue) : i < j => mWriteQueue[i] < mWriteQueue[j]

OrderInv == StagesInv /\ QueuesInv

(* A handler that is appended to mIoContext's queue, seen index by index.  *)
LEMMA Posting ==
  ASSUME ready \in Seq(Handler), NEW h \in Handler, ready' = Append(ready, h)
  PROVE  /\ ready' \in Seq(Handler) /\ Len(ready') = Len(ready) + 1
         /\ ready'[Len(ready) + 1] = h
         /\ \A i \in 1..Len(ready) : ready'[i] = ready[i]
         /\ Len(ready) \in Nat
  OBVIOUS

(* Taking the oldest handler, seen index by index.                         *)
LEMMA Taking ==
  ASSUME ready \in Seq(Handler), ready # <<>>, ready' = Tail(ready)
  PROVE  /\ ready' \in Seq(Handler) /\ Len(ready') = Len(ready) - 1
         /\ \A i \in 1..Len(ready') :
              ready'[i] = ready[i + 1] /\ i + 1 \in 1..Len(ready)
         /\ Head(ready) = ready[1] /\ 1 \in 1..Len(ready)
         /\ ready[1] \in Handler /\ Len(ready) \in Nat
  OBVIOUS

(* The handlers that are posted are well-formed.                           *)
LEMMA HandlerTyped ==
  ASSUME NEW op \in Ops, NEW ok \in BOOLEAN, NEW frame \in 0..MaxFrames
  PROVE  /\ HandlerOf(op, ok, frame) \in Handler
         /\ HandlerOf(op, ok, frame).op = op
         /\ HandlerOf(op, ok, frame).frame = frame
  BY DEF HandlerOf, Handler

(* What the network posts is the completion of its operation.              *)
LEMMA NetworkPosts ==
  ASSUME Typed, Network, ready' # ready
  PROVE  \E h \in Handler : /\ ready' = Append(ready, h)
                            /\ h.op \notin {"send", "close"}
<1>0. /\ 0 \in 0..MaxFrames /\ Frames \subseteq 0..MaxFrames
      /\ {"accept", "read", "write"} \subseteq Ops
  BY SessionAssumption DEF Frames, Ops
<1>1. ASSUME NEW ok \in BOOLEAN, HandshakeEnds(ok) \/ ReadEnds(ok)
      PROVE  \E h \in Handler : /\ ready' = Append(ready, h)
                                /\ h.op \notin {"send", "close"}
  BY <1>0, <1>1, HandlerTyped DEF HandshakeEnds, ReadEnds, Post, NoFrame
<1>2. ASSUME NEW f \in Frames, NEW ok \in BOOLEAN, WriteEnds(f, ok)
      PROVE  \E h \in Handler : /\ ready' = Append(ready, h)
                                /\ h.op \notin {"send", "close"}
  BY <1>0, <1>2, HandlerTyped DEF WriteEnds, Post
<1>3. ~CloseEnds
  BY DEF CloseEnds
<1> QED BY <1>1, <1>2, <1>3 DEF Network

(* What a step of the network leaves alone.                                *)
LEMMA NetworkAside ==
  ASSUME Network
  PROVE  UNCHANGED <<pc, cur, mIsClosing, mIsWriting, mWriteQueue, mSelfPtr,
                     listed, held, published>>
  BY DEF Network, HandshakeEnds, ReadEnds, WriteEnds, CloseEnds, queueVars,
     ownVars, histVars

(* With one io thread no handler is half-way when the closing lambda runs. *)
LEMMA QuietNext ==
  ASSUME OneThread, Typed, QuietInv, Next
  PROVE  QuietInv'
<1> USE DEF Typed, TypeOK, Threads
<1>0. /\ Main \notin IoThreads /\ ready \in Seq(Handler)
      /\ \A t \in IoThreads : pc[t] \in Labels
  BY SessionAssumption
<1>1. ASSUME NEW t \in IoThreads, Take(t)
      PROVE  QuietInv'
  <2>1. /\ ready # <<>> /\ ready' = Tail(ready)
        /\ pc' = [pc EXCEPT ![t] = Entry[Head(ready).op]]
        /\ UNCHANGED <<mSelfPtr, mIsClosing>>
    BY <1>1 DEF Take, Goto, ownVars
  <2>2. Entry[Head(ready).op] \notin {"release", "pop", "start"}
        /\ (Entry[Head(ready).op] = "closePosted" => ready[1].op = "close")
    BY <2>1, Taking DEF Entry, Handler, Ops
  <2>3. /\ \A i \in 1..Len(ready') :
             ready'[i] = ready[i + 1] /\ i + 1 \in 1..Len(ready)
        /\ 1 \in 1..Len(ready)
    BY <2>1, Taking
  <2> QED BY <1>0, <2>1, <2>2, <2>3 DEF QuietInv
<1>2. ASSUME NEW t \in IoThreads,
             Accepted(t) \/ Read(t) \/ ReadDone(t) \/ SendEntry(t) \/ Push(t)
      PROVE  QuietInv'
  <2>1. PICK l \in {"idle", "close", "doRead", "push", "write"} :
          pc' = [pc EXCEPT ![t] = l]
    BY <1>2 DEF Accepted, Read, ReadDone, SendEntry, Push, Goto
  <2>2. UNCHANGED <<ready, mSelfPtr, mIsClosing>>
    BY <1>2 DEF Accepted, Read, ReadDone, SendEntry, Push, ownVars
  <2> QED BY <1>0, <2>1, <2>2 DEF QuietInv
<1>3. ASSUME NEW t \in IoThreads, Write(t) \/ Pop(t)
      PROVE  QuietInv'
  <2>1. PICK l \in {"idle", "pop", "start"} : pc' = [pc EXCEPT ![t] = l]
    BY <1>3 DEF Write, Pop, Goto
  <2>2. UNCHANGED <<ready, mSelfPtr, mIsClosing>>
    BY <1>3 DEF Write, Pop, ownVars
  <2>3. l # "idle" => mSelfPtr
    BY <1>0, <1>3, <2>1 DEF Write, Pop, At, Goto, WriteBlocked, QuietInv
  <2> QED BY <1>0, <2>1, <2>2, <2>3 DEF QuietInv
<1>4. ASSUME NEW t \in IoThreads,
             StartWrite(t) \/ WriteDone(t) \/ Check(t) \/ ClearWriting(t)
               \/ RunDangling(t)
      PROVE  QuietInv'
  <2>1. pc' = pc \/ \E l \in {"idle", "close", "check", "clearWriting",
                              "write"} : pc' = [pc EXCEPT ![t] = l]
    BY <1>4 DEF StartWrite, WriteDone, Check, ClearWriting, RunDangling, Goto
  <2>2. UNCHANGED <<ready, mSelfPtr, mIsClosing>>
    BY <1>4 DEF StartWrite, WriteDone, Check, ClearWriting, RunDangling, ownVars
  <2> QED BY <1>0, <2>1, <2>2 DEF QuietInv
<1>5. ASSUME NEW t \in IoThreads, ClosePosted(t)
      PROVE  QuietInv'
  <2>1. /\ pc[t] = "closePosted" /\ pc' = [pc EXCEPT ![t] = "idle"]
        /\ UNCHANGED <<ready, mIsClosing>>
    BY <1>5 DEF ClosePosted, At, Goto
  <2>2. \A s \in IoThreads : pc'[s] = "idle"
    BY <2>1 DEF OneThread
  <2> QED BY <1>0, <2>1, <2>2 DEF QuietInv
<1>6. ASSUME NEW t \in Threads, CloseFlag(t)
      PROVE  QuietInv'
  <2>1. PICK l \in {"idle", "clear", "release"} : pc' = [pc EXCEPT ![t] = l]
    BY <1>6 DEF CloseFlag, Goto, AfterClose
  <2>2. mIsClosing' /\ UNCHANGED <<ready, mSelfPtr>>
    BY <1>6 DEF CloseFlag, ownVars
  <2> QED BY <1>0, <2>1, <2>2 DEF QuietInv
<1>7. ASSUME NEW t \in Threads, CloseRelease(t)
      PROVE  QuietInv'
  <2>1. PICK l \in {"idle", "clear"} : pc' = [pc EXCEPT ![t] = l]
    BY <1>7 DEF CloseRelease, Goto, AfterClose
  <2>2. mIsClosing /\ UNCHANGED <<mIsClosing, mSelfPtr>>
    BY <1>7 DEF CloseRelease, At, QuietInv
  <2> QED BY <1>0, <2>1, <2>2 DEF QuietInv
<1>8. ASSUME Broadcast \/ Send \/ DropCopy \/ StopCopy \/ ClearSessions \/ Join
      PROVE  QuietInv'
  <2>1. PICK l \in Labels \ {"release"} : pc' = [pc EXCEPT ![Main] = l]
    BY <1>8 DEF Broadcast, Send, DropCopy, StopCopy, ClearSessions, Join, Goto,
       Labels
  <2>2. UNCHANGED <<ready, mSelfPtr, mIsClosing>>
    BY <1>8 DEF Broadcast, Send, DropCopy, StopCopy, ClearSessions, Join,
       ownVars
  <2> QED BY <1>0, <2>1, <2>2 DEF QuietInv
<1>9. ASSUME PostFrame
      PROVE  QuietInv'
  <2>1. /\ ready' = Append(ready, HandlerOf("send", TRUE, published))
        /\ pc' = [pc EXCEPT ![Main] = "drop"]
        /\ UNCHANGED <<mSelfPtr, mIsClosing>>
    BY <1>9 DEF PostFrame, Post, Goto, ownVars
  <2>2. PICK h \in Handler : h.op = "send" /\ ready' = Append(ready, h)
    <3>1. "send" \in Ops /\ TRUE \in BOOLEAN /\ published \in 0..MaxFrames
      BY DEF Ops
    <3> QED BY <2>1, <3>1, HandlerTyped
  <2>3. \A i \in 1..Len(ready') :
          ready'[i].op = "close" =>
            i \in 1..Len(ready) /\ ready[i].op = "close"
    BY <1>0, <2>2, Posting
  <2> QED BY <1>0, <2>1, <2>3 DEF QuietInv
<1>10. ASSUME Network
       PROVE  QuietInv'
  <2>1. UNCHANGED <<pc, mSelfPtr, mIsClosing>>
    BY <1>10, NetworkAside
  <2>2. \A i \in 1..Len(ready') :
          ready'[i].op = "close" =>
            i \in 1..Len(ready) /\ ready[i].op = "close"
    <3>1. CASE ready' = ready
      BY <3>1
    <3>2. CASE ready' # ready
      BY <1>0, <1>10, <3>2, NetworkPosts, Posting
    <3> QED BY <3>1, <3>2
  <2> QED BY <1>0, <2>1, <2>2 DEF QuietInv
<1> QED
  BY <1>1, <1>2, <1>3, <1>4, <1>5, <1>6, <1>7, <1>8, <1>9, <1>10
  DEF Next, IoStep, Step, MainStep

(* QuietInv holds always.                                                  *)
LEMMA QuietInvariant ==
  ASSUME OneThread
  PROVE  Spec => []QuietInv
<1>1. ASSUME Init
      PROVE  QuietInv
  <2>1. pc[Main] = "loop" /\ \A t \in IoThreads : pc[t] = "idle"
    BY <1>1, SessionAssumption DEF Init, Threads
  <2>2. mSelfPtr /\ Len(ready) = 0
    BY <1>1 DEF Init
  <2> QED BY <2>1, <2>2 DEF QuietInv, Threads
<1>2. QuietInv /\ UNCHANGED vars => QuietInv'
  BY DEF QuietInv, vars, ownVars
<1>3. Typed /\ QuietInv /\ [Next]_vars => QuietInv'
  BY <1>2, QuietNext
<1> QED BY <1>1, <1>3, TypedInvariant, PTL DEF Spec

(* Once the closing lambda has run, no handler starts a read or a write on *)
(* the stream: every one of them tests mIsClosing first, and with one io   *)
(* thread none is between its test and its call (Session.cpp:65-160).      *)
THEOREM ClosedIsQuiet ==
  ASSUME OneThread
  PROVE  Spec => QuietAfterClose
<1>1. ASSUME Typed, QuietInv, [Next]_vars
      PROVE  [~mSelfPtr => writes' \subseteq writes
                           /\ (reading' => reading)]_vars
  <2> SUFFICES ASSUME Next, ~mSelfPtr
               PROVE  writes' \subseteq writes /\ (reading' => reading)
    BY <1>1
  <2>1. mIsClosing /\ \A t \in IoThreads : pc[t] # "start"
    BY <1>1 DEF QuietInv
  <2>2. ASSUME NEW t \in IoThreads, Read(t)
        PROVE  writes' = writes /\ reading' = reading
    BY <1>1, <2>1, <2>2 DEF Read, Typed, TypeOK
  <2>3. \A t \in IoThreads : ~StartWrite(t)
    BY <2>1 DEF StartWrite, At
  <2>4. ASSUME NEW t \in IoThreads,
               \/ Take(t) \/ Accepted(t) \/ ReadDone(t) \/ SendEntry(t)
               \/ Push(t) \/ Write(t) \/ Pop(t) \/ WriteDone(t) \/ Check(t)
               \/ ClearWriting(t) \/ ClosePosted(t) \/ RunDangling(t)
        PROVE  writes' = writes /\ reading' = reading
    BY <2>4 DEF Take, Accepted, ReadDone, SendEntry, Push, Write, Pop,
       WriteDone, Check, ClearWriting, ClosePosted, RunDangling, opVars
  <2>5. ASSUME NEW t \in Threads, CloseFlag(t) \/ CloseRelease(t)
        PROVE  writes' = writes /\ reading' = reading
    BY <2>5 DEF CloseFlag, CloseRelease, opVars
  <2>6. ASSUME Broadcast \/ Send \/ PostFrame \/ DropCopy \/ StopCopy
               \/ ClearSessions \/ Join
        PROVE  writes' = writes /\ reading' = reading
    BY <2>6 DEF Broadcast, Send, PostFrame, DropCopy, StopCopy, ClearSessions,
       Join, opVars
  <2>7. ASSUME Network
        PROVE  writes' \subseteq writes /\ (reading' => reading)
    BY <2>7 DEF Network, HandshakeEnds, ReadEnds, WriteEnds, CloseEnds
  <2> QED BY NextCases, <2>2, <2>3, <2>4, <2>5, <2>6, <2>7 DEF Network
<1> QED BY <1>1, TypedInvariant, QuietInvariant, PTL DEF Spec, QuietAfterClose

-----------------------------------------------------------------------------
(* The frames on their way, one by one.                                    *)
LEMMA Members ==
  /\ \A f : f \in Posted <=>
       \E i \in 1..Len(ready) : ready[i].op = "send" /\ ready[i].frame = f
  /\ \A f : f \in Arriving <=>
       \E t \in IoThreads : pc[t] \in {"sendEntry", "push"} /\ cur[t].frame = f
  /\ \A f : f \in Queued <=> \E i \in 1..Len(mWriteQueue) : mWriteQueue[i] = f
  /\ \A f : f \in Leaving <=>
       f \in writes \/ \E t \in IoThreads : pc[t] = "start" /\ cur[t].frame = f
  /\ \A f : f \in Written <=> \E i \in 1..Len(wire) : wire[i] = f
  BY DEF Posted, Arriving, Queued, Leaving, Written

(* They are frames that were broadcast.                                    *)
LEMMA StagesTyped ==
  ASSUME Typed
  PROVE  /\ Posted \subseteq Nat /\ Arriving \subseteq Nat
         /\ Queued \subseteq Nat /\ Leaving \subseteq Nat
         /\ Written \subseteq Nat
         /\ Sent \in Nat
<1> USE DEF Typed, TypeOK, FramesOK, Frames
<1>1. Posted \subseteq Nat /\ Arriving \subseteq Nat
  BY SessionAssumption DEF Posted, Arriving
<1>2. Queued \subseteq Nat
  BY SessionAssumption DEF Queued
<1>3. Leaving \subseteq Nat
  <2>1. writes \subseteq Nat
    BY SessionAssumption
  <2>2. \A t \in IoThreads : pc[t] = "start" => cur[t].frame \in Nat
    BY SessionAssumption
  <2>3. ASSUME NEW f \in Leaving
        PROVE  f \in writes
               \/ \E t \in IoThreads : pc[t] = "start" /\ cur[t].frame = f
    BY <2>3 DEF Leaving
  <2> HIDE DEF Typed, TypeOK, FramesOK, Frames
  <2> QED BY <2>1, <2>2, <2>3
<1>4. Written \subseteq Nat
  BY SessionAssumption DEF Written
<1>5. Sent \in Nat
  BY SessionAssumption DEF Sent
<1> QED BY <1>1, <1>2, <1>3, <1>4, <1>5

(* Frames that leave the stages, and new broadcasts, keep the order.       *)
LEMMA Shrinking ==
  ASSUME Typed, Typed', StagesInv, Written' \subseteq Written,
         Leaving' \subseteq Leaving, Queued' \subseteq Queued,
         Arriving' \subseteq Arriving, Posted' \subseteq Posted, Sent <= Sent'
  PROVE  StagesInv'
<1>0. Sent' \in Nat
  <2>1. published' \in Nat
    BY SessionAssumption DEF Typed, TypeOK
  <2>2. pc'[Main] \in {"send", "post"} => published' - 1 \in Nat
    BY SessionAssumption DEF Typed, FramesOK, Frames
  <2> QED BY <2>1, <2>2 DEF Sent
<1>1. \A f \in Written' \cup Leaving' \cup Queued' \cup Arriving' \cup Posted' :
        f \in Nat /\ f <= Sent /\ Sent \in Nat /\ Sent' \in Nat
  BY <1>0, StagesTyped DEF StagesInv
<1> QED BY <1>1 DEF StagesInv, Before

(* A handler other than send()'s lambda is posted, or none is.             *)
PostsNoFrame ==
  ready' = ready \/ \E h \in Handler : /\ ready' = Append(ready, h)
                                       /\ h.op # "send"

(* A step that posts none keeps the order of those that are posted.        *)
LEMMA NoFramePosted ==
  ASSUME Typed, QueuesInv, PostsNoFrame
  PROVE  /\ Posted' = Posted
         /\ mWriteQueue' = mWriteQueue => QueuesInv'
<1>1. CASE ready' = ready
  BY <1>1 DEF Posted, QueuesInv
<1>2. ASSUME NEW h \in Handler, ready' = Append(ready, h), h.op # "send"
      PROVE  /\ Posted' = Posted
             /\ mWriteQueue' = mWriteQueue => QueuesInv'
  <2>1. /\ Len(ready') = Len(ready) + 1 /\ ready'[Len(ready) + 1] = h
        /\ \A i \in 1..Len(ready) : ready'[i] = ready[i]
        /\ Len(ready) \in Nat
    BY <1>2, Posting DEF Typed, TypeOK
  <2>2. \A i \in 1..Len(ready') : ready'[i].op = "send" =>
          i \in 1..Len(ready) /\ ready'[i] = ready[i]
    BY <1>2, <2>1
  <2>3. 1..Len(ready) \subseteq 1..Len(ready')
    BY <2>1
  <2>4. Posted' = Posted
    BY <2>1, <2>2, <2>3 DEF Posted
  <2> QED BY <2>2, <2>4 DEF QueuesInv
<1> QED BY <1>1, <1>2 DEF PostsNoFrame

(* The steps after which no frame is further on its way than before.       *)
Aside ==
  /\ PostsNoFrame
  /\ UNCHANGED <<mWriteQueue, published, wire>>
  /\ writes' \subseteq writes
  /\ Sent <= Sent'
  /\ \A t \in IoThreads :
       /\ pc'[t] \in {"sendEntry", "push"} =>
            pc[t] \in {"sendEntry", "push"} /\ cur'[t] = cur[t]
       /\ pc'[t] = "start" => pc[t] = "start" /\ cur'[t] = cur[t]

(* They keep every frame behind the older ones.                            *)
LEMMA AsideKeepsOrder ==
  ASSUME Typed, Typed', OrderInv, Aside
  PROVE  OrderInv'
<1>1. Posted' = Posted /\ QueuesInv'
  BY NoFramePosted DEF Aside, OrderInv
<1>2. Written' = Written /\ Queued' = Queued
  BY DEF Aside, Written, Queued
<1>3. Leaving' \subseteq Leaving
  BY DEF Aside, Leaving
<1>4. Arriving' \subseteq Arriving
  BY DEF Aside, Arriving
<1>5. StagesInv'
  BY <1>1, <1>2, <1>3, <1>4, Shrinking DEF Aside, OrderInv
<1> QED BY <1>1, <1>5 DEF OrderInv

(* The steps of the session as the viewer's stream sees them.              *)
LEMMA StreamCases ==
  ASSUME Typed, Next
  PROVE  \/ Aside
         \/ Broadcast \/ PostFrame
         \/ \E t \in IoThreads : Take(t) \/ Push(t) \/ Pop(t) \/ StartWrite(t)
         \/ \E f \in Frames, ok \in BOOLEAN : WriteEnds(f, ok)
<1> USE DEF Typed, TypeOK, Threads
<1>0. /\ Main \notin IoThreads /\ ready \in Seq(Handler)
      /\ published \in Nat
  BY SessionAssumption
<1>1. ASSUME NEW t \in IoThreads,
             \/ Accepted(t) \/ Read(t) \/ ReadDone(t) \/ SendEntry(t)
             \/ Write(t) \/ WriteDone(t) \/ Check(t) \/ ClearWriting(t)
             \/ ClosePosted(t) \/ RunDangling(t)
      PROVE  Aside
  <2>1. \/ pc' = pc
        \/ /\ pc[t] = "sendEntry" /\ pc' = [pc EXCEPT ![t] = "push"]
        \/ \E l \in {"idle", "close", "doRead", "pop", "check",
                     "clearWriting", "write"} : pc' = [pc EXCEPT ![t] = l]
    BY <1>1 DEF Accepted, Read, ReadDone, SendEntry, Write, WriteDone, Check,
       ClearWriting, ClosePosted, RunDangling, At, Goto
  <2>2. UNCHANGED <<ready, cur, writes, mWriteQueue, published, wire>>
    BY <1>1 DEF Accepted, Read, ReadDone, SendEntry, Write, WriteDone, Check,
       ClearWriting, ClosePosted, RunDangling, opVars, queueVars, histVars
  <2>3. Sent' = Sent
    BY <1>0, <2>1, <2>2 DEF Sent
  <2> QED BY <1>0, <2>1, <2>2, <2>3, StagesTyped DEF Aside, PostsNoFrame
<1>2. ASSUME NEW t \in Threads, CloseFlag(t)
      PROVE  Aside
  <2>1. PICK l \in {"idle", "clear", "release"} : pc' = [pc EXCEPT ![t] = l]
    BY <1>2 DEF CloseFlag, Goto, AfterClose
  <2>2. /\ UNCHANGED <<ready, cur, writes, mWriteQueue, published, wire>>
        /\ pc[t] = "close"
    BY <1>2 DEF CloseFlag, At, opVars, queueVars, histVars
  <2>3. Sent' = Sent
    BY <1>0, <2>1, <2>2 DEF Sent
  <2> QED BY <1>0, <2>1, <2>2, <2>3, StagesTyped DEF Aside, PostsNoFrame
<1>3. ASSUME NEW t \in Threads, CloseRelease(t)
      PROVE  Aside
  <2>1. PICK l \in {"idle", "clear"} : pc' = [pc EXCEPT ![t] = l]
    BY <1>3 DEF CloseRelease, Goto, AfterClose
  <2>2. /\ UNCHANGED <<cur, writes, mWriteQueue, published, wire>>
        /\ pc[t] = "release"
        /\ ready' = Append(ready, HandlerOf("close", TRUE, NoFrame))
    BY <1>3 DEF CloseRelease, At, Post, opVars, queueVars, histVars
  <2>3. PostsNoFrame
    <3>1. "close" \in Ops /\ TRUE \in BOOLEAN /\ NoFrame \in 0..MaxFrames
      BY SessionAssumption DEF Ops, NoFrame
    <3>2. PICK h \in Handler : h.op = "close" /\ ready' = Append(ready, h)
      BY <2>2, <3>1, HandlerTyped
    <3> QED BY <3>2 DEF PostsNoFrame
  <2>4. Sent' = Sent
    BY <1>0, <2>1, <2>2 DEF Sent
  <2> QED BY <1>0, <2>1, <2>2, <2>3, <2>4, StagesTyped DEF Aside
<1>4. ASSUME Send \/ DropCopy \/ StopCopy \/ ClearSessions \/ Join
      PROVE  Aside
  <2>1. PICK l \in Labels : pc' = [pc EXCEPT ![Main] = l]
    BY <1>4 DEF Send, DropCopy, StopCopy, ClearSessions, Join, Goto, Labels
  <2>2. UNCHANGED <<ready, cur, writes, mWriteQueue, published, wire>>
    BY <1>4 DEF Send, DropCopy, StopCopy, ClearSessions, Join, opVars,
       queueVars, histVars
  <2>3. pc'[Main] \in {"send", "post"} => pc[Main] = "send"
    BY <1>4 DEF Send, DropCopy, StopCopy, ClearSessions, Join, Goto
  <2>4. Sent <= Sent'
    BY <1>0, <2>2, <2>3 DEF Sent
  <2> QED BY <1>0, <2>1, <2>2, <2>4 DEF Aside, PostsNoFrame
<1>5. ASSUME Network
      PROVE  Aside \/ \E f \in Frames, ok \in BOOLEAN : WriteEnds(f, ok)
  <2> SUFFICES ASSUME \A f \in Frames, ok \in BOOLEAN : ~WriteEnds(f, ok)
               PROVE  Aside
    OBVIOUS
  <2>1. UNCHANGED <<pc, cur, mWriteQueue, published>>
    BY <1>5, NetworkAside
  <2>2. UNCHANGED <<writes, wire>>
    BY <1>5 DEF Network, HandshakeEnds, ReadEnds, CloseEnds, histVars
  <2>3. PostsNoFrame
    BY <1>5, NetworkPosts DEF PostsNoFrame
  <2>4. Sent' = Sent
    BY <2>1 DEF Sent
  <2> QED BY <2>1, <2>2, <2>3, <2>4, StagesTyped DEF Aside
<1> QED
  BY <1>1, <1>2, <1>3, <1>4, <1>5 DEF Next, IoStep, Step, MainStep

(* mIoContext.run() takes the oldest of the posted frames to the queue.    *)
LEMMA TakeKeepsOrder ==
  ASSUME OneThread, Typed, Typed', OrderInv, NEW t \in IoThreads, Take(t)
  PROVE  OrderInv'
<1>1. /\ ready # <<>> /\ ready' = Tail(ready)
      /\ pc' = [pc EXCEPT ![t] = Entry[Head(ready).op]]
      /\ cur' = [cur EXCEPT ![t] = Head(ready)]
      /\ UNCHANGED <<writes, mWriteQueue, published, wire>>
  BY DEF Take, Goto, opVars, queueVars, histVars
<1>2. /\ Len(ready') = Len(ready) - 1
      /\ \A i \in 1..Len(ready') :
           ready'[i] = ready[i + 1] /\ i + 1 \in 1..Len(ready)
      /\ Head(ready) = ready[1] /\ 1 \in 1..Len(ready)
      /\ ready[1] \in Handler /\ Len(ready) \in Nat
  BY <1>1, Taking DEF Typed, TypeOK
<1>3. pc'[t] = Entry[ready[1].op] /\ cur'[t] = ready[1]
      /\ \A s \in IoThreads : s = t
  BY <1>1, <1>2 DEF Typed, TypeOK, Threads, OneThread
<1>4. /\ Entry[ready[1].op] # "start"
      /\ Entry[ready[1].op] \in {"sendEntry", "push"} => ready[1].op = "send"
  BY <1>2 DEF Entry, Handler, Ops
<1>5. Arriving' \subseteq Posted
      /\ \A f \in Arriving' : ready[1].op = "send" /\ f = ready[1].frame
  BY <1>2, <1>3, <1>4 DEF Arriving, Posted
<1>6. Leaving' \subseteq Leaving
  BY <1>1, <1>3, <1>4 DEF Leaving
<1>7. Written' = Written /\ Queued' = Queued
  BY <1>1 DEF Written, Queued
<1>8. \A f \in Posted' : \E i \in 1..Len(ready') :
        ready'[i].op = "send" /\ ready'[i].frame = f
  BY DEF Posted
<1>9. Posted' \subseteq Posted
  BY <1>2, <1>8 DEF Posted
<1>10. Before(Arriving', Posted')
  <2> SUFFICES ASSUME NEW f \in Arriving', NEW g \in Posted'
               PROVE  f < g
    BY DEF Before
  <2>1. PICK i \in 1..Len(ready') :
          ready[i + 1].op = "send" /\ ready[i + 1].frame = g
          /\ i + 1 \in 1..Len(ready) /\ 1 < i + 1
    BY <1>2, <1>8
  <2> QED BY <1>2, <1>5, <2>1 DEF OrderInv, QueuesInv
<1>11. Sent' = Sent
  BY <1>1, <1>3, SessionAssumption
  DEF Sent, Typed, TypeOK, Threads
<1>12. StagesInv'
  BY <1>5, <1>6, <1>7, <1>9, <1>10, <1>11 DEF OrderInv, StagesInv, Before
<1>13. QueuesInv'
  <2>1. ASSUME NEW i \in 1..Len(ready'), NEW j \in 1..Len(ready'), i < j,
               ready'[i].op = "send", ready'[j].op = "send"
        PROVE  ready'[i].frame < ready'[j].frame
    <3>1. /\ ready'[i] = ready[i + 1] /\ i + 1 \in 1..Len(ready)
          /\ ready'[j] = ready[j + 1] /\ j + 1 \in 1..Len(ready)
          /\ i + 1 < j + 1
      BY <1>2, <2>1
    <3> QED BY <2>1, <3>1 DEF OrderInv, QueuesInv
  <2> QED BY <1>1, <2>1 DEF OrderInv, QueuesInv
<1> QED BY <1>12, <1>13 DEF OrderInv

(* The lambda of send() puts its frame behind the older ones.              *)
LEMMA PushKeepsOrder ==
  ASSUME OneThread, Typed, Typed', OrderInv, NEW t \in IoThreads, Push(t)
  PROVE  OrderInv'
<1> DEFINE f == cur[t].frame
<1>1. /\ pc[t] = "push" /\ mWriteQueue' = Append(mWriteQueue, f)
      /\ UNCHANGED <<ready, cur, writes, published, wire>>
      /\ pc' \in {[pc EXCEPT ![t] = "write"], [pc EXCEPT ![t] = "idle"]}
  BY DEF Push, At, Goto, opVars, histVars
<1>2. /\ pc'[t] \in {"write", "idle"} /\ pc'[Main] = pc[Main]
      /\ \A s \in IoThreads : s = t
  BY <1>1, SessionAssumption DEF Typed, TypeOK, Threads, OneThread
<1>3. /\ f \in Arriving /\ f \in Nat
      /\ mWriteQueue \in Seq(Frames) /\ f \in Frames
  <2>1. f \in Arriving
    BY <1>1 DEF Arriving
  <2>2. mWriteQueue \in Seq(Frames) /\ f \in Frames
    BY <1>1 DEF Typed, TypeOK, FramesOK
  <2> QED BY <2>1, <2>2, StagesTyped
<1> HIDE DEF f
<1>4. /\ Len(mWriteQueue') = Len(mWriteQueue) + 1 /\ Len(mWriteQueue) \in Nat
      /\ mWriteQueue'[Len(mWriteQueue) + 1] = f
      /\ \A i \in 1..Len(mWriteQueue) : mWriteQueue'[i] = mWriteQueue[i]
  BY <1>1, <1>3
<1>5. Queued' \subseteq Queued \cup {f}
  BY <1>4 DEF Queued
<1>6. Arriving' = {} /\ Posted' = Posted /\ Leaving' \subseteq Leaving
      /\ Written' = Written
  BY <1>1, <1>2 DEF Arriving, Posted, Leaving, Written
<1>7. Sent' = Sent
  BY <1>1, <1>2 DEF Sent
<1>8. StagesInv'
  BY <1>3, <1>5, <1>6, <1>7 DEF OrderInv, StagesInv, Before
<1>9. ASSUME NEW i \in 1..Len(mWriteQueue'), NEW j \in 1..Len(mWriteQueue'),
             i < j
      PROVE  mWriteQueue'[i] < mWriteQueue'[j]
  <2>1. i \in 1..Len(mWriteQueue) /\ mWriteQueue[i] \in Queued
        /\ (j \in 1..Len(mWriteQueue) \/ j = Len(mWriteQueue) + 1)
    BY <1>4, <1>9 DEF Queued
  <2> QED BY <1>3, <1>4, <1>9, <2>1
      DEF OrderInv, StagesInv, QueuesInv, Before
<1> QED BY <1>1, <1>8, <1>9 DEF OrderInv, QueuesInv

(* write() takes the oldest frame out of the queue.                        *)
LEMMA PopKeepsOrder ==
  ASSUME OneThread, Typed, Typed', OrderInv, NEW t \in IoThreads, Pop(t)
  PROVE  OrderInv'
<1>1. pc[t] = "pop" /\ UNCHANGED <<ready, writes, published, wire>>
  BY DEF Pop, At, opVars, histVars
<1>2. CASE mWriteQueue = <<>>
  <2>1. pc' = [pc EXCEPT ![t] = "idle"] /\ UNCHANGED <<cur, mWriteQueue>>
    BY <1>2 DEF Pop, Goto, queueVars
  <2>2. Sent' = Sent
    BY <1>1, <2>1, SessionAssumption DEF Sent, Typed, TypeOK, Threads
  <2>3. Aside
    BY <1>1, <2>1, <2>2, StagesTyped
    DEF Aside, PostsNoFrame, Typed, TypeOK, Threads
  <2> QED BY <2>3, AsideKeepsOrder
<1>3. CASE mWriteQueue # <<>>
  <2> DEFINE f == mWriteQueue[1]
  <2>1. /\ pc' = [pc EXCEPT ![t] = "start"] /\ mWriteQueue' = Tail(mWriteQueue)
        /\ cur' = [cur EXCEPT ![t] =
                     HandlerOf("write", TRUE, Head(mWriteQueue))]
    BY <1>3 DEF Pop, Goto, FrontOf
  <2>2. /\ Head(mWriteQueue) = f /\ f \in Frames /\ 1 \in 1..Len(mWriteQueue)
        /\ Len(mWriteQueue') = Len(mWriteQueue) - 1 /\ Len(mWriteQueue) \in Nat
        /\ \A i \in 1..Len(mWriteQueue') :
             mWriteQueue'[i] = mWriteQueue[i + 1]
             /\ i + 1 \in 1..Len(mWriteQueue)
    <3>1. mWriteQueue \in Seq(Frames)
      BY DEF Typed, TypeOK
    <3> QED BY <1>3, <2>1, <3>1
  <2>3. /\ pc'[t] = "start" /\ pc'[Main] = pc[Main] /\ cur'[t].frame = f
        /\ \A s \in IoThreads : s = t
    BY <2>1, <2>2, SessionAssumption
    DEF Typed, TypeOK, Threads, OneThread, HandlerOf
  <2>4. f \in Queued
    BY <2>2 DEF Queued
  <2> HIDE DEF f
  <2>5. Arriving' = {} /\ Posted' = Posted /\ Written' = Written
        /\ Leaving' \subseteq Leaving \cup {f}
    BY <1>1, <2>3 DEF Arriving, Posted, Leaving, Written
  <2>6. Queued' \subseteq Queued
    BY <2>2 DEF Queued
  <2>7. \A g \in Queued' : f < g
    <3> SUFFICES ASSUME NEW i \in 1..Len(mWriteQueue')
                 PROVE  f < mWriteQueue'[i]
      BY DEF Queued
    <3>1. mWriteQueue'[i] = mWriteQueue[i + 1] /\ 1 < i + 1
          /\ i + 1 \in 1..Len(mWriteQueue)
      BY <2>2
    <3> QED BY <2>2, <3>1 DEF f, OrderInv, QueuesInv
  <2>8. Sent' = Sent
    BY <1>1, <2>3 DEF Sent
  <2>9. StagesInv'
    BY <2>4, <2>5, <2>6, <2>7, <2>8 DEF OrderInv, StagesInv, Before
  <2>10. QueuesInv'
    <3>1. ASSUME NEW i \in 1..Len(mWriteQueue'), NEW j \in 1..Len(mWriteQueue'),
                 i < j
          PROVE  mWriteQueue'[i] < mWriteQueue'[j]
      <4>1. /\ mWriteQueue'[i] = mWriteQueue[i + 1]
            /\ mWriteQueue'[j] = mWriteQueue[j + 1]
            /\ i + 1 \in 1..Len(mWriteQueue) /\ j + 1 \in 1..Len(mWriteQueue)
            /\ i + 1 < j + 1
        BY <2>2, <3>1
      <4> QED BY <4>1 DEF OrderInv, QueuesInv
    <3> QED BY <1>1, <3>1 DEF OrderInv, QueuesInv
  <2> QED BY <2>9, <2>10 DEF OrderInv
<1> QED BY <1>2, <1>3

(* async_write has the frame that the try block held.                      *)
LEMMA StartKeepsOrder ==
  ASSUME Typed, Typed', OrderInv, NEW t \in IoThreads, StartWrite(t)
  PROVE  OrderInv'
<1>1. /\ pc[t] = "start"
      /\ UNCHANGED <<ready, cur, mWriteQueue, published, wire>>
      /\ writes' \subseteq writes \cup {cur[t].frame}
      /\ pc' \in {[pc EXCEPT ![t] = "idle"], [pc EXCEPT ![t] = "close"]}
  BY DEF StartWrite, At, Goto, histVars
<1>2. Posted' = Posted /\ Queued' = Queued /\ Written' = Written
  BY <1>1 DEF Posted, Queued, Written
<1>3. Arriving' \subseteq Arriving
  BY <1>1 DEF Arriving, Typed, TypeOK, Threads
<1>4. Leaving' \subseteq Leaving
  BY <1>1 DEF Leaving, Typed, TypeOK, Threads
<1>5. Sent' = Sent
  BY <1>1, SessionAssumption DEF Sent, Typed, TypeOK, Threads
<1>6. StagesInv'
  BY <1>2, <1>3, <1>4, <1>5, Shrinking, StagesTyped DEF OrderInv
<1> QED BY <1>1, <1>6 DEF OrderInv, QueuesInv

(* A write that ends puts the only frame that was leaving on the wire.     *)
LEMMA WrittenKeepsOrder ==
  ASSUME Typed, Typed', WriterInv, OrderInv,
         NEW f \in Frames, NEW ok \in BOOLEAN, WriteEnds(f, ok)
  PROVE  OrderInv'
<1>1. /\ f \in writes /\ writes' = writes \ {f}
      /\ wire' = wire \/ wire' = Append(wire, f)
      /\ UNCHANGED <<pc, cur, mWriteQueue, published>>
      /\ Post(HandlerOf("write", ok, f))
  BY DEF WriteEnds, queueVars
<1>2. PostsNoFrame
  <2>1. "write" \in Ops /\ f \in 0..MaxFrames
    BY SessionAssumption DEF Ops, Frames
  <2>2. PICK h \in Handler : h.op = "write" /\ ready' = Append(ready, h)
    BY <1>1, <2>1, HandlerTyped DEF Post
  <2> QED BY <2>2 DEF PostsNoFrame
<1>3. Posted' = Posted /\ QueuesInv'
  BY <1>1, <1>2, NoFramePosted DEF OrderInv
<1>4. Queued' = Queued /\ Arriving' = Arriving /\ Sent' = Sent
  BY <1>1 DEF Queued, Arriving, Sent
<1>5. f \in Leaving /\ Leaving' = {}
  <2>1. writes' = {} /\ \A t \in IoThreads : pc[t] # "start"
    BY <1>1 DEF WriterInv, PlaceInv, Holder
  <2> QED BY <1>1, <2>1 DEF Leaving
<1>6. Written' \subseteq Written \cup {f}
  <2>1. wire \in Seq(Frames)
    BY DEF Typed, TypeOK
  <2>2. CASE wire' = wire
    BY <2>2 DEF Written
  <2>3. CASE wire' = Append(wire, f)
    <3>1. /\ Len(wire') = Len(wire) + 1 /\ Len(wire) \in Nat
          /\ wire'[Len(wire) + 1] = f
          /\ \A i \in 1..Len(wire) : wire'[i] = wire[i]
      BY <2>1, <2>3
    <3> QED BY <3>1 DEF Written
  <2> QED BY <1>1, <2>2, <2>3
<1>7. StagesInv'
  BY <1>3, <1>4, <1>5, <1>6 DEF OrderInv, StagesInv, Before
<1> QED BY <1>3, <1>7 DEF OrderInv

(* broadcastData() counts a new frame; while it is on its way to send(),   *)
(* all the others are older.                                               *)
LEMMA BroadcastKeepsOrder ==
  ASSUME Typed, Typed', OrderInv, Broadcast
  PROVE  OrderInv'
<1>1. /\ pc[Main] = "loop" /\ published' = published + 1
      /\ UNCHANGED <<ready, cur, writes, mWriteQueue, wire>>
      /\ pc' \in {[pc EXCEPT ![Main] = "send"], [pc EXCEPT ![Main] = "loop"]}
  BY DEF Broadcast, Goto, opVars, queueVars
<1>2. Sent <= Sent'
  BY <1>1, SessionAssumption DEF Sent, Typed, TypeOK, Threads
<1>3. \A t \in IoThreads : pc'[t] = pc[t]
  BY <1>1, SessionAssumption DEF Typed, TypeOK, Threads
<1>4. /\ Posted' = Posted /\ Queued' = Queued /\ Written' = Written
      /\ Arriving' = Arriving /\ Leaving' = Leaving
  BY <1>1, <1>3 DEF Posted, Queued, Written, Arriving, Leaving
<1>5. StagesInv'
  BY <1>2, <1>4, Shrinking DEF OrderInv
<1> QED BY <1>1, <1>5 DEF OrderInv, QueuesInv

(* send() posts the newest frame behind the others.                        *)
LEMMA PostKeepsOrder ==
  ASSUME Typed, Typed', OrderInv, PostFrame
  PROVE  OrderInv'
<1>1. /\ pc[Main] = "post" /\ pc' = [pc EXCEPT ![Main] = "drop"]
      /\ ready' = Append(ready, HandlerOf("send", TRUE, published))
      /\ UNCHANGED <<cur, writes, mWriteQueue, published, wire>>
  BY DEF PostFrame, Post, Goto, opVars, queueVars, histVars
<1>2. PICK h \in Handler : /\ h.op = "send" /\ h.frame = published
                           /\ ready' = Append(ready, h)
  <2>1. "send" \in Ops /\ TRUE \in BOOLEAN /\ published \in 0..MaxFrames
    BY DEF Ops, Typed, TypeOK
  <2> QED BY <1>1, <2>1, HandlerTyped
<1>3. /\ Len(ready') = Len(ready) + 1 /\ ready'[Len(ready) + 1] = h
      /\ \A i \in 1..Len(ready) : ready'[i] = ready[i]
      /\ Len(ready) \in Nat
  BY <1>2, Posting DEF Typed, TypeOK
<1>4. \A t \in IoThreads : pc'[t] = pc[t]
  BY <1>1, SessionAssumption DEF Typed, TypeOK, Threads
<1>5. /\ Queued' = Queued /\ Written' = Written
      /\ Arriving' = Arriving /\ Leaving' = Leaving
  BY <1>1, <1>4 DEF Queued, Written, Arriving, Leaving
<1>6. Posted' \subseteq Posted \cup {published}
  BY <1>2, <1>3 DEF Posted
<1>7. published \in Nat /\ Sent = published - 1 /\ Sent' = published
  BY <1>1, SessionAssumption DEF Sent, Typed, TypeOK, Threads
<1>8. \A f \in Written \cup Leaving \cup Queued \cup Arriving \cup Posted :
        f \in Nat /\ f <= Sent
  BY StagesTyped DEF OrderInv, StagesInv
<1>9. \A f \in Written \cup Leaving \cup Queued \cup Arriving \cup Posted :
        f < published /\ f <= published
  BY <1>7, <1>8
<1>10. StagesInv'
  <2>1. \A f \in Written' \cup Leaving' \cup Queued' \cup Arriving'
                   \cup Posted' : f <= Sent'
    BY <1>5, <1>6, <1>7, <1>9
  <2> QED BY <1>5, <1>6, <1>9, <2>1 DEF OrderInv, StagesInv, Before
<1>11. ASSUME NEW i \in 1..Len(ready'), NEW j \in 1..Len(ready'), i < j,
              ready'[i].op = "send", ready'[j].op = "send"
       PROVE  ready'[i].frame < ready'[j].frame
  <2>1. i \in 1..Len(ready) /\ ready'[i] = ready[i]
        /\ \/ j \in 1..Len(ready) /\ ready'[j] = ready[j]
           \/ j = Len(ready) + 1 /\ ready'[j] = h
    BY <1>3, <1>11
  <2>2. ready[i].frame \in Posted
    BY <1>11, <2>1 DEF Posted
  <2> QED BY <1>2, <1>9, <1>11, <2>1, <2>2 DEF OrderInv, QueuesInv
<1> QED BY <1>1, <1>10, <1>11 DEF OrderInv, QueuesInv

(* Every step keeps the frames in the order of their broadcasts.           *)
LEMMA OrderNext ==
  ASSUME OneThread, Typed, WriterInv, OrderInv, Next
  PROVE  OrderInv'
<1>1. Typed'
  BY TypedNext
<1> QED
  BY <1>1, StreamCases, AsideKeepsOrder, TakeKeepsOrder, PushKeepsOrder,
     PopKeepsOrder, StartKeepsOrder, WrittenKeepsOrder, BroadcastKeepsOrder,
     PostKeepsOrder

(* OrderInv holds always, with one io thread.                              *)
LEMMA OrderInvariant ==
  ASSUME OneThread
  PROVE  Spec => []OrderInv
<1>1. ASSUME Init
      PROVE  OrderInv
  <2>1. pc[Main] = "loop" /\ \A t \in IoThreads : pc[t] = "idle"
    BY <1>1, SessionAssumption DEF Init, Threads
  <2>2. Len(ready) = 0 /\ Len(mWriteQueue) = 0 /\ Len(wire) = 0
    BY <1>1 DEF Init
  <2>3. writes = {} /\ published = 0
    BY <1>1 DEF Init
  <2>4. /\ Posted = {} /\ Arriving = {} /\ Queued = {} /\ Leaving = {}
        /\ Written = {}
    BY <2>1, <2>2, <2>3 DEF Posted, Arriving, Queued, Leaving, Written
  <2> QED BY <2>2, <2>4 DEF OrderInv, StagesInv, QueuesInv, Before
<1>2. OrderInv /\ UNCHANGED vars => OrderInv'
  BY DEF OrderInv, StagesInv, QueuesInv, Before, Sent, Posted, Arriving,
     Queued, Leaving, Written, vars, opVars, queueVars, histVars
<1>3. Typed /\ WriterInv /\ OrderInv /\ [Next]_vars => OrderInv'
  BY <1>2, OrderNext
<1> QED BY <1>1, <1>3, TypedInvariant, WriterInvariant, PTL DEF Spec

(* Every step broadcasts the next frame, writes a newer one than the       *)
(* viewer has, or is none of the stream's.                                 *)
LEMMA StreamStep ==
  ASSUME Typed, OrderInv, Next
  PROVE  Stream!Next \/ UNCHANGED <<published, wire>>
<1>1. CASE Aside \/ PostFrame
  BY <1>1 DEF Aside, PostFrame, histVars
<1>2. CASE Broadcast
  BY <1>2 DEF Broadcast, Stream!Next, Stream!Publish
<1>3. ASSUME NEW t \in IoThreads,
             Take(t) \/ Push(t) \/ Pop(t) \/ StartWrite(t)
      PROVE  UNCHANGED <<published, wire>>
  BY <1>3 DEF Take, Push, Pop, StartWrite, histVars
<1>4. ASSUME NEW f \in Frames, NEW ok \in BOOLEAN, WriteEnds(f, ok)
      PROVE  Stream!Next \/ UNCHANGED <<published, wire>>
  <2>1. /\ f \in Leaving /\ published' = published
        /\ wire' = wire \/ wire' = Append(wire, f)
    BY <1>4 DEF WriteEnds, Leaving
  <2>2. f <= published
    <3>1. f <= Sent /\ Sent <= published /\ f \in Nat
          /\ Sent \in Nat /\ published \in Nat
      BY <2>1, StagesTyped, SessionAssumption
      DEF OrderInv, StagesInv, Sent, Typed, TypeOK
    <3> QED BY <3>1
  <2>3. Stream!Newest < f
    <3>1. CASE wire = <<>>
      BY <3>1, SessionAssumption DEF Stream!Newest, Frames
    <3>2. CASE wire # <<>>
      <4>1. Len(wire) \in 1..Len(wire)
        BY <3>2 DEF Typed, TypeOK
      <4>2. wire[Len(wire)] \in Written
        BY <4>1 DEF Written
      <4> QED BY <2>1, <3>2, <4>2
          DEF Stream!Newest, OrderInv, StagesInv, Before
    <3> QED BY <3>1, <3>2
  <2> QED BY <2>1, <2>2, <2>3 DEF Stream!Next, Stream!Show, Frames
<1> QED BY StreamCases, <1>1, <1>2, <1>3, <1>4

(* With one io thread the session is a stream of frames: whatever is lost, *)
(* cut off or left in a queue, the viewer gets no frame twice and none     *)
(* after a newer one (Session.cpp:91-160).                                 *)
THEOREM OneThreadStreams ==
  ASSUME OneThread
  PROVE  Spec => StreamSpec
<1>1. Init => Stream!Init
  BY DEF Init, Stream!Init
<1>2. UNCHANGED vars => UNCHANGED <<published, wire>>
  BY DEF vars, histVars
<1>3. Typed /\ OrderInv /\ [Next]_vars => [Stream!Next]_<<published, wire>>
  BY <1>2, StreamStep
<1> QED BY <1>1, <1>3, TypedInvariant, OrderInvariant, PTL
    DEF Spec, StreamSpec, Stream!Spec
=============================================================================
