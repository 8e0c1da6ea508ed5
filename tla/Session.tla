------------------------------- MODULE Session -------------------------------
(***************************************************************************)
(* One viewer's connection: Streaming::Beast::Session, from the end of     *)
(* Session::run() to the destruction of the object.                        *)
(*                                                                         *)
(* The io threads take completion handlers from the FIFO queue of          *)
(* mIoContext and run them one statement at a time, where a statement is   *)
(* a read or a write of state that another thread can touch (an atomic     *)
(* flag, or a section under mQueueMutex or mSessionsMutex).  The main      *)
(* thread calls send() for every broadcast frame and close() when the      *)
(* server stops.  The network completes the outstanding operations.        *)
(*                                                                         *)
(* The object lives as long as somebody owns it: itself (mSelfPtr), the    *)
(* server's mSessions, or the copy of mSessions the main thread iterates   *)
(* over.  Handlers capture a bare `this', which owns nothing.              *)
(*                                                                         *)
(* A frame is its number, 1 for the first one broadcast.  An error code is *)
(* reduced to ok or not: fail() and the tests for closed and               *)
(* operation_aborted decide what is logged, every one of them ends in      *)
(* close(), and close() does nothing the second time.                      *)
(***************************************************************************)
EXTENDS Naturals, Sequences

CONSTANTS IoThreads,   \* threads running mIoContext.run()
          Main,        \* the thread of Application::run()
          MaxFrames    \* bound: frames broadcast in a behaviour

ASSUME SessionAssumption ==
  /\ Main \notin IoThreads
  /\ MaxFrames \in Nat

VARIABLES
  ready,        \* handlers that mIoContext can run, in order
  pc,           \* the statement each thread is at
  cur,          \* the handler each io thread is running
  handshaking,  \* async_accept is outstanding
  reading,      \* async_read is outstanding
  writes,       \* frames of the outstanding async_write operations
  closeOp,      \* async_close is outstanding
  isOpen,       \* mStream.is_open()
  mIsClosing, mIsWriting, mWriteQueue, mSelfPtr,
  listed,       \* this session is in the server's mSessions
  held,         \* this session is in the main thread's sessionsCopy
  published,    \* frames broadcast so far
  wire,         \* frames written completely, in order
  crashed       \* the process died of a handler's use of a dead session

opVars    == <<handshaking, reading, writes, closeOp, isOpen>>
queueVars == <<mIsWriting, mWriteQueue>>
ownVars   == <<mSelfPtr, listed, held>>
histVars  == <<published, wire, crashed>>
vars == <<ready, pc, cur, opVars, mIsClosing, queueVars, ownVars, histVars>>

Frames  == 1..MaxFrames
NoFrame == 0

Threads == IoThreads \cup {Main}

(* The handlers of a session, by the call that posted them.                *)
Ops == {"accept", "read", "write", "send", "close"}
Handler == [op : Ops, ok : BOOLEAN, frame : 0..MaxFrames]

HandlerOf(op, ok, frame) == [op |-> op, ok |-> ok, frame |-> frame]

Labels == {"idle", "accepted", "readDone", "doRead", "sendEntry", "push",
           "write", "pop", "start", "writeDone", "check", "clearWriting",
           "close", "release", "closePosted",
           "loop", "send", "post", "drop", "clear", "join", "gone"}

(* Where the body of each handler begins.                                  *)
Entry == [accept |-> "accepted", read |-> "readDone", write |-> "writeDone",
          send |-> "sendEntry", close |-> "closePosted"]

TypeOK ==
  /\ ready \in Seq(Handler)
  /\ pc \in [Threads -> Labels]
  /\ cur \in [IoThreads -> Handler]
  /\ handshaking \in BOOLEAN /\ reading \in BOOLEAN
  /\ writes \subseteq Frames
  /\ closeOp \in BOOLEAN /\ isOpen \in BOOLEAN
  /\ mIsClosing \in BOOLEAN /\ mIsWriting \in BOOLEAN
  /\ mWriteQueue \in Seq(Frames)
  /\ mSelfPtr \in BOOLEAN /\ listed \in BOOLEAN /\ held \in BOOLEAN
  /\ published \in 0..MaxFrames
  /\ wire \in Seq(Frames)
  /\ crashed \in BOOLEAN

(* run() has stored mSelfPtr and started the WebSocket handshake.          *)
Init ==
  /\ ready = <<>>
  /\ pc = [t \in Threads |-> IF t = Main THEN "loop" ELSE "idle"]
  /\ cur = [t \in IoThreads |-> HandlerOf("accept", TRUE, NoFrame)]
  /\ handshaking = TRUE /\ reading = FALSE /\ writes = {} /\ closeOp = FALSE
  /\ isOpen = FALSE
  /\ mIsClosing = FALSE /\ mIsWriting = FALSE /\ mWriteQueue = <<>>
  /\ mSelfPtr = TRUE /\ listed = FALSE /\ held = FALSE
  /\ published = 0 /\ wire = <<>> /\ crashed = FALSE

(* Some shared_ptr still owns the session.                                 *)
Alive == mSelfPtr \/ listed \/ held

Post(h) == ready' = Append(ready, h)

Goto(t, label) == pc' = [pc EXCEPT ![t] = label]

(* An io thread at a statement of a session that exists.                   *)
At(t, label) == pc[t] = label /\ Alive

-----------------------------------------------------------------------------
(* Handlers run by the io threads.                                         *)

(* mIoContext.run() takes the oldest ready handler.                        *)
Take(t) ==
  /\ pc[t] = "idle" /\ ready # <<>>
  /\ cur' = [cur EXCEPT ![t] = Head(ready)]
  /\ ready' = Tail(ready)
  /\ Goto(t, Entry[Head(ready).op])
  /\ UNCHANGED <<opVars, mIsClosing, queueVars, ownVars, histVars>>

(* The handler of async_accept: on success the session joins mSessions.    *)
Accepted(t) ==
  /\ At(t, "accepted")
  /\ \/ mIsClosing /\ Goto(t, "idle") /\ UNCHANGED listed
     \/ ~mIsClosing /\ ~cur[t].ok /\ Goto(t, "close") /\ UNCHANGED listed
     \/ ~mIsClosing /\ cur[t].ok /\ Goto(t, "doRead") /\ listed' = TRUE
  /\ UNCHANGED <<ready, cur, opVars, mIsClosing, queueVars, mSelfPtr, held,
                 histVars>>

(* read(): start the next async_read unless the session is closing.        *)
Read(t) ==
  /\ At(t, "doRead")
  /\ reading' = (reading \/ ~mIsClosing)
  /\ Goto(t, "idle")
  /\ UNCHANGED <<ready, cur, handshaking, writes, closeOp, isOpen, mIsClosing,
                 queueVars, ownVars, histVars>>

(* The handler of async_read: what arrived is discarded.                   *)
ReadDone(t) ==
  /\ At(t, "readDone")
  /\ Goto(t, IF mIsClosing THEN "idle"
             ELSE IF cur[t].ok THEN "doRead" ELSE "close")
  /\ UNCHANGED <<ready, cur, opVars, mIsClosing, queueVars, ownVars, histVars>>

(* The lambda posted by send(): its first test.                            *)
SendEntry(t) ==
  /\ At(t, "sendEntry")
  /\ Goto(t, IF mIsClosing THEN "idle" ELSE "push")
  /\ UNCHANGED <<ready, cur, opVars, mIsClosing, queueVars, ownVars, histVars>>

(* The lambda's section under mQueueMutex: startWriting is decided by what *)
(* the queue held before the push.                                         *)
Push(t) ==
  /\ At(t, "push")
  /\ mWriteQueue' = Append(mWriteQueue, cur[t].frame)
  /\ Goto(t, IF mWriteQueue = <<>> THEN "write" ELSE "idle")
  /\ UNCHANGED <<ready, cur, opVars, mIsClosing, mIsWriting, ownVars, histVars>>

(* Without the test of mIsWriting.                                         *)
WriteBlockedByCloseOnly == mIsClosing

(* The test at the head of write().                                        *)
WriteBlocked == mIsClosing \/ mIsWriting

Write(t) ==
  /\ At(t, "write")
  /\ Goto(t, IF WriteBlocked THEN "idle" ELSE "pop")
  /\ UNCHANGED <<ready, cur, opVars, mIsClosing, queueVars, ownVars, histVars>>

(* front() called after pop().                                             *)
FrontAfterPop(q) == IF Len(q) > 1 THEN q[2] ELSE NoFrame

(* The frame write() takes out of the queue.                               *)
FrontOf(q) == Head(q)

(* write()'s section under mQueueMutex.                                    *)
Pop(t) ==
  /\ At(t, "pop")
  /\ \/ /\ mWriteQueue = <<>>
        /\ Goto(t, "idle")
        /\ UNCHANGED <<cur, queueVars>>
     \/ /\ mWriteQueue # <<>>
        /\ mIsWriting' = TRUE
        /\ cur' = [cur EXCEPT ![t] = HandlerOf("write", TRUE,
                                               FrontOf(mWriteQueue))]
        /\ mWriteQueue' = Tail(mWriteQueue)
        /\ Goto(t, "start")
  /\ UNCHANGED <<ready, opVars, mIsClosing, ownVars, histVars>>

(* write()'s try block: async_write starts, or throws.                     *)
StartWrite(t) ==
  /\ At(t, "start")
  /\ \/ /\ writes' = writes \cup {cur[t].frame}
        /\ Goto(t, "idle")
        /\ UNCHANGED mIsWriting
     \/ /\ mIsWriting' = FALSE
        /\ Goto(t, "close")
        /\ UNCHANGED writes
  /\ UNCHANGED <<ready, cur, handshaking, reading, closeOp, isOpen, mIsClosing,
                 mWriteQueue, ownVars, histVars>>

(* The handler of async_write: its tests of mIsClosing and of the error.   *)
WriteDone(t) ==
  /\ At(t, "writeDone")
  /\ Goto(t, IF mIsClosing THEN "idle"
             ELSE IF cur[t].ok THEN "check" ELSE "close")
  /\ UNCHANGED <<ready, cur, opVars, mIsClosing, queueVars, ownVars, histVars>>

(* Its section under mQueueMutex: queueEmpty decides between write(),      *)
(* which finds mIsWriting still set, and the store that clears it.         *)
Check(t) ==
  /\ At(t, "check")
  /\ Goto(t, IF mWriteQueue = <<>> THEN "clearWriting" ELSE "write")
  /\ UNCHANGED <<ready, cur, opVars, mIsClosing, queueVars, ownVars, histVars>>

ClearWriting(t) ==
  /\ At(t, "clearWriting")
  /\ mIsWriting' = FALSE
  /\ Goto(t, "idle")
  /\ UNCHANGED <<ready, cur, opVars, mIsClosing, mWriteQueue, ownVars,
                 histVars>>

(* The lambda without mSelfPtr.reset().                                    *)
ClosePostedKeepsSelf(t) ==
  /\ At(t, "closePosted")
  /\ closeOp' = isOpen
  /\ Goto(t, "idle")
  /\ UNCHANGED <<ready, cur, handshaking, reading, writes, isOpen, mIsClosing,
                 queueVars, ownVars, histVars>>

(* The lambda posted by close(): start the closing handshake of a stream   *)
(* that is open, and give up the session's ownership of itself.            *)
ClosePosted(t) ==
  /\ At(t, "closePosted")
  /\ closeOp' = isOpen
  /\ mSelfPtr' = FALSE
  /\ Goto(t, "idle")
  /\ UNCHANGED <<ready, cur, handshaking, reading, writes, isOpen, mIsClosing,
                 queueVars, listed, held, histVars>>

(* A statement of a handler whose session is gone.  The memory `this'      *)
(* points to keeps what the destructor left there, mIsClosing set among    *)
(* it, and the handler returns without a visible effect; or the process    *)
(* dies.                                                                   *)
Dangling(t) == pc[t] # "idle" /\ ~Alive

RunDangling(t) ==
  /\ Dangling(t)
  /\ \/ Goto(t, "idle") /\ UNCHANGED crashed
     \/ crashed' = TRUE /\ UNCHANGED pc
  /\ UNCHANGED <<ready, cur, opVars, mIsClosing, queueVars, ownVars, published,
                 wire>>

-----------------------------------------------------------------------------
(* close(), called by an io thread or by the main thread.                  *)

(* Where the caller goes on: an io thread's handler ends, BeastServer's    *)
(* stop() goes on to mSessions.clear().                                    *)
AfterClose(t) == IF t = Main THEN "clear" ELSE "idle"

(* mIsClosing is tested and not set.                                       *)
CloseFlagNotSet(t) ==
  /\ At(t, "close")
  /\ Goto(t, IF mIsClosing THEN AfterClose(t) ELSE "release")
  /\ UNCHANGED <<ready, cur, opVars, mIsClosing, queueVars, ownVars, histVars>>

(* mIsClosing.exchange(true)                                               *)
CloseFlag(t) ==
  /\ At(t, "close")
  /\ mIsClosing' = TRUE
  /\ Goto(t, IF mIsClosing THEN AfterClose(t) ELSE "release")
  /\ UNCHANGED <<ready, cur, opVars, queueVars, ownVars, histVars>>

(* The first caller unlists the session and posts the closing lambda.      *)
CloseRelease(t) ==
  /\ At(t, "release")
  /\ listed' = (listed /\ ~mSelfPtr)
  /\ Post(HandlerOf("close", TRUE, NoFrame))
  /\ Goto(t, AfterClose(t))
  /\ UNCHANGED <<cur, opVars, mIsClosing, queueVars, mSelfPtr, held, histVars>>

-----------------------------------------------------------------------------
(* The main thread.                                                        *)

(* broadcastData() copies mSessions under mSessionsMutex.                  *)
Broadcast ==
  /\ pc[Main] = "loop" /\ published < MaxFrames
  /\ published' = published + 1
  /\ held' = listed
  /\ Goto(Main, IF listed THEN "send" ELSE "loop")
  /\ UNCHANGED <<ready, cur, opVars, mIsClosing, queueVars, mSelfPtr, listed,
                 wire, crashed>>

(* send(): unless the session is closing, the frame is posted.             *)
Send ==
  /\ pc[Main] = "send"
  /\ Goto(Main, IF mIsClosing THEN "drop" ELSE "post")
  /\ UNCHANGED <<ready, cur, opVars, mIsClosing, queueVars, ownVars, histVars>>

PostFrame ==
  /\ pc[Main] = "post"
  /\ Post(HandlerOf("send", TRUE, published))
  /\ Goto(Main, "drop")
  /\ UNCHANGED <<cur, opVars, mIsClosing, queueVars, ownVars, histVars>>

(* broadcastData() returns and its sessionsCopy is destroyed.              *)
DropCopy ==
  /\ pc[Main] = "drop"
  /\ held' = FALSE
  /\ Goto(Main, "loop")
  /\ UNCHANGED <<ready, cur, opVars, mIsClosing, queueVars, mSelfPtr, listed,
                 histVars>>

(* stop() copies mSessions and closes what it finds there.                 *)
StopCopy ==
  /\ pc[Main] = "loop"
  /\ held' = listed
  /\ Goto(Main, IF listed THEN "close" ELSE "clear")
  /\ UNCHANGED <<ready, cur, opVars, mIsClosing, queueVars, mSelfPtr, listed,
                 histVars>>

(* mSessions.clear()                                                       *)
ClearSessions ==
  /\ pc[Main] = "clear"
  /\ listed' = FALSE
  /\ Goto(Main, "join")
  /\ UNCHANGED <<ready, cur, opVars, mIsClosing, queueVars, mSelfPtr, held,
                 histVars>>

(* Nothing keeps mIoContext.run() from returning.                          *)
OutOfWork ==
  /\ ready = <<>> /\ \A t \in IoThreads : pc[t] = "idle"
  /\ ~handshaking /\ ~reading /\ writes = {} /\ ~closeOp

(* stop() has joined the io threads and returns; its copy, alive until     *)
(* here, is destroyed.                                                     *)
Join ==
  /\ pc[Main] = "join" /\ OutOfWork
  /\ held' = FALSE
  /\ Goto(Main, "gone")
  /\ UNCHANGED <<ready, cur, opVars, mIsClosing, queueVars, mSelfPtr, listed,
                 histVars>>

-----------------------------------------------------------------------------
(* The network and the peer, seen through Boost.                           *)

HandshakeEnds(ok) ==
  /\ handshaking
  /\ handshaking' = FALSE /\ isOpen' = ok
  /\ Post(HandlerOf("accept", ok, NoFrame))
  /\ UNCHANGED <<pc, cur, reading, writes, closeOp, mIsClosing, queueVars,
                 ownVars, histVars>>

(* Operations of a stream that has failed, or whose session is destroyed,  *)
(* cannot succeed any more: they complete with an error.                   *)
Usable == isOpen /\ Alive

ReadEnds(ok) ==
  /\ reading /\ (ok => Usable)
  /\ reading' = FALSE /\ isOpen' = (isOpen /\ ok)
  /\ Post(HandlerOf("read", ok, NoFrame))
  /\ UNCHANGED <<pc, cur, handshaking, writes, closeOp, mIsClosing, queueVars,
                 ownVars, histVars>>

WriteEnds(f, ok) ==
  /\ f \in writes /\ (ok => Usable)
  /\ writes' = writes \ {f} /\ isOpen' = (isOpen /\ ok)
  /\ wire' = IF ok THEN Append(wire, f) ELSE wire
  /\ Post(HandlerOf("write", ok, f))
  /\ UNCHANGED <<pc, cur, handshaking, reading, closeOp, mIsClosing, queueVars,
                 ownVars, published, crashed>>

(* The closing handshake is over; the body of its handler is empty.        *)
CloseEnds ==
  /\ closeOp
  /\ closeOp' = FALSE /\ isOpen' = FALSE
  /\ UNCHANGED <<ready, pc, cur, handshaking, reading, writes, mIsClosing,
                 queueVars, ownVars, histVars>>

-----------------------------------------------------------------------------
Step(t) ==
  \/ Accepted(t) \/ Read(t) \/ ReadDone(t)
  \/ SendEntry(t) \/ Push(t) \/ Write(t) \/ Pop(t) \/ StartWrite(t)
  \/ WriteDone(t) \/ Check(t) \/ ClearWriting(t)
  \/ CloseFlag(t) \/ CloseRelease(t) \/ ClosePosted(t)
  \/ RunDangling(t)

IoStep(t) == Take(t) \/ Step(t)

(* What the main thread does once it has begun; when it broadcasts and     *)
(* whether it stops is up to the clock and the operator.                   *)
MainStep ==
  Send \/ PostFrame \/ DropCopy \/ CloseFlag(Main) \/ CloseRelease(Main)
       \/ ClearSessions \/ Join

Network ==
  \/ \E ok \in BOOLEAN : HandshakeEnds(ok) \/ ReadEnds(ok)
  \/ \E f \in Frames, ok \in BOOLEAN : WriteEnds(f, ok)
  \/ CloseEnds

Next ==
  /\ ~crashed
  /\ \/ \E t \in IoThreads : IoStep(t)
     \/ Broadcast \/ StopCopy \/ MainStep
     \/ Network

Spec == Init /\ [][Next]_vars

(* Weak fairness of every thread, and of the operations Boost ends by      *)
(* itself: the timeout::suggested option set by run() bounds the           *)
(* handshakes and breaks a connection on which nothing moves, and the      *)
(* operations of a failed or destroyed stream are cancelled.  A peer that  *)
(* keeps the connection open owes nothing.                                 *)
HandshakeOver == \E ok \in BOOLEAN : HandshakeEnds(ok)
WritesEnd == \E f \in Frames, ok \in BOOLEAN : WriteEnds(f, ok)
ReadCancelled == (closeOp \/ ~Usable) /\ ReadEnds(FALSE)

FairSpec ==
  /\ Spec
  /\ \A t \in IoThreads : WF_vars(~crashed /\ IoStep(t))
  /\ WF_vars(~crashed /\ MainStep)
  /\ WF_vars(~crashed /\ HandshakeOver)
  /\ WF_vars(~crashed /\ WritesEnd)
  /\ WF_vars(~crashed /\ ReadCancelled)
  /\ WF_vars(~crashed /\ CloseEnds)

-----------------------------------------------------------------------------
(* Properties.                                                             *)

(* At most one async_write is outstanding, which Beast requires of its     *)
(* caller: mIsWriting and the startWriting decision together keep two      *)
(* threads, or a posted send and a completion, from both starting one      *)
(* (Session.cpp:91-160).                                                   *)
SingleWriter == \A f, g \in writes : f = g

(* After the closing lambda has run, no handler starts another read or     *)
(* write on the stream (Session.cpp:65-68, 97-100, 116-119, 137-139):      *)
(* holds with one io thread, which cannot be past a test of mIsClosing     *)
(* while the lambda runs.                                                  *)
QuietAfterClose ==
  [][~mSelfPtr => writes' \subseteq writes /\ (reading' => reading)]_vars

(* A session that starts to close is destroyed: close() takes it out of    *)
(* mSessions, the lambda it posts breaks the mSelfPtr cycle, and no copy   *)
(* of mSessions keeps it for ever (Session.cpp:183-204).                   *)
Released == mIsClosing ~> (~Alive \/ crashed)

(* The viewer gets a subsequence of what was broadcast, in order and       *)
(* without repetition: with one io thread the session is a frame stream.   *)
Stream == INSTANCE FrameStream WITH shown <- wire
StreamSpec == Stream!Spec

(* A frame in the write queue is written at last, unless the session       *)
(* closes: what Session.cpp:155-156, "if (!queueEmpty) { write(); }", is   *)
(* there for.  The code does not keep this.                                *)
QueueDrains ==
  (mWriteQueue # <<>>) ~> (mWriteQueue = <<>> \/ mIsClosing \/ crashed)

(* A handler runs only while its session exists, what                      *)
(* enable_shared_from_this (Session.h:19) and mSelfPtr are there for.  The *)
(* code does not keep this.                                                *)
NoDanglingHandler == \A t \in IoThreads : ~Dangling(t)

=============================================================================
