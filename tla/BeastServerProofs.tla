-------------------------- MODULE BeastServerProofs --------------------------
(***************************************************************************)
(* Proofs about BeastServer for any number of io threads, of connections   *)
(* and of failures: the acceptor accepts once at a time, what is listed is *)
(* served, and stop() leaves nothing.                                      *)
(***************************************************************************)
EXTENDS BeastServer, SequenceTheorems, FiniteSetTheorems, TLAPS

-----------------------------------------------------------------------------
(* Where the threads are, and what they and the queue work on.             *)

(* Statements that work on a connection that has arrived.                  *)
ConnSteps == {"socket", "onAccept", "handshake", "add", "read", "readDone",
              "close", "remove", "closePosted"}

(* A failed async_accept has no connection.                                *)
Result(h) == /\ h.conn \in arrived \cup {NoConn}
             /\ h.ok <=> h.conn # NoConn

QueueOK == \A i \in 1..Len(ready) :
  IF ready[i].op = "acceptDone" THEN Result(ready[i])
  ELSE ready[i].conn \in arrived

StepsOK ==
  /\ \A t \in IoThreads :
       /\ pc[t] = "acceptDone" => Result(cur[t])
       /\ pc[t] \in ConnSteps => Of(t) \in arrived
  /\ pc[Main] \in {"close", "remove"} => Of(Main) \in copy

LabelsOK == pc[Main] \in MainLabels /\ \A t \in IoThreads : pc[t] \in IoLabels

Typed == TypeOK /\ LabelsOK /\ QueueOK /\ StepsOK

(* Before start(), or after it threw.                                      *)
NotStarted ==
  /\ ready = <<>> /\ ~accepting /\ arrived = {}
  /\ \A t \in IoThreads : pc[t] = "none"

(* The main thread is in stop(), in this order.                            *)
MainInv ==
  /\ pc[Main] = "start" => NotStarted
  /\ \A t \in IoThreads : pc[t] = "none" => NotStarted
  /\ pc[Main] \in {"start", "copy", "pick", "close", "remove", "clear",
                   "work", "join", "stopped"} => acceptor = "gone"
  /\ pc[Main] = "setStopped" => acceptor = "closed"
  /\ pc[Main] = "resetAcceptor" => acceptor = "stopped"
  /\ copy # {} => pc[Main] \in {"pick", "close", "remove", "clear", "work",
                                "join"}
  /\ todo # {} => pc[Main] \in {"pick", "close", "remove"}
  /\ ~mWork => pc[Main] \in {"start", "join", "stopped"}
  /\ pc[Main] = "stopped" => \A t \in IoThreads : pc[t] \in {"none", "exited"}
  /\ \A t \in IoThreads : pc[t] = "exited" =>
       OutOfWork /\ pc[Main] \in {"join", "stopped"}

-----------------------------------------------------------------------------
(* The chain of async_accept is in one place.                              *)
AcceptsAt(i) == ready[i].op = "acceptDone"

ChainInv ==
  /\ \A s, t \in IoThreads : InAccept(s) /\ InAccept(t) => s = t
  /\ \A i, j \in 1..Len(ready) : AcceptsAt(i) /\ AcceptsAt(j) => i = j
  /\ \A t \in IoThreads : InAccept(t) =>
       ~accepting /\ \A i \in 1..Len(ready) : ~AcceptsAt(i)
  /\ \A i \in 1..Len(ready) : AcceptsAt(i) => ~accepting
  /\ accepting => acceptor = "open"
  /\ acceptor = "open" =>
       \/ accepting
       \/ \E t \in IoThreads : InAccept(t)
       \/ \E i \in 1..Len(ready) : AcceptsAt(i)

(* What carries a connection on: from its async_accept to its session ...  *)
Newborn == {"acceptDone", "socket", "onAccept"}

(* ... through the handshake of the session until it is listed ...         *)
Fresh == {"handshake", "add"}

(* ... and from read to read until it closes.                              *)
Served == {"read", "readDone", "close"}

Carriers == Newborn \cup Fresh \cup Served

(* Thread t, or the i-th handler of the queue, does so for c.              *)
At(c, t, steps) == pc[t] \in steps /\ Of(t) = c
Waits(c, i, steps) == ready[i].op \in steps /\ ready[i].conn = c

Carried(c, steps) ==
  \/ \E t \in IoThreads : At(c, t, steps)
  \/ \E i \in 1..Len(ready) : Waits(c, i, steps)

(* One at a time.                                                          *)
Alone(c, steps) ==
  /\ \A s, t \in IoThreads : At(c, s, steps) /\ At(c, t, steps) => s = t
  /\ \A i, j \in 1..Len(ready) :
       Waits(c, i, steps) /\ Waits(c, j, steps) => i = j
  /\ \A t \in IoThreads, i \in 1..Len(ready) :
       ~(At(c, t, steps) /\ Waits(c, i, steps))

OneCarrier(c) ==
  /\ Alone(c, Carriers)
  /\ c \in shaking \cup reading => ~Carried(c, Carriers)
  /\ c \notin shaking \cap reading

(* The close of a session, from close() to the lambda it posts.            *)
Closing == {"remove", "closePosted"}
Closes(c) == At(c, Main, Closing) \/ Carried(c, Closing)

OneCloser(c) ==
  /\ Alone(c, Closing)
  /\ At(c, Main, Closing) => ~Carried(c, Closing)

-----------------------------------------------------------------------------
(* A session owns itself until the lambda of its close() has run.          *)
Lambda == {"closePosted"}

Owned(c) ==
  /\ Carried(c, Newborn) => c \notin mSelfPtr \cup mIsClosing
  /\ c \in shaking \/ Carried(c, Fresh) =>
       c \in mSelfPtr /\ c \notin mIsClosing \cup mSessions \cup copy
  /\ c \in reading \/ Carried(c, Served) => c \in mSelfPtr \cup mIsClosing
  /\ c \in mSelfPtr \ mIsClosing =>
       c \in shaking \cup reading \/ Carried(c, Fresh) \/ Carried(c, Served)
  /\ Closes(c) <=> c \in mSelfPtr \cap mIsClosing
  /\ c \in mSessions => c \in mSelfPtr /\ ~Carried(c, Lambda)
  /\ c \in copy => c \in mSelfPtr \cup mIsClosing

(* A connection that is not closed has a session, or will have one.        *)
Arriving == {"acceptDone"}

MayStayUp(c) ==
  /\ c \in up => c \in mSelfPtr \cup mIsClosing \/ Carried(c, Newborn)
  /\ Carried(c, Arriving) =>
       IF acceptor = "open" THEN next = c ELSE c \notin up

ConnOK(c) == OneCarrier(c) /\ OneCloser(c) /\ Owned(c) /\ MayStayUp(c)

ConnInv == \A c \in Conns : ConnOK(c)

Inv == Typed /\ MainInv /\ ChainInv /\ ConnInv

-----------------------------------------------------------------------------
(* The actions of Next, one by one.                                        *)
LEMMA NextCases ==
  ASSUME Next
  PROVE  \/ Start \/ StartThrows \/ Signal \/ StopFlag \/ CloseAcceptor
         \/ SetStopped \/ ResetAcceptor \/ CopySessions
         \/ (\E c \in Conns : PickSession(c)) \/ PicksDone
         \/ ClearSessions \/ ResetWork \/ JoinThreads
         \/ \E t \in Threads : CloseFlag(t) \/ CloseRemove(t)
         \/ \E t \in IoThreads :
              \/ Take(t) \/ AcceptDone(t) \/ Rearm(t) \/ SocketPosted(t)
              \/ OnAccept(t) \/ Handshaken(t) \/ AddSession(t) \/ Read(t)
              \/ ReadDone(t) \/ ClosePosted(t) \/ RunDangling(t)
              \/ ThreadExits(t)
         \/ AcceptFails
         \/ \E c \in Conns : Connect(c) \/ PeerLeaves(c) \/ CloseEnds(c)
         \/ \E c \in Conns, ok \in BOOLEAN :
              HandshakeEnds(c, ok) \/ ReadEnds(c, ok)
  BY DEF Next, IoStep, StopStep, Network, Threads

(* What a posted handler changes in the queue.                             *)
LEMMA PostFacts ==
  ASSUME ready \in Seq(Handler), NEW h \in Handler, Post(h)
  PROVE  /\ ready' \in Seq(Handler) /\ ready' # <<>>
         /\ Len(ready) \in Nat /\ Len(ready') = Len(ready) + 1
         /\ ready'[Len(ready) + 1] = h
         /\ \A i \in 1..Len(ready) :
              i \in 1..Len(ready') /\ ready'[i] = ready[i]
         /\ \A i \in 1..Len(ready') :
              i \in 1..Len(ready) \/ i = Len(ready) + 1
         /\ Len(ready) + 1 \in 1..Len(ready')
<1>1. ready' = Append(ready, h)
  BY DEF Post
<1>2. Len(ready) \in Nat
  BY LenProperties
<1>3. /\ ready' \in Seq(Handler) /\ Len(ready') = Len(ready) + 1
      /\ ready'[Len(ready) + 1] = h
      /\ \A i \in 1..Len(ready) : ready'[i] = ready[i]
  BY <1>1, AppendProperties
<1> QED BY <1>1, <1>2, <1>3

(* A thread goes on.                                                       *)
LEMMA GotoFacts ==
  ASSUME TypeOK, NEW t \in Threads, NEW to, Goto(t, to)
  PROVE  /\ pc'[t] = to /\ \A s \in Threads : s # t => pc'[s] = pc[s]
         /\ to \in IoLabels \cup MainLabels =>
              pc' \in [Threads -> IoLabels \cup MainLabels]
  BY DEF TypeOK, Goto

(* An io thread takes the first handler of the queue.                      *)
LEMMA TakeFacts ==
  ASSUME TypeOK, NEW t \in IoThreads, Take(t)
  PROVE  /\ ready' \in Seq(Handler) /\ cur' \in [Threads -> Handler]
         /\ pc' \in [Threads -> IoLabels \cup MainLabels]
         /\ 1 \in 1..Len(ready) /\ ready[1] \in Handler
         /\ pc[t] = "idle" /\ pc'[t] = ready[1].op /\ cur'[t] = ready[1]
         /\ pc'[t] \in Ops
         /\ \A s \in Threads :
              s # t => pc'[s] = pc[s] /\ cur'[s] = cur[s]
         /\ \A i \in 1..Len(ready') :
              /\ i + 1 \in 1..Len(ready) /\ i + 1 # 1
              /\ ready'[i] = ready[i + 1]
         /\ \A i, j \in 1..Len(ready') : i + 1 = j + 1 => i = j
         /\ \A i \in 1..Len(ready) :
              i = 1 \/ \E j \in 1..Len(ready') : i = j + 1
<1>0. t \in Threads
  BY DEF Threads
<1>1. /\ ready \in Seq(Handler) /\ ready # <<>> /\ ready' = Tail(ready)
      /\ cur' = [cur EXCEPT ![t] = Head(ready)]
      /\ Goto(t, Head(ready).op) /\ pc[t] = "idle"
  BY DEF TypeOK, Take
<1>2. Len(ready) \in Nat /\ Len(ready) # 0
  BY <1>1
<1>3. /\ ready' \in Seq(Handler) /\ Len(ready') = Len(ready) - 1
      /\ \A i \in 1..Len(ready') : ready'[i] = ready[i + 1]
  BY <1>1
<1>4. 1 \in 1..Len(ready) /\ Head(ready) = ready[1] /\ ready[1] \in Handler
  BY <1>1, <1>2
<1>5. /\ cur' \in [Threads -> Handler] /\ cur'[t] = ready[1]
      /\ \A s \in Threads : s # t => cur'[s] = cur[s]
  BY <1>0, <1>1, <1>4 DEF TypeOK
<1>6. ready[1].op \in Ops /\ Ops \subseteq IoLabels
  BY <1>4 DEF Handler, IoLabels
<1>7. /\ pc' \in [Threads -> IoLabels \cup MainLabels]
      /\ pc'[t] = ready[1].op
      /\ \A s \in Threads : s # t => pc'[s] = pc[s]
  BY <1>0, <1>1, <1>4, <1>6, GotoFacts
<1>8. \A i \in 1..Len(ready) :
        i = 1 \/ (i - 1 \in 1..Len(ready') /\ i = (i - 1) + 1)
  BY <1>2, <1>3
<1>9. \A i \in 1..Len(ready') : i + 1 \in 1..Len(ready) /\ i + 1 # 1
  BY <1>2, <1>3
<1> QED BY <1>1, <1>3, <1>4, <1>5, <1>6, <1>7, <1>8, <1>9

(* A step of a handler moves one thread.                                   *)
LEMMA ServesFacts ==
  ASSUME TypeOK, NEW t \in Threads, NEW from, NEW to, Serves(t, from, to)
  PROVE  /\ pc[t] = from /\ pc'[t] = to
         /\ \A s \in Threads : s # t => pc'[s] = pc[s]
         /\ to \in IoLabels \cup MainLabels =>
              pc' \in [Threads -> IoLabels \cup MainLabels]
         /\ UNCHANGED <<cur, mRunning, mWork, acceptor, arrived, errors, open,
                        copy, todo>>
<1>1. Goto(t, to)
  BY DEF Serves
<1>2. /\ pc'[t] = to /\ \A s \in Threads : s # t => pc'[s] = pc[s]
      /\ to \in IoLabels \cup MainLabels =>
           pc' \in [Threads -> IoLabels \cup MainLabels]
  BY <1>1, GotoFacts
<1> QED BY <1>2 DEF Serves, flagVars, stopVars

(* A step of the main thread leaves the io threads where they are.         *)
LEMMA StopsFacts ==
  ASSUME TypeOK, NEW from, NEW to, Stops(from, to)
  PROVE  /\ pc[Main] = from /\ pc'[Main] = to
         /\ \A t \in IoThreads : t # Main /\ pc'[t] = pc[t]
         /\ to \in MainLabels => pc' \in [Threads -> IoLabels \cup MainLabels]
         /\ UNCHANGED <<arrived, errors, shaking, reading, closeOps, open,
                        mIsClosing, mSelfPtr>>
<1>1. Goto(Main, to) /\ Main \in Threads
  BY DEF Stops, Threads
<1>2. /\ pc'[Main] = to /\ \A t \in Threads : t # Main => pc'[t] = pc[t]
      /\ to \in IoLabels \cup MainLabels =>
           pc' \in [Threads -> IoLabels \cup MainLabels]
  BY <1>1, GotoFacts
<1>3. \A t \in IoThreads : t \in Threads /\ t # Main
  BY ServerAssumption DEF Threads
<1> QED BY <1>2, <1>3 DEF Stops, opVars

(* The parts of a handler.                                                 *)
LEMMA HandlerFacts ==
  ASSUME NEW op \in Ops, NEW c \in Conns \cup {NoConn}, NEW ok \in BOOLEAN
  PROVE  /\ HandlerOf(op, c, ok) \in Handler
         /\ HandlerOf(op, c, ok).op = op
         /\ HandlerOf(op, c, ok).conn = c
         /\ HandlerOf(op, c, ok).ok = ok
  BY DEF HandlerOf, Handler

(* What posting it changes in the queue.                                   *)
LEMMA PostHandler ==
  ASSUME TypeOK, NEW op \in Ops, NEW c \in Conns \cup {NoConn},
         NEW ok \in BOOLEAN, Post(HandlerOf(op, c, ok))
  PROVE  /\ ready' \in Seq(Handler) /\ ready' # <<>>
         /\ ready'[Len(ready) + 1].op = op
         /\ ready'[Len(ready) + 1].conn = c
         /\ ready'[Len(ready) + 1].ok = ok
         /\ Len(ready) + 1 \in 1..Len(ready')
         /\ Len(ready) + 1 \notin 1..Len(ready)
         /\ \A i \in 1..Len(ready) :
              i \in 1..Len(ready') /\ ready'[i] = ready[i]
         /\ \A i \in 1..Len(ready') :
              i \in 1..Len(ready) \/ i = Len(ready) + 1
<1> DEFINE h == HandlerOf(op, c, ok)
<1>1. h \in Handler /\ h.op = op /\ h.conn = c /\ h.ok = ok
  BY HandlerFacts
<1> HIDE DEF h
<1>2. Post(h) /\ ready \in Seq(Handler)
  BY DEF h, TypeOK
<1> QED BY <1>1, <1>2, PostFacts

(* The completion of an async_accept that is posted is the last handler.   *)
LEMMA PostAccept ==
  ASSUME TypeOK, NEW c \in Conns \cup {NoConn}, NEW ok \in BOOLEAN,
         Post(HandlerOf("acceptDone", c, ok))
  PROVE  /\ Len(ready) + 1 \in 1..Len(ready')
         /\ ready'[Len(ready) + 1].op = "acceptDone"
         /\ ready'[Len(ready) + 1].conn = c
         /\ ready'[Len(ready) + 1].ok = ok
         /\ \A i \in 1..Len(ready) :
              i \in 1..Len(ready') /\ ready'[i] = ready[i]
         /\ \A i \in 1..Len(ready') :
              i \in 1..Len(ready) \/ i = Len(ready) + 1
<1>1. "acceptDone" \in Ops
  BY DEF Ops
<1> HIDE DEF TypeOK
<1> QED BY <1>1, PostHandler

(* Another handler that is posted leaves the accepts in the queue alone.   *)
LEMMA PostOther ==
  ASSUME TypeOK, NEW op \in Ops \ {"acceptDone"}, NEW c \in Conns,
         NEW ok \in BOOLEAN, Post(HandlerOf(op, c, ok))
  PROVE  /\ \A i \in 1..Len(ready') : ready'[i].op = "acceptDone" =>
              i \in 1..Len(ready) /\ ready[i].op = "acceptDone"
         /\ \A i \in 1..Len(ready) : ready[i].op = "acceptDone" =>
              i \in 1..Len(ready') /\ ready'[i].op = "acceptDone"
<1>1. /\ ready'[Len(ready) + 1].op # "acceptDone"
      /\ \A i \in 1..Len(ready) :
           i \in 1..Len(ready') /\ ready'[i] = ready[i]
      /\ \A i \in 1..Len(ready') : i \in 1..Len(ready) \/ i = Len(ready) + 1
  BY PostHandler
<1> QED BY <1>1

(* What is posted for an accept that failed, or for one that did not ...   *)
LEMMA AcceptQueued ==
  ASSUME TypeOK, QueueOK, arrived \subseteq arrived',
         NEW c \in arrived' \cup {NoConn}, c \in Conns \cup {NoConn},
         NEW ok \in BOOLEAN, ok <=> c # NoConn,
         Post(HandlerOf("acceptDone", c, ok))
  PROVE  QueueOK'
<1>1. /\ ready'[Len(ready) + 1].op = "acceptDone"
      /\ ready'[Len(ready) + 1].conn = c
      /\ ready'[Len(ready) + 1].ok = ok
      /\ \A i \in 1..Len(ready) : ready'[i] = ready[i]
      /\ \A i \in 1..Len(ready') : i \in 1..Len(ready) \/ i = Len(ready) + 1
  BY PostAccept
<1> QED BY <1>1 DEF QueueOK, Result

(* ... and for what goes on for a connection.                              *)
LEMMA OtherQueued ==
  ASSUME TypeOK, QueueOK, arrived' = arrived, arrived \subseteq Conns,
         NEW op \in Ops \ {"acceptDone"}, NEW c \in arrived, NEW ok \in BOOLEAN,
         Post(HandlerOf(op, c, ok))
  PROVE  QueueOK'
<1>1. /\ ready'[Len(ready) + 1].op = op /\ ready'[Len(ready) + 1].conn = c
      /\ \A i \in 1..Len(ready) : ready'[i] = ready[i]
      /\ \A i \in 1..Len(ready') : i \in 1..Len(ready) \/ i = Len(ready) + 1
  BY PostHandler
<1> QED BY <1>1 DEF QueueOK, Result

(* Each step keeps the types ...                                           *)
LEMMA TypeNext ==
  ASSUME Typed, MainInv, Next
  PROVE  TypeOK'
<1>0. Main \in Threads /\ \A t \in IoThreads : t \in Threads
  BY DEF Threads
<1> USE <1>0, ServerAssumption DEF Typed, TypeOK
<1>1. CASE Start
  BY <1>1 DEF Start, connVars, opVars, sessionVars, stopVars, MainLabels,
     IoLabels
<1>2. CASE StartThrows
  BY <1>2, GotoFacts DEF StartThrows, acceptVars, connVars, opVars,
     sessionVars, stopVars, MainLabels
<1>3. CASE Signal
  BY <1>3, StopsFacts DEF Signal, flagVars, acceptVars, stopVars, MainLabels
<1>4. CASE StopFlag
  BY <1>4, StopsFacts DEF StopFlag, acceptVars, stopVars, MainLabels
<1>5. CASE CloseAcceptor
  BY <1>5, StopsFacts, PostHandler DEF CloseAcceptor, stopVars, MainLabels,
     Ops
<1>6. CASE SetStopped
  BY <1>6, StopsFacts DEF SetStopped, acceptVars, stopVars, MainLabels
<1>7. CASE ResetAcceptor
  BY <1>7, StopsFacts DEF ResetAcceptor, stopVars, MainLabels
<1>8. CASE CopySessions
  BY <1>8, StopsFacts DEF CopySessions, flagVars, acceptVars, MainLabels
<1>9. ASSUME NEW c \in Conns, PickSession(c)
      PROVE  TypeOK'
  <2>1. HandlerOf("closePosted", c, TRUE) \in Handler
    BY HandlerFacts DEF Ops
  <2>2. cur' \in [Threads -> Handler]
    BY <1>9, <2>1 DEF PickSession
  <2> QED BY <1>9, <2>2, StopsFacts
      DEF PickSession, MainLabels, flagVars, acceptVars
<1>10. CASE PicksDone
  BY <1>10, StopsFacts DEF PicksDone, flagVars, acceptVars, stopVars,
     MainLabels
<1>11. CASE ClearSessions
  BY <1>11, StopsFacts DEF ClearSessions, flagVars, acceptVars, stopVars,
     MainLabels
<1>12. CASE ResetWork
  BY <1>12, StopsFacts DEF ResetWork, NoWork, acceptVars, stopVars,
     MainLabels
<1>13. CASE JoinThreads
  <2>1. todo = {}
    BY <1>13, StopsFacts DEF JoinThreads, MainInv
  <2> QED BY <1>13, <2>1, StopsFacts
      DEF JoinThreads, TypeOK, MainLabels, flagVars, acceptVars
<1>14. ASSUME NEW t \in Threads, CloseFlag(t)
      PROVE  TypeOK'
  <2>1. /\ Of(t) \in Alive /\ mIsClosing' = mIsClosing \cup {Of(t)}
        /\ UNCHANGED <<ready, reading, closeOps, mSelfPtr, mSessions,
                       acceptVars, up, shaking, crashed>>
    BY <1>14 DEF CloseFlag, OnSession
  <2>2. mIsClosing' \subseteq arrived
    BY <2>1 DEF Alive
  <2>3. pc' \in [Threads -> IoLabels \cup MainLabels]
    BY <1>14, ServesFacts
    DEF CloseFlag, OnSession, AfterClose, IoLabels, MainLabels
  <2> QED BY <1>14, <2>1, <2>2, <2>3, ServesFacts
      DEF CloseFlag, OnSession, acceptVars
<1>15. ASSUME NEW t \in Threads, CloseRemove(t)
      PROVE  TypeOK'
  <2>1. Of(t) \in Conns
    BY <1>15, ServesFacts DEF CloseRemove, OnSession, Alive, TypeOK
  <2>2. ready' \in Seq(Handler)
    BY <1>15, <2>1, PostHandler DEF CloseRemove, TypeOK, Ops
  <2>3. pc' \in [Threads -> IoLabels \cup MainLabels]
    BY <1>15, ServesFacts
    DEF CloseRemove, OnSession, AfterClose, IoLabels, MainLabels
  <2> QED BY <1>15, <2>2, <2>3, ServesFacts
      DEF CloseRemove, OnSession, Unlisted, TypeOK, acceptVars
<1>16. ASSUME NEW t \in IoThreads, Take(t)
      PROVE  TypeOK'
  BY <1>16, TakeFacts DEF Take, flagVars, acceptVars, connVars, opVars,
     sessionVars, stopVars, IoLabels, Ops
<1>17. ASSUME NEW t \in IoThreads, AcceptDone(t)
      PROVE  TypeOK'
  <2>1. cur[t].ok => Of(t) \in Conns
    BY <1>17, ServesFacts
    DEF AcceptDone, Typed, TypeOK, QueueOK, StepsOK, Result, Of
  <2>2. \/ ready' = ready
        \/ Of(t) \in Conns /\ Post(HandlerOf("socket", Of(t), TRUE))
    BY <1>17, <2>1 DEF AcceptDone
  <2>3. ready' \in Seq(Handler)
    <3>1. CASE ready' = ready
      BY <3>1
    <3>2. CASE Of(t) \in Conns /\ Post(HandlerOf("socket", Of(t), TRUE))
      BY <3>2, PostHandler DEF Ops
    <3> QED BY <2>2, <3>1, <3>2
  <2>4. pc' \in [Threads -> IoLabels \cup MainLabels]
    BY <1>17, ServesFacts DEF AcceptDone, IoLabels
  <2> QED BY <1>17, <2>3, <2>4, ServesFacts
      DEF AcceptDone, TypeOK, acceptVars, opVars, sessionVars
<1>18. ASSUME NEW t \in IoThreads, Rearm(t)
      PROVE  TypeOK'
  <2>1. \/ ready' = ready \/ Post(HandlerOf("acceptDone", NoConn, FALSE))
    BY <1>18 DEF Rearm
  <2>2. ready' \in Seq(Handler)
    <3>1. CASE ready' = ready
      BY <3>1
    <3>2. CASE Post(HandlerOf("acceptDone", NoConn, FALSE))
      BY <3>2, PostHandler DEF Ops
    <3> QED BY <2>1, <3>1, <3>2
  <2>3. pc' \in [Threads -> IoLabels \cup MainLabels]
    BY <1>18, ServesFacts DEF Rearm, IoLabels
  <2>4. accepting' \in BOOLEAN
    BY <1>18, Zenon DEF Rearm
  <2> QED BY <1>18, <2>2, <2>3, <2>4, ServesFacts
      DEF Rearm, TypeOK, opVars, sessionVars
<1>19. ASSUME NEW t \in IoThreads, SocketPosted(t)
      PROVE  TypeOK'
  BY <1>19, ServesFacts DEF SocketPosted, CloseSocket, acceptVars, opVars,
     sessionVars, IoLabels, Ops
<1>20. ASSUME NEW t \in IoThreads, OnAccept(t)
      PROVE  TypeOK'
  BY <1>20, ServesFacts DEF OnAccept, CloseSocket, IoLabels, Ops, StepsOK,
     ConnSteps
<1>21. ASSUME NEW t \in IoThreads, Handshaken(t)
      PROVE  TypeOK'
  BY <1>21, ServesFacts DEF Handshaken, Handled, OnSession, acceptVars,
     sessionVars, IoLabels, Ops
<1>22. ASSUME NEW t \in IoThreads, AddSession(t)
      PROVE  TypeOK'
  BY <1>22, ServesFacts DEF AddSession, OnSession, acceptVars, IoLabels, Ops,
     StepsOK, ConnSteps
<1>23. ASSUME NEW t \in IoThreads, Read(t)
      PROVE  TypeOK'
  BY <1>23, ServesFacts DEF Read, OnSession, acceptVars, sessionVars,
     IoLabels, Ops, StepsOK, ConnSteps
<1>24. ASSUME NEW t \in IoThreads, ReadDone(t)
      PROVE  TypeOK'
  BY <1>24, ServesFacts DEF ReadDone, Handled, OnSession, acceptVars,
     sessionVars, IoLabels, Ops
<1>25. ASSUME NEW t \in IoThreads, ClosePosted(t)
      PROVE  TypeOK'
  BY <1>25, ServesFacts DEF ClosePosted, SelfReset, OnSession, acceptVars,
     IoLabels, Ops
<1>26. ASSUME NEW t \in IoThreads, RunDangling(t)
      PROVE  TypeOK'
  <2>1. pc' \in [Threads -> IoLabels \cup MainLabels]
    BY <1>26, ServesFacts DEF RunDangling, IoLabels, TypeOK
  <2>2. crashed' \in BOOLEAN
    BY <1>26, Zenon DEF RunDangling, TypeOK
  <2> QED BY <1>26, <2>1, <2>2, ServesFacts
      DEF RunDangling, TypeOK, acceptVars, opVars, sessionVars
<1>27. ASSUME NEW t \in IoThreads, ThreadExits(t)
      PROVE  TypeOK'
  BY <1>27, ServesFacts DEF ThreadExits, acceptVars, opVars, sessionVars,
     IoLabels, Ops
<1>28. CASE AcceptFails
  <2>1. ready' \in Seq(Handler)
    BY <1>28, PostHandler DEF AcceptFails, TypeOK, Ops
  <2>2. accepting' \in BOOLEAN
    BY <1>28, Zenon DEF AcceptFails
  <2>3. errors' \in 0..MaxErrors
    BY <1>28, ServerAssumption DEF AcceptFails, TypeOK
  <2> QED BY <1>28, <2>1, <2>2, <2>3
      DEF AcceptFails, Outside, TypeOK, flagVars, opVars, sessionVars, stopVars
<1>29. ASSUME NEW c \in Conns, Connect(c)
      PROVE  TypeOK'
  BY <1>29, PostHandler DEF Connect, Outside, flagVars, opVars, sessionVars,
     stopVars, Ops
<1>30. ASSUME NEW c \in Conns, PeerLeaves(c)
      PROVE  TypeOK'
  BY <1>30 DEF PeerLeaves, Outside, flagVars, acceptVars, opVars,
     sessionVars, stopVars
<1>31. ASSUME NEW c \in Conns, CloseEnds(c)
      PROVE  TypeOK'
  BY <1>31 DEF CloseEnds, Outside, flagVars, acceptVars, sessionVars,
     stopVars
<1>32. ASSUME NEW c \in Conns, NEW ok \in BOOLEAN, HandshakeEnds(c, ok)
      PROVE  TypeOK'
  BY <1>32, PostHandler DEF HandshakeEnds, Outside, flagVars, acceptVars,
     connVars, sessionVars, stopVars, Ops
<1>33. ASSUME NEW c \in Conns, NEW ok \in BOOLEAN, ReadEnds(c, ok)
      PROVE  TypeOK'
  BY <1>33, PostHandler DEF ReadEnds, Outside, flagVars, acceptVars,
     connVars, sessionVars, stopVars, Ops
<1> QED BY NextCases, <1>1, <1>2, <1>3, <1>4, <1>5, <1>6, <1>7, <1>8, <1>9,
    <1>10, <1>11, <1>12, <1>13, <1>14, <1>15, <1>16, <1>17, <1>18, <1>19,
    <1>20, <1>21, <1>22, <1>23, <1>24, <1>25, <1>26, <1>27, <1>28, <1>29,
    <1>30, <1>31, <1>32, <1>33

(* ... and what the queued handlers are for ...                            *)
LEMMA QueueNext ==
  ASSUME Typed, MainInv, Next
  PROVE  QueueOK'
<1>0. Main \in Threads /\ \A t \in IoThreads : t \in Threads
  BY DEF Threads
<1>a. TypeOK /\ QueueOK /\ arrived \subseteq Conns
  BY DEF Typed, TypeOK
<1>b. {"socket", "handshake", "readDone", "closePosted"}
        \subseteq Ops \ {"acceptDone"}
  BY DEF Ops
<1> USE <1>0, ServerAssumption DEF Typed, TypeOK, QueueOK
<1>1. CASE Start
  <2>1. arrived' = arrived /\ UNCHANGED ready
    BY <1>1 DEF Start, connVars
  <2> QED BY <2>1 DEF Result
<1>2. CASE StartThrows
  <2>1. arrived' = arrived /\ UNCHANGED ready
    BY <1>2, GotoFacts DEF StartThrows, connVars
  <2> QED BY <2>1 DEF Result
<1>3. CASE Signal
  <2>1. arrived' = arrived /\ UNCHANGED ready
    BY <1>3, StopsFacts DEF Signal
  <2> QED BY <2>1 DEF Result
<1>4. CASE StopFlag
  <2>1. arrived' = arrived /\ UNCHANGED ready
    BY <1>4, StopsFacts DEF StopFlag
  <2> QED BY <2>1 DEF Result
<1>5. CASE CloseAcceptor
  <2>1. arrived' = arrived
    BY <1>5, StopsFacts DEF CloseAcceptor
  <2>2. CASE UNCHANGED ready
    BY <2>1, <2>2 DEF Result
  <2>3. CASE Post(HandlerOf("acceptDone", NoConn, FALSE))
    <3> HIDE DEF Typed, TypeOK, QueueOK
    <3> QED BY <1>a, <2>1, <2>3, AcceptQueued
  <2> QED BY <1>5, <2>2, <2>3 DEF CloseAcceptor
<1>6. CASE SetStopped
  <2>1. arrived' = arrived /\ UNCHANGED ready
    BY <1>6, StopsFacts DEF SetStopped
  <2> QED BY <2>1 DEF Result
<1>7. CASE ResetAcceptor
  <2>1. arrived' = arrived /\ UNCHANGED ready
    BY <1>7, StopsFacts DEF ResetAcceptor
  <2> QED BY <2>1 DEF Result
<1>8. CASE CopySessions
  <2>1. arrived' = arrived /\ UNCHANGED ready
    BY <1>8, StopsFacts DEF CopySessions
  <2> QED BY <2>1 DEF Result
<1>9. ASSUME NEW c \in Conns, PickSession(c)
      PROVE  QueueOK'
  <2>1. arrived' = arrived /\ UNCHANGED ready
    BY <1>9, StopsFacts DEF PickSession
  <2> QED BY <2>1 DEF Result
<1>10. CASE PicksDone
  <2>1. arrived' = arrived /\ UNCHANGED ready
    BY <1>10, StopsFacts DEF PicksDone
  <2> QED BY <2>1 DEF Result
<1>11. CASE ClearSessions
  <2>1. arrived' = arrived /\ UNCHANGED ready
    BY <1>11, StopsFacts DEF ClearSessions
  <2> QED BY <2>1 DEF Result
<1>12. CASE ResetWork
  <2>1. arrived' = arrived /\ UNCHANGED ready
    BY <1>12, StopsFacts DEF ResetWork
  <2> QED BY <2>1 DEF Result
<1>13. CASE JoinThreads
  <2>1. arrived' = arrived /\ UNCHANGED ready
    BY <1>13, StopsFacts DEF JoinThreads
  <2> QED BY <2>1 DEF Result
<1>14. ASSUME NEW t \in Threads, CloseFlag(t)
      PROVE  QueueOK'
  <2>1. arrived' = arrived /\ UNCHANGED ready
    BY <1>14, ServesFacts DEF CloseFlag, OnSession
  <2> QED BY <2>1 DEF Result
<1>15. ASSUME NEW t \in Threads, CloseRemove(t)
      PROVE  QueueOK'
  <2>1. Of(t) \in arrived /\ arrived' = arrived
        /\ Post(HandlerOf("closePosted", Of(t), TRUE))
    BY <1>15, ServesFacts DEF CloseRemove, OnSession, Alive
  <2> HIDE DEF Typed, TypeOK, QueueOK
  <2> QED BY <1>a, <1>b, <2>1, OtherQueued
<1>16. ASSUME NEW t \in IoThreads, Take(t)
      PROVE  QueueOK'
  <2>1. arrived' = arrived
    BY <1>16 DEF Take, connVars
  <2> QED BY <1>16, <2>1, TakeFacts DEF Result
<1>17. ASSUME NEW t \in IoThreads, AcceptDone(t)
      PROVE  QueueOK'
  <2>1. arrived' = arrived /\ pc[t] = "acceptDone"
    BY <1>17, ServesFacts DEF AcceptDone
  <2>2. CASE UNCHANGED ready
    BY <2>1, <2>2 DEF Result
  <2>3. CASE cur[t].ok /\ Post(HandlerOf("socket", Of(t), TRUE))
    <3>1. Of(t) \in arrived
      BY <2>1, <2>3 DEF StepsOK, Result, Of
    <3>2. PICK c \in arrived : Post(HandlerOf("socket", c, TRUE))
      BY <2>3, <3>1
    <3> HIDE <2>3, <3>1
    <3>3. arrived' = arrived
      BY <2>1
    <3> HIDE DEF Typed, TypeOK, QueueOK
    <3> QED BY <1>a, <1>b, <3>2, <3>3, OtherQueued
  <2> QED BY <1>17, <2>2, <2>3 DEF AcceptDone
<1>18. ASSUME NEW t \in IoThreads, Rearm(t)
      PROVE  QueueOK'
  <2>1. arrived' = arrived
    BY <1>18, ServesFacts DEF Rearm
  <2>2. CASE UNCHANGED ready
    BY <2>1, <2>2 DEF Result
  <2>3. CASE Post(HandlerOf("acceptDone", NoConn, FALSE))
    <3> HIDE DEF Typed, TypeOK, QueueOK
    <3> QED BY <1>a, <2>1, <2>3, AcceptQueued
  <2> QED BY <1>18, <2>2, <2>3 DEF Rearm
<1>19. ASSUME NEW t \in IoThreads, SocketPosted(t)
      PROVE  QueueOK'
  <2>1. arrived' = arrived /\ UNCHANGED ready
    BY <1>19, ServesFacts DEF SocketPosted
  <2> QED BY <2>1 DEF Result
<1>20. ASSUME NEW t \in IoThreads, OnAccept(t)
      PROVE  QueueOK'
  <2>1. arrived' = arrived /\ UNCHANGED ready
    BY <1>20, ServesFacts DEF OnAccept
  <2> QED BY <2>1 DEF Result
<1>21. ASSUME NEW t \in IoThreads, Handshaken(t)
      PROVE  QueueOK'
  <2>1. arrived' = arrived /\ UNCHANGED ready
    BY <1>21, ServesFacts DEF Handshaken, OnSession
  <2> QED BY <2>1 DEF Result
<1>22. ASSUME NEW t \in IoThreads, AddSession(t)
      PROVE  QueueOK'
  <2>1. arrived' = arrived /\ UNCHANGED ready
    BY <1>22, ServesFacts DEF AddSession, OnSession
  <2> QED BY <2>1 DEF Result
<1>23. ASSUME NEW t \in IoThreads, Read(t)
      PROVE  QueueOK'
  <2>1. arrived' = arrived /\ UNCHANGED ready
    BY <1>23, ServesFacts DEF Read, OnSession
  <2> QED BY <2>1 DEF Result
<1>24. ASSUME NEW t \in IoThreads, ReadDone(t)
      PROVE  QueueOK'
  <2>1. arrived' = arrived /\ UNCHANGED ready
    BY <1>24, ServesFacts DEF ReadDone, OnSession
  <2> QED BY <2>1 DEF Result
<1>25. ASSUME NEW t \in IoThreads, ClosePosted(t)
      PROVE  QueueOK'
  <2>1. arrived' = arrived /\ UNCHANGED ready
    BY <1>25, ServesFacts DEF ClosePosted, OnSession
  <2> QED BY <2>1 DEF Result
<1>26. ASSUME NEW t \in IoThreads, RunDangling(t)
      PROVE  QueueOK'
  <2>1. arrived' = arrived /\ UNCHANGED ready
    BY <1>26, ServesFacts DEF RunDangling
  <2> QED BY <2>1 DEF Result
<1>27. ASSUME NEW t \in IoThreads, ThreadExits(t)
      PROVE  QueueOK'
  <2>1. arrived' = arrived /\ UNCHANGED ready
    BY <1>27, ServesFacts DEF ThreadExits
  <2> QED BY <2>1 DEF Result
<1>28. CASE AcceptFails
  <2>1. arrived' = arrived /\ Post(HandlerOf("acceptDone", NoConn, FALSE))
    BY <1>28 DEF AcceptFails
  <2> HIDE DEF Typed, TypeOK, QueueOK
  <2> QED BY <1>a, <2>1, AcceptQueued
<1>29. ASSUME NEW c \in Conns, Connect(c)
      PROVE  QueueOK'
  <2>1. arrived' = arrived \cup {c}
        /\ Post(HandlerOf("acceptDone", c, TRUE))
    BY <1>29 DEF Connect
  <2>2. c # NoConn
    OBVIOUS
  <2> HIDE DEF Typed, TypeOK, QueueOK
  <2> QED BY <1>a, <2>1, <2>2, AcceptQueued
<1>30. ASSUME NEW c \in Conns, PeerLeaves(c)
      PROVE  QueueOK'
  <2>1. arrived' = arrived /\ UNCHANGED ready
    BY <1>30 DEF PeerLeaves, Outside, connVars
  <2> QED BY <2>1 DEF Result
<1>31. ASSUME NEW c \in Conns, CloseEnds(c)
      PROVE  QueueOK'
  <2>1. arrived' = arrived /\ UNCHANGED ready
    BY <1>31 DEF CloseEnds, Outside, connVars
  <2> QED BY <2>1 DEF Result
<1>32. ASSUME NEW c \in Conns, NEW ok \in BOOLEAN, HandshakeEnds(c, ok)
      PROVE  QueueOK'
  <2>1. c \in arrived /\ arrived' = arrived
        /\ Post(HandlerOf("handshake", c, ok))
    BY <1>32 DEF HandshakeEnds, connVars
  <2> HIDE DEF Typed, TypeOK, QueueOK
  <2> QED BY <1>a, <1>b, <2>1, OtherQueued
<1>33. ASSUME NEW c \in Conns, NEW ok \in BOOLEAN, ReadEnds(c, ok)
      PROVE  QueueOK'
  <2>1. c \in arrived /\ arrived' = arrived
        /\ Post(HandlerOf("readDone", c, ok))
    BY <1>33 DEF ReadEnds, connVars
  <2> HIDE DEF Typed, TypeOK, QueueOK
  <2> QED BY <1>a, <1>b, <2>1, OtherQueued
<1> QED BY NextCases, <1>1, <1>2, <1>3, <1>4, <1>5, <1>6, <1>7, <1>8, <1>9,
    <1>10, <1>11, <1>12, <1>13, <1>14, <1>15, <1>16, <1>17, <1>18, <1>19,
    <1>20, <1>21, <1>22, <1>23, <1>24, <1>25, <1>26, <1>27, <1>28, <1>29,
    <1>30, <1>31, <1>32, <1>33

(* ... and what the threads work on ...                                    *)
LEMMA StepsNext ==
  ASSUME Typed, MainInv, Next
  PROVE  StepsOK'
<1>0. Main \in Threads /\ \A t \in IoThreads : t \in Threads
  BY DEF Threads
<1> USE <1>0, ServerAssumption DEF Typed, TypeOK, StepsOK, LabelsOK,
            MainLabels, Of, Result, ConnSteps
<1>1. CASE Start
  BY <1>1 DEF Start, connVars, opVars, sessionVars, stopVars, MainLabels,
     IoLabels, Ops
<1>2. CASE StartThrows
  BY <1>2, GotoFacts DEF StartThrows, acceptVars, connVars, opVars,
     sessionVars, stopVars, MainLabels
<1>3. CASE Signal
  BY <1>3, StopsFacts DEF Signal, flagVars, acceptVars, stopVars, MainLabels
<1>4. CASE StopFlag
  BY <1>4, StopsFacts DEF StopFlag, acceptVars, stopVars, MainLabels
<1>5. CASE CloseAcceptor
  BY <1>5, StopsFacts DEF CloseAcceptor, stopVars, MainLabels
<1>6. CASE SetStopped
  BY <1>6, StopsFacts DEF SetStopped, acceptVars, stopVars, MainLabels
<1>7. CASE ResetAcceptor
  BY <1>7, StopsFacts DEF ResetAcceptor, stopVars, MainLabels
<1>8. CASE CopySessions
  BY <1>8, StopsFacts DEF CopySessions, flagVars, acceptVars, MainLabels
<1>9. ASSUME NEW c \in Conns, PickSession(c)
      PROVE  StepsOK'
  <2>1. /\ cur'[Main] = HandlerOf("closePosted", c, TRUE)
        /\ \A t \in IoThreads : cur'[t] = cur[t] /\ pc'[t] = pc[t]
        /\ UNCHANGED <<copy, arrived>> /\ c \in copy /\ c \in Conns
    BY <1>9, StopsFacts DEF PickSession
  <2>2. HandlerOf("closePosted", c, TRUE).conn = c
    BY HandlerFacts DEF Ops
  <2> QED BY <2>1, <2>2 DEF Result
<1>10. CASE PicksDone
  BY <1>10, StopsFacts DEF PicksDone, flagVars, acceptVars, stopVars,
     MainLabels
<1>11. CASE ClearSessions
  BY <1>11, StopsFacts DEF ClearSessions, flagVars, acceptVars, stopVars,
     MainLabels
<1>12. CASE ResetWork
  BY <1>12, StopsFacts DEF ResetWork, NoWork, acceptVars, stopVars,
     MainLabels
<1>13. CASE JoinThreads
  BY <1>13, StopsFacts DEF JoinThreads, Joined, flagVars, acceptVars,
     MainLabels
<1>14. ASSUME NEW t \in Threads, CloseFlag(t)
      PROVE  StepsOK'
  BY <1>14, ServesFacts DEF CloseFlag, AfterClose, OnSession, acceptVars,
     IoLabels, MainLabels
<1>15. ASSUME NEW t \in Threads, CloseRemove(t)
      PROVE  StepsOK'
  BY <1>15, ServesFacts DEF CloseRemove, AfterClose, Unlisted, OnSession,
     acceptVars, IoLabels, MainLabels
<1>16. ASSUME NEW t \in IoThreads, Take(t)
      PROVE  StepsOK'
  <2>1. UNCHANGED <<arrived, copy>> /\ pc'[t] \in Ops
        /\ pc'[t] = ready[1].op /\ cur'[t] = ready[1]
        /\ \A u \in Threads : u # t => pc'[u] = pc[u] /\ cur'[u] = cur[u]
    BY <1>16, TakeFacts DEF Take, connVars, stopVars
  <2>2. /\ pc'[t] = "acceptDone" => Result(ready[1])
        /\ pc'[t] # "acceptDone" => ready[1].conn \in arrived
    BY <1>16, <2>1, TakeFacts DEF QueueOK
  <2> QED BY <2>1, <2>2 DEF Result
<1>17. ASSUME NEW t \in IoThreads, AcceptDone(t)
      PROVE  StepsOK'
  BY <1>17, ServesFacts DEF AcceptDone, acceptVars, opVars, sessionVars,
     IoLabels, Ops
<1>18. ASSUME NEW t \in IoThreads, Rearm(t)
      PROVE  StepsOK'
  BY <1>18, ServesFacts DEF Rearm, Rearms, opVars, sessionVars, IoLabels, Ops
<1>19. ASSUME NEW t \in IoThreads, SocketPosted(t)
      PROVE  StepsOK'
  BY <1>19, ServesFacts DEF SocketPosted, CloseSocket, acceptVars, opVars,
     sessionVars, IoLabels, Ops
<1>20. ASSUME NEW t \in IoThreads, OnAccept(t)
      PROVE  StepsOK'
  BY <1>20, ServesFacts DEF OnAccept, CloseSocket, IoLabels, Ops
<1>21. ASSUME NEW t \in IoThreads, Handshaken(t)
      PROVE  StepsOK'
  BY <1>21, ServesFacts DEF Handshaken, Handled, OnSession, acceptVars,
     sessionVars, IoLabels, Ops
<1>22. ASSUME NEW t \in IoThreads, AddSession(t)
      PROVE  StepsOK'
  BY <1>22, ServesFacts DEF AddSession, OnSession, acceptVars, IoLabels, Ops
<1>23. ASSUME NEW t \in IoThreads, Read(t)
      PROVE  StepsOK'
  BY <1>23, ServesFacts DEF Read, OnSession, acceptVars, sessionVars,
     IoLabels, Ops
<1>24. ASSUME NEW t \in IoThreads, ReadDone(t)
      PROVE  StepsOK'
  BY <1>24, ServesFacts DEF ReadDone, Handled, OnSession, acceptVars,
     sessionVars, IoLabels, Ops
<1>25. ASSUME NEW t \in IoThreads, ClosePosted(t)
      PROVE  StepsOK'
  BY <1>25, ServesFacts DEF ClosePosted, SelfReset, OnSession, acceptVars,
     IoLabels, Ops
<1>26. ASSUME NEW t \in IoThreads, RunDangling(t)
      PROVE  StepsOK'
  BY <1>26, ServesFacts DEF RunDangling, DanglingAcceptor, DanglingSession,
     acceptVars, opVars, sessionVars, IoLabels, Ops
<1>27. ASSUME NEW t \in IoThreads, ThreadExits(t)
      PROVE  StepsOK'
  BY <1>27, ServesFacts DEF ThreadExits, acceptVars, opVars, sessionVars,
     IoLabels, Ops
<1>28. CASE AcceptFails
  BY <1>28 DEF AcceptFails, Outside, flagVars, opVars, sessionVars, stopVars
<1>29. ASSUME NEW c \in Conns, Connect(c)
      PROVE  StepsOK'
  BY <1>29 DEF Connect, Outside, flagVars, opVars, sessionVars, stopVars
<1>30. ASSUME NEW c \in Conns, PeerLeaves(c)
      PROVE  StepsOK'
  BY <1>30 DEF PeerLeaves, Outside, flagVars, acceptVars, opVars,
     sessionVars, stopVars
<1>31. ASSUME NEW c \in Conns, CloseEnds(c)
      PROVE  StepsOK'
  BY <1>31 DEF CloseEnds, Outside, flagVars, acceptVars, sessionVars,
     stopVars
<1>32. ASSUME NEW c \in Conns, NEW ok \in BOOLEAN, HandshakeEnds(c, ok)
      PROVE  StepsOK'
  BY <1>32 DEF HandshakeEnds, Outside, flagVars, acceptVars, connVars,
     sessionVars, stopVars
<1>33. ASSUME NEW c \in Conns, NEW ok \in BOOLEAN, ReadEnds(c, ok)
      PROVE  StepsOK'
  BY <1>33 DEF ReadEnds, Outside, flagVars, acceptVars, connVars,
     sessionVars, stopVars
<1> QED BY NextCases, <1>1, <1>2, <1>3, <1>4, <1>5, <1>6, <1>7, <1>8, <1>9,
    <1>10, <1>11, <1>12, <1>13, <1>14, <1>15, <1>16, <1>17, <1>18, <1>19,
    <1>20, <1>21, <1>22, <1>23, <1>24, <1>25, <1>26, <1>27, <1>28, <1>29,
    <1>30, <1>31, <1>32, <1>33

(* ... and where they are.                                                 *)
LEMMA LabelsNext ==
  ASSUME Typed, MainInv, Next
  PROVE  LabelsOK'
<1>0. Main \in Threads /\ \A t \in IoThreads : t \in Threads
  BY DEF Threads
<1> USE <1>0, ServerAssumption DEF Typed, TypeOK, LabelsOK, MainLabels
<1>1. CASE Start
  BY <1>1 DEF Start, connVars, opVars, sessionVars, stopVars, MainLabels,
     IoLabels
<1>2. CASE StartThrows
  BY <1>2, GotoFacts DEF StartThrows, acceptVars, connVars, opVars,
     sessionVars, stopVars, MainLabels
<1>3. CASE Signal
  BY <1>3, StopsFacts DEF Signal, flagVars, acceptVars, stopVars, MainLabels
<1>4. CASE StopFlag
  BY <1>4, StopsFacts DEF StopFlag, acceptVars, stopVars, MainLabels
<1>5. CASE CloseAcceptor
  BY <1>5, StopsFacts DEF CloseAcceptor, stopVars, MainLabels
<1>6. CASE SetStopped
  BY <1>6, StopsFacts DEF SetStopped, acceptVars, stopVars, MainLabels
<1>7. CASE ResetAcceptor
  BY <1>7, StopsFacts DEF ResetAcceptor, stopVars, MainLabels
<1>8. CASE CopySessions
  BY <1>8, StopsFacts DEF CopySessions, flagVars, acceptVars, MainLabels
<1>9. ASSUME NEW c \in Conns, PickSession(c)
      PROVE  LabelsOK'
  BY <1>9, StopsFacts DEF PickSession, flagVars, acceptVars, MainLabels
<1>10. CASE PicksDone
  BY <1>10, StopsFacts DEF PicksDone, flagVars, acceptVars, stopVars,
     MainLabels
<1>11. CASE ClearSessions
  BY <1>11, StopsFacts DEF ClearSessions, flagVars, acceptVars, stopVars,
     MainLabels
<1>12. CASE ResetWork
  BY <1>12, StopsFacts DEF ResetWork, NoWork, acceptVars, stopVars,
     MainLabels
<1>13. CASE JoinThreads
  BY <1>13, StopsFacts DEF JoinThreads, Joined, flagVars, acceptVars,
     MainLabels
<1>14. ASSUME NEW t \in Threads, CloseFlag(t)
      PROVE  LabelsOK'
  BY <1>14, ServesFacts DEF CloseFlag, AfterClose, OnSession, acceptVars,
     IoLabels, MainLabels
<1>15. ASSUME NEW t \in Threads, CloseRemove(t)
      PROVE  LabelsOK'
  BY <1>15, ServesFacts DEF CloseRemove, AfterClose, Unlisted, OnSession,
     acceptVars, IoLabels, MainLabels
<1>16. ASSUME NEW t \in IoThreads, Take(t)
      PROVE  LabelsOK'
  BY <1>16, TakeFacts DEF Take, flagVars, acceptVars, connVars, opVars,
     sessionVars, stopVars, IoLabels, Ops
<1>17. ASSUME NEW t \in IoThreads, AcceptDone(t)
      PROVE  LabelsOK'
  BY <1>17, ServesFacts DEF AcceptDone, acceptVars, opVars, sessionVars,
     IoLabels, Ops
<1>18. ASSUME NEW t \in IoThreads, Rearm(t)
      PROVE  LabelsOK'
  BY <1>18, ServesFacts DEF Rearm, Rearms, opVars, sessionVars, IoLabels, Ops
<1>19. ASSUME NEW t \in IoThreads, SocketPosted(t)
      PROVE  LabelsOK'
  BY <1>19, ServesFacts DEF SocketPosted, CloseSocket, acceptVars, opVars,
     sessionVars, IoLabels, Ops
<1>20. ASSUME NEW t \in IoThreads, OnAccept(t)
      PROVE  LabelsOK'
  BY <1>20, ServesFacts DEF OnAccept, CloseSocket, IoLabels, Ops
<1>21. ASSUME NEW t \in IoThreads, Handshaken(t)
      PROVE  LabelsOK'
  BY <1>21, ServesFacts DEF Handshaken, Handled, OnSession, acceptVars,
     sessionVars, IoLabels, Ops
<1>22. ASSUME NEW t \in IoThreads, AddSession(t)
      PROVE  LabelsOK'
  BY <1>22, ServesFacts DEF AddSession, OnSession, acceptVars, IoLabels, Ops
<1>23. ASSUME NEW t \in IoThreads, Read(t)
      PROVE  LabelsOK'
  BY <1>23, ServesFacts DEF Read, OnSession, acceptVars, sessionVars,
     IoLabels, Ops
<1>24. ASSUME NEW t \in IoThreads, ReadDone(t)
      PROVE  LabelsOK'
  BY <1>24, ServesFacts DEF ReadDone, Handled, OnSession, acceptVars,
     sessionVars, IoLabels, Ops
<1>25. ASSUME NEW t \in IoThreads, ClosePosted(t)
      PROVE  LabelsOK'
  BY <1>25, ServesFacts DEF ClosePosted, SelfReset, OnSession, acceptVars,
     IoLabels, Ops
<1>26. ASSUME NEW t \in IoThreads, RunDangling(t)
      PROVE  LabelsOK'
  BY <1>26, ServesFacts DEF RunDangling, DanglingAcceptor, DanglingSession,
     acceptVars, opVars, sessionVars, IoLabels, Ops
<1>27. ASSUME NEW t \in IoThreads, ThreadExits(t)
      PROVE  LabelsOK'
  BY <1>27, ServesFacts DEF ThreadExits, acceptVars, opVars, sessionVars,
     IoLabels, Ops
<1>28. CASE AcceptFails
  BY <1>28 DEF AcceptFails, Outside, flagVars, opVars, sessionVars, stopVars
<1>29. ASSUME NEW c \in Conns, Connect(c)
      PROVE  LabelsOK'
  BY <1>29 DEF Connect, Outside, flagVars, opVars, sessionVars, stopVars
<1>30. ASSUME NEW c \in Conns, PeerLeaves(c)
      PROVE  LabelsOK'
  BY <1>30 DEF PeerLeaves, Outside, flagVars, acceptVars, opVars,
     sessionVars, stopVars
<1>31. ASSUME NEW c \in Conns, CloseEnds(c)
      PROVE  LabelsOK'
  BY <1>31 DEF CloseEnds, Outside, flagVars, acceptVars, sessionVars,
     stopVars
<1>32. ASSUME NEW c \in Conns, NEW ok \in BOOLEAN, HandshakeEnds(c, ok)
      PROVE  LabelsOK'
  BY <1>32 DEF HandshakeEnds, Outside, flagVars, acceptVars, connVars,
     sessionVars, stopVars
<1>33. ASSUME NEW c \in Conns, NEW ok \in BOOLEAN, ReadEnds(c, ok)
      PROVE  LabelsOK'
  BY <1>33 DEF ReadEnds, Outside, flagVars, acceptVars, connVars,
     sessionVars, stopVars
<1> QED BY NextCases, <1>1, <1>2, <1>3, <1>4, <1>5, <1>6, <1>7, <1>8, <1>9,
    <1>10, <1>11, <1>12, <1>13, <1>14, <1>15, <1>16, <1>17, <1>18, <1>19,
    <1>20, <1>21, <1>22, <1>23, <1>24, <1>25, <1>26, <1>27, <1>28, <1>29,
    <1>30, <1>31, <1>32, <1>33

(* Each step keeps the order of start() and stop().                        *)
LEMMA MainNext ==
  ASSUME Typed, MainInv, Next
  PROVE  MainInv'
<1>0. Main \in Threads /\ \A t \in IoThreads : t \in Threads
  BY DEF Threads
<1> USE <1>0, ServerAssumption DEF Typed, TypeOK, LabelsOK, MainInv,
            NotStarted, OutOfWork, IoLabels, MainLabels, flagVars,
            acceptVars, connVars, opVars, sessionVars, stopVars
<1>1. CASE Start
  BY <1>1 DEF Start
<1>2. CASE StartThrows
  BY <1>2, GotoFacts DEF StartThrows
<1>3. CASE Signal
  BY <1>3, StopsFacts DEF Signal
<1>4. CASE StopFlag
  BY <1>4, StopsFacts DEF StopFlag
<1>5. CASE CloseAcceptor
  <2>1. \A t \in IoThreads : pc[t] # "exited" /\ pc'[t] = pc[t]
    BY <1>5, StopsFacts DEF CloseAcceptor
  <2>2. pc'[Main] = "setStopped" /\ acceptor' = "closed"
    BY <1>5, StopsFacts DEF CloseAcceptor
  <2>3. UNCHANGED <<mWork, copy, todo, arrived>> /\ accepting' = FALSE
    BY <1>5, StopsFacts DEF CloseAcceptor
  <2>4. ~accepting => ready' = ready
    BY <1>5 DEF CloseAcceptor
  <2>5. pc[Main] = "closeAcceptor"
    BY <1>5, StopsFacts DEF CloseAcceptor
  <2> QED BY <2>1, <2>2, <2>3, <2>4, <2>5
<1>6. CASE SetStopped
  BY <1>6, StopsFacts DEF SetStopped
<1>7. CASE ResetAcceptor
  BY <1>7, StopsFacts DEF ResetAcceptor
<1>8. CASE CopySessions
  BY <1>8, StopsFacts DEF CopySessions
<1>9. ASSUME NEW c \in Conns, PickSession(c)
      PROVE  MainInv'
  BY <1>9, StopsFacts DEF PickSession
<1>10. CASE PicksDone
  BY <1>10, StopsFacts DEF PicksDone
<1>11. CASE ClearSessions
  BY <1>11, StopsFacts DEF ClearSessions
<1>12. CASE ResetWork
  BY <1>12, StopsFacts DEF ResetWork, NoWork
<1>13. CASE JoinThreads
  BY <1>13, StopsFacts DEF JoinThreads, Joined
<1>14. ASSUME NEW t \in Threads, CloseFlag(t)
      PROVE  MainInv'
  BY <1>14, ServesFacts DEF CloseFlag, AfterClose, OnSession
<1>15. ASSUME NEW t \in Threads, CloseRemove(t)
      PROVE  MainInv'
  <2>1. Of(t) \in arrived /\ pc[t] = "remove" /\ t \in Threads
    BY <1>15, ServesFacts DEF CloseRemove, OnSession, Alive
  <2>2. \A u \in IoThreads : pc[u] \notin {"none", "exited"}
    BY <2>1 DEF Threads
  <2>3. /\ pc'[t] = (IF t = Main THEN "pick" ELSE "idle")
        /\ \A u \in Threads : u # t => pc'[u] = pc[u]
        /\ UNCHANGED <<mWork, copy, todo, acceptor>>
    BY <1>15, ServesFacts DEF CloseRemove, OnSession, AfterClose
  <2>4. \A u \in IoThreads : pc'[u] \notin {"none", "exited"}
    BY <2>2, <2>3
  <2>5. pc[Main] # "start"
    BY <2>1
  <2>6. t = Main \/ pc'[Main] = pc[Main]
    BY <2>3
  <2> QED BY <2>1, <2>3, <2>4, <2>5, <2>6
<1>16. ASSUME NEW t \in IoThreads, Take(t)
      PROVE  MainInv'
  <2>1. /\ pc[t] = "idle" /\ pc'[t] \in Ops /\ t \in Threads /\ ready # <<>>
        /\ \A u \in Threads : u # t => pc'[u] = pc[u]
        /\ UNCHANGED <<mWork, copy, todo, acceptor>>
    BY <1>16, TakeFacts DEF Take, flagVars, acceptVars, stopVars
  <2>2. \A u \in IoThreads : pc[u] \notin {"none", "exited"}
    BY <2>1
  <2>3. pc[Main] # "start" /\ pc'[Main] = pc[Main] /\ t # Main
    BY <2>1
  <2>4. \A u \in IoThreads : pc'[u] \notin {"none", "exited"}
    BY <2>1, <2>2 DEF Ops
  <2>5. pc[Main] # "stopped"
    BY <2>1
  <2> QED BY <2>1, <2>3, <2>4, <2>5
<1>17. ASSUME NEW t \in IoThreads, AcceptDone(t)
      PROVE  MainInv'
  BY <1>17, ServesFacts DEF AcceptDone
<1>18. ASSUME NEW t \in IoThreads, Rearm(t)
      PROVE  MainInv'
  BY <1>18, ServesFacts DEF Rearm, Rearms
<1>19. ASSUME NEW t \in IoThreads, SocketPosted(t)
      PROVE  MainInv'
  BY <1>19, ServesFacts DEF SocketPosted, CloseSocket
<1>20. ASSUME NEW t \in IoThreads, OnAccept(t)
      PROVE  MainInv'
  BY <1>20, ServesFacts DEF OnAccept, CloseSocket
<1>21. ASSUME NEW t \in IoThreads, Handshaken(t)
      PROVE  MainInv'
  BY <1>21, ServesFacts DEF Handshaken, Handled, OnSession
<1>22. ASSUME NEW t \in IoThreads, AddSession(t)
      PROVE  MainInv'
  BY <1>22, ServesFacts DEF AddSession, OnSession
<1>23. ASSUME NEW t \in IoThreads, Read(t)
      PROVE  MainInv'
  BY <1>23, ServesFacts DEF Read, OnSession
<1>24. ASSUME NEW t \in IoThreads, ReadDone(t)
      PROVE  MainInv'
  BY <1>24, ServesFacts DEF ReadDone, Handled, OnSession
<1>25. ASSUME NEW t \in IoThreads, ClosePosted(t)
      PROVE  MainInv'
  BY <1>25, ServesFacts DEF ClosePosted, SelfReset, OnSession
<1>26. ASSUME NEW t \in IoThreads, RunDangling(t)
      PROVE  MainInv'
  BY <1>26, ServesFacts DEF RunDangling, DanglingAcceptor, DanglingSession,
     Ops
<1>27. ASSUME NEW t \in IoThreads, ThreadExits(t)
      PROVE  MainInv'
  BY <1>27, ServesFacts DEF ThreadExits
<1>28. CASE AcceptFails
  BY <1>28 DEF AcceptFails, Outside
<1>29. ASSUME NEW c \in Conns, Connect(c)
      PROVE  MainInv'
  BY <1>29 DEF Connect, Outside
<1>30. ASSUME NEW c \in Conns, PeerLeaves(c)
      PROVE  MainInv'
  BY <1>30 DEF PeerLeaves, Outside
<1>31. ASSUME NEW c \in Conns, CloseEnds(c)
      PROVE  MainInv'
  BY <1>31 DEF CloseEnds, Outside
<1>32. ASSUME NEW c \in Conns, NEW ok \in BOOLEAN, HandshakeEnds(c, ok)
      PROVE  MainInv'
  BY <1>32 DEF HandshakeEnds, Outside
<1>33. ASSUME NEW c \in Conns, NEW ok \in BOOLEAN, ReadEnds(c, ok)
      PROVE  MainInv'
  BY <1>33 DEF ReadEnds, Outside
<1> QED BY NextCases, <1>1, <1>2, <1>3, <1>4, <1>5, <1>6, <1>7, <1>8, <1>9,
    <1>10, <1>11, <1>12, <1>13, <1>14, <1>15, <1>16, <1>17, <1>18, <1>19,
    <1>20, <1>21, <1>22, <1>23, <1>24, <1>25, <1>26, <1>27, <1>28, <1>29,
    <1>30, <1>31, <1>32, <1>33

(* Each step keeps the chain of async_accept in one place.                 *)
LEMMA ChainNext ==
  ASSUME Typed, MainInv, ChainInv, Next
  PROVE  ChainInv'
<1>0. Main \in Threads /\ \A t \in IoThreads : t \in Threads
  BY DEF Threads
<1> USE <1>0, ServerAssumption DEF Typed, TypeOK, LabelsOK, ChainInv,
            InAccept, AcceptsAt, IoLabels, MainLabels, flagVars, acceptVars
<1>1. CASE Start
  BY <1>1 DEF Start, MainInv, NotStarted
<1>2. CASE StartThrows
  BY <1>2, GotoFacts DEF StartThrows, MainInv, NotStarted
<1>3. CASE Signal
  BY <1>3, StopsFacts DEF Signal
<1>4. CASE StopFlag
  BY <1>4, StopsFacts DEF StopFlag
<1>5. CASE CloseAcceptor
  <2>1. /\ accepting' = FALSE /\ acceptor' = "closed"
        /\ \A t \in IoThreads : pc'[t] = pc[t]
    BY <1>5, StopsFacts DEF CloseAcceptor
  <2>2. CASE ~accepting
    <3>1. ready' = ready
      BY <1>5, <2>2 DEF CloseAcceptor
    <3> QED BY <2>1, <2>2, <3>1
  <2>3. CASE accepting
    <3>1. Post(HandlerOf("acceptDone", NoConn, FALSE))
      BY <1>5, <2>3 DEF CloseAcceptor
    <3>2. /\ Len(ready) + 1 \in 1..Len(ready')
          /\ ready'[Len(ready) + 1].op = "acceptDone"
          /\ \A i \in 1..Len(ready') :
               ready'[i].op = "acceptDone" => i = Len(ready) + 1
      BY <2>3, <3>1, PostAccept
    <3> QED BY <2>1, <2>3, <3>2
  <2> QED BY <2>2, <2>3
<1>6. CASE SetStopped
  BY <1>6, StopsFacts DEF SetStopped, MainInv, NotStarted
<1>7. CASE ResetAcceptor
  BY <1>7, StopsFacts DEF ResetAcceptor, MainInv, NotStarted
<1>8. CASE CopySessions
  BY <1>8, StopsFacts DEF CopySessions
<1>9. ASSUME NEW c \in Conns, PickSession(c)
      PROVE  ChainInv'
  BY <1>9, StopsFacts DEF PickSession
<1>10. CASE PicksDone
  BY <1>10, StopsFacts DEF PicksDone
<1>11. CASE ClearSessions
  BY <1>11, StopsFacts DEF ClearSessions
<1>12. CASE ResetWork
  BY <1>12, StopsFacts DEF ResetWork, NoWork
<1>13. CASE JoinThreads
  BY <1>13, StopsFacts DEF JoinThreads, Joined
<1>14. ASSUME NEW t \in Threads, CloseFlag(t)
      PROVE  ChainInv'
  BY <1>14, ServesFacts DEF CloseFlag, AfterClose, OnSession
<1>15. ASSUME NEW t \in Threads, CloseRemove(t)
      PROVE  ChainInv'
  <2>1. /\ Of(t) \in Conns /\ UNCHANGED <<acceptor, accepting>>
        /\ Post(HandlerOf("closePosted", Of(t), TRUE))
    BY <1>15, ServesFacts DEF CloseRemove, OnSession, Alive
  <2>2. /\ \A i \in 1..Len(ready') :
             ready'[i].op = "acceptDone" => i \in 1..Len(ready)
                                            /\ ready[i].op = "acceptDone"
        /\ \A i \in 1..Len(ready) :
             ready[i].op = "acceptDone" => i \in 1..Len(ready')
                                           /\ ready'[i].op = "acceptDone"
    BY <2>1, PostHandler DEF Ops
  <2>3. \A u \in IoThreads : InAccept(u)' <=> InAccept(u)
    BY <1>15, ServesFacts DEF CloseRemove, OnSession, AfterClose
  <2> HIDE DEF InAccept
  <2> QED BY <2>1, <2>2, <2>3
<1>16. ASSUME NEW t \in IoThreads, Take(t)
      PROVE  ChainInv'
  <2>1. UNCHANGED <<acceptor, accepting>>
    BY <1>16 DEF Take
  <2>2. \A u \in IoThreads : u # t => (InAccept(u)' <=> InAccept(u))
    BY <1>16, TakeFacts
  <2>3. InAccept(t)' <=> ready[1].op = "acceptDone"
    BY <1>16, TakeFacts DEF Ops
  <2>4. ~InAccept(t)
    BY <1>16, TakeFacts
  <2>5. \A i \in 1..Len(ready') :
           AcceptsAt(i)' <=> ready[i + 1].op = "acceptDone"
    BY <1>16, TakeFacts
  <2>6. CASE ready[1].op = "acceptDone"
    <3>1. \A i \in 1..Len(ready') : ~AcceptsAt(i)'
      BY <1>16, <2>5, <2>6, TakeFacts
    <3>2. ~accepting /\ \A u \in IoThreads : ~InAccept(u)
      BY <1>16, <2>6, TakeFacts
    <3> HIDE DEF InAccept
    <3> QED BY <2>1, <2>2, <2>3, <2>6, <3>1, <3>2
  <2>7. CASE ready[1].op # "acceptDone"
    <3>1. \A u \in IoThreads : InAccept(u)' <=> InAccept(u)
      BY <2>2, <2>3, <2>4, <2>7
    <3>2. \A i, j \in 1..Len(ready') :
             AcceptsAt(i)' /\ AcceptsAt(j)' => i = j
      BY <1>16, <2>5, TakeFacts
    <3>3. (\E i \in 1..Len(ready') : AcceptsAt(i)')
            <=> (\E i \in 1..Len(ready) : AcceptsAt(i))
      BY <1>16, <2>5, <2>7, TakeFacts
    <3> HIDE DEF InAccept, AcceptsAt
    <3> QED BY <2>1, <3>1, <3>2, <3>3
  <2> QED BY <2>6, <2>7
<1>17. ASSUME NEW t \in IoThreads, AcceptDone(t)
      PROVE  ChainInv'
  <2>1. /\ UNCHANGED <<acceptor, accepting>> /\ pc[t] = "acceptDone"
        /\ pc'[t] = (IF acceptor = "stopped" THEN "idle" ELSE "rearm")
        /\ \A u \in IoThreads : u # t => pc'[u] = pc[u]
    BY <1>17, ServesFacts DEF AcceptDone
  <2>2. /\ \A i \in 1..Len(ready') : ready'[i].op # "acceptDone"
    <3>1. \A i \in 1..Len(ready) : ready[i].op # "acceptDone"
      BY <2>1
    <3>2. CASE UNCHANGED ready
      BY <3>1, <3>2
    <3>3. CASE cur[t].ok /\ Post(HandlerOf("socket", Of(t), TRUE))
      <4>1. Of(t) \in Conns
        BY <2>1, <3>3 DEF StepsOK, Result, Of
      <4>2. PICK c \in Conns : Post(HandlerOf("socket", c, TRUE))
        BY <3>3, <4>1
      <4>3. "socket" \in Ops \ {"acceptDone"} /\ TypeOK
        BY DEF Ops, Typed
      <4> HIDE DEF TypeOK
      <4> QED BY <3>1, <4>2, <4>3, PostOther
    <3> QED BY <1>17, <3>2, <3>3 DEF AcceptDone
  <2> QED BY <2>1, <2>2
<1>18. ASSUME NEW t \in IoThreads, Rearm(t)
      PROVE  ChainInv'
  <2>1. /\ UNCHANGED acceptor /\ pc[t] = "rearm" /\ pc'[t] = "idle"
        /\ \A u \in IoThreads : u # t => pc'[u] = pc[u]
        /\ accepting' = (acceptor # "stopped" /\ acceptor = "open")
    BY <1>18, ServesFacts DEF Rearm, Rearms
  <2>2. /\ \A u \in IoThreads : ~InAccept(u)'
        /\ ~accepting /\ \A i \in 1..Len(ready) : ready[i].op # "acceptDone"
    BY <2>1
  <2>3. CASE acceptor = "closed"
    <3>1. Post(HandlerOf("acceptDone", NoConn, FALSE))
      BY <1>18, <2>1, <2>3 DEF Rearm, Rearms
    <3>2. accepting' = FALSE
      BY <2>1, <2>3
    <3>3. \A i \in 1..Len(ready) : ready[i].op # "acceptDone"
      BY <2>2
    <3>a. TypeOK
      BY DEF Typed
    <3> HIDE DEF InAccept, AcceptsAt, ChainInv, TypeOK
    <3>4. /\ Len(ready) + 1 \in 1..Len(ready')
          /\ ready'[Len(ready) + 1].op = "acceptDone"
          /\ \A i \in 1..Len(ready') :
               ready'[i].op = "acceptDone" => i = Len(ready) + 1
      BY <3>a, <3>1, <3>3, PostAccept
    <3> USE DEF AcceptsAt, ChainInv, TypeOK
    <3> QED BY <2>1, <2>2, <2>3, <3>4, <3>2
  <2>4. CASE acceptor # "closed"
    <3>1. ready' = ready
      BY <1>18, <2>4 DEF Rearm
    <3>2. accepting' = (acceptor = "open")
      BY <2>1
    <3> HIDE DEF InAccept
    <3> QED BY <2>1, <2>2, <3>1, <3>2
  <2> QED BY <2>3, <2>4
<1>19. ASSUME NEW t \in IoThreads, SocketPosted(t)
      PROVE  ChainInv'
  BY <1>19, ServesFacts DEF SocketPosted, CloseSocket
<1>20. ASSUME NEW t \in IoThreads, OnAccept(t)
      PROVE  ChainInv'
  BY <1>20, ServesFacts DEF OnAccept, CloseSocket
<1>21. ASSUME NEW t \in IoThreads, Handshaken(t)
      PROVE  ChainInv'
  BY <1>21, ServesFacts DEF Handshaken, Handled, OnSession
<1>22. ASSUME NEW t \in IoThreads, AddSession(t)
      PROVE  ChainInv'
  BY <1>22, ServesFacts DEF AddSession, OnSession
<1>23. ASSUME NEW t \in IoThreads, Read(t)
      PROVE  ChainInv'
  BY <1>23, ServesFacts DEF Read, OnSession
<1>24. ASSUME NEW t \in IoThreads, ReadDone(t)
      PROVE  ChainInv'
  BY <1>24, ServesFacts DEF ReadDone, Handled, OnSession
<1>25. ASSUME NEW t \in IoThreads, ClosePosted(t)
      PROVE  ChainInv'
  BY <1>25, ServesFacts DEF ClosePosted, SelfReset, OnSession
<1>26. ASSUME NEW t \in IoThreads, RunDangling(t)
      PROVE  ChainInv'
  BY <1>26, ServesFacts DEF RunDangling, DanglingAcceptor, DanglingSession,
     Ops
<1>27. ASSUME NEW t \in IoThreads, ThreadExits(t)
      PROVE  ChainInv'
  BY <1>27, ServesFacts DEF ThreadExits
<1>28. CASE AcceptFails
  <2>1. /\ accepting /\ accepting' = FALSE /\ UNCHANGED <<acceptor, pc>>
        /\ Post(HandlerOf("acceptDone", NoConn, FALSE))
    BY <1>28 DEF AcceptFails, Outside
  <2>2. /\ Len(ready) + 1 \in 1..Len(ready')
        /\ ready'[Len(ready) + 1].op = "acceptDone"
        /\ \A i \in 1..Len(ready') :
             ready'[i].op = "acceptDone" => i = Len(ready) + 1
    BY <2>1, PostAccept
  <2> QED BY <2>1, <2>2
<1>29. ASSUME NEW c \in Conns, Connect(c)
      PROVE  ChainInv'
  <2>1. /\ accepting /\ accepting' = FALSE /\ UNCHANGED <<acceptor, pc>>
        /\ Post(HandlerOf("acceptDone", c, TRUE))
    BY <1>29 DEF Connect, Outside
  <2>2. /\ Len(ready) + 1 \in 1..Len(ready')
        /\ ready'[Len(ready) + 1].op = "acceptDone"
        /\ \A i \in 1..Len(ready') :
             ready'[i].op = "acceptDone" => i = Len(ready) + 1
    BY <2>1, PostAccept
  <2> QED BY <2>1, <2>2
<1>30. ASSUME NEW c \in Conns, PeerLeaves(c)
      PROVE  ChainInv'
  BY <1>30 DEF PeerLeaves, Outside
<1>31. ASSUME NEW c \in Conns, CloseEnds(c)
      PROVE  ChainInv'
  BY <1>31 DEF CloseEnds, Outside
<1>32. ASSUME NEW c \in Conns, NEW ok \in BOOLEAN, HandshakeEnds(c, ok)
      PROVE  ChainInv'
  <2>1. /\ c \in Conns /\ UNCHANGED <<acceptor, accepting, pc>>
        /\ Post(HandlerOf("handshake", c, ok))
    BY <1>32 DEF HandshakeEnds, Outside
  <2>2. /\ \A i \in 1..Len(ready') :
             ready'[i].op = "acceptDone" => i \in 1..Len(ready)
                                            /\ ready[i].op = "acceptDone"
        /\ \A i \in 1..Len(ready) :
             ready[i].op = "acceptDone" => i \in 1..Len(ready')
                                           /\ ready'[i].op = "acceptDone"
    BY <2>1, PostHandler DEF Ops
  <2> QED BY <2>1, <2>2
<1>33. ASSUME NEW c \in Conns, NEW ok \in BOOLEAN, ReadEnds(c, ok)
      PROVE  ChainInv'
  BY <1>33, PostHandler DEF ReadEnds, Outside, Ops
<1> QED BY NextCases, <1>1, <1>2, <1>3, <1>4, <1>5, <1>6, <1>7, <1>8, <1>9,
    <1>10, <1>11, <1>12, <1>13, <1>14, <1>15, <1>16, <1>17, <1>18, <1>19,
    <1>20, <1>21, <1>22, <1>23, <1>24, <1>25, <1>26, <1>27, <1>28, <1>29,
    <1>30, <1>31, <1>32, <1>33

-----------------------------------------------------------------------------
(* What the steps do to who works for a connection x, for any set of       *)
(* statements.  A thread goes on with the same connection ...              *)
LEMMA ServesAt ==
  ASSUME TypeOK, NEW t \in Threads, NEW from, NEW to, Serves(t, from, to),
         NEW x, NEW steps
  PROVE  /\ At(x, t, steps) <=> (from \in steps /\ Of(t) = x)
         /\ At(x, t, steps)' <=> (to \in steps /\ Of(t) = x)
         /\ \A u \in Threads : u # t => (At(x, u, steps)' <=> At(x, u, steps))
  BY ServesFacts DEF At, Of

(* A thread that serves another connection's handler leaves the place of   *)
(* connection x in the main thread alone.                                  *)
LEMMA ServesElse ==
  ASSUME TypeOK, Main \in Threads, NEW t \in Threads, NEW from, NEW to,
         Serves(t, from, to), NEW x, Of(t) # x, NEW steps
  PROVE  At(x, Main, steps)' <=> At(x, Main, steps)
<1>1. CASE t = Main
  <2>1. ~At(x, t, steps) /\ ~At(x, t, steps)'
    BY ServesAt
  <2> QED BY <1>1, <2>1
<1>2. CASE t # Main
  BY <1>2, ServesAt
<1> QED BY <1>1, <1>2

(* ... or takes one from the queue, which moves up.                        *)
LEMMA TakeAt ==
  ASSUME TypeOK, NEW t \in IoThreads, Take(t),
         NEW x, NEW steps, "idle" \notin steps
  PROVE  /\ ~At(x, t, steps)
         /\ At(x, t, steps)' <=> Waits(x, 1, steps)
         /\ \A u \in Threads : u # t => (At(x, u, steps)' <=> At(x, u, steps))
         /\ \A i \in 1..Len(ready') :
              Waits(x, i, steps)' <=> Waits(x, i + 1, steps)
  BY TakeFacts DEF At, Waits, Of

(* A thread goes on with its connection: what x loses and gains.           *)
LEMMA ServesMoves ==
  ASSUME TypeOK, NEW t \in Threads, NEW from, NEW to, Serves(t, from, to),
         ready' = ready, NEW x, NEW steps
  PROVE  /\ Carried(x, steps)' =>
              \/ Carried(x, steps)
              \/ t \in IoThreads /\ to \in steps /\ Of(t) = x
         /\ Carried(x, steps) =>
              \/ Carried(x, steps)'
              \/ t \in IoThreads /\ from \in steps /\ Of(t) = x
         /\ t \in IoThreads /\ to \in steps /\ Of(t) = x => Carried(x, steps)'
         /\ /\ Alone(x, steps)
            /\ t \in IoThreads /\ to \in steps /\ Of(t) = x =>
                 from \in steps \/ ~Carried(x, steps)
            => Alone(x, steps)'
         /\ /\ Alone(x, steps)
            /\ t \in IoThreads /\ from \in steps /\ Of(t) = x
            /\ to \notin steps
            => ~Carried(x, steps)'
<1>1. /\ At(x, t, steps) <=> (from \in steps /\ Of(t) = x)
      /\ At(x, t, steps)' <=> (to \in steps /\ Of(t) = x)
      /\ \A u \in IoThreads : u # t => (At(x, u, steps)' <=> At(x, u, steps))
  BY ServesAt DEF Threads
<1>2. \A i \in 1..Len(ready) : Waits(x, i, steps)' <=> Waits(x, i, steps)
  BY DEF Waits
<1> QED BY <1>1, <1>2 DEF Carried, Alone

(* The same when it posts a handler, too.                                  *)
LEMMA PostsMoves ==
  ASSUME TypeOK, NEW t \in Threads, NEW from, NEW to, Serves(t, from, to),
         NEW h \in Handler, Post(h), NEW x, NEW steps, to \notin steps
  PROVE  /\ Carried(x, steps)' =>
              Carried(x, steps) \/ (h.op \in steps /\ h.conn = x)
         /\ Carried(x, steps) =>
              \/ Carried(x, steps)'
              \/ t \in IoThreads /\ from \in steps /\ Of(t) = x
         /\ h.op \in steps /\ h.conn = x => Carried(x, steps)'
         /\ /\ Alone(x, steps)
            /\ h.op \in steps /\ h.conn = x =>
                 \/ ~Carried(x, steps)
                 \/ t \in IoThreads /\ from \in steps /\ Of(t) = x
            => Alone(x, steps)'
         /\ /\ Alone(x, steps)
            /\ t \in IoThreads /\ from \in steps /\ Of(t) = x
            /\ h.op \notin steps \/ h.conn # x
            => ~Carried(x, steps)'
<1>1. /\ At(x, t, steps) <=> (from \in steps /\ Of(t) = x)
      /\ ~At(x, t, steps)'
      /\ \A u \in IoThreads : u # t => (At(x, u, steps)' <=> At(x, u, steps))
  BY ServesAt DEF Threads
<1>2. /\ \A i \in 1..Len(ready') : Waits(x, i, steps)' =>
           \/ i \in 1..Len(ready) /\ Waits(x, i, steps)
           \/ i = Len(ready) + 1 /\ h.op \in steps /\ h.conn = x
      /\ \A i \in 1..Len(ready) : Waits(x, i, steps) =>
           i \in 1..Len(ready') /\ Waits(x, i, steps)'
      /\ h.op \in steps /\ h.conn = x =>
           \E i \in 1..Len(ready') : Waits(x, i, steps)'
  BY PostFacts DEF Waits, TypeOK
<1>3. /\ Carried(x, steps)' =>
           Carried(x, steps) \/ (h.op \in steps /\ h.conn = x)
      /\ Carried(x, steps) =>
              \/ Carried(x, steps)'
              \/ t \in IoThreads /\ from \in steps /\ Of(t) = x
      /\ h.op \in steps /\ h.conn = x => Carried(x, steps)'
  BY <1>1, <1>2 DEF Carried
<1>4. ASSUME Alone(x, steps),
             h.op \in steps /\ h.conn = x =>
                 \/ ~Carried(x, steps)
                 \/ t \in IoThreads /\ from \in steps /\ Of(t) = x
      PROVE  Alone(x, steps)'
  BY <1>1, <1>2, <1>4 DEF Carried, Alone
<1>5. ASSUME Alone(x, steps),
             t \in IoThreads /\ from \in steps /\ Of(t) = x,
             h.op \notin steps \/ h.conn # x
      PROVE  ~Carried(x, steps)'
  BY <1>1, <1>2, <1>5 DEF Carried, Alone
<1> QED BY <1>3, <1>4, <1>5

(* The network or main() posts one.                                        *)
LEMMA NetworkMoves ==
  ASSUME TypeOK, \A u \in IoThreads : pc'[u] = pc[u] /\ cur'[u] = cur[u],
         NEW op \in Ops, NEW c \in Conns \cup {NoConn}, NEW ok \in BOOLEAN,
         Post(HandlerOf(op, c, ok)), NEW x, NEW steps
  PROVE  /\ Carried(x, steps)' <=>
              Carried(x, steps) \/ (op \in steps /\ c = x)
         /\ /\ Alone(x, steps)
            /\ op \in steps /\ c = x => ~Carried(x, steps)
            => Alone(x, steps)'
<1>1. \A u \in IoThreads : At(x, u, steps)' <=> At(x, u, steps)
  BY DEF At, Of
<1>2. /\ \A i \in 1..Len(ready') : Waits(x, i, steps)' =>
           \/ i \in 1..Len(ready) /\ Waits(x, i, steps)
           \/ i = Len(ready) + 1 /\ op \in steps /\ c = x
      /\ \A i \in 1..Len(ready) : Waits(x, i, steps) =>
           i \in 1..Len(ready') /\ Waits(x, i, steps)'
      /\ op \in steps /\ c = x =>
           \E i \in 1..Len(ready') : Waits(x, i, steps)'
  BY SMTT(60), PostHandler DEF Waits
<1> QED BY <1>1, <1>2 DEF Carried, Alone

(* A handler that is taken goes on working for its connection.             *)
LEMMA TakeMoves ==
  ASSUME TypeOK, NEW t \in IoThreads, Take(t),
         NEW x, NEW steps, "idle" \notin steps
  PROVE  /\ Carried(x, steps)' <=> Carried(x, steps)
         /\ Alone(x, steps) => Alone(x, steps)'
<1>1. /\ ~At(x, t, steps)
      /\ At(x, t, steps)' <=> Waits(x, 1, steps)
      /\ \A u \in IoThreads : u # t => (At(x, u, steps)' <=> At(x, u, steps))
      /\ \A i \in 1..Len(ready') :
           Waits(x, i, steps)' <=> Waits(x, i + 1, steps)
  BY TakeAt DEF Threads
<1>2. Carried(x, steps)' <=> Carried(x, steps)
  <2>1. Carried(x, steps)' => Carried(x, steps)
    BY <1>1, TakeFacts DEF Carried
  <2>2. ASSUME Carried(x, steps)
        PROVE  Carried(x, steps)'
    <3>1. CASE \E u \in IoThreads : At(x, u, steps)
      BY <3>1, <1>1 DEF Carried
    <3>2. CASE \E i \in 1..Len(ready) : Waits(x, i, steps)
      BY <3>2, <1>1, TakeFacts DEF Carried
    <3> QED BY <2>2, <3>1, <3>2 DEF Carried
  <2> QED BY <2>1, <2>2
<1>3. ASSUME Alone(x, steps)
      PROVE  Alone(x, steps)'
  <2>1. \A i, j \in 1..Len(ready') :
           Waits(x, i, steps)' /\ Waits(x, j, steps)' => i = j
    BY <1>1, <1>3, TakeFacts DEF Alone
  <2>2. \A u \in IoThreads, i \in 1..Len(ready') :
           ~(At(x, u, steps)' /\ Waits(x, i, steps)')
    BY <1>1, <1>3, TakeFacts DEF Alone
  <2>3. \A u, v \in IoThreads :
           At(x, u, steps)' /\ At(x, v, steps)' => u = v
    BY <1>1, <1>3, TakeFacts DEF Alone
  <2> QED BY <2>1, <2>2, <2>3 DEF Alone
<1> QED BY <1>2, <1>3

(* The main thread and the io threads leave each other alone.              *)
LEMMA StopsMoves ==
  ASSUME TypeOK, NEW from, NEW to, Stops(from, to), UNCHANGED <<ready, cur>>,
         NEW x, NEW steps
  PROVE  /\ Carried(x, steps)' <=> Carried(x, steps)
         /\ Alone(x, steps) => Alone(x, steps)'
         /\ At(x, Main, steps)' <=> to \in steps /\ Of(Main) = x
<1>1. \A u \in IoThreads : At(x, u, steps)' <=> At(x, u, steps)
  BY StopsFacts DEF At, Of
<1>2. \A i \in 1..Len(ready) : Waits(x, i, steps)' <=> Waits(x, i, steps)
  BY DEF Waits
<1> QED BY <1>1, <1>2, StopsFacts DEF Carried, Alone, At, Of

(* The sets of statements that the invariant of a connection names.        *)
StepSets == {Arriving, Newborn, Fresh, Served, Carriers, Closing, Lambda}

(* No set has the statements between handlers, and each the ones it names. *)
LEMMA StepSetFacts ==
  /\ Arriving \subseteq Newborn /\ Lambda \subseteq Closing
  /\ \A steps \in {Arriving, Newborn, Fresh, Served} : steps \subseteq Carriers
  /\ \A steps \in StepSets :
       /\ "idle" \notin steps /\ "rearm" \notin steps /\ "pick" \notin steps
       /\ "exited" \notin steps /\ "none" \notin steps
  /\ \A steps \in {Arriving, Newborn, Carriers} : "acceptDone" \in steps
  /\ \A steps \in {Fresh, Served, Closing, Lambda} :
       "acceptDone" \notin steps
  /\ \A steps \in {Newborn, Carriers} : "socket" \in steps
  /\ \A steps \in {Arriving, Fresh, Served, Closing, Lambda} :
       "socket" \notin steps
  /\ \A steps \in {Newborn, Carriers} : "onAccept" \in steps
  /\ \A steps \in {Arriving, Fresh, Served, Closing, Lambda} :
       "onAccept" \notin steps
  /\ \A steps \in {Fresh, Carriers} : "handshake" \in steps
  /\ \A steps \in {Arriving, Newborn, Served, Closing, Lambda} :
       "handshake" \notin steps
  /\ \A steps \in {Fresh, Carriers} : "add" \in steps
  /\ \A steps \in {Arriving, Newborn, Served, Closing, Lambda} :
       "add" \notin steps
  /\ \A steps \in {Served, Carriers} : "read" \in steps
  /\ \A steps \in {Arriving, Newborn, Fresh, Closing, Lambda} :
       "read" \notin steps
  /\ \A steps \in {Served, Carriers} : "readDone" \in steps
  /\ \A steps \in {Arriving, Newborn, Fresh, Closing, Lambda} :
       "readDone" \notin steps
  /\ \A steps \in {Served, Carriers} : "close" \in steps
  /\ \A steps \in {Arriving, Newborn, Fresh, Closing, Lambda} :
       "close" \notin steps
  /\ \A steps \in {Closing} : "remove" \in steps
  /\ \A steps \in {Arriving, Newborn, Fresh, Served, Carriers, Lambda} :
       "remove" \notin steps
  /\ \A steps \in {Closing, Lambda} : "closePosted" \in steps
  /\ \A steps \in {Arriving, Newborn, Fresh, Served, Carriers} :
       "closePosted" \notin steps
  BY DEF StepSets, Arriving, Newborn, Fresh, Served, Carriers, Closing, Lambda

(* Who does nothing of some statements does nothing of fewer.              *)
LEMMA CarriedMore ==
  ASSUME NEW x, NEW more, NEW steps \in SUBSET more
  PROVE  /\ Carried(x, steps) => Carried(x, more)
         /\ Alone(x, more) => Alone(x, steps)
  BY DEF Carried, Alone, At, Waits

(* The carrier of x goes on: it is the only one.                           *)
LEMMA CarrierMoves ==
  ASSUME TypeOK, NEW t \in IoThreads, NEW from, NEW to, Serves(t, from, to),
         ready' = ready, NEW x, Of(t) = x, Alone(x, Carriers),
         from \in Carriers, NEW steps \in SUBSET Carriers
  PROVE  /\ Carried(x, steps) <=> from \in steps
         /\ Carried(x, steps)' <=> to \in steps
<1>0. t \in Threads
  BY DEF Threads
<1>1. /\ At(x, t, Carriers) /\ pc[t] = from
      /\ At(x, t, steps) <=> from \in steps
  BY <1>0, ServesFacts DEF At
<1>2. \A u \in IoThreads : At(x, u, steps) => At(x, u, Carriers)
  BY DEF At
<1>3. \A i \in 1..Len(ready) : Waits(x, i, steps) => Waits(x, i, Carriers)
  BY DEF Waits
<1>4. Carried(x, steps) <=> from \in steps
  BY <1>1, <1>2, <1>3 DEF Carried, Alone
<1>5. Alone(x, steps)
  BY <1>2, <1>3 DEF Alone
<1> QED BY <1>0, <1>4, <1>5, ServesMoves

(* Or the handler it posts goes on for it.                                 *)
LEMMA CarrierPosts ==
  ASSUME TypeOK, NEW t \in IoThreads, NEW from, NEW to, Serves(t, from, to),
         NEW x, Of(t) = x, Alone(x, Carriers), NEW h \in Handler, Post(h),
         h.conn = x, from \in Carriers, NEW steps \in SUBSET Carriers,
         to \notin steps
  PROVE  /\ Carried(x, steps) <=> from \in steps
         /\ Carried(x, steps)' <=> h.op \in steps
<1>0. t \in Threads
  BY DEF Threads
<1>1. /\ At(x, t, Carriers) /\ pc[t] = from
      /\ At(x, t, steps) <=> from \in steps
  BY <1>0, ServesFacts DEF At
<1>2. \A u \in IoThreads : At(x, u, steps) => At(x, u, Carriers)
  BY DEF At
<1>3. \A i \in 1..Len(ready) : Waits(x, i, steps) => Waits(x, i, Carriers)
  BY DEF Waits
<1>4. Carried(x, steps) <=> from \in steps
  BY <1>1, <1>2, <1>3 DEF Carried, Alone
<1>5. Alone(x, steps)
  BY <1>1, <1>2, <1>3 DEF Alone
<1> QED BY <1>0, <1>4, <1>5, PostsMoves

(* What a step that moves nothing of x leaves as it is.                    *)
Same(x) == \A steps \in StepSets :
  /\ Carried(x, steps)' <=> Carried(x, steps)
  /\ Alone(x, steps) => Alone(x, steps)'

(* Such a step keeps the invariant of x if it does not raise its claims.   *)
LEMMA ConnKept ==
  ASSUME NEW x, ConnOK(x), Same(x),
         At(x, Main, Closing)' <=> At(x, Main, Closing),
         x \in shaking' <=> x \in shaking, x \in reading' <=> x \in reading,
         x \in mSelfPtr' <=> x \in mSelfPtr,
         x \in mIsClosing' <=> x \in mIsClosing,
         x \in mSessions' => x \in mSessions,
         x \in copy' => x \in copy \cup mSessions, x \in up' => x \in up,
         Carried(x, Arriving) =>
           \/ acceptor' = acceptor /\ (next = x => next' = x)
           \/ acceptor' # "open" /\ x \notin up'
  PROVE  ConnOK(x)'
<1>1. /\ \A steps \in StepSets :
           /\ Carried(x, steps)' <=> Carried(x, steps)
           /\ Alone(x, steps) => Alone(x, steps)'
      /\ {Arriving, Newborn, Fresh, Served, Carriers, Closing, Lambda}
           \subseteq StepSets
  BY DEF Same, StepSets
<1>2. OneCarrier(x)' /\ OneCloser(x)'
  BY <1>1 DEF ConnOK, OneCarrier, OneCloser
<1>3. Owned(x)'
  BY <1>1 DEF ConnOK, Owned, Closes
<1>4. MayStayUp(x)'
  BY <1>1 DEF ConnOK, MayStayUp
<1> QED BY <1>2, <1>3, <1>4 DEF ConnOK

(* A handler of async_accept is left of none that is outstanding.          *)
LEMMA ArrivingFacts ==
  ASSUME ChainInv, NEW x, Carried(x, Arriving)
  PROVE  ~accepting /\ \A t \in IoThreads : pc[t] # "rearm"
<1>1. CASE \E t \in IoThreads : At(x, t, Arriving)
  BY <1>1 DEF ChainInv, InAccept, At, Arriving
<1>2. CASE \E i \in 1..Len(ready) : Waits(x, i, Arriving)
  BY <1>2 DEF ChainInv, InAccept, AcceptsAt, Waits, Arriving
<1> QED BY <1>1, <1>2 DEF Carried

(* Nothing works for a connection that has not arrived.                    *)
LEMMA NotArrived ==
  ASSUME Typed, NEW x \in Conns, x \notin arrived
  PROVE  /\ \A steps \in StepSets : ~Carried(x, steps)
         /\ ~At(x, Main, Closing)
         /\ x \notin shaking \cup reading \cup mSelfPtr \cup mIsClosing
         /\ x \notin mSessions \cup copy
<1>1. \A t \in IoThreads, steps \in StepSets : ~At(x, t, steps)
  BY ServerAssumption DEF Typed, StepsOK, Result, ConnSteps, At, Of, StepSets,
     Arriving, Newborn, Fresh, Served, Carriers, Closing, Lambda
<1>2. \A i \in 1..Len(ready), steps \in StepSets : ~Waits(x, i, steps)
  BY ServerAssumption DEF Typed, QueueOK, Result, Waits
<1>3. ~At(x, Main, Closing)
  BY DEF Typed, TypeOK, LabelsOK, MainLabels, StepsOK, At, Of, Closing
<1> QED BY <1>1, <1>2, <1>3 DEF Typed, TypeOK, Carried

(* What the handlers of the threads post.                                  *)
LEMMA PostedFacts ==
  /\ HandlerOf("acceptDone", NoConn, FALSE) \in Handler
  /\ HandlerOf("acceptDone", NoConn, FALSE).conn = NoConn
  /\ HandlerOf("acceptDone", NoConn, FALSE).op = "acceptDone"
  /\ \A c \in Conns, op \in {"socket", "closePosted"} :
       /\ HandlerOf(op, c, TRUE) \in Handler
       /\ HandlerOf(op, c, TRUE).conn = c
       /\ HandlerOf(op, c, TRUE).op = op
<1>1. HandlerOf("acceptDone", NoConn, FALSE) \in Handler
  BY HandlerFacts DEF Ops
<1>2. \A c \in Conns, op \in {"socket", "closePosted"} :
        HandlerOf(op, c, TRUE) \in Handler
  BY HandlerFacts DEF Ops
<1> QED BY <1>1, <1>2 DEF HandlerOf

(* Each step keeps what holds of connection x.                             *)
LEMMA ConnNext ==
  ASSUME Typed, MainInv, ChainInv, NEW x \in Conns, ConnOK(x), Next
  PROVE  ConnOK(x)'
<1>0. x # NoConn /\ Main \notin IoThreads /\ Main \in Threads
      /\ \A t \in IoThreads : t \in Threads
  BY ServerAssumption DEF Threads
<1>d. Typed /\ TypeOK
  BY DEF Typed
<1>e. /\ \A steps \in {Arriving, Newborn, Fresh, Served} :
           steps \in SUBSET Carriers
      /\ Arriving \in SUBSET Newborn /\ Lambda \in SUBSET Closing
      /\ \A steps \in StepSets :
           /\ "idle" \notin steps /\ "rearm" \notin steps
           /\ "pick" \notin steps /\ "exited" \notin steps
           /\ "none" \notin steps
      /\ StepSets =
           {Arriving, Newborn, Fresh, Served, Carriers, Closing, Lambda}
  BY StepSetFacts DEF StepSets
<1>1. CASE Start
  <2>1. /\ ready = <<>> /\ ready' = ready
        /\ \A u \in IoThreads : pc[u] = "none" /\ pc'[u] = "idle"
        /\ pc[Main] = "start" /\ pc'[Main] = "running"
    BY <1>1, <1>0 DEF Start, MainInv, NotStarted
  <2>2. \A steps \in StepSets : /\ ~Carried(x, steps)
                                /\ ~Carried(x, steps)' /\ Alone(x, steps)'
    BY <2>1, <1>e DEF Carried, Alone, At
  <2>3. ~At(x, Main, Closing) /\ ~At(x, Main, Closing)' /\ Same(x)
    BY <2>1, <2>2 DEF At, Closing, Same
  <2>4. ~Carried(x, Arriving)
    BY <2>2, <1>e
  <2> QED BY <1>1, <2>3, <2>4, ConnKept
      DEF Start, connVars, opVars, sessionVars, stopVars
<1>2. CASE StartThrows
  <2>1. /\ ready = <<>> /\ ready' = ready /\ cur' = cur
        /\ \A u \in IoThreads : pc[u] = "none" /\ pc'[u] = "none"
        /\ pc[Main] = "start" /\ pc'[Main] = "flag"
    BY <1>2, <1>0, <1>d, GotoFacts DEF StartThrows, MainInv, NotStarted
  <2>2. \A steps \in StepSets : /\ ~Carried(x, steps)
                                /\ ~Carried(x, steps)' /\ Alone(x, steps)'
    BY <2>1, <1>e DEF Carried, Alone, At
  <2>3. ~At(x, Main, Closing) /\ ~At(x, Main, Closing)' /\ Same(x)
    BY <2>1, <2>2 DEF At, Closing, Same
  <2>4. ~Carried(x, Arriving)
    BY <2>2, <1>e
  <2> QED BY <1>2, <2>3, <2>4, ConnKept
      DEF StartThrows, connVars, opVars, sessionVars, stopVars
<1>3. CASE Signal
  <2>1. Stops("running", "flag") /\ UNCHANGED <<ready, cur>>
    BY <1>3 DEF Signal
  <2>2. Same(x)
    BY <2>1, <1>d, StopsMoves DEF Same
  <2>3. /\ UNCHANGED <<shaking, reading, mSelfPtr, mIsClosing>>
        /\ ~At(x, Main, Closing) /\ ~At(x, Main, Closing)'
    BY <2>1, <1>d, StopsFacts DEF At, Closing
  <2> QED BY <1>3, <2>2, <2>3, ConnKept
      DEF Signal, acceptVars, flagVars, stopVars
<1>4. CASE StopFlag
  <2>1. Stops("flag", "closeAcceptor") /\ UNCHANGED <<ready, cur>>
    BY <1>4 DEF StopFlag
  <2>2. Same(x)
    BY <2>1, <1>d, StopsMoves DEF Same
  <2>3. /\ UNCHANGED <<shaking, reading, mSelfPtr, mIsClosing>>
        /\ ~At(x, Main, Closing) /\ ~At(x, Main, Closing)'
    BY <2>1, <1>d, StopsFacts DEF At, Closing
  <2> QED BY <1>4, <2>2, <2>3, ConnKept
      DEF StopFlag, acceptVars, flagVars, stopVars
<1>5. CASE CloseAcceptor
  <2>1. /\ Stops("closeAcceptor", "setStopped")
        /\ \A u \in IoThreads : pc'[u] = pc[u] /\ cur'[u] = cur[u]
        /\ UNCHANGED <<cur, shaking, reading, mSelfPtr, mIsClosing, mSessions,
                       copy>>
        /\ acceptor' = "closed" /\ up' = up \ {next}
    BY <1>5, <1>d, StopsFacts DEF CloseAcceptor, stopVars
  <2>2. Same(x)
    <3>1. CASE UNCHANGED ready
      BY <2>1, <3>1, <1>d, StopsMoves DEF Same
    <3>2. CASE Post(HandlerOf("acceptDone", NoConn, FALSE))
      BY <2>1, <3>2, <1>0, <1>d, NetworkMoves DEF Ops, Same
    <3> QED BY <1>5, <3>1, <3>2 DEF CloseAcceptor
  <2>3. ~At(x, Main, Closing) /\ ~At(x, Main, Closing)'
    BY <2>1, <1>d, StopsFacts DEF At, Closing
  <2>4. Carried(x, Arriving) => x \notin up'
    BY <2>1 DEF ConnOK, MayStayUp
  <2> QED BY <2>1, <2>2, <2>3, <2>4, ConnKept
<1>6. CASE SetStopped
  <2>1. Stops("setStopped", "resetAcceptor") /\ UNCHANGED <<ready, cur>>
    BY <1>6 DEF SetStopped
  <2>2. Same(x)
    BY <2>1, <1>d, StopsMoves DEF Same
  <2>3. /\ UNCHANGED <<shaking, reading, mSelfPtr, mIsClosing>>
        /\ ~At(x, Main, Closing) /\ ~At(x, Main, Closing)'
    BY <2>1, <1>d, StopsFacts DEF At, Closing
  <2>4. Carried(x, Arriving) => x \notin up
    BY <2>1, <1>d, StopsFacts DEF ConnOK, MayStayUp, MainInv
  <2> QED BY <1>6, <2>2, <2>3, <2>4, ConnKept DEF SetStopped, stopVars
<1>7. CASE ResetAcceptor
  <2>1. Stops("resetAcceptor", "copy") /\ UNCHANGED <<ready, cur>>
    BY <1>7 DEF ResetAcceptor
  <2>2. Same(x)
    BY <2>1, <1>d, StopsMoves DEF Same
  <2>3. /\ UNCHANGED <<shaking, reading, mSelfPtr, mIsClosing>>
        /\ ~At(x, Main, Closing) /\ ~At(x, Main, Closing)'
    BY <2>1, <1>d, StopsFacts DEF At, Closing
  <2>4. Carried(x, Arriving) => x \notin up
    BY <2>1, <1>d, StopsFacts DEF ConnOK, MayStayUp, MainInv
  <2> QED BY <1>7, <2>2, <2>3, <2>4, ConnKept DEF ResetAcceptor, stopVars
<1>8. CASE CopySessions
  <2>1. Stops("copy", "pick") /\ UNCHANGED <<ready, cur>>
    BY <1>8 DEF CopySessions
  <2>2. Same(x)
    BY <2>1, <1>d, StopsMoves DEF Same
  <2>3. /\ UNCHANGED <<shaking, reading, mSelfPtr, mIsClosing>>
        /\ ~At(x, Main, Closing) /\ ~At(x, Main, Closing)'
    BY <2>1, <1>d, StopsFacts DEF At, Closing
  <2> QED BY <1>8, <2>2, <2>3, ConnKept
      DEF CopySessions, acceptVars, flagVars, stopVars
<1>9. ASSUME NEW c \in Conns, PickSession(c)
      PROVE  ConnOK(x)'
  <2>1. /\ UNCHANGED <<shaking, reading, mSelfPtr, mIsClosing, ready>>
        /\ ~At(x, Main, Closing) /\ ~At(x, Main, Closing)'
    BY <1>9, <1>0, <1>d, StopsFacts DEF PickSession, At, Closing
  <2>2. \A u \in IoThreads : pc'[u] = pc[u] /\ cur'[u] = cur[u]
    BY <1>9, <1>0, <1>d, StopsFacts DEF PickSession, TypeOK
  <2>3. Same(x)
    BY <2>2, <2>1 DEF Same, Carried, Alone, At, Waits, Of
  <2> QED BY <1>9, <2>1, <2>3, ConnKept DEF PickSession, acceptVars, flagVars
<1>10. CASE PicksDone
  <2>1. Stops("pick", "clear") /\ UNCHANGED <<ready, cur>>
    BY <1>10 DEF PicksDone
  <2>2. Same(x)
    BY <2>1, <1>d, StopsMoves DEF Same
  <2>3. /\ UNCHANGED <<shaking, reading, mSelfPtr, mIsClosing>>
        /\ ~At(x, Main, Closing) /\ ~At(x, Main, Closing)'
    BY <2>1, <1>d, StopsFacts DEF At, Closing
  <2> QED BY <1>10, <2>2, <2>3, ConnKept
      DEF PicksDone, acceptVars, flagVars, stopVars
<1>11. CASE ClearSessions
  <2>1. PICK to \in {"clear", "work"} :
          Stops("clear", to) /\ UNCHANGED <<ready, cur>>
    BY <1>11 DEF ClearSessions
  <2>2. Same(x)
    BY <2>1, <1>d, StopsMoves DEF Same
  <2>3. /\ UNCHANGED <<shaking, reading, mSelfPtr, mIsClosing>>
        /\ ~At(x, Main, Closing) /\ ~At(x, Main, Closing)'
    BY <2>1, <1>d, StopsFacts DEF At, Closing
  <2> QED BY <1>11, <2>2, <2>3, ConnKept
      DEF ClearSessions, acceptVars, flagVars, stopVars
<1>12. CASE ResetWork
  <2>1. Stops("work", "join") /\ UNCHANGED <<ready, cur>>
    BY <1>12 DEF ResetWork
  <2>2. Same(x)
    BY <2>1, <1>d, StopsMoves DEF Same
  <2>3. /\ UNCHANGED <<shaking, reading, mSelfPtr, mIsClosing>>
        /\ ~At(x, Main, Closing) /\ ~At(x, Main, Closing)'
    BY <2>1, <1>d, StopsFacts DEF At, Closing
  <2> QED BY <1>12, <2>2, <2>3, ConnKept
      DEF ResetWork, acceptVars, flagVars, stopVars
<1>13. CASE JoinThreads
  <2>1. Stops("join", "stopped") /\ UNCHANGED <<ready, cur>>
    BY <1>13 DEF JoinThreads
  <2>2. Same(x)
    BY <2>1, <1>d, StopsMoves DEF Same
  <2>3. /\ UNCHANGED <<shaking, reading, mSelfPtr, mIsClosing>>
        /\ ~At(x, Main, Closing) /\ ~At(x, Main, Closing)'
    BY <2>1, <1>d, StopsFacts DEF At, Closing
  <2> QED BY <1>13, <2>2, <2>3, ConnKept
      DEF JoinThreads, acceptVars, flagVars, stopVars
<1>14. ASSUME NEW t \in Threads, CloseFlag(t)
      PROVE  ConnOK(x)'
  <2>1. PICK to \in {"pick", "idle", "remove"} :
          /\ Serves(t, "close", to) /\ ready' = ready
          /\ to = IF Of(t) \in mIsClosing THEN AfterClose(t) ELSE "remove"
    BY <1>14 DEF CloseFlag, OnSession, AfterClose
  <2>2. CASE Of(t) # x
    <3>1. Same(x)
      BY <2>1, <2>2, <1>0, <1>d, ServesMoves DEF Same
    <3>2. At(x, Main, Closing)' <=> At(x, Main, Closing)
      BY <2>1, <2>2, <1>0, <1>d, ServesElse
    <3>3. UNCHANGED <<acceptor, copy>>
      BY <2>1 DEF Serves, flagVars, stopVars
    <3> QED BY <1>14, <2>2, <3>1, <3>2, <3>3, ConnKept
        DEF CloseFlag, OnSession, AfterClose,
            acceptVars, opVars, sessionVars
  <2>3. CASE Of(t) = x /\ t # Main
    <3>1. t \in IoThreads
      BY <2>3 DEF Threads
    <3>2. \A steps \in SUBSET Carriers :
             /\ Carried(x, steps) <=> "close" \in steps
             /\ Carried(x, steps)' <=> to \in steps
      BY <2>1, <2>3, <3>1, <1>d, CarrierMoves, StepSetFacts
      DEF ConnOK, OneCarrier
    <3>3. /\ ~Carried(x, Arriving) /\ ~Carried(x, Newborn)
          /\ ~Carried(x, Fresh) /\ Carried(x, Served) /\ Carried(x, Carriers)
      BY <3>2, <1>e, StepSetFacts
    <3>4. \A steps \in {Arriving, Newborn, Fresh, Served, Carriers} :
            ~Carried(x, steps)'
      BY <2>1, <3>2, <1>e, StepSetFacts
    <3>5. /\ "close" \notin Closing /\ "close" \notin Lambda
          /\ to \in Closing <=> to = "remove"
          /\ to \notin Lambda /\ to \notin Carriers
      BY <2>1 DEF Closing, Lambda, Carriers, Newborn, Fresh, Served
    <3>6. /\ Alone(x, Carriers) /\ Alone(x, Closing)
          /\ x \in mSelfPtr \cup mIsClosing
          /\ to = "remove" => x \notin mIsClosing
          /\ x \notin mIsClosing => to = "remove" /\ ~Closes(x)
      BY <2>1, <2>3, <3>3 DEF ConnOK, OneCarrier, OneCloser, Owned, AfterClose
    <3>7. Alone(x, Carriers)'
      BY <2>1, <3>5, <3>6, <1>0, <1>d, ServesMoves
    <3>8. Alone(x, Closing)' /\ (to = "remove" => Carried(x, Closing)')
      BY <2>1, <2>3, <3>1, <3>5, <3>6, <1>0, <1>d, ServesMoves DEF Closes
    <3>9. to # "remove" => (Carried(x, Closing)' <=> Carried(x, Closing))
      BY <2>1, <2>3, <3>1, <3>5, <1>0, <1>d, ServesMoves
    <3>10. Carried(x, Lambda)' <=> Carried(x, Lambda)
      BY <2>1, <2>3, <3>1, <3>5, <1>0, <1>d, ServesMoves
    <3>11. At(x, Main, Closing)' <=> At(x, Main, Closing)
      BY <2>1, <2>3, <1>0, <1>d, ServesAt
    <3>12. Carried(x, Lambda) => Carried(x, Closing)
      BY <1>e, CarriedMore
    <3>13. /\ UNCHANGED <<acceptor, copy, mSelfPtr, mSessions, shaking,
                          reading,
                          next, up>>
           /\ mIsClosing' = mIsClosing \cup {x}
      BY <1>14, <2>1, <2>3
      DEF CloseFlag, OnSession, Serves, flagVars, stopVars, acceptVars
    <3> QED BY <3>3, <3>4, <3>6, <3>7, <3>8, <3>9, <3>10, <3>11, <3>12, <3>13
        DEF ConnOK, OneCarrier, OneCloser, Owned, MayStayUp, Closes
  <2>4. CASE Of(t) = x /\ t = Main
    <3>1. \A steps \in StepSets :
            /\ Carried(x, steps)' <=> Carried(x, steps)
            /\ Alone(x, steps) => Alone(x, steps)'
      BY <2>1, <2>4, <1>0, <1>d, ServesMoves
    <3>2. /\ "close" \notin Closing /\ (to \in Closing <=> to = "remove")
      BY <2>1 DEF Closing
    <3>3. /\ ~At(x, Main, Closing)
          /\ At(x, Main, Closing)' <=> to = "remove"
      BY <2>1, <2>4, <3>2, <1>0, <1>d, ServesAt
    <3>4. pc[Main] = "close" /\ x \in copy
      BY <2>1, <2>4, <1>0, <1>d, ServesFacts DEF Typed, StepsOK
    <3>5. /\ x \in mSelfPtr \cup mIsClosing
          /\ to = "remove" => x \notin mIsClosing
          /\ x \notin mIsClosing => to = "remove" /\ ~Closes(x)
      BY <2>1, <2>4, <3>4 DEF ConnOK, Owned, AfterClose
    <3>6. Carried(x, Lambda) => Carried(x, Closing)
      BY <1>e, CarriedMore
    <3>7. /\ UNCHANGED <<acceptor, copy, mSelfPtr, mSessions, shaking, reading,
                         next, up>>
          /\ mIsClosing' = mIsClosing \cup {x}
      BY <1>14, <2>1, <2>4
      DEF CloseFlag, OnSession, Serves, flagVars, stopVars, acceptVars
    <3>8. /\ Alone(x, Carriers)' /\ Alone(x, Closing)'
          /\ Carried(x, Arriving)' <=> Carried(x, Arriving)
          /\ Carried(x, Newborn)' <=> Carried(x, Newborn)
          /\ Carried(x, Fresh)' <=> Carried(x, Fresh)
          /\ Carried(x, Served)' <=> Carried(x, Served)
          /\ Carried(x, Carriers)' <=> Carried(x, Carriers)
          /\ Carried(x, Closing)' <=> Carried(x, Closing)
          /\ Carried(x, Lambda)' <=> Carried(x, Lambda)
      BY <3>1, <1>e DEF ConnOK, OneCarrier, OneCloser
    <3> QED BY <3>3, <3>4, <3>5, <3>6, <3>7, <3>8
        DEF ConnOK, OneCarrier, OneCloser, Owned, MayStayUp, Closes
  <2> QED BY <2>2, <2>3, <2>4
<1>15. ASSUME NEW t \in Threads, CloseRemove(t)
      PROVE  ConnOK(x)'
  <2>1. Of(t) \in Conns
    BY <1>15, <1>d DEF CloseRemove, OnSession, Alive, TypeOK
  <2>2. PICK to \in {"idle", "pick"} :
          Serves(t, "remove", to) /\ to = AfterClose(t)
    BY <1>15 DEF CloseRemove, OnSession, AfterClose
  <2>3. PICK h \in Handler :
          Post(h) /\ h.conn = Of(t) /\ h.op = "closePosted"
    BY <1>15, <2>1, PostedFacts DEF CloseRemove
  <2>4. \A steps \in StepSets : to \notin steps
    BY <2>2, <1>e
  <2>5. CASE Of(t) # x
    <3>1. Same(x)
      BY <2>2, <2>3, <2>4, <2>5, <1>0, <1>d, PostsMoves DEF Same
    <3>2. At(x, Main, Closing)' <=> At(x, Main, Closing)
      BY <2>2, <2>5, <1>0, <1>d, ServesAt
    <3>3. UNCHANGED <<acceptor, copy>>
      BY <2>2 DEF Serves, flagVars, stopVars
    <3> QED BY <1>15, <2>5, <3>1, <3>2, <3>3, ConnKept
        DEF CloseRemove, OnSession, Unlisted, acceptVars
  <2>6. CASE Of(t) = x
    <3>1. /\ "remove" \in Closing /\ "closePosted" \in Closing
          /\ "closePosted" \in Lambda
          /\ \A steps \in {Arriving, Newborn, Fresh, Served, Carriers} :
               "remove" \notin steps /\ "closePosted" \notin steps
      BY DEF Closing, Lambda, Arriving, Newborn, Fresh, Served, Carriers
    <3>2. \A steps \in {Arriving, Newborn, Fresh, Served, Carriers} :
            /\ Carried(x, steps)' <=> Carried(x, steps)
            /\ Alone(x, steps) => Alone(x, steps)'
      BY <2>2, <2>3, <2>4, <3>1, <1>0, <1>d, <1>e, PostsMoves
    <3>3. Closing \in StepSets /\ Lambda \in StepSets
      BY <1>e
    <3>4. Carried(x, Closing)' /\ Carried(x, Lambda)'
      BY <2>2, <2>3, <2>4, <2>6, <3>1, <3>3, <1>0, <1>d, PostsMoves
    <3>5. At(x, t, Closing)
      BY <2>2, <2>6, <3>1, <1>0, <1>d, ServesAt
    <3>6. /\ Alone(x, Closing) /\ Closes(x)
          /\ t \notin IoThreads => ~Carried(x, Closing)
          /\ t \in IoThreads => ~At(x, Main, Closing)
      BY <3>5, <1>0 DEF ConnOK, OneCloser, Closes, Carried, Threads
    <3>7. Alone(x, Closing)'
      BY <2>2, <2>3, <2>4, <2>6, <3>1, <3>3, <3>6, <1>0, <1>d, PostsMoves
    <3>8. ~At(x, Main, Closing)'
      <4>1. CASE t = Main
        BY <2>2, <2>4, <3>3, <4>1, <1>0, <1>d, ServesAt
      <4>2. CASE t # Main
        BY <2>2, <3>6, <4>2, <1>0, <1>d, ServesAt DEF Threads
      <4> QED BY <4>1, <4>2
    <3>9. /\ UNCHANGED <<acceptor, copy, mIsClosing, mSelfPtr, shaking,
                         reading,
                         next, up>>
          /\ mSessions' = mSessions \ ({x} \cap mSelfPtr)
      BY <1>15, <2>2, <2>6 DEF CloseRemove, OnSession, Unlisted, Serves,
         flagVars, stopVars, acceptVars
    <3>10. /\ Alone(x, Carriers)'
           /\ Carried(x, Arriving)' <=> Carried(x, Arriving)
           /\ Carried(x, Newborn)' <=> Carried(x, Newborn)
           /\ Carried(x, Fresh)' <=> Carried(x, Fresh)
           /\ Carried(x, Served)' <=> Carried(x, Served)
           /\ Carried(x, Carriers)' <=> Carried(x, Carriers)
      BY <3>2 DEF ConnOK, OneCarrier
    <3> QED BY <3>4, <3>6, <3>7, <3>8, <3>9, <3>10
        DEF ConnOK, OneCarrier, OneCloser, Owned, MayStayUp, Closes
  <2> QED BY <2>5, <2>6
<1>16. ASSUME NEW t \in IoThreads, Take(t)
      PROVE  ConnOK(x)'
  <2>1. UNCHANGED <<shaking, reading, sessionVars, copy, acceptor, next, up>>
    BY <1>16 DEF Take, opVars, flagVars, acceptVars, connVars, stopVars
  <2>2. Same(x)
    BY <1>16, <1>d, <1>e, TakeMoves DEF Same
  <2>3. At(x, Main, Closing)' <=> At(x, Main, Closing)
    BY <1>16, <1>0, <1>d, TakeFacts DEF At, Of
  <2> QED BY <2>1, <2>2, <2>3, ConnKept DEF sessionVars
<1>17. ASSUME NEW t \in IoThreads, AcceptDone(t)
      PROVE  ConnOK(x)'
  <2>1. /\ Of(t) \in arrived \cup {NoConn} /\ (cur[t].ok <=> Of(t) # NoConn)
    BY <1>17, <1>0, <1>d, ServesFacts DEF AcceptDone, Typed, StepsOK, Result,
       Of
  <2>2. PICK to \in {"idle", "rearm"} :
          Serves(t, "acceptDone", to)
    BY <1>17 DEF AcceptDone
  <2>3. \A steps \in StepSets : to \notin steps
    BY <2>2, <1>e
  <2>4. At(x, Main, Closing)' <=> At(x, Main, Closing)
    BY <2>2, <1>0, <1>d, ServesAt
  <2>5. /\ \A steps \in StepSets : to \notin steps
        /\ At(x, Main, Closing)' <=> At(x, Main, Closing)
    BY <2>3, <2>4
  <2>6. UNCHANGED <<acceptor, copy, mIsClosing, mSelfPtr, mSessions, shaking,
                    reading, next, up>>
    BY <1>17, <2>2 DEF AcceptDone, Serves, flagVars, stopVars, acceptVars,
       opVars, sessionVars
  <2>7. CASE ready' = ready /\ Of(t) # x
    <3>1. Same(x)
      BY <2>2, <2>7, <2>5, <1>0, <1>d, ServesMoves DEF Same
    <3> QED BY <2>5, <2>6, <3>1, ConnKept
  <2>8. ASSUME Of(t) = x
        PROVE  /\ "acceptDone" \in Carriers /\ Alone(x, Carriers)
               /\ "acceptDone" \notin Closing /\ "acceptDone" \notin Lambda
               /\ "socket" \notin Closing /\ "socket" \notin Lambda
               /\ Carried(x, Arriving) /\ Carried(x, Newborn)
    BY <2>2, <2>8, <1>0, <1>d, ServesFacts DEF ConnOK, OneCarrier, Carried,
       At, Arriving, Carriers, Newborn, Closing, Lambda
  <2>9. CASE acceptor = "stopped" /\ ready' = ready /\ Of(t) = x
    <3>1. \A steps \in SUBSET Carriers :
            Carried(x, steps)' <=> to \in steps
      BY <2>2, <2>9, <2>8, <1>d, CarrierMoves
    <3>2. \A steps \in {Arriving, Newborn, Fresh, Served, Carriers} :
            ~Carried(x, steps)'
      BY <2>5, <3>1, <1>e
    <3>3. \A steps \in {Closing, Lambda} :
            /\ Carried(x, steps)' <=> Carried(x, steps)
            /\ Alone(x, steps) => Alone(x, steps)'
      BY <2>2, <2>5, <2>9, <2>8, <1>0, <1>d, <1>e, ServesMoves
    <3>4. Alone(x, Carriers)'
      BY <2>2, <2>5, <2>9, <2>8, <1>0, <1>d, <1>e, ServesMoves
    <3>5. x \notin mSelfPtr \cup mIsClosing /\ x \notin up
      BY <2>9, <2>8 DEF ConnOK, Owned, MayStayUp
    <3>6. OneCarrier(x)' /\ OneCloser(x)'
      BY <2>5, <2>6, <3>2, <3>3, <3>4 DEF ConnOK, OneCarrier, OneCloser
    <3>7. Owned(x)' /\ MayStayUp(x)'
      BY <2>5, <2>6, <3>2, <3>3, <3>5
      DEF ConnOK, Owned, MayStayUp, Closes
    <3> QED BY <3>6, <3>7 DEF ConnOK
  <2>10. CASE cur[t].ok /\ Post(HandlerOf("socket", Of(t), TRUE))
    <3>1. PICK h \in Handler : Post(h) /\ h.conn = Of(t) /\ h.op = "socket"
      BY <2>1, <2>10, <1>d, PostedFacts DEF TypeOK
    <3>2. CASE Of(t) # x
      <4>1. Same(x)
        BY <2>2, <2>5, <3>1, <3>2, <1>0, <1>d, PostsMoves DEF Same
      <4> QED BY <2>5, <2>6, <4>1, ConnKept
    <3>3. CASE Of(t) = x
      <4>1. \A steps \in {Arriving, Newborn, Fresh, Served, Carriers} :
              /\ Carried(x, steps) <=> "acceptDone" \in steps
              /\ Carried(x, steps)' <=> "socket" \in steps
        BY <2>2, <2>5, <2>8, <3>1, <3>3, <1>d, <1>e, StepSetFacts,
           CarrierPosts
      <4>2. /\ ~Carried(x, Arriving)' /\ Carried(x, Newborn)'
            /\ ~Carried(x, Fresh)' /\ ~Carried(x, Served)'
            /\ Carried(x, Carriers)' /\ Carried(x, Carriers)
            /\ ~Carried(x, Fresh) /\ ~Carried(x, Served)
        BY <4>1 DEF Arriving, Newborn, Fresh, Served, Carriers
      <4>3. \A steps \in {Closing, Lambda} :
              /\ Carried(x, steps)' <=> Carried(x, steps)
              /\ Alone(x, steps) => Alone(x, steps)'
        BY <2>2, <2>5, <2>8, <3>1, <3>3, <1>0, <1>d, <1>e, PostsMoves
      <4>4. Alone(x, Carriers)'
        BY <2>2, <2>5, <2>8, <3>1, <3>3, <1>0, <1>d, <1>e, PostsMoves
      <4>5. OneCarrier(x)' /\ OneCloser(x)'
        BY <2>5, <2>6, <4>2, <4>3, <4>4 DEF ConnOK, OneCarrier, OneCloser
      <4>6. Owned(x)' /\ MayStayUp(x)'
        BY <2>5, <2>6, <2>8, <3>3, <4>2, <4>3
        DEF ConnOK, Owned, MayStayUp, Closes
      <4> QED BY <4>5, <4>6 DEF ConnOK
    <3> QED BY <3>2, <3>3
  <2>11. \/ ready' = ready /\ Of(t) # x
         \/ acceptor = "stopped" /\ ready' = ready /\ Of(t) = x
         \/ cur[t].ok /\ Post(HandlerOf("socket", Of(t), TRUE))
    BY <1>17, <2>1, <1>0 DEF AcceptDone
  <2> QED BY <2>7, <2>9, <2>10, <2>11
<1>18. ASSUME NEW t \in IoThreads, Rearm(t)
      PROVE  ConnOK(x)'
  <2>1. /\ Serves(t, "rearm", "idle")
        /\ UNCHANGED <<shaking, reading, sessionVars, copy, acceptor, up>>
    BY <1>18 DEF Rearm, Serves, opVars, flagVars, stopVars
  <2>2. Same(x)
    <3>1. CASE ready' = ready
      BY <2>1, <3>1, <1>0, <1>d, <1>e, ServesMoves DEF Same
    <3>2. CASE Post(HandlerOf("acceptDone", NoConn, FALSE))
      <4>1. ASSUME NEW steps \in StepSets
            PROVE  /\ Carried(x, steps)' <=> Carried(x, steps)
                   /\ Alone(x, steps) => Alone(x, steps)'
        <5>1. /\ "idle" \notin steps /\ "rearm" \notin steps /\ t \in Threads
          BY <1>0, <1>e
        <5> DEFINE h == HandlerOf("acceptDone", NoConn, FALSE)
        <5>2. h \in Handler /\ h.conn # x /\ Post(h)
          <6>1. h \in Handler /\ h.conn = NoConn
            BY PostedFacts
          <6>2. NoConn # x
            BY ServerAssumption
          <6> QED BY <3>2, <6>1, <6>2
        <5> HIDE DEF h
        <5>3. /\ Carried(x, steps)' => Carried(x, steps)
              /\ Carried(x, steps) => Carried(x, steps)'
              /\ Alone(x, steps) => Alone(x, steps)'
          BY <2>1, <5>1, <5>2, <1>d, PostsMoves
        <5> QED BY <5>3
      <4> QED BY <4>1 DEF Same
    <3> QED BY <1>18, <3>1, <3>2 DEF Rearm
  <2>3. At(x, Main, Closing)' <=> At(x, Main, Closing)
    BY <2>1, <1>0, <1>d, ServesAt
  <2>4. ~Carried(x, Arriving)
    BY <2>1, <1>0, <1>d, ArrivingFacts, ServesFacts
  <2> QED BY <2>1, <2>2, <2>3, <2>4, ConnKept DEF sessionVars
<1>19. ASSUME NEW t \in IoThreads, SocketPosted(t)
      PROVE  ConnOK(x)'
  <2>1. PICK to \in {"onAccept", "idle"} :
          /\ Serves(t, "socket", to) /\ ready' = ready
          /\ to = IF mRunning THEN "onAccept" ELSE "idle"
    BY <1>19 DEF SocketPosted, CloseSocket
  <2>2. CASE Of(t) # x
    <3>1. Same(x)
      BY <2>1, <2>2, <1>0, <1>d, ServesMoves DEF Same
    <3>2. At(x, Main, Closing)' <=> At(x, Main, Closing)
      BY <2>1, <2>2, <1>0, <1>d, ServesElse
    <3>3. UNCHANGED <<acceptor, copy>>
      BY <2>1 DEF Serves, flagVars, stopVars
    <3> QED BY <1>19, <2>2, <3>1, <3>2, <3>3, ConnKept
        DEF SocketPosted, CloseSocket,
            acceptVars, opVars, sessionVars
  <2>3. CASE Of(t) = x
    <3>1. \A steps \in SUBSET Carriers :
             /\ Carried(x, steps) <=> "socket" \in steps
             /\ Carried(x, steps)' <=> to \in steps
      BY <2>1, <2>3, <1>d, CarrierMoves, StepSetFacts DEF ConnOK, OneCarrier
    <3>2. /\ ~Carried(x, Arriving)
          /\ Carried(x, Newborn)
          /\ ~Carried(x, Fresh)
          /\ ~Carried(x, Served)
          /\ Carried(x, Carriers)
      BY <3>1, <1>e, StepSetFacts
    <3>3. /\ ~Carried(x, Arriving)'
          /\ Carried(x, Newborn)' <=> to = "onAccept"
          /\ ~Carried(x, Fresh)'
          /\ ~Carried(x, Served)'
          /\ Carried(x, Carriers)' <=> to = "onAccept"
      BY <2>1, <3>1, <1>e, StepSetFacts
    <3>4. /\ "socket" \in Carriers
          /\ \A steps \in {Closing, Lambda} :
               "socket" \notin steps /\ to \notin steps
      BY <2>1 DEF Carriers, Newborn, Fresh, Served, Closing, Lambda
    <3>5. Alone(x, Carriers) /\ Alone(x, Closing)
      BY DEF ConnOK, OneCarrier, OneCloser
    <3>6. \A steps \in {Closing, Lambda} :
            /\ Carried(x, steps)' <=> Carried(x, steps)
            /\ Alone(x, steps) => Alone(x, steps)'
      BY <2>1, <2>3, <3>4, <1>0, <1>d, ServesMoves
    <3>7. Alone(x, Carriers)'
      BY <2>1, <2>3, <3>4, <3>5, <1>0, <1>d, ServesMoves
    <3>8. At(x, Main, Closing)' <=> At(x, Main, Closing)
      BY <2>1, <2>3, <1>0, <1>d, ServesAt
    <3>9. /\ Alone(x, Carriers)' /\ Alone(x, Closing)'
          /\ Carried(x, Closing)' <=> Carried(x, Closing)
          /\ Carried(x, Lambda)' <=> Carried(x, Lambda)
          /\ At(x, Main, Closing)' <=> At(x, Main, Closing)
      BY <3>5, <3>6, <3>7, <3>8
    <3>10. UNCHANGED <<acceptor, copy>>
      BY <2>1 DEF Serves, flagVars, stopVars
    <3>11. Carried(x, Lambda) => Carried(x, Closing)
      BY <1>e, CarriedMore
    <3> QED BY <1>19, <2>1, <2>3, <3>2, <3>3, <3>9, <3>10, <3>11
        DEF SocketPosted, CloseSocket,
            acceptVars, opVars, sessionVars, ConnOK,
            OneCarrier, OneCloser, Owned, MayStayUp, Closes
  <2> QED BY <2>2, <2>3
<1>20. ASSUME NEW t \in IoThreads, OnAccept(t)
      PROVE  ConnOK(x)'
  <2>1. Serves(t, "onAccept", "idle") /\ ready' = ready
    BY <1>20 DEF OnAccept, CloseSocket
  <2>2. CASE Of(t) # x
    <3>1. Same(x)
      BY <2>1, <2>2, <1>0, <1>d, ServesMoves DEF Same
    <3>2. At(x, Main, Closing)' <=> At(x, Main, Closing)
      BY <2>1, <2>2, <1>0, <1>d, ServesElse
    <3>3. UNCHANGED <<acceptor, copy>>
      BY <2>1 DEF Serves, flagVars, stopVars
    <3> QED BY <1>20, <2>2, <3>1, <3>2, <3>3, ConnKept
        DEF OnAccept, CloseSocket,
            acceptVars, opVars, sessionVars
  <2>3. CASE Of(t) = x
    <3>1. \A steps \in SUBSET Carriers :
             /\ Carried(x, steps) <=> "onAccept" \in steps
             /\ Carried(x, steps)' <=> "idle" \in steps
      BY <2>1, <2>3, <1>d, CarrierMoves, StepSetFacts DEF ConnOK, OneCarrier
    <3>2. /\ ~Carried(x, Arriving)
          /\ Carried(x, Newborn)
          /\ ~Carried(x, Fresh)
          /\ ~Carried(x, Served)
          /\ Carried(x, Carriers)
      BY <3>1, <1>e, StepSetFacts
    <3>3. /\ ~Carried(x, Arriving)'
          /\ ~Carried(x, Newborn)'
          /\ ~Carried(x, Fresh)'
          /\ ~Carried(x, Served)'
          /\ ~Carried(x, Carriers)'
      BY <2>1, <3>1, <1>e, StepSetFacts
    <3>4. /\ "onAccept" \in Carriers
          /\ \A steps \in {Closing, Lambda} :
               "onAccept" \notin steps /\ "idle" \notin steps
      BY <2>1 DEF Carriers, Newborn, Fresh, Served, Closing, Lambda
    <3>5. Alone(x, Carriers) /\ Alone(x, Closing)
      BY DEF ConnOK, OneCarrier, OneCloser
    <3>6. \A steps \in {Closing, Lambda} :
            /\ Carried(x, steps)' <=> Carried(x, steps)
            /\ Alone(x, steps) => Alone(x, steps)'
      BY <2>1, <2>3, <3>4, <1>0, <1>d, ServesMoves
    <3>7. Alone(x, Carriers)'
      BY <2>1, <2>3, <3>4, <3>5, <1>0, <1>d, ServesMoves
    <3>8. At(x, Main, Closing)' <=> At(x, Main, Closing)
      BY <2>1, <2>3, <1>0, <1>d, ServesAt
    <3>9. /\ Alone(x, Carriers)' /\ Alone(x, Closing)'
          /\ Carried(x, Closing)' <=> Carried(x, Closing)
          /\ Carried(x, Lambda)' <=> Carried(x, Lambda)
          /\ At(x, Main, Closing)' <=> At(x, Main, Closing)
      BY <3>5, <3>6, <3>7, <3>8
    <3>10. UNCHANGED <<acceptor, copy>>
      BY <2>1 DEF Serves, flagVars, stopVars
    <3>11. Carried(x, Lambda) => Carried(x, Closing)
      BY <1>e, CarriedMore
    <3> QED BY <1>20, <2>1, <2>3, <3>2, <3>3, <3>9, <3>10, <3>11
        DEF OnAccept, CloseSocket,
            acceptVars, opVars, sessionVars, ConnOK,
            OneCarrier, OneCloser, Owned, MayStayUp, Closes
  <2> QED BY <2>2, <2>3
<1>21. ASSUME NEW t \in IoThreads, Handshaken(t)
      PROVE  ConnOK(x)'
  <2>1. PICK to \in {"idle", "add", "close"} :
          /\ Serves(t, "handshake", to) /\ ready' = ready
          /\ to = Handled(t, "add")
    BY <1>21 DEF Handshaken, OnSession, Handled
  <2>2. CASE Of(t) # x
    <3>1. Same(x)
      BY <2>1, <2>2, <1>0, <1>d, ServesMoves DEF Same
    <3>2. At(x, Main, Closing)' <=> At(x, Main, Closing)
      BY <2>1, <2>2, <1>0, <1>d, ServesElse
    <3>3. UNCHANGED <<acceptor, copy>>
      BY <2>1 DEF Serves, flagVars, stopVars
    <3> QED BY <1>21, <2>2, <3>1, <3>2, <3>3, ConnKept
        DEF Handshaken, OnSession, Handled,
            acceptVars, opVars, sessionVars
  <2>3. CASE Of(t) = x
    <3>1. \A steps \in SUBSET Carriers :
             /\ Carried(x, steps) <=> "handshake" \in steps
             /\ Carried(x, steps)' <=> to \in steps
      BY <2>1, <2>3, <1>d, CarrierMoves, StepSetFacts DEF ConnOK, OneCarrier
    <3>2. /\ ~Carried(x, Arriving)
          /\ ~Carried(x, Newborn)
          /\ Carried(x, Fresh)
          /\ ~Carried(x, Served)
          /\ Carried(x, Carriers)
      BY <3>1, <1>e, StepSetFacts
    <3>3. /\ ~Carried(x, Arriving)'
          /\ ~Carried(x, Newborn)'
          /\ Carried(x, Fresh)' <=> to = "add"
          /\ Carried(x, Served)' <=> to = "close"
          /\ Carried(x, Carriers)' <=> to \in {"add", "close"}
      BY <2>1, <3>1, <1>e, StepSetFacts
    <3>4. /\ "handshake" \in Carriers
          /\ \A steps \in {Closing, Lambda} :
               "handshake" \notin steps /\ to \notin steps
      BY <2>1 DEF Carriers, Newborn, Fresh, Served, Closing, Lambda
    <3>5. Alone(x, Carriers) /\ Alone(x, Closing)
      BY DEF ConnOK, OneCarrier, OneCloser
    <3>6. \A steps \in {Closing, Lambda} :
            /\ Carried(x, steps)' <=> Carried(x, steps)
            /\ Alone(x, steps) => Alone(x, steps)'
      BY <2>1, <2>3, <3>4, <1>0, <1>d, ServesMoves
    <3>7. Alone(x, Carriers)'
      BY <2>1, <2>3, <3>4, <3>5, <1>0, <1>d, ServesMoves
    <3>8. At(x, Main, Closing)' <=> At(x, Main, Closing)
      BY <2>1, <2>3, <1>0, <1>d, ServesAt
    <3>9. /\ Alone(x, Carriers)' /\ Alone(x, Closing)'
          /\ Carried(x, Closing)' <=> Carried(x, Closing)
          /\ Carried(x, Lambda)' <=> Carried(x, Lambda)
          /\ At(x, Main, Closing)' <=> At(x, Main, Closing)
      BY <3>5, <3>6, <3>7, <3>8
    <3>10. UNCHANGED <<acceptor, copy>>
      BY <2>1 DEF Serves, flagVars, stopVars
    <3>11. Carried(x, Lambda) => Carried(x, Closing)
      BY <1>e, CarriedMore
    <3> QED BY <1>21, <2>1, <2>3, <3>2, <3>3, <3>9, <3>10, <3>11
        DEF Handshaken, OnSession, Handled,
            acceptVars, opVars, sessionVars, ConnOK,
            OneCarrier, OneCloser, Owned, MayStayUp, Closes
  <2> QED BY <2>2, <2>3
<1>22. ASSUME NEW t \in IoThreads, AddSession(t)
      PROVE  ConnOK(x)'
  <2>1. Serves(t, "add", "read") /\ ready' = ready
    BY <1>22 DEF AddSession, OnSession
  <2>2. CASE Of(t) # x
    <3>1. Same(x)
      BY <2>1, <2>2, <1>0, <1>d, ServesMoves DEF Same
    <3>2. At(x, Main, Closing)' <=> At(x, Main, Closing)
      BY <2>1, <2>2, <1>0, <1>d, ServesElse
    <3>3. UNCHANGED <<acceptor, copy>>
      BY <2>1 DEF Serves, flagVars, stopVars
    <3> QED BY <1>22, <2>2, <3>1, <3>2, <3>3, ConnKept
        DEF AddSession, OnSession,
            acceptVars, opVars, sessionVars
  <2>3. CASE Of(t) = x
    <3>1. \A steps \in SUBSET Carriers :
             /\ Carried(x, steps) <=> "add" \in steps
             /\ Carried(x, steps)' <=> "read" \in steps
      BY <2>1, <2>3, <1>d, CarrierMoves, StepSetFacts DEF ConnOK, OneCarrier
    <3>2. /\ ~Carried(x, Arriving)
          /\ ~Carried(x, Newborn)
          /\ Carried(x, Fresh)
          /\ ~Carried(x, Served)
          /\ Carried(x, Carriers)
      BY <3>1, <1>e, StepSetFacts
    <3>3. /\ ~Carried(x, Arriving)'
          /\ ~Carried(x, Newborn)'
          /\ ~Carried(x, Fresh)'
          /\ Carried(x, Served)'
          /\ Carried(x, Carriers)'
      BY <2>1, <3>1, <1>e, StepSetFacts
    <3>4. /\ "add" \in Carriers
          /\ \A steps \in {Closing, Lambda} :
               "add" \notin steps /\ "read" \notin steps
      BY <2>1 DEF Carriers, Newborn, Fresh, Served, Closing, Lambda
    <3>5. Alone(x, Carriers) /\ Alone(x, Closing)
      BY DEF ConnOK, OneCarrier, OneCloser
    <3>6. \A steps \in {Closing, Lambda} :
            /\ Carried(x, steps)' <=> Carried(x, steps)
            /\ Alone(x, steps) => Alone(x, steps)'
      BY <2>1, <2>3, <3>4, <1>0, <1>d, ServesMoves
    <3>7. Alone(x, Carriers)'
      BY <2>1, <2>3, <3>4, <3>5, <1>0, <1>d, ServesMoves
    <3>8. At(x, Main, Closing)' <=> At(x, Main, Closing)
      BY <2>1, <2>3, <1>0, <1>d, ServesAt
    <3>9. /\ Alone(x, Carriers)' /\ Alone(x, Closing)'
          /\ Carried(x, Closing)' <=> Carried(x, Closing)
          /\ Carried(x, Lambda)' <=> Carried(x, Lambda)
          /\ At(x, Main, Closing)' <=> At(x, Main, Closing)
      BY <3>5, <3>6, <3>7, <3>8
    <3>10. UNCHANGED <<acceptor, copy>>
      BY <2>1 DEF Serves, flagVars, stopVars
    <3>11. Carried(x, Lambda) => Carried(x, Closing)
      BY <1>e, CarriedMore
    <3> QED BY <1>22, <2>1, <2>3, <3>2, <3>3, <3>9, <3>10, <3>11
        DEF AddSession, OnSession,
            acceptVars, opVars, sessionVars, ConnOK,
            OneCarrier, OneCloser, Owned, MayStayUp, Closes
  <2> QED BY <2>2, <2>3
<1>23. ASSUME NEW t \in IoThreads, Read(t)
      PROVE  ConnOK(x)'
  <2>1. Serves(t, "read", "idle") /\ ready' = ready
    BY <1>23 DEF Read, OnSession
  <2>2. CASE Of(t) # x
    <3>1. Same(x)
      BY <2>1, <2>2, <1>0, <1>d, ServesMoves DEF Same
    <3>2. At(x, Main, Closing)' <=> At(x, Main, Closing)
      BY <2>1, <2>2, <1>0, <1>d, ServesElse
    <3>3. UNCHANGED <<acceptor, copy>>
      BY <2>1 DEF Serves, flagVars, stopVars
    <3> QED BY <1>23, <2>2, <3>1, <3>2, <3>3, ConnKept
        DEF Read, OnSession,
            acceptVars, opVars, sessionVars
  <2>3. CASE Of(t) = x
    <3>1. \A steps \in SUBSET Carriers :
             /\ Carried(x, steps) <=> "read" \in steps
             /\ Carried(x, steps)' <=> "idle" \in steps
      BY <2>1, <2>3, <1>d, CarrierMoves, StepSetFacts DEF ConnOK, OneCarrier
    <3>2. /\ ~Carried(x, Arriving)
          /\ ~Carried(x, Newborn)
          /\ ~Carried(x, Fresh)
          /\ Carried(x, Served)
          /\ Carried(x, Carriers)
      BY <3>1, <1>e, StepSetFacts
    <3>3. /\ ~Carried(x, Arriving)'
          /\ ~Carried(x, Newborn)'
          /\ ~Carried(x, Fresh)'
          /\ ~Carried(x, Served)'
          /\ ~Carried(x, Carriers)'
      BY <2>1, <3>1, <1>e, StepSetFacts
    <3>4. /\ "read" \in Carriers
          /\ \A steps \in {Closing, Lambda} :
               "read" \notin steps /\ "idle" \notin steps
      BY <2>1 DEF Carriers, Newborn, Fresh, Served, Closing, Lambda
    <3>5. Alone(x, Carriers) /\ Alone(x, Closing)
      BY DEF ConnOK, OneCarrier, OneCloser
    <3>6. \A steps \in {Closing, Lambda} :
            /\ Carried(x, steps)' <=> Carried(x, steps)
            /\ Alone(x, steps) => Alone(x, steps)'
      BY <2>1, <2>3, <3>4, <1>0, <1>d, ServesMoves
    <3>7. Alone(x, Carriers)'
      BY <2>1, <2>3, <3>4, <3>5, <1>0, <1>d, ServesMoves
    <3>8. At(x, Main, Closing)' <=> At(x, Main, Closing)
      BY <2>1, <2>3, <1>0, <1>d, ServesAt
    <3>9. /\ Alone(x, Carriers)' /\ Alone(x, Closing)'
          /\ Carried(x, Closing)' <=> Carried(x, Closing)
          /\ Carried(x, Lambda)' <=> Carried(x, Lambda)
          /\ At(x, Main, Closing)' <=> At(x, Main, Closing)
      BY <3>5, <3>6, <3>7, <3>8
    <3>10. UNCHANGED <<acceptor, copy>>
      BY <2>1 DEF Serves, flagVars, stopVars
    <3>11. Carried(x, Lambda) => Carried(x, Closing)
      BY <1>e, CarriedMore
    <3> QED BY <1>23, <2>1, <2>3, <3>2, <3>3, <3>9, <3>10, <3>11
        DEF Read, OnSession,
            acceptVars, opVars, sessionVars, ConnOK,
            OneCarrier, OneCloser, Owned, MayStayUp, Closes
  <2> QED BY <2>2, <2>3
<1>24. ASSUME NEW t \in IoThreads, ReadDone(t)
      PROVE  ConnOK(x)'
  <2>1. PICK to \in {"idle", "read", "close"} :
          /\ Serves(t, "readDone", to) /\ ready' = ready
          /\ to = Handled(t, "read")
    BY <1>24 DEF ReadDone, OnSession, Handled
  <2>2. CASE Of(t) # x
    <3>1. Same(x)
      BY <2>1, <2>2, <1>0, <1>d, ServesMoves DEF Same
    <3>2. At(x, Main, Closing)' <=> At(x, Main, Closing)
      BY <2>1, <2>2, <1>0, <1>d, ServesElse
    <3>3. UNCHANGED <<acceptor, copy>>
      BY <2>1 DEF Serves, flagVars, stopVars
    <3> QED BY <1>24, <2>2, <3>1, <3>2, <3>3, ConnKept
        DEF ReadDone, OnSession, Handled,
            acceptVars, opVars, sessionVars
  <2>3. CASE Of(t) = x
    <3>1. \A steps \in SUBSET Carriers :
             /\ Carried(x, steps) <=> "readDone" \in steps
             /\ Carried(x, steps)' <=> to \in steps
      BY <2>1, <2>3, <1>d, CarrierMoves, StepSetFacts DEF ConnOK, OneCarrier
    <3>2. /\ ~Carried(x, Arriving)
          /\ ~Carried(x, Newborn)
          /\ ~Carried(x, Fresh)
          /\ Carried(x, Served)
          /\ Carried(x, Carriers)
      BY <3>1, <1>e, StepSetFacts
    <3>3. /\ ~Carried(x, Arriving)'
          /\ ~Carried(x, Newborn)'
          /\ ~Carried(x, Fresh)'
          /\ Carried(x, Served)' <=> to \in {"read", "close"}
          /\ Carried(x, Carriers)' <=> to \in {"read", "close"}
      BY <2>1, <3>1, <1>e, StepSetFacts
    <3>4. /\ "readDone" \in Carriers
          /\ \A steps \in {Closing, Lambda} :
               "readDone" \notin steps /\ to \notin steps
      BY <2>1 DEF Carriers, Newborn, Fresh, Served, Closing, Lambda
    <3>5. Alone(x, Carriers) /\ Alone(x, Closing)
      BY DEF ConnOK, OneCarrier, OneCloser
    <3>6. \A steps \in {Closing, Lambda} :
            /\ Carried(x, steps)' <=> Carried(x, steps)
            /\ Alone(x, steps) => Alone(x, steps)'
      BY <2>1, <2>3, <3>4, <1>0, <1>d, ServesMoves
    <3>7. Alone(x, Carriers)'
      BY <2>1, <2>3, <3>4, <3>5, <1>0, <1>d, ServesMoves
    <3>8. At(x, Main, Closing)' <=> At(x, Main, Closing)
      BY <2>1, <2>3, <1>0, <1>d, ServesAt
    <3>9. /\ Alone(x, Carriers)' /\ Alone(x, Closing)'
          /\ Carried(x, Closing)' <=> Carried(x, Closing)
          /\ Carried(x, Lambda)' <=> Carried(x, Lambda)
          /\ At(x, Main, Closing)' <=> At(x, Main, Closing)
      BY <3>5, <3>6, <3>7, <3>8
    <3>10. UNCHANGED <<acceptor, copy>>
      BY <2>1 DEF Serves, flagVars, stopVars
    <3>11. Carried(x, Lambda) => Carried(x, Closing)
      BY <1>e, CarriedMore
    <3> QED BY <1>24, <2>1, <2>3, <3>2, <3>3, <3>9, <3>10, <3>11
        DEF ReadDone, OnSession, Handled,
            acceptVars, opVars, sessionVars, ConnOK,
            OneCarrier, OneCloser, Owned, MayStayUp, Closes
  <2> QED BY <2>2, <2>3
<1>25. ASSUME NEW t \in IoThreads, ClosePosted(t)
      PROVE  ConnOK(x)'
  <2>1. Serves(t, "closePosted", "idle") /\ ready' = ready
    BY <1>25 DEF ClosePosted, OnSession
  <2>2. CASE Of(t) # x
    <3>1. Same(x)
      BY <2>1, <2>2, <1>0, <1>d, ServesMoves DEF Same
    <3>2. At(x, Main, Closing)' <=> At(x, Main, Closing)
      BY <2>1, <2>2, <1>0, <1>d, ServesElse
    <3>3. UNCHANGED <<acceptor, copy>>
      BY <2>1 DEF Serves, flagVars, stopVars
    <3> QED BY <1>25, <2>2, <3>1, <3>2, <3>3, ConnKept
        DEF ClosePosted, OnSession, SelfReset,
            acceptVars, opVars, sessionVars
  <2>3. CASE Of(t) = x
    <3>1. /\ "closePosted" \in Closing /\ "closePosted" \in Lambda
          /\ "idle" \notin Closing /\ "closePosted" \notin Arriving
          /\ "closePosted" \notin Newborn /\ "closePosted" \notin Fresh
          /\ "closePosted" \notin Served /\ "closePosted" \notin Carriers
      BY DEF Closing, Lambda, Arriving, Newborn, Fresh, Served, Carriers
    <3>2. \A steps \in {Arriving, Newborn, Fresh, Served, Carriers} :
            /\ Carried(x, steps)' <=> Carried(x, steps)
            /\ Alone(x, steps) => Alone(x, steps)'
      BY <2>1, <3>1, <1>0, <1>d, <1>e, ServesMoves
    <3>3. Alone(x, Closing)
      BY DEF ConnOK, OneCloser
    <3>4. Alone(x, Closing)' /\ ~Carried(x, Closing)'
      BY <2>1, <2>3, <3>1, <3>3, <1>0, <1>d, ServesMoves
    <3>5. Carried(x, Closing) /\ Carried(x, Lambda)
      BY <2>1, <2>3, <3>1, <1>0, <1>d, ServesFacts DEF Carried, At
    <3>6. ~At(x, Main, Closing) /\ ~At(x, Main, Closing)'
      BY <2>1, <2>3, <3>5, <1>0, <1>d, ServesAt DEF ConnOK, OneCloser
    <3>7. /\ UNCHANGED <<acceptor, copy, mIsClosing, mSessions, shaking,
                         reading,
                         next, up>>
          /\ mSelfPtr' = mSelfPtr \ {x}
      BY <1>25, <2>1, <2>3 DEF ClosePosted, OnSession, SelfReset, Serves,
         flagVars, stopVars, acceptVars
    <3>8. /\ Alone(x, Carriers)'
          /\ Carried(x, Arriving)' <=> Carried(x, Arriving)
          /\ Carried(x, Newborn)' <=> Carried(x, Newborn)
          /\ Carried(x, Fresh)' <=> Carried(x, Fresh)
          /\ Carried(x, Served)' <=> Carried(x, Served)
          /\ Carried(x, Carriers)' <=> Carried(x, Carriers)
      BY <3>2 DEF ConnOK, OneCarrier
    <3> QED BY <3>4, <3>5, <3>6, <3>7, <3>8
        DEF ConnOK, OneCarrier, OneCloser, Owned, MayStayUp, Closes
  <2> QED BY <2>2, <2>3
<1>26. ASSUME NEW t \in IoThreads, RunDangling(t)
      PROVE  ConnOK(x)'
  <2>1. /\ ready' = ready
        /\ UNCHANGED <<acceptor, copy, mIsClosing, mSelfPtr, mSessions,
                       shaking,
                       reading, next, up>>
        /\ DanglingAcceptor(t) \/ DanglingSession(t)
    BY <1>26 DEF RunDangling, Serves, flagVars, stopVars, acceptVars, opVars,
       sessionVars
  <2>2. CASE Serves(t, pc[t], pc[t])
    <3>1. pc' = pc /\ cur' = cur
      BY <2>2, <1>0, <1>d DEF Serves, Goto, TypeOK
    <3>2. Same(x) /\ (At(x, Main, Closing)' <=> At(x, Main, Closing))
      BY <2>1, <3>1 DEF Same, Carried, Alone, At, Waits, Of
    <3> QED BY <2>1, <3>2, ConnKept
  <2>3. CASE Serves(t, pc[t], "idle") /\ Of(t) # x
    <3>1. Same(x)
      BY <2>1, <2>3, <1>0, <1>d, ServesMoves DEF Same
    <3>2. At(x, Main, Closing)' <=> At(x, Main, Closing)
      BY <2>3, <1>0, <1>d, ServesAt
    <3> QED BY <2>1, <3>1, <3>2, ConnKept
  <2>4. CASE Serves(t, pc[t], "idle") /\ Of(t) = x /\ pc[t] = "rearm"
    <3>1. Same(x)
      BY <2>1, <2>4, <1>0, <1>d, <1>e, ServesMoves DEF Same
    <3>2. At(x, Main, Closing)' <=> At(x, Main, Closing)
      BY <2>4, <1>0, <1>d, ServesAt
    <3> QED BY <2>1, <3>1, <3>2, ConnKept
  <2>5. CASE Serves(t, pc[t], "idle") /\ Of(t) = x /\ pc[t] # "rearm"
    <3>1. \A steps \in StepSets : pc[t] \in steps => Carried(x, steps)
      BY <2>5 DEF Carried, At
    <3>2. /\ pc[t] \notin Closing \cup Lambda /\ pc[t] \in Carriers
          /\ x \notin mSelfPtr /\ (x \in mIsClosing \/ x \notin up)
      <4>1. CASE DanglingAcceptor(t)
        <5>1. pc[t] = "acceptDone" /\ acceptor # "open"
          BY <2>5, <4>1 DEF DanglingAcceptor
        <5>2. Carried(x, Arriving) /\ Carried(x, Newborn)
          BY <3>1, <5>1, <1>e, StepSetFacts
        <5> QED BY <5>1, <5>2
            DEF Closing, Lambda, Carriers, Newborn, ConnOK, Owned, MayStayUp
      <4>2. CASE DanglingSession(t)
        <5>1. x \notin mSelfPtr
          BY <2>5, <4>2 DEF DanglingSession, Alive
        <5>2. /\ ~Carried(x, Fresh) /\ ~Carried(x, Closing)
              /\ Carried(x, Served) => x \in mIsClosing
          BY <5>1 DEF ConnOK, Owned, Closes
        <5>3. pc[t] \in {"read", "readDone", "close"}
          BY <4>2, <3>1, <5>2, <1>e
          DEF DanglingSession, Fresh, Closing
        <5>4. Carried(x, Served)
          BY <3>1, <5>3, <1>e DEF Served
        <5> QED BY <5>1, <5>2, <5>3, <5>4
            DEF Closing, Lambda, Carriers, Served
      <4> QED BY <2>1, <4>1, <4>2
    <3>3. Alone(x, Carriers) /\ Carried(x, Carriers)
      BY <3>1, <3>2, <1>e DEF ConnOK, OneCarrier
    <3>4. \A steps \in SUBSET Carriers :
             /\ Carried(x, steps) <=> pc[t] \in steps
             /\ Carried(x, steps)' <=> "idle" \in steps
      BY <2>1, <2>5, <3>2, <3>3, <1>d, CarrierMoves
    <3>5. \A steps \in {Arriving, Newborn, Fresh, Served, Carriers} :
            ~Carried(x, steps)'
      BY <3>4, <1>e
    <3>6. \A steps \in {Closing, Lambda} :
            /\ Carried(x, steps)' <=> Carried(x, steps)
            /\ Alone(x, steps) => Alone(x, steps)'
      BY <2>1, <2>5, <3>2, <1>0, <1>d, <1>e, ServesMoves
    <3>7. Alone(x, Carriers)'
      BY <2>1, <2>5, <3>3, <1>0, <1>d, <1>e, ServesMoves
    <3>8. At(x, Main, Closing)' <=> At(x, Main, Closing)
      BY <2>5, <1>0, <1>d, ServesAt
    <3>9. OneCarrier(x)' /\ OneCloser(x)'
      BY <2>1, <3>5, <3>6, <3>7, <3>8 DEF ConnOK, OneCarrier, OneCloser
    <3>10. Owned(x)' /\ MayStayUp(x)'
      BY <2>1, <3>2, <3>5, <3>6, <3>8 DEF ConnOK, Owned, MayStayUp, Closes
    <3> QED BY <3>9, <3>10 DEF ConnOK
  <2> QED BY <1>26, <2>2, <2>3, <2>4, <2>5 DEF RunDangling
<1>27. ASSUME NEW t \in IoThreads, ThreadExits(t)
      PROVE  ConnOK(x)'
  <2>1. /\ Serves(t, "idle", "exited") /\ ready' = ready
        /\ UNCHANGED <<shaking, reading, sessionVars, copy, acceptor, next,
                       up>>
    BY <1>27 DEF ThreadExits, Serves, opVars, flagVars, acceptVars, stopVars
  <2>2. Same(x)
    BY <2>1, <1>0, <1>d, <1>e, ServesMoves DEF Same
  <2>3. At(x, Main, Closing)' <=> At(x, Main, Closing)
    BY <2>1, <1>0, <1>d, ServesAt
  <2> QED BY <2>1, <2>2, <2>3, ConnKept DEF sessionVars
<1>28. CASE AcceptFails
  <2>1. /\ UNCHANGED <<pc, cur, shaking, reading, sessionVars, copy, acceptor,
                       next, up>>
        /\ Post(HandlerOf("acceptDone", NoConn, FALSE))
    BY <1>28 DEF AcceptFails, Outside, opVars, flagVars, stopVars
  <2>2. Same(x)
    BY <2>1, <1>0, <1>d, NetworkMoves DEF Ops, Same
  <2>3. At(x, Main, Closing)' <=> At(x, Main, Closing)
    BY <2>1 DEF At, Of
  <2> QED BY <2>1, <2>2, <2>3, ConnKept DEF sessionVars
<1>29. ASSUME NEW c \in Conns, Connect(c)
      PROVE  ConnOK(x)'
  <2>1. /\ UNCHANGED <<pc, cur, shaking, reading, acceptor, copy, mIsClosing,
                       mSelfPtr, mSessions>>
        /\ Post(HandlerOf("acceptDone", c, TRUE)) /\ c \notin arrived
        /\ accepting /\ next' = c /\ up' = up \cup {c}
    BY <1>29 DEF Connect, Outside, flagVars, stopVars, opVars, sessionVars
  <2>2. At(x, Main, Closing)' <=> At(x, Main, Closing)
    BY <2>1 DEF At, Of
  <2>3. "acceptDone" \in Ops /\ c \in Conns \cup {NoConn}
    BY DEF Ops
  <2>4. CASE c # x
    <3>1. Same(x)
      BY <2>1, <2>3, <2>4, <1>d, NetworkMoves DEF Same
    <3>2. ~Carried(x, Arriving)
      BY <2>1, ArrivingFacts
    <3> QED BY <2>1, <2>2, <2>4, <3>1, <3>2, ConnKept
  <2>5. CASE c = x
    <3>1. /\ \A steps \in StepSets : ~Carried(x, steps)
          /\ ~At(x, Main, Closing)
          /\ x \notin shaking \cup reading \cup mSelfPtr \cup mIsClosing
          /\ x \notin mSessions \cup copy
      BY <2>1, <2>5, <1>d, NotArrived
    <3>2. acceptor = "open"
      BY <2>1 DEF ChainInv
    <3>3. \A steps \in StepSets :
            /\ Carried(x, steps)' <=>
                 Carried(x, steps) \/ "acceptDone" \in steps
            /\ Alone(x, steps) /\ ~Carried(x, steps) => Alone(x, steps)'
      BY <2>1, <2>3, <2>5, <1>d, NetworkMoves
    <3>4. /\ "acceptDone" \in Carriers /\ "acceptDone" \in Newborn
          /\ "acceptDone" \in Arriving
          /\ \A steps \in {Fresh, Served, Closing, Lambda} :
               "acceptDone" \notin steps
      BY DEF Arriving, Newborn, Fresh, Served, Carriers, Closing, Lambda
    <3>5. OneCarrier(x)' /\ OneCloser(x)'
      BY <2>1, <2>2, <3>1, <3>3, <3>4, <1>e DEF ConnOK, OneCarrier, OneCloser
    <3>6. Owned(x)' /\ MayStayUp(x)'
      BY <2>1, <2>2, <2>5, <3>1, <3>2, <3>3, <3>4, <1>e
      DEF ConnOK, Owned, MayStayUp, Closes
    <3> QED BY <3>5, <3>6 DEF ConnOK
  <2> QED BY <2>4, <2>5
<1>30. ASSUME NEW c \in Conns, PeerLeaves(c)
      PROVE  ConnOK(x)'
  <2>1. /\ UNCHANGED <<ready, pc, cur, shaking, reading, sessionVars, copy,
                       acceptor, next>>
        /\ x \in up' => x \in up
    BY <1>30 DEF PeerLeaves, Outside, opVars, flagVars, acceptVars, stopVars
  <2>2. Same(x) /\ (At(x, Main, Closing)' <=> At(x, Main, Closing))
    BY <2>1 DEF Same, Carried, Alone, At, Waits, Of
  <2> QED BY <2>1, <2>2, ConnKept DEF sessionVars
<1>31. ASSUME NEW c \in Conns, CloseEnds(c)
      PROVE  ConnOK(x)'
  <2>1. /\ UNCHANGED <<ready, pc, cur, shaking, reading, sessionVars, copy,
                       acceptor, next>>
        /\ x \in up' => x \in up
    BY <1>31 DEF CloseEnds, Outside, opVars, flagVars, acceptVars, stopVars
  <2>2. Same(x) /\ (At(x, Main, Closing)' <=> At(x, Main, Closing))
    BY <2>1 DEF Same, Carried, Alone, At, Waits, Of
  <2> QED BY <2>1, <2>2, ConnKept DEF sessionVars
<1>32. ASSUME NEW c \in Conns, NEW ok \in BOOLEAN, HandshakeEnds(c, ok)
      PROVE  ConnOK(x)'
  <2>1. /\ c \in shaking /\ UNCHANGED <<pc, cur, reading, acceptor, copy,
                       mIsClosing, mSelfPtr, mSessions, next, up>>
        /\ Post(HandlerOf("handshake", c, ok)) /\ shaking' = shaking \ {c}
    BY <1>32 DEF HandshakeEnds, Outside, flagVars, stopVars, acceptVars,
       connVars,
       sessionVars
  <2>2. At(x, Main, Closing)' <=> At(x, Main, Closing)
    BY <2>1 DEF At, Of
  <2>3. "handshake" \in Ops /\ c \in Conns \cup {NoConn}
    BY DEF Ops
  <2>4. CASE c # x
    <3>1. Same(x)
      BY <2>1, <2>3, <2>4, <1>d, NetworkMoves DEF Same
    <3> QED BY <2>1, <2>2, <2>4, <3>1, ConnKept
  <2>5. CASE c = x
    <3>1. x \notin shaking' \cup reading' /\ ~Carried(x, Carriers)
      BY <2>1, <2>5 DEF ConnOK, OneCarrier
    <3>2. \A steps \in {Arriving, Newborn, Fresh, Served, Carriers} :
            ~Carried(x, steps)
      BY <3>1, <1>e, CarriedMore
    <3>3. \A steps \in StepSets :
            /\ Carried(x, steps)' <=>
                 Carried(x, steps) \/ "handshake" \in steps
            /\ Alone(x, steps) /\ ("handshake" \in steps => ~Carried(x, steps))
                 => Alone(x, steps)'
      BY <2>1, <2>3, <2>5, <1>d, NetworkMoves
    <3>4. /\ "handshake" \in Carriers /\ "handshake" \in Fresh
          /\ \A steps \in {Arriving, Newborn, Served, Closing, Lambda} :
               "handshake" \notin steps
      BY DEF Arriving, Newborn, Fresh, Served, Carriers, Closing, Lambda
    <3>5. OneCarrier(x)' /\ OneCloser(x)'
      BY <2>2, <3>1, <3>2, <3>3, <3>4, <1>e
      DEF ConnOK, OneCarrier, OneCloser
    <3>6. Owned(x)' /\ MayStayUp(x)'
      BY <2>1, <2>2, <2>5, <3>1, <3>2, <3>3, <3>4, <1>e
      DEF ConnOK, Owned, MayStayUp, Closes
    <3> QED BY <3>5, <3>6 DEF ConnOK
  <2> QED BY <2>4, <2>5
<1>33. ASSUME NEW c \in Conns, NEW ok \in BOOLEAN, ReadEnds(c, ok)
      PROVE  ConnOK(x)'
  <2>1. /\ c \in reading /\ UNCHANGED <<pc, cur, shaking, acceptor, copy,
                       mIsClosing, mSelfPtr, mSessions, next, up>>
        /\ Post(HandlerOf("readDone", c, ok)) /\ reading' = reading \ {c}
    BY <1>33 DEF ReadEnds, Outside, flagVars, stopVars, acceptVars, connVars,
       sessionVars
  <2>2. At(x, Main, Closing)' <=> At(x, Main, Closing)
    BY <2>1 DEF At, Of
  <2>3. "readDone" \in Ops /\ c \in Conns \cup {NoConn}
    BY DEF Ops
  <2>4. CASE c # x
    <3>1. Same(x)
      BY <2>1, <2>3, <2>4, <1>d, NetworkMoves DEF Same
    <3> QED BY <2>1, <2>2, <2>4, <3>1, ConnKept
  <2>5. CASE c = x
    <3>1. x \notin reading' \cup shaking' /\ ~Carried(x, Carriers)
      BY <2>1, <2>5 DEF ConnOK, OneCarrier
    <3>2. \A steps \in {Arriving, Newborn, Fresh, Served, Carriers} :
            ~Carried(x, steps)
      BY <3>1, <1>e, CarriedMore
    <3>3. \A steps \in StepSets :
            /\ Carried(x, steps)' <=>
                 Carried(x, steps) \/ "readDone" \in steps
            /\ Alone(x, steps) /\ ("readDone" \in steps => ~Carried(x, steps))
                 => Alone(x, steps)'
      BY <2>1, <2>3, <2>5, <1>d, NetworkMoves
    <3>4. /\ "readDone" \in Carriers /\ "readDone" \in Served
          /\ \A steps \in {Arriving, Newborn, Fresh, Closing, Lambda} :
               "readDone" \notin steps
      BY DEF Arriving, Newborn, Fresh, Served, Carriers, Closing, Lambda
    <3>5. OneCarrier(x)' /\ OneCloser(x)'
      BY <2>2, <3>1, <3>2, <3>3, <3>4, <1>e
      DEF ConnOK, OneCarrier, OneCloser
    <3>6. Owned(x)' /\ MayStayUp(x)'
      BY <2>1, <2>2, <2>5, <3>1, <3>2, <3>3, <3>4, <1>e
      DEF ConnOK, Owned, MayStayUp, Closes
    <3> QED BY <3>5, <3>6 DEF ConnOK
  <2> QED BY <2>4, <2>5
<1> QED BY NextCases, <1>1, <1>2, <1>3, <1>4, <1>5, <1>6, <1>7, <1>8, <1>9,
    <1>10, <1>11, <1>12, <1>13, <1>14, <1>15, <1>16, <1>17, <1>18, <1>19,
    <1>20, <1>21, <1>22, <1>23, <1>24, <1>25, <1>26, <1>27, <1>28, <1>29,
    <1>30, <1>31, <1>32, <1>33

(* What holds at the start and is kept by every step.                      *)
LEMMA InitInv ==
  ASSUME Init
  PROVE  Inv
<1>0. /\ Main \in Threads /\ pc[Main] = "start"
      /\ \A t \in IoThreads : t \in Threads /\ pc[t] = "none"
      /\ ready = <<>> /\ 1..Len(ready) = {}
  BY ServerAssumption DEF Init, Threads
<1>1. HandlerOf("acceptDone", NoConn, FALSE) \in Handler
  BY PostedFacts
<1>2. TypeOK
  <2>1. pc \in [Threads -> IoLabels \cup MainLabels]
    BY DEF Init, IoLabels, MainLabels
  <2>2. cur \in [Threads -> Handler]
    <3> DEFINE h == HandlerOf("acceptDone", NoConn, FALSE)
    <3>1. h \in Handler /\ cur = [t \in Threads |-> h]
      BY <1>1 DEF Init
    <3> HIDE DEF h
    <3> QED BY <3>1
  <2>3. ready \in Seq(Handler)
    BY DEF Init
  <2>4. mRunning \in BOOLEAN /\ mWork \in BOOLEAN /\ crashed \in BOOLEAN
    BY DEF Init
  <2>5. accepting \in BOOLEAN
    BY DEF Init
  <2>6. errors \in 0..MaxErrors
    BY ServerAssumption DEF Init
  <2> QED BY <2>1, <2>2, <2>4, <2>5, <2>3, <2>6 DEF Init, TypeOK
<1>3. Typed
  BY <1>0, <1>2 DEF Init, Typed, LabelsOK, QueueOK, StepsOK, MainLabels,
     IoLabels, ConnSteps
<1>4. MainInv /\ ChainInv
  BY <1>0 DEF Init, MainInv, NotStarted, ChainInv, InAccept
<1>5. ASSUME NEW x \in Conns
      PROVE  ConnOK(x)
  <2>1. \A steps \in StepSets : ~Carried(x, steps) /\ Alone(x, steps)
    BY <1>0, StepSetFacts DEF Carried, Alone, At
  <2>2. ~At(x, Main, Closing)
    BY <1>0 DEF At, Closing
  <2>3. OneCarrier(x) /\ OneCloser(x)
    BY <2>1, <2>2 DEF Init, OneCarrier, OneCloser, StepSets
  <2>4. Owned(x) /\ MayStayUp(x)
    BY <2>1, <2>2 DEF Init, Owned, MayStayUp, Closes, StepSets
  <2> QED BY <2>3, <2>4 DEF ConnOK
<1> QED BY <1>3, <1>4, <1>5 DEF Inv, ConnInv

(* A step that changes nothing keeps it.                                   *)
LEMMA InvStutters ==
  ASSUME Inv, UNCHANGED vars
  PROVE  Inv'
<1>1. UNCHANGED <<ready, pc, cur, mRunning, mWork, acceptor, accepting, next,
                  arrived, up, errors, shaking, reading, closeOps, open,
                  mIsClosing, mSelfPtr, mSessions, copy, todo, crashed>>
  BY DEF vars, flagVars, acceptVars, connVars, opVars, sessionVars, stopVars
<1>2. TypeOK' /\ LabelsOK' /\ QueueOK' /\ StepsOK'
  BY <1>1 DEF Inv, Typed, TypeOK, LabelsOK, QueueOK, StepsOK, Result, Of
<1>3. MainInv' /\ ChainInv'
  BY <1>1 DEF Inv, MainInv, NotStarted, OutOfWork, ChainInv, InAccept,
     AcceptsAt
<1>4. ASSUME NEW x \in Conns
      PROVE  ConnOK(x)'
  <2>1. /\ ConnOK(x) /\ Same(x)
        /\ At(x, Main, Closing)' <=> At(x, Main, Closing)
    BY <1>1 DEF Inv, ConnInv, Same, Carried, Alone, At, Waits, Of
  <2> QED BY <1>1, <2>1, ConnKept
<1> QED BY <1>2, <1>3, <1>4 DEF Inv, Typed, ConnInv

(* Every step keeps it.                                                    *)
LEMMA InvNext ==
  ASSUME Inv, Next
  PROVE  Inv'
<1>1. Typed /\ MainInv /\ ChainInv
  BY DEF Inv
<1>2. TypeOK' /\ LabelsOK' /\ QueueOK' /\ StepsOK'
  BY <1>1, TypeNext, LabelsNext, QueueNext, StepsNext
<1>3. MainInv' /\ ChainInv'
  BY <1>1, MainNext, ChainNext
<1>4. \A x \in Conns : ConnOK(x)'
  BY <1>1, ConnNext DEF Inv, ConnInv
<1> QED BY <1>2, <1>3, <1>4 DEF Inv, Typed, ConnInv

(* The invariant holds in every state the server can reach.                *)
LEMMA InvInvariant == Spec => []Inv
<1>1. Inv /\ [Next]_vars => Inv'
  BY InvNext, InvStutters
<1> QED BY InitInv, <1>1, PTL DEF Spec

-----------------------------------------------------------------------------
(* What it means for the server.                                           *)

(* Every variable keeps to its type, with any number of threads and of     *)
(* viewers (Server.h:20-66, Session.h:17-56).                              *)
THEOREM TypesHold == Spec => []TypeOK
<1>1. Inv => TypeOK
  BY DEF Inv, Typed
<1> QED BY InvInvariant, <1>1, PTL

(* The open acceptor always has exactly one async_accept on its way, and   *)
(* never two (Acceptor.cpp:20-53).                                         *)
THEOREM AcceptsOnceAtATime == Spec => []AcceptChain
<1>1. ASSUME Inv
      PROVE  AcceptChain
  <2> DEFINE inHandler == {t \in IoThreads : InAccept(t)}
             waiting == IF accepting THEN 1 ELSE 0
  <2>1. ChainInv /\ accepting \in BOOLEAN
    BY <1>1 DEF Inv, Typed, TypeOK
  <2>2. \/ inHandler = {}
        \/ /\ \E t \in inHandler : inHandler = {t}
           /\ ~accepting /\ AcceptsQueued = {}
    BY <2>1 DEF ChainInv, AcceptsAt, AcceptsQueued
  <2>3. \/ AcceptsQueued = {}
        \/ ~accepting /\ \E i \in AcceptsQueued : AcceptsQueued = {i}
    BY <2>1 DEF ChainInv, AcceptsAt, AcceptsQueued
  <2>4. acceptor = "open" =>
          accepting \/ inHandler # {} \/ AcceptsQueued # {}
    BY <2>1 DEF ChainInv, AcceptsAt, AcceptsQueued
  <2>5. /\ Cardinality({}) = 0
        /\ \A S : (\E e \in S : S = {e}) => Cardinality(S) = 1
    BY FS_EmptySet, FS_Singleton
  <2>6. accepting => acceptor = "open"
    BY <2>1 DEF ChainInv
  <2> HIDE DEF inHandler
  <2>7. CASE inHandler # {}
    BY <2>2, <2>4, <2>5, <2>6, <2>7 DEF AcceptChain, inHandler
  <2>8. CASE inHandler = {} /\ AcceptsQueued # {}
    BY <2>3, <2>4, <2>5, <2>6, <2>8 DEF AcceptChain, inHandler
  <2>9. CASE inHandler = {} /\ AcceptsQueued = {}
    BY <2>1, <2>4, <2>5, <2>6, <2>9 DEF AcceptChain, inHandler
  <2> QED BY <2>7, <2>8, <2>9
<1> QED BY InvInvariant, <1>1, PTL

(* What is listed owns itself, and closes only while the thread that       *)
(* closes it is about to take it out (Session.cpp:183-192).                *)
THEOREM SessionsAreServed == Spec => []ListedIsServed
<1>1. ASSUME Inv
      PROVE  ListedIsServed
  <2>1. /\ TypeOK /\ LabelsOK /\ mSessions \subseteq Conns
        /\ \A x \in Conns : ConnOK(x)
    BY <1>1 DEF Inv, Typed, TypeOK, ConnInv
  <2>2. \A c \in mSessions :
          /\ c \in mSelfPtr /\ ~Carried(c, Lambda)
          /\ c \in mIsClosing => Closes(c)
    BY <2>1 DEF ConnOK, Owned
  <2>3. ASSUME NEW c \in mSessions \cap mIsClosing
        PROVE  \E t \in Threads : pc[t] = "remove" /\ Of(t) = c
    <3>1. CASE At(c, Main, Closing)
      BY <3>1, <2>1 DEF At, Closing, LabelsOK, MainLabels, Threads
    <3>2. ASSUME NEW t \in IoThreads, At(c, t, Closing)
          PROVE  pc[t] = "remove" /\ Of(t) = c /\ t \in Threads
      BY <3>2, <2>2 DEF At, Closing, Lambda, Carried, Threads
    <3>3. ASSUME NEW i \in 1..Len(ready), Waits(c, i, Closing)
          PROVE  FALSE
      <4>1. ready[i].op \in Ops
        <5>1. ready \in Seq(Handler)
          BY <2>1 DEF TypeOK
        <5>2. ready[i] \in Handler
          BY <5>1, ElementOfSeq
        <5> QED BY <5>2 DEF Handler
      <4>2. ready[i].op # "closePosted"
        BY <3>3, <2>2 DEF Waits, Lambda, Carried
      <4> QED BY <3>3, <4>1, <4>2 DEF Waits, Closing, Ops
    <3> QED BY <2>2, <3>1, <3>2, <3>3 DEF Closes, Carried
  <2> QED BY <2>2, <2>3 DEF ListedIsServed
<1> QED BY InvInvariant, <1>1, PTL

(* With a thread to run the handlers stop() leaves none, no operation and  *)
(* no session: every viewer that is still connected had a session, which   *)
(* was closed (Server.cpp:75-116, and Config.cpp:141-145 for the thread).  *)
THEOREM StopLeavesNothing ==
  ASSUME IoThreads # {}
  PROVE  Spec => []StoppedClean
<1>1. ASSUME Inv
      PROVE  StoppedClean
  <2> SUFFICES ASSUME pc[Main] = "stopped"
               PROVE  /\ ready = <<>> /\ ~accepting
                      /\ shaking \cup reading \cup closeOps = {}
                      /\ Alive = {} /\ \A c \in up : c \in mIsClosing
    BY DEF StoppedClean
  <2>1. /\ TypeOK /\ MainInv /\ \A x \in Conns : ConnOK(x)
    BY <1>1 DEF Inv, Typed, ConnInv
  <2>2. copy = {} /\ \A t \in IoThreads : pc[t] \in {"none", "exited"}
    BY <2>1 DEF MainInv
  <2>3. CASE NotStarted
    BY <2>1, <2>2, <2>3 DEF NotStarted, TypeOK, Alive
  <2>4. CASE OutOfWork
    <3>1. \A x \in Conns, steps \in StepSets : ~Carried(x, steps)
      BY <2>2, <2>4, StepSetFacts DEF OutOfWork, Carried, At
    <3>2. \A x \in Conns : ~At(x, Main, Closing)
      BY DEF At, Closing
    <3>3. \A x \in Conns :
            x \notin mSelfPtr \cup mSessions /\ (x \in up => x \in mIsClosing)
      BY <2>1, <2>4, <3>1, <3>2
      DEF OutOfWork, ConnOK, Owned, MayStayUp, Closes, StepSets
    <3>4. mSelfPtr \cup mSessions \cup up \subseteq Conns
      BY <2>1 DEF TypeOK
    <3> QED BY <2>2, <2>4, <3>3, <3>4 DEF OutOfWork, Alive
  <2> QED BY <2>1, <2>2, <2>3, <2>4 DEF MainInv
<1> QED BY InvInvariant, <1>1, PTL
=============================================================================
