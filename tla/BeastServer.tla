----------------------------- MODULE BeastServer -----------------------------
(***************************************************************************)
(* The life of Streaming::Beast::BeastServer: start() listens and starts   *)
(* the io threads, the Acceptor turns connections into Sessions, and the   *)
(* main thread runs stop() after Ctrl+C, or from the destructor when       *)
(* start() threw.                                                          *)
(*                                                                         *)
(* A connection is one viewer's, from async_accept to the destruction of   *)
(* its Session.  What a session does with frames is module Session's       *)
(* matter: here it is in its handshake, reads until the peer leaves, and   *)
(* closes.  A statement is a read or a write of state another thread can   *)
(* touch.                                                                  *)
(***************************************************************************)
EXTENDS Naturals, Sequences, FiniteSets

CONSTANTS IoThreads,  \* mThreadPool
          Main,       \* the thread of main()
          Conns,      \* connections that may arrive
          NoConn,     \* no connection
          MaxErrors   \* bound: failures of async_accept while it listens

ASSUME ServerAssumption ==
  /\ Main \notin IoThreads /\ NoConn \notin Conns
  /\ MaxErrors \in Nat

VARIABLES
  ready,      \* handlers that mIoContext can run, in order
  pc, cur,    \* each thread's statement, and what it works on
  mRunning, mWork,
  acceptor,   \* mAcceptor: open, closed, stopped (mIsStopped set) or gone
  accepting,  \* an async_accept is outstanding
  errors,     \* failures of async_accept so far
  next,       \* the connection mNextSocket holds
  arrived,    \* connections that were accepted
  up,         \* connections whose socket is open and whose peer is there
  shaking, reading, closeOps, \* sessions with such an operation outstanding
  open,       \* sessions with mStream.is_open()
  mIsClosing, mSelfPtr, \* sessions that have that member set
  mSessions,
  copy, todo, \* stop()'s sessionsCopy, and what is left to close of it
  crashed     \* the process died of undefined behaviour

acceptVars  == <<accepting, next>>
connVars    == <<arrived, up, errors>>
opVars      == <<shaking, reading, closeOps>>
sessionVars == <<mIsClosing, mSelfPtr, mSessions>>
stopVars    == <<copy, todo>>
flagVars    == <<mRunning, mWork, acceptor>>
vars == <<ready, pc, cur, flagVars, acceptVars, connVars, opVars, open,
          sessionVars, stopVars, crashed>>

Threads == IoThreads \cup {Main}

Ops == {"acceptDone", "socket", "handshake", "readDone", "closePosted"}
Handler == [op : Ops, conn : Conns \cup {NoConn}, ok : BOOLEAN]
HandlerOf(op, c, ok) == [op |-> op, conn |-> c, ok |-> ok]

IoLabels == {"none", "idle", "exited", "rearm", "onAccept", "add", "read",
             "close", "remove"} \cup Ops
MainLabels == {"start", "running", "flag", "closeAcceptor", "setStopped",
               "resetAcceptor", "copy", "pick", "close", "remove", "clear",
               "work", "join", "stopped"}

TypeOK ==
  /\ ready \in Seq(Handler)
  /\ pc \in [Threads -> IoLabels \cup MainLabels]
  /\ cur \in [Threads -> Handler]
  /\ mRunning \in BOOLEAN /\ mWork \in BOOLEAN
  /\ acceptor \in {"open", "closed", "stopped", "gone"}
  /\ accepting \in BOOLEAN /\ errors \in 0..MaxErrors
  /\ next \in Conns \cup {NoConn}
  /\ up \subseteq arrived /\ arrived \subseteq Conns
  /\ shaking \subseteq arrived /\ reading \subseteq arrived
  /\ closeOps \subseteq arrived /\ open \subseteq arrived
  /\ mIsClosing \subseteq arrived /\ mSelfPtr \subseteq arrived
  /\ mSessions \subseteq arrived
  /\ todo \subseteq copy /\ copy \subseteq arrived
  /\ crashed \in BOOLEAN

Init ==
  /\ ready = <<>>
  /\ pc = [t \in Threads |-> IF t = Main THEN "start" ELSE "none"]
  /\ cur = [t \in Threads |-> HandlerOf("acceptDone", NoConn, FALSE)]
  /\ mRunning = FALSE /\ mWork = FALSE
  /\ acceptor = "gone" /\ accepting = FALSE /\ errors = 0 /\ next = NoConn
  /\ arrived = {} /\ up = {}
  /\ shaking = {} /\ reading = {} /\ closeOps = {} /\ open = {}
  /\ mIsClosing = {} /\ mSelfPtr = {} /\ mSessions = {}
  /\ copy = {} /\ todo = {}
  /\ crashed = FALSE

(* Sessions some shared_ptr owns.                                          *)
Alive == mSelfPtr \cup mSessions \cup copy

Post(h) == ready' = Append(ready, h)
Goto(t, label) == pc' = [pc EXCEPT ![t] = label]

(* The connection a thread works on.                                       *)
Of(t) == cur[t].conn

(* A step of a handler, and one of a handler of a session that exists.     *)
Serves(t, from, to) ==
  /\ pc[t] = from /\ Goto(t, to)
  /\ UNCHANGED <<cur, flagVars, arrived, errors, open, stopVars>>

OnSession(t, from, to) ==
  /\ Of(t) \in Alive /\ Serves(t, from, to)
  /\ UNCHANGED <<acceptVars, up, shaking, crashed>>

-----------------------------------------------------------------------------
(* start()                                                                 *)

(* The acceptor listens, the first async_accept is started and so are the  *)
(* threads.                                                                *)
Start ==
  /\ pc[Main] = "start"
  /\ mRunning' = TRUE /\ mWork' = TRUE
  /\ acceptor' = "open" /\ accepting' = TRUE
  /\ pc' = [t \in Threads |-> IF t = Main THEN "running" ELSE "idle"]
  /\ UNCHANGED <<ready, cur, next, connVars, opVars, open, sessionVars,
                 stopVars, crashed>>

(* The address cannot be parsed or bound: the exception leaves mRunning    *)
(* set and no thread, setupServer() reports failure, and the destructor    *)
(* stops the server.                                                       *)
StartThrows ==
  /\ pc[Main] = "start" /\ Goto(Main, "flag")
  /\ mRunning' = TRUE /\ mWork' = TRUE
  /\ acceptor' = "closed"
  /\ UNCHANGED <<ready, cur, acceptVars, connVars, opVars, open, sessionVars,
                 stopVars, crashed>>

-----------------------------------------------------------------------------
(* Handlers run by the io threads.                                         *)

Take(t) ==
  /\ pc[t] = "idle" /\ ready # <<>>
  /\ cur' = [cur EXCEPT ![t] = Head(ready)]
  /\ ready' = Tail(ready)
  /\ Goto(t, Head(ready).op)
  /\ UNCHANGED <<flagVars, acceptVars, connVars, opVars, open, sessionVars,
                 stopVars, crashed>>

(* The handler of the acceptor's async_accept, up to its second test of    *)
(* mIsStopped: a connection is posted to the server.                       *)
AcceptDone(t) ==
  /\ acceptor # "gone"
  /\ Serves(t, "acceptDone", IF acceptor = "stopped" THEN "idle" ELSE "rearm")
  /\ IF acceptor # "stopped" /\ cur[t].ok
       THEN Post(HandlerOf("socket", Of(t), TRUE))
       ELSE UNCHANGED ready
  /\ UNCHANGED <<acceptVars, up, opVars, sessionVars, crashed>>

(* The handler's last test gives up after an error.                        *)
RearmsOnSuccess(t) == acceptor # "stopped" /\ cur[t].ok

(* The handler's last test: accept the next connection unless stopped.     *)
Rearms(t) == acceptor # "stopped"

(* initAccept(): on an acceptor that is closed already async_accept fails  *)
(* at once.                                                                *)
Rearm(t) ==
  /\ acceptor # "gone" /\ Serves(t, "rearm", "idle")
  /\ accepting' = (Rearms(t) /\ acceptor = "open")
  /\ next' = IF Rearms(t) THEN NoConn ELSE next
  /\ IF Rearms(t) /\ acceptor = "closed"
       THEN Post(HandlerOf("acceptDone", NoConn, FALSE))
       ELSE UNCHANGED ready
  /\ UNCHANGED <<up, opVars, sessionVars, crashed>>

(* A server that has stopped closes the socket, which nobody else owns.    *)
CloseSocket(c) == up' = IF mRunning THEN up ELSE up \ {c}

(* The lambda posted by the acceptor's callback.                           *)
SocketPosted(t) ==
  /\ Serves(t, "socket", IF mRunning THEN "onAccept" ELSE "idle")
  /\ CloseSocket(Of(t))
  /\ UNCHANGED <<ready, acceptVars, opVars, sessionVars, crashed>>

(* onAccept(): the same test again, then a session that takes the socket,  *)
(* from mNextSocket too if that still is the one, starts its handshake and *)
(* owns itself.                                                            *)
OnAccept(t) ==
  LET taken == IF mRunning THEN {Of(t)} ELSE {} IN
  /\ Serves(t, "onAccept", "idle")
  /\ CloseSocket(Of(t))
  /\ shaking' = shaking \cup taken /\ mSelfPtr' = mSelfPtr \cup taken
  /\ next' = IF next \in taken THEN NoConn ELSE next
  /\ UNCHANGED <<ready, accepting, reading, closeOps, mIsClosing, mSessions,
                 crashed>>

(* The handlers of the session's async_accept and async_read.              *)
Handled(t, success) ==
  IF Of(t) \in mIsClosing THEN "idle"
  ELSE IF cur[t].ok THEN success ELSE "close"

Handshaken(t) ==
  /\ OnSession(t, "handshake", Handled(t, "add"))
  /\ UNCHANGED <<ready, reading, closeOps, sessionVars>>

(* addSession(), under mSessionsMutex.                                     *)
AddSession(t) ==
  /\ OnSession(t, "add", "read")
  /\ mSessions' = mSessions \cup {Of(t)}
  /\ UNCHANGED <<ready, reading, closeOps, mIsClosing, mSelfPtr>>

Read(t) ==
  /\ OnSession(t, "read", "idle")
  /\ reading' = reading \cup ({Of(t)} \ mIsClosing)
  /\ UNCHANGED <<ready, closeOps, sessionVars>>

ReadDone(t) ==
  /\ OnSession(t, "readDone", Handled(t, "read"))
  /\ UNCHANGED <<ready, reading, closeOps, sessionVars>>

(* The lambda without mSelfPtr.reset().                                    *)
SelfKept(c) == mSelfPtr

SelfReset(c) == mSelfPtr \ {c}

(* The lambda posted by Session::close().                                  *)
ClosePosted(t) ==
  /\ OnSession(t, "closePosted", "idle")
  /\ closeOps' = closeOps \cup ({Of(t)} \cap open)
  /\ mSelfPtr' = SelfReset(Of(t))
  /\ UNCHANGED <<ready, reading, mIsClosing, mSessions>>

(* A handler that captured `this' of an acceptor or a session that is      *)
(* gone: it finds mIsStopped or mIsClosing set in what is left there and   *)
(* returns, or the process dies.                                           *)
DanglingAcceptor(t) == pc[t] \in {"acceptDone", "rearm"} /\ acceptor = "gone"
DanglingSession(t) ==
  /\ pc[t] \in {"handshake", "add", "read", "readDone", "close", "remove",
                "closePosted"}
  /\ Of(t) \notin Alive

RunDangling(t) ==
  /\ DanglingAcceptor(t) \/ DanglingSession(t)
  /\ \/ Serves(t, pc[t], "idle") /\ UNCHANGED crashed
     \/ Serves(t, pc[t], pc[t]) /\ crashed' = TRUE
  /\ UNCHANGED <<ready, acceptVars, up, opVars, sessionVars>>

(* mIoContext.run() returns when no handler is queued or running, nothing  *)
(* is outstanding and the work guard is gone.                              *)
OutOfWork ==
  /\ ready = <<>> /\ ~mWork /\ ~accepting
  /\ shaking = {} /\ reading = {} /\ closeOps = {}
  /\ \A t \in IoThreads : pc[t] \in {"none", "idle", "exited"}

ThreadExits(t) ==
  /\ OutOfWork /\ Serves(t, "idle", "exited")
  /\ UNCHANGED <<ready, acceptVars, up, opVars, sessionVars, crashed>>

-----------------------------------------------------------------------------
(* Session::close(), called by an io thread or from stop().                *)

AfterClose(t) == IF t = Main THEN "pick" ELSE "idle"

CloseFlag(t) ==
  /\ OnSession(t, "close",
               IF Of(t) \in mIsClosing THEN AfterClose(t) ELSE "remove")
  /\ mIsClosing' = mIsClosing \cup {Of(t)}
  /\ UNCHANGED <<ready, reading, closeOps, mSelfPtr, mSessions>>

(* Without removeSession().                                                *)
StillListed(c) == mSessions

Unlisted(c) == mSessions \ ({c} \cap mSelfPtr)

(* removeSession() under mSessionsMutex, and the post of the lambda.       *)
CloseRemove(t) ==
  /\ OnSession(t, "remove", AfterClose(t))
  /\ mSessions' = Unlisted(Of(t))
  /\ Post(HandlerOf("closePosted", Of(t), TRUE))
  /\ UNCHANGED <<reading, closeOps, mIsClosing, mSelfPtr>>

-----------------------------------------------------------------------------
(* The main thread: Ctrl+C, then stop().                                   *)

Stops(from, to) ==
  /\ pc[Main] = from /\ Goto(Main, to)
  /\ UNCHANGED <<arrived, errors, opVars, open, mIsClosing, mSelfPtr>>

(* The signal handler has set gShutdownRequested and the loop of run()     *)
(* has left.                                                               *)
Signal ==
  /\ Stops("running", "flag")
  /\ UNCHANGED <<ready, cur, flagVars, acceptVars, up, mSessions, stopVars,
                 crashed>>

(* mRunning.exchange(false)                                                *)
StopFlag ==
  /\ Stops("flag", "closeAcceptor")
  /\ mRunning' = FALSE
  /\ UNCHANGED <<ready, cur, mWork, acceptor, acceptVars, up, mSessions,
                 stopVars, crashed>>

(* Acceptor::stop() closes mNextSocket, accepted or not, and the acceptor, *)
(* whose async_accept ends with an error.                                  *)
CloseAcceptor ==
  /\ Stops("closeAcceptor", "setStopped")
  /\ up' = up \ {next}
  /\ acceptor' = "closed" /\ accepting' = FALSE
  /\ IF accepting THEN Post(HandlerOf("acceptDone", NoConn, FALSE))
     ELSE UNCHANGED ready
  /\ UNCHANGED <<cur, mRunning, mWork, next, mSessions, stopVars, crashed>>

(* mIsStopped = true                                                       *)
SetStopped ==
  /\ Stops("setStopped", "resetAcceptor")
  /\ acceptor' = "stopped"
  /\ UNCHANGED <<ready, cur, mRunning, mWork, acceptVars, up, mSessions,
                 stopVars, crashed>>

(* mAcceptor.reset()                                                       *)
ResetAcceptor ==
  /\ Stops("resetAcceptor", "copy")
  /\ acceptor' = "gone" /\ next' = NoConn
  /\ UNCHANGED <<ready, cur, mRunning, mWork, accepting, up, mSessions,
                 stopVars, crashed>>

(* stop() copies mSessions under mSessionsMutex.                           *)
CopySessions ==
  /\ Stops("copy", "pick")
  /\ copy' = mSessions /\ todo' = mSessions
  /\ UNCHANGED <<ready, cur, flagVars, acceptVars, up, mSessions, crashed>>

(* The loop over the copy, in the order of the addresses.                  *)
PickSession(c) ==
  /\ c \in todo /\ Stops("pick", "close")
  /\ todo' = todo \ {c}
  /\ cur' = [cur EXCEPT ![Main] = HandlerOf("closePosted", c, TRUE)]
  /\ UNCHANGED <<ready, flagVars, acceptVars, up, mSessions, copy, crashed>>

PicksDone ==
  /\ todo = {} /\ Stops("pick", "clear")
  /\ UNCHANGED <<ready, cur, flagVars, acceptVars, up, mSessions, stopVars,
                 crashed>>

(* Two threads at conflicting statements on mSessions: clear() takes no    *)
(* lock.                                                                   *)
SessionsRace == \E t \in IoThreads : pc[t] \in {"add", "remove"}

(* mSessions.clear(), which may tear the set when another thread is at it. *)
ClearSessions ==
  /\ \/ Stops("clear", "work") /\ mSessions' = {} /\ UNCHANGED crashed
     \/ /\ SessionsRace /\ Stops("clear", "clear")
        /\ crashed' = TRUE /\ UNCHANGED mSessions
  /\ UNCHANGED <<ready, cur, flagVars, acceptVars, up, stopVars>>

(* The work guard is kept.                                                 *)
KeepWork == mWork

NoWork == FALSE

(* mWork.reset()                                                           *)
ResetWork ==
  /\ Stops("work", "join")
  /\ mWork' = NoWork
  /\ UNCHANGED <<ready, cur, mRunning, acceptor, acceptVars, up, mSessions,
                 stopVars, crashed>>

(* The threads are detached.                                               *)
JoinedAtOnce == TRUE

(* What join() waits for.                                                  *)
Joined == \A t \in IoThreads : pc[t] \in {"none", "exited"}

(* The threads are joined, mIoContext is stopped, stop() returns and its   *)
(* copy is destroyed.                                                      *)
JoinThreads ==
  /\ Joined /\ Stops("join", "stopped")
  /\ copy' = {}
  /\ UNCHANGED <<ready, cur, flagVars, acceptVars, up, mSessions, todo,
                 crashed>>

-----------------------------------------------------------------------------
(* The network and the viewers.                                            *)

Outside == UNCHANGED <<pc, cur, flagVars, sessionVars, stopVars, crashed>>

Connect(c) ==
  /\ accepting /\ c \notin arrived
  /\ arrived' = arrived \cup {c} /\ up' = up \cup {c}
  /\ next' = c /\ accepting' = FALSE
  /\ Post(HandlerOf("acceptDone", c, TRUE))
  /\ Outside /\ UNCHANGED <<errors, opVars, open>>

AcceptFails ==
  /\ accepting /\ errors < MaxErrors
  /\ errors' = errors + 1 /\ accepting' = FALSE
  /\ Post(HandlerOf("acceptDone", NoConn, FALSE))
  /\ Outside /\ UNCHANGED <<next, arrived, up, opVars, open>>

PeerLeaves(c) ==
  /\ c \in up
  /\ up' = up \ {c}
  /\ Outside /\ UNCHANGED <<ready, acceptVars, arrived, errors, opVars, open>>

(* The peer completes the handshake, or does not before the timeout.       *)
HandshakeEnds(c, ok) ==
  /\ c \in shaking /\ (ok => c \in up)
  /\ shaking' = shaking \ {c}
  /\ open' = IF ok THEN open \cup {c} ELSE open
  /\ Post(HandlerOf("handshake", c, ok))
  /\ Outside /\ UNCHANGED <<acceptVars, connVars, reading, closeOps>>

(* A stream that can still carry a message.                                *)
Usable(c) == c \in up \cap open \cap Alive

(* A message arrived, or the stream failed.                                *)
ReadEnds(c, ok) ==
  /\ c \in reading /\ (IF ok THEN Usable(c) ELSE ~Usable(c) \/ c \in closeOps)
  /\ reading' = reading \ {c}
  /\ open' = IF ok THEN open ELSE open \ {c}
  /\ Post(HandlerOf("readDone", c, ok))
  /\ Outside /\ UNCHANGED <<acceptVars, connVars, shaking, closeOps>>

(* The closing handshake ends, with the peer's answer or by its timeout.   *)
CloseEnds(c) ==
  /\ c \in closeOps
  /\ closeOps' = closeOps \ {c} /\ open' = open \ {c} /\ up' = up \ {c}
  /\ Outside
  /\ UNCHANGED <<ready, acceptVars, arrived, errors, shaking, reading>>

-----------------------------------------------------------------------------
IoStep(t) ==
  \/ Take(t) \/ AcceptDone(t) \/ Rearm(t) \/ SocketPosted(t) \/ OnAccept(t)
  \/ Handshaken(t) \/ AddSession(t) \/ Read(t) \/ ReadDone(t)
  \/ ClosePosted(t) \/ CloseFlag(t) \/ CloseRemove(t)
  \/ RunDangling(t) \/ ThreadExits(t)

(* stop(), from the moment the main loop has left.                         *)
StopStep ==
  \/ StopFlag \/ CloseAcceptor \/ SetStopped \/ ResetAcceptor \/ CopySessions
  \/ (\E c \in Conns : PickSession(c)) \/ PicksDone
  \/ CloseFlag(Main) \/ CloseRemove(Main)
  \/ ClearSessions \/ ResetWork \/ JoinThreads

Network ==
  \/ AcceptFails
  \/ \E c \in Conns : Connect(c) \/ PeerLeaves(c) \/ CloseEnds(c)
  \/ \E c \in Conns, ok \in BOOLEAN : HandshakeEnds(c, ok) \/ ReadEnds(c, ok)

Next ==
  /\ ~crashed
  /\ \/ Start \/ StartThrows \/ Signal \/ StopStep
     \/ \E t \in IoThreads : IoStep(t)
     \/ Network

Spec == Init /\ [][Next]_vars

(* The threads run, and Boost ends what it bounds by a timeout (the two    *)
(* handshakes of timeout::suggested) and what has failed.  A peer may stay *)
(* connected for ever.                                                     *)
FairSpec ==
  /\ Spec
  /\ WF_vars(~crashed /\ StopStep)
  /\ \A t \in IoThreads : WF_vars(~crashed /\ IoStep(t))
  /\ \A c \in Conns :
       /\ WF_vars(~crashed /\ \E ok \in BOOLEAN : HandshakeEnds(c, ok))
       /\ WF_vars(~crashed /\ ReadEnds(c, FALSE))
       /\ WF_vars(~crashed /\ CloseEnds(c))

(* Viewers that close their window at last.                                *)
PatientSpec ==
  /\ FairSpec
  /\ \A c \in Conns : WF_vars(~crashed /\ PeerLeaves(c))

-----------------------------------------------------------------------------
(* Properties.                                                             *)

InAccept(t) == pc[t] \in {"acceptDone", "rearm"}
AcceptsQueued == {i \in 1..Len(ready) : ready[i].op = "acceptDone"}

(* While the acceptor is open it accepts, whatever happened to earlier     *)
(* connections: exactly one async_accept is outstanding, completed or in   *)
(* its handler, and never two, which would share mNextSocket.  Of the      *)
(* acceptor that stop() destroys at most one handler is left, and no       *)
(* operation (Acceptor.cpp:20-53, Server.cpp:82-85).                       *)
AcceptChain ==
  LET chain == Cardinality({t \in IoThreads : InAccept(t)})
                 + Cardinality(AcceptsQueued) + (IF accepting THEN 1 ELSE 0)
  IN /\ acceptor = "open" => chain = 1
     /\ acceptor # "open" => chain <= 1 /\ ~accepting

(* What broadcastData() finds in mSessions owns itself, and is closing     *)
(* only while the thread that closes it is about to take it out            *)
(* (Session.cpp:183-192, Server.cpp:137-153).                              *)
ListedIsServed ==
  /\ mSessions \subseteq mSelfPtr
  /\ \A c \in mSessions \cap mIsClosing :
       \E t \in Threads : pc[t] = "remove" /\ Of(t) = c

(* When stop() has returned nothing of the server is left: no handler, no  *)
(* operation, no session; and a viewer whose connection was not closed had *)
(* a session, which closed and is destroyed (Server.cpp:75-116, 36-50).    *)
StoppedClean ==
  pc[Main] = "stopped" =>
    /\ ready = <<>> /\ ~accepting /\ shaking \cup reading \cup closeOps = {}
    /\ Alive = {} /\ \A c \in up : c \in mIsClosing

(* stop() returns, if the viewers leave at last.                           *)
ShutdownCompletes == pc[Main] = "flag" ~> (pc[Main] = "stopped" \/ crashed)

(* A viewer that has left, or never finished its handshake, is forgotten:  *)
(* its session leaves mSessions and gives up itself                        *)
(* (Session.cpp:49-86, 183-204).                                           *)
ViewerForgotten == \A c \in Conns :
  (c \in mSelfPtr \ up) ~> (c \notin mSelfPtr \cup mSessions \/ crashed)

(* "Press Ctrl+C to stop the server" (Server/Application.cpp:59): stop()   *)
(* returns whatever the viewers do.  The code does not keep this.          *)
CtrlCStops == ShutdownCompletes

(* "Acceptor stopped, ignoring async_accept result" (Acceptor.cpp:38): a   *)
(* handler of async_accept that runs after stop() finds its acceptor and   *)
(* mIsStopped set.  The code does not keep this.                           *)
AcceptorOutlivesHandler == \A t \in IoThreads : ~DanglingAcceptor(t)
=============================================================================
