------------------------------ MODULE AsioClient -------------------------------
(***************************************************************************)
(* AsioClient: one async_receive_from after the other on the io thread.    *)
(* Its completion handlers are queued in mIoContext: a handler is the      *)
(* frame of the datagram it got, or None for an error.                     *)
(***************************************************************************)
EXTENDS Multicast

VARIABLES ready, ioStopped, \* mIoContext: handlers that may run; stop()
          receives          \* async_receives outstanding on mSocket

asioVars == <<ready, ioStopped, receives>>

AsioInit == MulticastInit /\ ready = <<>> /\ ioStopped = FALSE /\ receives = 0

-----------------------------------------------------------------------------
(* connect()                                                               *)

(* The socket joins the group and the io thread starts: on an io_context   *)
(* that was stopped before, run() returns at once.                         *)
Connect ==
  /\ ~socketOpen /\ Connecting
  /\ mRunning' = TRUE
  /\ io' = IF ioStopped THEN "none" ELSE "idle"
  /\ pc' = "startReceive"
  /\ UNCHANGED <<cur, mConnected, asioVars>>

(* bind() or join_group() throws: disconnect() finds mRunning unset, and   *)
(* the socket stays open.                                                  *)
ConnectFails ==
  /\ ~socketOpen /\ Connecting
  /\ UNCHANGED <<pc, io, cur, mRunning, mConnected, asioVars>>

FirstReceive ==
  /\ Call("startReceive", "tell")
  /\ receives' = IF mRunning /\ socketOpen THEN receives + 1 ELSE receives
  /\ UNCHANGED <<cur, flagVars, socketOpen, viewVars, told, ready, ioStopped>>

TellConnected ==
  /\ Call("tell", "idle")
  /\ mConnected' = TRUE /\ told' = "connected"
  /\ UNCHANGED <<cur, connects, mRunning, socketOpen, viewVars, asioVars>>

-----------------------------------------------------------------------------
(* disconnect()                                                            *)

Disconnect ==
  /\ Call("idle", "leave") /\ mRunning
  /\ mConnected' = FALSE /\ mRunning' = FALSE
  /\ UNCHANGED <<cur, connects, socketOpen, viewVars, told, asioVars>>

(* Leaving the group throws, and disconnect() returns from its catch.      *)
LeaveFails ==
  /\ Call("leave", "idle")
  /\ UNCHANGED <<cur, flagVars, socketOpen, viewVars, told, asioVars>>

(* close() ends the async_receive of the socket with operation_aborted.    *)
CloseSocket ==
  /\ Call("leave", "stop")
  /\ socketOpen' = FALSE /\ receives' = 0
  /\ ready' = ready \o [i \in 1..receives |-> None]
  /\ UNCHANGED <<cur, flagVars, viewVars, told, ioStopped>>

(* mWork.reset() and mIoContext.stop()                                     *)
StopIo ==
  /\ Call("stop", "join")
  /\ ioStopped' = TRUE
  /\ UNCHANGED <<cur, flagVars, socketOpen, viewVars, told, ready, receives>>

(* The thread is not waited for.                                           *)
JoinedAtOnce == TRUE

Joined == io = "none"

(* mThread.join(), then mOnDisconnected().                                 *)
Join ==
  /\ Call("join", "idle") /\ Joined
  /\ told' = "lost"
  /\ UNCHANGED <<cur, flagVars, socketOpen, viewVars, asioVars>>

-----------------------------------------------------------------------------
(* The io thread                                                           *)

Take ==
  /\ ready # <<>> /\ ~ioStopped
  /\ Serve("idle", "receive")
  /\ cur' = Head(ready) /\ ready' = Tail(ready)
  /\ UNCHANGED <<flagVars, socketOpen, viewVars, told, ioStopped, receives>>

ThreadExits ==
  /\ ioStopped /\ Serve("idle", "none")
  /\ UNCHANGED <<cur, flagVars, socketOpen, viewVars, told, asioVars>>

(* The next receive is started before this one's bytes are used.           *)
RearmFirst == <<"test", "deliver">>

(* The order of handleReceive()'s two parts.                               *)
HandleOrder == <<"deliver", "test">>

AfterPart(label) == IF label = HandleOrder[1] THEN HandleOrder[2] ELSE "idle"

(* handleReceive(): an error is reported only.                             *)
HandleReceive ==
  /\ Serve("receive", IF cur # None THEN HandleOrder[1] ELSE "test")
  /\ UNCHANGED <<cur, flagVars, socketOpen, viewVars, told, asioVars>>

Deliver ==
  /\ Serve("deliver", AfterPart("deliver")) /\ Parse
  /\ UNCHANGED <<cur, flagVars, socketOpen, told, asioVars>>

(* startReceive() tests once more whether it shall receive ...             *)
Rearm ==
  /\ Serve("test",
           IF mRunning /\ socketOpen THEN "async" ELSE AfterPart("test"))
  /\ UNCHANGED <<cur, flagVars, socketOpen, viewVars, told, asioVars>>

(* ... and does, on a socket that disconnect() may have closed meanwhile:  *)
(* then the operation fails at once.                                       *)
AsyncReceive ==
  /\ Serve("async", AfterPart("test"))
  /\ IF socketOpen THEN receives' = receives + 1 /\ UNCHANGED ready
     ELSE ready' = Append(ready, None) /\ UNCHANGED receives
  /\ UNCHANGED <<cur, flagVars, socketOpen, viewVars, told, ioStopped>>

(* An async_receive completes, while the io thread polls the socket.       *)
Completes(frame) ==
  /\ io # "none" /\ ~ioStopped /\ receives > 0
  /\ receives' = receives - 1
  /\ ready' = Append(ready, frame)
  /\ UNCHANGED <<clientVars, ioStopped>>

Arrive(f, again) == TakeDatagram(f, again) /\ Completes(f)

ReceiveFails == Completes(None) /\ UNCHANGED netVars

-----------------------------------------------------------------------------
Begins == Connect \/ ConnectFails \/ Disconnect

CallStep ==
  \/ FirstReceive \/ TellConnected
  \/ LeaveFails \/ CloseSocket \/ StopIo \/ Join

IoStep ==
  \/ Take \/ ThreadExits \/ HandleReceive \/ Deliver \/ Rearm \/ AsyncReceive

Receives ==
  ReceiveFails \/ \E f \in Frame, again \in BOOLEAN : Arrive(f, again)

(* Every receive writes mReceiveBuffer and mSenderEndpoint: none is        *)
(* outstanding while the handler of another uses them or is still to run.  *)
OneReceive ==
  LET Handling == io \in {"receive", "deliver"} /\ cur # None
      Queued == ~ioStopped /\ \E i \in DOMAIN ready : ready[i] # None
  IN receives > 0 => ~Handling /\ ~Queued
=============================================================================
