------------------------------ MODULE PocoClient -------------------------------
(***************************************************************************)
(* PocoClient: a thread that polls the socket with a timeout and receives  *)
(* from it, until its stop token or mRunning tells it to leave.            *)
(***************************************************************************)
EXTENDS Multicast

VARIABLE stopRequested  \* the stop token of mReceiveThread

PocoInit == MulticastInit /\ stopRequested = FALSE

-----------------------------------------------------------------------------
(* connect()                                                               *)

(* The new thread gets the token of the thread before it.                  *)
SameToken == stopRequested

NewToken == FALSE

(* A new socket joins the group, and a new thread receives from it.        *)
Connect ==
  /\ Connecting
  /\ mRunning' = TRUE /\ mConnected' = TRUE
  /\ stopRequested' = NewToken
  /\ io' = "test" /\ cur' = None
  /\ pc' = "tell"

(* bind() or joinGroup() throws: disconnect() finds mRunning unset, and    *)
(* the socket stays open until the next connect() replaces it.             *)
ConnectFails ==
  /\ Connecting
  /\ UNCHANGED <<pc, io, cur, mRunning, mConnected, stopRequested>>

TellConnected ==
  /\ Call("tell", "idle")
  /\ told' = "connected"
  /\ UNCHANGED <<cur, flagVars, socketOpen, viewVars, stopRequested>>

-----------------------------------------------------------------------------
(* disconnect()                                                            *)

Disconnect ==
  /\ Call("idle", "leave") /\ mRunning
  /\ mRunning' = FALSE /\ mConnected' = FALSE
  /\ UNCHANGED <<cur, connects, socketOpen, viewVars, told, stopRequested>>

RequestStop ==
  /\ Call("leave", "close")
  /\ stopRequested' = TRUE
  /\ UNCHANGED <<cur, flagVars, socketOpen, viewVars, told>>

CloseSocket ==
  /\ Call("close", "join")
  /\ socketOpen' = FALSE
  /\ UNCHANGED <<cur, flagVars, viewVars, told, stopRequested>>

(* The thread is not waited for.                                           *)
JoinedAtOnce == TRUE

Joined == io = "none"

(* mReceiveThread.join(); leaving the group on the closed socket throws    *)
(* and is ignored; then mOnDisconnected().                                 *)
Join ==
  /\ Call("join", "idle") /\ Joined
  /\ told' = "lost"
  /\ UNCHANGED <<cur, flagVars, socketOpen, viewVars, stopRequested>>

-----------------------------------------------------------------------------
(* receiveLoop()                                                           *)

(* The loop goes on until the socket fails.                                *)
NoReason == FALSE

Leaves == stopRequested \/ ~mRunning

Test ==
  /\ Serve("test", IF Leaves THEN "none" ELSE "poll")
  /\ cur' = None
  /\ UNCHANGED <<flagVars, socketOpen, viewVars, told, stopRequested>>

(* poll() times out, or throws on a socket that was closed meanwhile.      *)
PollEnds ==
  /\ Serve("poll", "test")
  /\ UNCHANGED <<cur, flagVars, socketOpen, viewVars, told, stopRequested>>

PollReadable(f, again) ==
  /\ io = "poll" /\ TakeDatagram(f, again)
  /\ io' = "receive" /\ cur' = f
  /\ UNCHANGED <<pc, flagVars, socketOpen, viewVars, told, stopRequested>>

(* receiveFrom(), which throws if the socket was closed since the poll.    *)
Receive ==
  /\ Serve("receive", IF socketOpen THEN "deliver" ELSE "test")
  /\ cur' = IF socketOpen THEN cur ELSE None
  /\ UNCHANGED <<flagVars, socketOpen, viewVars, told, stopRequested>>

HandleReceivedData ==
  /\ Serve("deliver", "test") /\ Parse
  /\ UNCHANGED <<cur, flagVars, socketOpen, told, stopRequested>>

-----------------------------------------------------------------------------
Begins == Connect \/ ConnectFails \/ Disconnect

CallStep == TellConnected \/ RequestStop \/ CloseSocket \/ Join

IoStep == Test \/ PollEnds \/ Receive \/ HandleReceivedData

Receives == \E f \in Frame, again \in BOOLEAN : PollReadable(f, again)
=============================================================================
