---------------------------- MODULE ClientContract -----------------------------
(***************************************************************************)
(* What IClient promises the application, whatever the backend: callbacks  *)
(* come only between a connect() and the end of the disconnect() that ends *)
(* the connection, and each frame is given to the application once for     *)
(* each time it was received.  The application relies on it: it destroys   *)
(* what the callbacks use as soon as disconnect() has returned             *)
(* (Client/Application.cpp:78-93).                                         *)
(***************************************************************************)
EXTENDS Sequences

CONSTANT Frames

VARIABLES active,  \* whether the client may call back
          told,    \* the last of mOnConnected and mOnDisconnected
          shown    \* what was given to mOnDataReceived

contractVars == <<active, told, shown>>

Init == active = FALSE /\ told = "nothing" /\ shown = <<>>

(* connect()                                                               *)
Begin == ~active /\ active' = TRUE /\ UNCHANGED <<told, shown>>

Report(report) == active /\ told' = report /\ UNCHANGED <<active, shown>>

Show(f) == active /\ shown' = Append(shown, f) /\ UNCHANGED <<active, told>>

(* disconnect(), whose last report may be its last statement.              *)
End ==
  /\ active /\ active' = FALSE
  /\ told' \in {told, "lost"}
  /\ UNCHANGED shown

Next ==
  \/ Begin \/ End
  \/ \E report \in {"connected", "lost"} : Report(report)
  \/ \E f \in Frames : Show(f)

Spec == Init /\ [][Next]_contractVars
=============================================================================
