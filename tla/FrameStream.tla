----------------------------- MODULE FrameStream -----------------------------
(***************************************************************************)
(* What IServer::broadcastData promises one viewer: frames are broadcast   *)
(* one after the other, and the viewer is shown some of them, never one    *)
(* twice and never an older one after a newer one.  Frames may be missed:  *)
(* a viewer connects late, falls behind or leaves.                         *)
(***************************************************************************)
EXTENDS Naturals, Sequences

CONSTANT MaxFrames   \* bound: frames broadcast in a behaviour

VARIABLES published, \* frames broadcast so far
          shown      \* frames that reached the viewer

Init == published = 0 /\ shown = <<>>

(* The newest frame the viewer has seen, 0 before the first.               *)
Newest == IF shown = <<>> THEN 0 ELSE shown[Len(shown)]

Publish ==
  /\ published < MaxFrames
  /\ published' = published + 1
  /\ UNCHANGED shown

Show(f) ==
  /\ Newest < f /\ f <= published
  /\ shown' = Append(shown, f)
  /\ UNCHANGED published

Next == Publish \/ \E f \in 1..MaxFrames : Show(f)

Spec == Init /\ [][Next]_<<published, shown>>
=============================================================================
