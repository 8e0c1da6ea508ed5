---------------------------- MODULE ViewerProofs ----------------------------
(***************************************************************************)
(* Proofs about Viewer for every number and size of frames: what the       *)
(* window shows, and how the program ends.                                 *)
(***************************************************************************)
EXTENDS Viewer, TLAPS

-----------------------------------------------------------------------------
(* Types.                                                                  *)

(* The numbers that TypeOK's sets are made of.                             *)
LEMMA BoundTypes ==
  /\ MaxSide \in Nat /\ MaxFrames \in Nat
  /\ 20 \in WindowSides /\ NoFrame \in Frame
  BY ViewerAssumption DEF ViewerAssumption, WindowSides, NoFrame, FrameOf, Frame

(* Every step of the viewer preserves the types.                           *)
LEMMA TypeOKNext ==
  ASSUME TypeOK, [Next]_vars
  PROVE  TypeOK'
<1> USE DEF TypeOK
<1>1. CASE ReadOptions
  BY <1>1 DEF ReadOptions, UnlessFails, Goes, Ends, callbackVars, windowVars,
              gridVars
<1>2. CASE SetupClient \/ SetupFails
  BY <1>2 DEF SetupClient, SetupFails, Goes, Ends, callbackVars, windowVars,
              gridVars
<1>3. CASE InitWindow \/ InitWindowFails \/ DestroyClient
  BY <1>3 DEF InitWindow, InitWindowFails, DestroyClient, Goes, Ends, appVars,
              callbackVars, windowVars, gridVars
<1>4. CASE Exchange \/ CopyFrame
  BY <1>4 DEF Exchange, CopyFrame, Goes, appVars, callbackVars, windowVars,
              gridVars
<1>5. CASE Resize
  <2>1. copied.w \in 0..MaxSide /\ copied.h \in 0..MaxSide
    BY DEF Frame
  <2>2. CASE Resizes(getGridDimensions(copied))
    <3>1. getGridDimensions(copied) = <<copied.w, copied.h>>
      BY <2>2 DEF getGridDimensions, Resizes
    <3>2. copied.w \in Sides /\ copied.h \in Sides
      BY <2>1, <2>2, <3>1 DEF Resizes, Sides
    <3>3. mGridWidth' = copied.w /\ mGridHeight' = copied.h
      BY <1>5, <2>2, <3>1 DEF Resize
    <3> QED BY <1>5, <3>2, <3>3 DEF Resize, Goes, WindowSides, appVars,
                                    callbackVars
  <2>3. CASE ~Resizes(getGridDimensions(copied))
    BY <1>5, <2>3 DEF Resize, Goes, appVars, callbackVars, gridVars
  <2> QED BY <2>2, <2>3
<1>6. CASE Render
  BY <1>6 DEF Render, Goes, Picture, Text, Shows, appVars, callbackVars,
              gridVars
<1>7. CASE CloseWindow \/ Disconnect \/ Return
  BY <1>7 DEF CloseWindow, Disconnect, Return, Goes, Ends, appVars,
              callbackVars, windowVars, gridVars
<1>8. ASSUME NEW w \in Sides, NEW h \in Sides, NEW header \in BOOLEAN,
             DataReceived(w, h, header)
      PROVE  TypeOK'
  <2>1. arrived' \in 0..MaxFrames
    BY <1>8, BoundTypes DEF DataReceived
  <2>2. mLatestFrame' \in Frame
    BY <1>8, <2>1, BoundTypes DEF DataReceived, FrameOf, Frame, Sides
  <2> QED BY <1>8, <2>1, <2>2 DEF DataReceived, appVars, windowVars, gridVars
<1>9. CASE FlagFrame
  BY <1>9 DEF FlagFrame, appVars, windowVars, gridVars
<1>10. ASSUME NEW connected \in BOOLEAN, Report(connected)
       PROVE  TypeOK'
  BY <1>10 DEF Report, appVars, callbackVars, windowVars, gridVars
<1>11. CASE UNCHANGED vars
  BY <1>11 DEF vars, appVars, callbackVars, windowVars, gridVars
<1> QED BY <1>1, <1>2, <1>3, <1>4, <1>5, <1>6, <1>7, <1>8, <1>9, <1>10,
    <1>11 DEF Next, MainStep, Callback

(* The types hold before the options are read.                             *)
LEMMA InitTyped == Init => TypeOK
<1> SUFFICES ASSUME Init PROVE TypeOK
  OBVIOUS
<1>1. screen.what = "nothing"
  BY DEF Init, Shows
<1>2. mLatestFrame \in Frame /\ copied \in Frame
  BY BoundTypes DEF Init
<1>3. mGridWidth \in WindowSides /\ mGridHeight \in WindowSides
  BY BoundTypes DEF Init
<1>4. arrived \in 0..MaxFrames
  BY BoundTypes DEF Init
<1> QED BY <1>1, <1>2, <1>3, <1>4 DEF Init, TypeOK

(* Every variable of the viewer keeps its type.                            *)
THEOREM ViewerTypesHold == Spec => []TypeOK
  BY InitTyped, TypeOKNext, PTL DEF Spec

-----------------------------------------------------------------------------
(* What the window shows.                                                  *)

(* A frame with a header has sides.                                        *)
HeaderInv == mLatestFrame.header => mLatestFrame.w > 0 /\ mLatestFrame.h > 0

(* The window has the sides of the latest frame.                           *)
Fits == mGridWidth = mLatestFrame.w /\ mGridHeight = mLatestFrame.h

(* Unless the latest frame is still to be flagged or found flagged, the    *)
(* loop has begun, and it is the frame that was copied, then the one whose *)
(* sides the window has, then the one on the window.                       *)
PictureInv ==
  mLatestFrame.header /\ ~mNewFrameReceived /\ receiver # "flag" =>
    /\ pc \notin {"parse", "log", "connect", "window"}
    /\ pc = "resize" => copied = mLatestFrame
    /\ pc = "render" => Fits
    /\ pc = "exchange" => ShowsLatest /\ Fits

WindowInv == TypeOK /\ HeaderInv /\ PictureInv

(* Every step of the loop and of the callbacks preserves what the window   *)
(* shows of the latest frame.                                              *)
LEMMA WindowInvNext ==
  ASSUME WindowInv, [Next]_vars
  PROVE  WindowInv'
<1> USE DEF WindowInv, HeaderInv, PictureInv, Fits, ShowsLatest
<1>0. TypeOK'
  BY TypeOKNext
<1>1. CASE ReadOptions
  BY <1>0, <1>1 DEF ReadOptions, UnlessFails, Goes, Ends, callbackVars,
                    windowVars, gridVars
<1>2. CASE SetupClient \/ SetupFails
  BY <1>0, <1>2 DEF SetupClient, SetupFails, Goes, Ends, callbackVars,
                    windowVars, gridVars
<1>3. CASE InitWindow
  BY <1>0, <1>3 DEF InitWindow, Goes, appVars, callbackVars, windowVars,
                    gridVars
<1>4. CASE InitWindowFails \/ DestroyClient
  BY <1>0, <1>4 DEF InitWindowFails, DestroyClient, Goes, Ends, callbackVars,
                    windowVars, gridVars
<1>5. CASE Exchange
  BY <1>0, <1>5 DEF Exchange, Goes, appVars, callbackVars, windowVars, gridVars
<1>6. CASE CopyFrame
  BY <1>0, <1>6 DEF CopyFrame, Goes, appVars, callbackVars, gridVars
<1>7. CASE Resize
  <2>1. CASE copied = mLatestFrame /\ mLatestFrame.header
    <3>1. getGridDimensions(copied) = <<copied.w, copied.h>>
      BY <2>1 DEF getGridDimensions
    <3>2. mGridWidth' = copied.w /\ mGridHeight' = copied.h
      BY <1>7, <2>1, <3>1 DEF Resize, Resizes, gridVars
    <3> QED BY <1>0, <1>7, <2>1, <3>2 DEF Resize, Goes, appVars, callbackVars
  <2>2. CASE ~(copied = mLatestFrame /\ mLatestFrame.header)
    BY <1>0, <1>7, <2>2 DEF Resize, Goes, appVars, callbackVars
  <2> QED BY <2>1, <2>2
<1>8. CASE Render
  <2>1. CASE mLatestFrame.header /\ Fits
    <3>1. mLatestFrame # NoFrame
      BY <2>1 DEF NoFrame, FrameOf
    <3>2. ~(mLatestFrame.w * mLatestFrame.h < mGridWidth * mGridHeight)
      <4>1. mLatestFrame.w \in Int /\ mLatestFrame.h \in Int
        BY DEF TypeOK, Frame
      <4>2. \A a, b \in Int : ~(a * b < a * b)
        OBVIOUS
      <4> QED BY <2>1, <4>1, <4>2
    <3>3. screen' = Shows("grid", mLatestFrame.n, mLatestFrame.w,
                          mLatestFrame.h)
      BY <1>8, <2>1, <3>1, <3>2 DEF Render, Picture
    <3> QED BY <1>0, <1>8, <2>1, <3>3 DEF Render, Goes, appVars, callbackVars,
                                          gridVars
  <2>2. CASE ~(mLatestFrame.header /\ Fits)
    BY <1>0, <1>8, <2>2 DEF Render, Goes, FrameMutexFree, appVars,
                            callbackVars, gridVars
  <2> QED BY <2>1, <2>2
<1>9. CASE CloseWindow \/ Disconnect \/ Return
  BY <1>0, <1>9 DEF CloseWindow, Disconnect, Return, Goes, Ends, appVars,
                    callbackVars, windowVars, gridVars
<1>10. ASSUME NEW w \in Sides, NEW h \in Sides, NEW header \in BOOLEAN,
              DataReceived(w, h, header)
       PROVE  WindowInv'
  BY <1>0, <1>10, BoundTypes DEF DataReceived, FrameOf, Sides
<1>11. CASE FlagFrame
  BY <1>0, <1>11 DEF FlagFrame, appVars, windowVars, gridVars
<1>12. ASSUME NEW connected \in BOOLEAN, Report(connected)
       PROVE  WindowInv'
  BY <1>0, <1>12 DEF Report, appVars, callbackVars, windowVars, gridVars
<1>13. CASE UNCHANGED vars
  BY <1>0, <1>13 DEF vars, appVars, callbackVars, windowVars, gridVars
<1> QED BY <1>1, <1>2, <1>3, <1>4, <1>5, <1>6, <1>7, <1>8, <1>9, <1>10,
    <1>11, <1>12, <1>13 DEF Next, MainStep, Callback

(* However the callbacks fall between the main thread's statements, a      *)
(* frame that is not on the window as it is will be drawn again.           *)
THEOREM WrongPictureIsRedrawn == Spec => []WrongPictureIsPending
<1>1. Init => WindowInv
  BY InitTyped DEF Init, WindowInv, HeaderInv, PictureInv, NoFrame, FrameOf
<1>2. WindowInv => WrongPictureIsPending
  BY DEF WindowInv, PictureInv, WrongPictureIsPending
<1> QED BY <1>1, <1>2, WindowInvNext, PTL DEF Spec

-----------------------------------------------------------------------------
(* How the program ends.                                                   *)

(* The client's thread is there from connect() to disconnect() only, the   *)
(* members go last, and main() has its result when it ends.                *)
EndInv ==
  /\ pc \in {"parse", "log", "connect", "destroy", "ended"} => ~client
  /\ receiver = "flag" => client
  /\ members \/ pc \in {"unwind", "ended"}
  /\ exit # "none" => pc = "ended"
  /\ receiver \in {"idle", "flag"}

(* Every step preserves the order of the viewer's shutdown.                *)
LEMMA EndInvNext ==
  ASSUME EndInv, [Next]_vars
  PROVE  EndInv'
<1> USE DEF EndInv
<1>1. CASE ReadOptions
  BY <1>1 DEF ReadOptions, UnlessFails, Goes, Ends, callbackVars
<1>2. CASE SetupClient \/ SetupFails
  BY <1>2 DEF SetupClient, SetupFails, Goes, Ends, callbackVars
<1>3. CASE InitWindow \/ InitWindowFails \/ DestroyClient
  BY <1>3 DEF InitWindow, InitWindowFails, DestroyClient, Joined, Goes, Ends,
              appVars, callbackVars
<1>4. CASE Exchange \/ CopyFrame \/ Resize \/ Render
  BY <1>4 DEF Exchange, CopyFrame, Resize, Render, Goes, appVars, callbackVars
<1>5. CASE CloseWindow \/ Disconnect \/ Return
  BY <1>5 DEF CloseWindow, Disconnect, Joined, Return, Goes, Ends, appVars,
              callbackVars
<1>6. ASSUME NEW w \in Sides, NEW h \in Sides, NEW header \in BOOLEAN,
             DataReceived(w, h, header)
      PROVE  EndInv'
  BY <1>6 DEF DataReceived, appVars
<1>7. CASE FlagFrame
  BY <1>7 DEF FlagFrame, appVars
<1>8. ASSUME NEW connected \in BOOLEAN, Report(connected)
      PROVE  EndInv'
  BY <1>8 DEF Report, appVars, callbackVars
<1>9. CASE UNCHANGED vars
  BY <1>9 DEF vars, appVars, callbackVars
<1> QED BY <1>1, <1>2, <1>3, <1>4, <1>5, <1>6, <1>7, <1>8, <1>9
    DEF Next, MainStep, Callback

(* A callback that runs when the user closes the window finds its members, *)
(* and exit code 0 means that the client's thread has been joined.         *)
THEOREM EndIsOrderly == Spec => []OrderlyEnd
<1>1. Init => EndInv
  BY DEF Init, EndInv
<1>2. EndInv => OrderlyEnd
  BY DEF EndInv, OrderlyEnd
<1> QED BY <1>1, <1>2, EndInvNext, PTL DEF Spec

=============================================================================
