-------------------------------- MODULE Viewer --------------------------------
(***************************************************************************)
(* The viewer's program: main() and Client::Application from the command   *)
(* line to the exit code.  The client's thread calls back with frames, the *)
(* main thread draws the latest.  The size of the grid is taken from one   *)
(* frame and used to draw the next one that has arrived meanwhile.         *)
(*                                                                         *)
(* A frame has a number, the sides of its grid, and a header that may not  *)
(* say them: what a client hands out may be torn.  The client is what      *)
(* ClientContract says of all three: callbacks from a thread of its own,   *)
(* from connect() until disconnect() has joined it.                        *)
(***************************************************************************)
EXTENDS Options

CONSTANTS MaxSide,   \* bound: sides of the grids the servers send
          MaxFrames  \* bound: frames that arrive

ASSUME ViewerAssumption == MaxSide \in Nat \ {0} /\ MaxFrames \in Nat

VARIABLES
  pc,         \* the main thread's statement
  args,       \* the command line, until it has been read
  exit,       \* main()'s result
  members,    \* the members declared after mClient exist
  client,     \* mClient's thread runs
  receiver,   \* its statement in the callback: "idle", or "flag" in the lock
  arrived,    \* frames that arrived
  mLatestFrame, mNewFrameReceived, mConnected,
  copied,     \* updateWindowState()'s currentFrameCopy
  mGridWidth, mGridHeight,
  screen      \* what the window shows

appVars      == <<args, members, client>>
callbackVars == <<receiver, arrived, mLatestFrame>>
gridVars     == <<mGridWidth, mGridHeight>>
windowVars   == <<copied, gridVars, screen>>
vars == <<pc, exit, appVars, callbackVars, mNewFrameReceived, mConnected,
          windowVars>>

Sides == 1..MaxSide
FrameOf(n, w, h, header) == [n |-> n, w |-> w, h |-> h, header |-> header]
NoFrame == FrameOf(0, 0, 0, FALSE)
Shows(what, n, w, h) == [what |-> what, n |-> n, w |-> w, h |-> h]

(* The sides mGridWidth and mGridHeight may have: 20 before the first.     *)
WindowSides == Sides \cup {20}
Frame == [n : 0..MaxFrames, w : 0..MaxSide, h : 0..MaxSide,
          header : BOOLEAN]

TypeOK ==
  /\ pc \in {"parse", "log", "connect", "window", "exchange", "copy",
             "resize", "render", "disconnect", "destroy", "unwind", "ended"}
  /\ exit \in {"none", "0", "1"}
  /\ members \in BOOLEAN /\ client \in BOOLEAN
  /\ receiver \in {"idle", "flag"} /\ arrived \in 0..MaxFrames
  /\ mLatestFrame \in Frame /\ copied \in Frame
  /\ mNewFrameReceived \in BOOLEAN /\ mConnected \in BOOLEAN
  /\ mGridWidth \in WindowSides /\ mGridHeight \in WindowSides
  /\ screen.what \in {"nothing", "connecting", "waiting", "blank", "grid"}

Init ==
  /\ pc = "parse" /\ args \in ClientLines /\ exit = "none"
  /\ members = TRUE /\ client = FALSE
  /\ receiver = "idle" /\ arrived = 0
  /\ mLatestFrame = NoFrame /\ mNewFrameReceived = FALSE
  /\ mConnected = FALSE /\ copied = NoFrame
  /\ mGridWidth = 20 /\ mGridHeight = 20
  /\ screen = Shows("nothing", 0, 0, 0)

-----------------------------------------------------------------------------
(* initialize()                                                            *)

Goes(from, to) == pc = from /\ pc' = to /\ UNCHANGED exit

(* main() returns the code; the Application has been destroyed.            *)
Ends(from, code) ==
  pc = from /\ pc' = "ended" /\ exit' = code /\ members' = FALSE

UnlessFails(ok, from, to) ==
  IF ok THEN Goes(from, to) /\ UNCHANGED members ELSE Ends(from, "1")

(* parseCommandLine() is false, or the logger cannot open its file.        *)
ReadOptions ==
  /\ \/ UnlessFails(ClientOutcome(args) = "accepted", "parse", "log")
     \/ UnlessFails(LogOpens(args), "log", "connect")
  /\ UNCHANGED <<args, client, callbackVars, mNewFrameReceived, mConnected,
                 windowVars>>

(* connect() returns true: its thread runs.                                *)
SetupClient ==
  /\ Goes("connect", "window")
  /\ client' = TRUE
  /\ args' = ClientDefaults
  /\ UNCHANGED <<members, callbackVars, mNewFrameReceived, mConnected,
                 windowVars>>

(* It is false, or throws: the exception of Log::Throw ends main().        *)
SetupFails ==
  /\ Ends("connect", "1")
  /\ UNCHANGED <<args, client, callbackVars, mNewFrameReceived, mConnected,
                 windowVars>>

InitWindow ==
  /\ Goes("window", "exchange")
  /\ UNCHANGED <<appVars, callbackVars, mNewFrameReceived, mConnected,
                 windowVars>>

(* The window cannot be opened: the exception of Log::Throw destroys the   *)
(* Application; shutdown() finds mRunning unset, and the members go in the *)
(* reverse order of their declaration.                                     *)
InitWindowFails ==
  /\ Goes("window", "unwind")
  /\ members' = FALSE
  /\ UNCHANGED <<args, client, callbackVars, mNewFrameReceived, mConnected,
                 windowVars>>

(* disconnect() that does not wait for the client's thread.                *)
JoinedAtOnce == TRUE

Joined == receiver = "idle"

(* The destructor of mClient disconnects and joins its thread.             *)
DestroyClient ==
  /\ Joined /\ client' = FALSE
  /\ Ends("unwind", "1")
  /\ UNCHANGED <<args, callbackVars, mNewFrameReceived, mConnected, windowVars>>

-----------------------------------------------------------------------------
(* gameLoop()                                                              *)

(* mNewFrameReceived.exchange(false)                                       *)
Exchange ==
  /\ Goes("exchange", IF mNewFrameReceived THEN "copy" ELSE "render")
  /\ mNewFrameReceived' = FALSE
  /\ UNCHANGED <<appVars, callbackVars, mConnected, windowVars>>

(* mFrameMutex is free: the callback holds it between its two writes, the  *)
(* main thread's sections are single steps.                                *)
FrameMutexFree == receiver = "idle"

CopyFrame ==
  /\ FrameMutexFree
  /\ Goes("copy", "resize")
  /\ copied' = mLatestFrame
  /\ UNCHANGED <<appVars, callbackVars, mNewFrameReceived, mConnected, gridVars,
                 screen>>

(* The width and the height in the header, or zeros.                       *)
getGridDimensions(f) == IF f.header THEN <<f.w, f.h>> ELSE <<0, 0>>

(* The window is resized when both sides differ.                           *)
BothDiffer(size) ==
  /\ size[1] > 0 /\ size[2] > 0
  /\ size[1] # mGridWidth /\ size[2] # mGridHeight

Resizes(size) ==
  /\ size[1] > 0 /\ size[2] > 0
  /\ size[1] # mGridWidth \/ size[2] # mGridHeight

(* The grid takes the size of the frame that was copied, if its header     *)
(* gives one.                                                              *)
Resize ==
  /\ Goes("resize", "render")
  /\ LET size == getGridDimensions(copied) IN
       IF Resizes(size)
         THEN mGridWidth' = size[1] /\ mGridHeight' = size[2]
         ELSE UNCHANGED gridVars
  /\ UNCHANGED <<appVars, callbackVars, mNewFrameReceived, mConnected, copied,
                 screen>>

(* renderFrame(): the first cells of the frame, in rows of mGridWidth; a   *)
(* frame with too few cells leaves the background.                         *)
Picture(f) ==
  IF f.w * f.h < mGridWidth * mGridHeight THEN Shows("blank", f.n, 0, 0)
  ELSE Shows("grid", f.n, mGridWidth, mGridHeight)

Text == IF mConnected THEN "waiting" ELSE "connecting"

(* renderCurrentFrame(): the latest frame, or a text.                      *)
Render ==
  /\ FrameMutexFree
  /\ Goes("render", "exchange")
  /\ screen' = IF mLatestFrame # NoFrame THEN Picture(mLatestFrame)
               ELSE Shows(Text, 0, 0, 0)
  /\ UNCHANGED <<appVars, callbackVars, mNewFrameReceived, mConnected, copied,
                 gridVars>>

(* The user closes the window: gameLoop() leaves and calls shutdown().     *)
CloseWindow ==
  /\ Goes("exchange", "disconnect")
  /\ UNCHANGED <<appVars, callbackVars, mNewFrameReceived, mConnected,
                 windowVars>>

(* shutdown(): mClient->disconnect() joins the client's thread.            *)
Disconnect ==
  /\ Joined
  /\ Goes("disconnect", "destroy")
  /\ client' = FALSE
  /\ UNCHANGED <<args, members, callbackVars, mNewFrameReceived, mConnected,
                 windowVars>>

(* run() returns, and main().                                              *)
Return ==
  /\ Ends("destroy", "0")
  /\ UNCHANGED <<args, client, callbackVars, mNewFrameReceived, mConnected,
                 windowVars>>

-----------------------------------------------------------------------------
(* The callbacks, on the client's thread.                                  *)

(* mOnDataReceived: the lock and the first write.                          *)
DataReceived(w, h, header) ==
  /\ client /\ receiver = "idle" /\ arrived < MaxFrames
  /\ arrived' = arrived + 1
  /\ mLatestFrame' = FrameOf(arrived + 1, w, h, header)
  /\ receiver' = "flag"
  /\ UNCHANGED <<pc, exit, appVars, mNewFrameReceived, mConnected, windowVars>>

(* mNewFrameReceived = true, and the end of the lock.                      *)
FlagFrame ==
  /\ receiver = "flag"
  /\ mNewFrameReceived' = TRUE
  /\ receiver' = "idle"
  /\ UNCHANGED <<pc, exit, appVars, arrived, mLatestFrame, mConnected,
                 windowVars>>

(* mOnConnected and mOnDisconnected.                                       *)
Report(connected) ==
  /\ client /\ receiver = "idle"
  /\ mConnected' = connected
  /\ UNCHANGED <<pc, exit, appVars, callbackVars, mNewFrameReceived,
                 windowVars>>

Callback ==
  \/ \E w, h \in Sides, header \in BOOLEAN : DataReceived(w, h, header)
  \/ \E connected \in BOOLEAN : Report(connected)

-----------------------------------------------------------------------------
MainStep ==
  \/ ReadOptions \/ SetupClient \/ SetupFails
  \/ InitWindow \/ InitWindowFails \/ DestroyClient
  \/ Exchange \/ CopyFrame \/ Resize \/ Render
  \/ CloseWindow \/ Disconnect \/ Return

Next == MainStep \/ Callback \/ FlagFrame

Spec == Init /\ [][Next]_vars

(* Both threads run; frames may stop to arrive.                            *)
FairSpec == Spec /\ WF_vars(MainStep) /\ WF_vars(FlagFrame)

-----------------------------------------------------------------------------
(* Properties.                                                             *)

(* The window shows the latest frame with the size of that frame.          *)
ShowsLatest ==
  screen = Shows("grid", mLatestFrame.n, mLatestFrame.w, mLatestFrame.h)

(* A frame that is drawn with the size of an older one, or not at all for  *)
(* that, is soon drawn again: whenever the latest frame is not on the      *)
(* window as it is, the flag is still to be found set, or is being set, or *)
(* the main thread is about to draw (Application.cpp:114-118, 151-191).    *)
WrongPictureIsPending ==
  pc = "exchange" /\ mLatestFrame.header =>
    ShowsLatest \/ mNewFrameReceived \/ receiver = "flag"

(* The last frame that arrives is drawn with its own size, unless the      *)
(* window is closed first (Application.cpp:140-191).                       *)
LastFrameDrawn ==
  \A n \in 1..MaxFrames :
    (mLatestFrame.n = n /\ mLatestFrame.header)
      ~> \/ mLatestFrame.n # n \/ ShowsLatest
         \/ pc \in {"disconnect", "destroy", "unwind", "ended"}

(* When the user closes the window, the callback that may be running at    *)
(* that moment ends before the members it uses are gone, and main()        *)
(* returns 0 without the client's thread (Application.cpp:78-93).          *)
OrderlyEnd ==
  /\ exit = "0" => ~client
  /\ receiver = "flag" /\ pc # "unwind" => members

(* "Failed to initialize Raylib window" (Application.cpp:54) is a failure  *)
(* that the program reports and that ends it: the callbacks, which lock    *)
(* mFrameMutex, find their members until the client's thread is joined.    *)
(* The code does not keep this.                                            *)
CallbackFindsMembers == receiver = "flag" => members
=============================================================================
