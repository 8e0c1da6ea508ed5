---------------------------- MODULE ServerProgram ----------------------------
(***************************************************************************)
(* The server's main thread: main() and Server::Application from the       *)
(* command line to the exit code, with the signal handler.  The frames it  *)
(* broadcasts are read back the way the viewer's renderFrame() reads them. *)
(*                                                                         *)
(* The streaming server behind IServer is of BeastServer, PocoServer and   *)
(* Multicast; here it starts or not, and its stop() returns or not.        *)
(***************************************************************************)
EXTENDS GameOfLife, Options

VARIABLES
  pc,        \* the main thread's statement
  args,      \* the command line, until run() has read it
  mLogger,   \* Log::mLogger is set
  handled,   \* SIGINT and SIGTERM have a handler
  handler,   \* the handler: "none" yet, "logging", "stuck", "returned"
  gShutdownRequested,
  mServer,   \* "none", "running", "stopping", "stopped"
  frame,     \* the last frame broadcast
  exit       \* main()'s result, once an exception or the end decides it

startVars  == <<args, mLogger, handled>>
signalVars == <<handler, gShutdownRequested>>
serverVars == <<vars, pc, startVars, signalVars, mServer, frame, exit>>

NoFrame == [header |-> <<0, 0>>, data |-> <<>>]

ServerTypeOK ==
  /\ TypeOK
  /\ pc \in {"parse", "log", "signals", "setup", "loop", "update", "frame",
             "sleep", "shutdown", "stopping", "ended"}
  /\ mLogger \in BOOLEAN /\ handled \in BOOLEAN
  /\ handler \in {"none", "logging", "stuck", "returned"}
  /\ gShutdownRequested \in BOOLEAN
  /\ mServer \in {"none", "running", "stopping", "stopped"}
  /\ frame = NoFrame \/ frame.header = <<mWidth, mHeight>>
  /\ exit \in {"none", "0", "1", "killed"}

(* initializeRandom(): a cell lives when its number in [0, 1) is below the *)
(* fill ratio.                                                             *)
Filled(fill) == IF fill <= 0 THEN {{}} ELSE IF fill >= 100 THEN {Cell}
                ELSE SUBSET Cell

(* The generator is seeded before main(): mGrid is the grid it will fill.  *)
(* Bound: a line that is not the default in some option fills no cell, or  *)
(* all of them.                                                            *)
ServerInit ==
  /\ args \in {ServerDefaults} \cup
              ServerLines([ServerDefaults EXCEPT !.fill = 0])
  /\ Init /\ mGrid \in Filled(args.fill)
  /\ pc = "parse" /\ mLogger = FALSE /\ handled = FALSE
  /\ handler = "none" /\ gShutdownRequested = FALSE
  /\ mServer = "none" /\ frame = NoFrame /\ exit = "none"

-----------------------------------------------------------------------------
(* initialize()                                                            *)

(* The handler is installed before the logger it uses.                     *)
SignalsFirst == <<"parse", "signals", "log", "setup">>

StartOrder == <<"parse", "log", "signals", "setup">>

Ends(code) == pc' = "ended" /\ exit' = code
GoesTo(statement) == pc' = statement /\ UNCHANGED exit
GoesOn == \E i \in 1..3 : StartOrder[i] = pc /\ GoesTo(StartOrder[i + 1])

ParseCommandLine ==
  /\ pc = "parse"
  /\ IF ServerOutcome(args) = "accepted" THEN GoesOn ELSE Ends("1")
  /\ UNCHANGED <<vars, startVars, signalVars, mServer, frame>>

(* initFileLogger() throws, or mLogger is set.                             *)
InitLogger ==
  /\ pc = "log"
  /\ mLogger' = LogOpens(args)
  /\ IF LogOpens(args) THEN GoesOn ELSE Ends("1")
  /\ UNCHANGED <<vars, args, handled, signalVars, mServer, frame>>

SetupSignalHandling ==
  /\ pc = "signals"
  /\ handled' = TRUE
  /\ GoesOn
  /\ UNCHANGED <<vars, args, mLogger, signalVars, mServer, frame>>

(* start() returns true; run() reads the options and fills the grid.       *)
SetupServer ==
  /\ pc = "setup"
  /\ mServer' = "running"
  /\ args' = ServerDefaults
  /\ GoesTo("loop")
  /\ UNCHANGED <<vars, mLogger, handled, signalVars, frame>>

(* start() returns false or throws.                                        *)
SetupServerFails ==
  /\ pc = "setup"
  /\ Ends("1")
  /\ UNCHANGED <<vars, startVars, signalVars, mServer, frame>>

-----------------------------------------------------------------------------
(* run()                                                                   *)

(* The loop that asks mRunning only, which is still set.                   *)
LoopsOn == TRUE

Loops == ~gShutdownRequested

TestLoop ==
  /\ pc = "loop"
  /\ GoesTo(IF Loops THEN "update" ELSE "shutdown")
  /\ UNCHANGED <<vars, startVars, signalVars, mServer, frame>>

Update ==
  /\ pc = "update"
  /\ BeginUpdate \/ UpdateCell \/ EndUpdate
  /\ GoesTo(IF updating /\ y = mHeight THEN "frame" ELSE "update")
  /\ UNCHANGED <<startVars, signalVars, mServer, frame>>

(* toString() with its two loops swapped.                                  *)
toStringByColumns ==
  [header |-> <<mWidth, mHeight>>,
   data |-> [i \in 0..mWidth * mHeight - 1 |->
               <<i \div mHeight, i % mHeight>> \in mGrid]]

(* The sides in three digits each, and the cells row by row.               *)
toString ==
  [header |-> <<mWidth, mHeight>>,
   data |-> [i \in 0..mWidth * mHeight - 1 |->
               <<i % mWidth, i \div mWidth>> \in mGrid]]

BroadcastFrame ==
  /\ pc = "frame"
  /\ frame' = toString
  /\ GoesTo("sleep")
  /\ UNCHANGED <<vars, startVars, signalVars, mServer>>

(* A signal does not shorten sleep_for().                                  *)
Sleep ==
  /\ pc = "sleep"
  /\ GoesTo("loop")
  /\ UNCHANGED <<vars, startVars, signalVars, mServer, frame>>

(* run() has no memory for the new grid, the text, or a viewer's copy of   *)
(* it; the exception goes through ~Application() to main().                *)
RunThrows ==
  /\ \/ pc = "update" /\ ~updating /\ UNCHANGED frame
     \/ pc = "frame" /\ frame' \in {frame, toString}
  /\ pc' = "shutdown" /\ exit' = "1"
  /\ UNCHANGED <<vars, startVars, signalVars, mServer>>

(* shutdown() that finds mRunning unset.                                   *)
LeftRunning == "running"

ServerStopped == "stopped"

(* run() returns, or throws, and the Application's destructor calls        *)
(* shutdown(), which calls stop().                                         *)
Shutdown ==
  /\ pc = "shutdown"
  /\ mServer' = "stopping"
  /\ GoesTo("stopping")
  /\ UNCHANGED <<vars, startVars, signalVars, frame>>

(* stop() returns, if it ever does: under the Beast server it may wait for *)
(* a viewer who stays (CtrlCStops of BeastServer).                         *)
StopReturns ==
  /\ pc = "stopping" /\ handler # "stuck"
  /\ mServer' = ServerStopped
  /\ Ends(IF exit = "none" THEN "0" ELSE exit)
  /\ UNCHANGED <<vars, startVars, signalVars, frame>>

-----------------------------------------------------------------------------
(* The signal.  Bound: one; a second finds the handler in place and sets a *)
(* flag that is set.                                                       *)

(* Before setupSignalHandling() it ends the process.                       *)
SignalKills ==
  /\ handler = "none" /\ ~handled /\ pc # "ended"
  /\ Ends("killed")
  /\ UNCHANGED <<vars, startVars, signalVars, mServer, frame>>

(* The statements in which the main thread holds the locks of the heap or  *)
(* of a stream, which the handler needs for its Log::Info().               *)
InLibrary == pc \in {"setup", "update", "frame", "shutdown", "stopping"}

(* On another thread, or between two such calls, the handler comes to its  *)
(* end; on the main thread inside one it may wait for the thread it        *)
(* interrupted.                                                            *)
Signal ==
  /\ handler = "none" /\ handled /\ pc # "ended"
  /\ handler' \in IF InLibrary THEN {"logging", "stuck"} ELSE {"logging"}
  /\ UNCHANGED <<vars, pc, startVars, gShutdownRequested, mServer, frame, exit>>

HandlerReturns ==
  /\ handler = "logging" /\ pc # "ended"
  /\ gShutdownRequested' = TRUE
  /\ handler' = "returned"
  /\ UNCHANGED <<vars, pc, startVars, mServer, frame, exit>>

-----------------------------------------------------------------------------
MainStep ==
  /\ handler # "stuck"
  /\ \/ ParseCommandLine \/ InitLogger \/ SetupSignalHandling
     \/ SetupServer \/ SetupServerFails
     \/ TestLoop \/ Update \/ BroadcastFrame \/ Sleep \/ RunThrows \/ Shutdown

ServerNext == MainStep \/ StopReturns \/ SignalKills \/ Signal \/ HandlerReturns

(* The main thread runs up to stop(), and so does a handler that is not    *)
(* stuck.  stop() need not return, and nobody needs to send a signal.      *)
ServerSpec ==
  /\ ServerInit /\ [][ServerNext]_serverVars
  /\ WF_serverVars(MainStep) /\ WF_serverVars(HandlerReturns)

-----------------------------------------------------------------------------
(* Properties.                                                             *)

(* The viewer's renderFrame(): the living cells of a frame, in rows of the *)
(* width its header gives.                                                 *)
renderFrame(f) ==
  LET width == f.header[1] height == f.header[2]
  IN  {<<i % width, i \div width>> :
         i \in {j \in 0..width * height - 1 : f.data[j]}}

Watched == INSTANCE Life WITH
  Width <- mWidth, Height <- mHeight,
  living <- IF frame = NoFrame THEN mGrid ELSE renderFrame(frame)

(* A viewer that draws every frame that is broadcast watches Conway's      *)
(* game: no generation is skipped, repeated or turned round between the    *)
(* grid, the text and the window (Application.cpp:69-75, GameOfLife.cpp:   *)
(* 54-69, Client/Application.cpp:213-252).                                 *)
ViewerSeesLife == Watched!Spec

(* The limits of the options are the ones the rest of the program needs:   *)
(* the pause 1000 / fps exists, a side has the three digits the header     *)
(* keeps for it, and a frame fits into one UDP datagram, for the backends  *)
(* that send it so (Application.cpp:63, GameOfLife.cpp:56-58).             *)
AcceptedOptionsWork ==
  pc = "setup" => /\ args.fps > 0
                  /\ args.width < 1000 /\ args.height < 1000
                  /\ 7 + args.width * args.height + 1 <= 65507

(* The handler's Log::Info() has its logger: no signal that is caught ends *)
(* in Log::log()'s "(Logger is not initialized)" instead of in the log     *)
(* (Application.cpp:16, 37-41, Log.cpp:55-58).                             *)
HandlerFindsLogger == handler = "logging" => mLogger

(* The exit code tells what happened: 0 after a requested shutdown that    *)
(* stopped the server, 1 from a start that served nothing or after an      *)
(* exception, and then the server is stopped too (main.cpp:9-20,           *)
(* Application.cpp:24-26, 72).                                             *)
ExitTells ==
  /\ exit = "0" => gShutdownRequested /\ mServer = "stopped"
  /\ exit = "1" /\ pc = "ended" =>
       mServer = "stopped" \/ (mServer = "none" /\ frame = NoFrame)

(* "Received signal, initiating shutdown" (Application.cpp:16): a signal   *)
(* that finds its handler, in the middle of start-up, of a frame or of an  *)
(* exception, is not forgotten: the program ends, or comes to stop(),      *)
(* unless the handler waits for the thread it interrupted.                 *)
SignalHeeded ==
  handler # "none" ~>
    pc = "ended" \/ mServer = "stopping" \/ handler = "stuck"

(* "Press Ctrl+C to stop the server" (Application.cpp:59).  The code does  *)
(* not keep this: the handler allocates and logs, and stop() may wait.     *)
SignalEndsProgram == handler # "none" ~> pc = "ended"
=============================================================================
