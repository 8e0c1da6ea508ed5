---------------------------- MODULE ServerProofs ----------------------------
(***************************************************************************)
(* Proofs about ServerProgram for every size of the grid: the program runs *)
(* the loop of GameOfLife and so plays Life, a viewer watches that game,   *)
(* and the program's start and its end are in order.                       *)
(***************************************************************************)
EXTENDS ServerProgram, GameOfLifeProofs

-----------------------------------------------------------------------------
(* The program's steps are those of GameOfLife, or leave the grid alone.   *)
LEMMA LoopStep == [ServerNext]_serverVars => [Next]_vars
<1> SUFFICES ASSUME [ServerNext]_serverVars PROVE [Next]_vars
  OBVIOUS
<1>1. CASE Update
  BY <1>1 DEF Update, Next
<1>2. CASE UNCHANGED serverVars
  BY <1>2 DEF serverVars
<1>3. CASE \/ ParseCommandLine \/ InitLogger \/ SetupSignalHandling
           \/ SetupServer \/ SetupServerFails
  BY <1>3 DEF ParseCommandLine, InitLogger, SetupSignalHandling, SetupServer,
              SetupServerFails
<1>4. CASE TestLoop \/ BroadcastFrame \/ Sleep
  BY <1>4 DEF TestLoop, BroadcastFrame, Sleep
<1>6. CASE RunThrows \/ Shutdown \/ StopReturns
  BY <1>6 DEF RunThrows, Shutdown, StopReturns
<1>5. CASE SignalKills \/ Signal \/ HandlerReturns
  BY <1>5 DEF SignalKills, Signal, HandlerReturns
<1> QED BY <1>1, <1>2, <1>3, <1>4, <1>5, <1>6 DEF ServerNext, MainStep

(* Whatever the command line and the signals, the grid goes through what   *)
(* Application::run() lets GameOfLife do.                                  *)
THEOREM ServerRunsLoop == ServerSpec => Spec
<1>1. ServerInit => Init
  BY DEF ServerInit
<1> QED BY <1>1, LoopStep, PTL DEF ServerSpec, Spec

(* The cell-by-cell update stays right inside the whole program.           *)
THEOREM ServerKeepsLoop == ServerSpec => []LoopInv
  BY ServerRunsLoop, LoopCorrect, PTL

(* The grids of the server's program are the generations of Life.          *)
THEOREM ServerPlaysLife == ServerSpec => PlaysLife
  BY ServerRunsLoop, GameOfLifePlaysLife, PTL

-----------------------------------------------------------------------------
(* The start and the end.                                                  *)

(* The options have been accepted until run() has read them.               *)
OptionsInv ==
  pc \in {"log", "signals", "setup"} => ServerOutcome(args) = "accepted"

(* The logger is there before the handler, and the handler before a signal *)
(* can be handled.                                                         *)
LoggerInv ==
  /\ pc \in {"parse", "log", "signals"} => ~handled
  /\ pc \in {"signals", "setup"} => mLogger
  /\ handled => mLogger
  /\ handler # "none" => handled

(* Nothing is served before setupServer() has succeeded, the loop is left  *)
(* by the flag or by an exception, which has decided main()'s result.      *)
ServedInv ==
  /\ pc \in {"parse", "log", "signals", "setup"} =>
       mServer = "none" /\ frame = NoFrame
  /\ pc \notin {"shutdown", "stopping", "ended"} => exit = "none"
  /\ pc \in {"shutdown", "stopping"} =>
       exit = "1" \/ (exit = "none" /\ gShutdownRequested)

ProgramInv == OptionsInv /\ LoggerInv /\ ServedInv /\ ExitTells

(* One statement of initialize() leads to the next.                        *)
LEMMA StartSteps ==
  ASSUME GoesOn
  PROVE  /\ exit' = exit
         /\ \/ pc = "parse" /\ pc' = "log"
            \/ pc = "log" /\ pc' = "signals"
            \/ pc = "signals" /\ pc' = "setup"
<1>1. PICK i \in 1..3 : StartOrder[i] = pc /\ GoesTo(StartOrder[i + 1])
  BY DEF GoesOn
<1>2. i = 1 \/ i = 2 \/ i = 3
  OBVIOUS
<1> QED BY <1>1, <1>2 DEF StartOrder, GoesTo

(* Every step of the program and of its signal handler preserves           *)
(* ProgramInv.                                                             *)
LEMMA ProgramInvNext ==
  ASSUME ProgramInv, [ServerNext]_serverVars
  PROVE  ProgramInv'
<1> USE DEF ProgramInv, OptionsInv, LoggerInv, ServedInv, ExitTells
<1>1. CASE ParseCommandLine
  <2>1. CASE ServerOutcome(args) = "accepted"
    BY <1>1, <2>1, StartSteps DEF ParseCommandLine, startVars, signalVars
  <2>2. CASE ServerOutcome(args) # "accepted"
    BY <1>1, <2>2 DEF ParseCommandLine, Ends, startVars, signalVars
  <2> QED BY <2>1, <2>2
<1>2. CASE InitLogger
  <2>1. CASE LogOpens(args)
    BY <1>2, <2>1, StartSteps DEF InitLogger, signalVars
  <2>2. CASE ~LogOpens(args)
    <3>1. ~handled /\ handler = "none"
      BY <1>2 DEF InitLogger
    <3> QED BY <1>2, <2>2, <3>1 DEF InitLogger, Ends, signalVars
  <2> QED BY <2>1, <2>2
<1>3. CASE SetupSignalHandling
  BY <1>3, StartSteps DEF SetupSignalHandling, signalVars
<1>4. CASE SetupServer
  BY <1>4 DEF SetupServer, GoesTo, signalVars
<1>5. CASE SetupServerFails
  BY <1>5 DEF SetupServerFails, Ends, startVars, signalVars
<1>6. CASE TestLoop
  BY <1>6 DEF TestLoop, Loops, GoesTo, startVars, signalVars
<1>7. CASE Update
  BY <1>7 DEF Update, GoesTo, startVars, signalVars
<1>8. CASE BroadcastFrame
  BY <1>8 DEF BroadcastFrame, GoesTo, startVars, signalVars
<1>9. CASE Sleep
  BY <1>9 DEF Sleep, GoesTo, startVars, signalVars
<1>10. CASE Shutdown
  BY <1>10 DEF Shutdown, GoesTo, startVars, signalVars
<1>11. CASE SignalKills
  BY <1>11 DEF SignalKills, Ends, startVars, signalVars
<1>12. CASE Signal
  BY <1>12 DEF Signal, startVars
<1>13. CASE HandlerReturns
  BY <1>13 DEF HandlerReturns, startVars
<1>14. CASE UNCHANGED serverVars
  BY <1>14 DEF serverVars, startVars, signalVars
<1>15. CASE RunThrows
  BY <1>15 DEF RunThrows, startVars, signalVars
<1>16. CASE StopReturns
  BY <1>16 DEF StopReturns, ServerStopped, Ends, startVars, signalVars
<1> QED BY <1>1, <1>2, <1>3, <1>4, <1>5, <1>6, <1>7, <1>8, <1>9, <1>10,
    <1>11, <1>12, <1>13, <1>14, <1>15, <1>16 DEF ServerNext, MainStep

(* ProgramInv holds always.                                                *)
LEMMA ProgramInvariant == ServerSpec => []ProgramInv
<1>1. ServerInit => ProgramInv
  BY DEF ServerInit, ProgramInv, OptionsInv, LoggerInv, ServedInv, ExitTells
<1> QED BY <1>1, ProgramInvNext, PTL DEF ServerSpec

(* No signal is caught before its message can go to the log, at any moment *)
(* of any start.                                                           *)
THEOREM HandlerIsSafe == ServerSpec => []HandlerFindsLogger
<1>1. ProgramInv => HandlerFindsLogger
  BY DEF ProgramInv, LoggerInv, HandlerFindsLogger
<1> QED BY <1>1, ProgramInvariant, PTL

(* The exit code of every run of the program says how it ended.            *)
THEOREM ExitIsTrue == ServerSpec => []ExitTells
<1>1. ProgramInv => ExitTells
  BY DEF ProgramInv
<1> QED BY <1>1, ProgramInvariant, PTL

(* The types of the main thread's variables.                               *)
ProgramTypes ==
  /\ pc \in {"parse", "log", "signals", "setup", "loop", "update", "frame",
             "sleep", "shutdown", "stopping", "ended"}
  /\ mLogger \in BOOLEAN /\ handled \in BOOLEAN
  /\ handler \in {"none", "logging", "stuck", "returned"}
  /\ gShutdownRequested \in BOOLEAN
  /\ mServer \in {"none", "running", "stopping", "stopped"}
  /\ frame = NoFrame \/ frame.header = <<mWidth, mHeight>>
  /\ exit \in {"none", "0", "1", "killed"}

(* Every step of the program preserves the types of its variables.         *)
LEMMA ProgramTypesNext ==
  ASSUME ProgramTypes, [ServerNext]_serverVars
  PROVE  ProgramTypes'
<1> USE DEF ProgramTypes
<1>1. CASE ParseCommandLine
  BY <1>1, StartSteps DEF ParseCommandLine, Ends, startVars, signalVars
<1>2. CASE InitLogger
  BY <1>2, StartSteps DEF InitLogger, LogOpens, Ends, signalVars
<1>3. CASE SetupSignalHandling
  BY <1>3, StartSteps DEF SetupSignalHandling, signalVars
<1>4. CASE SetupServer \/ SetupServerFails
  BY <1>4 DEF SetupServer, SetupServerFails, GoesTo, Ends, startVars, signalVars
<1>5. CASE TestLoop \/ Update \/ Sleep
  BY <1>5 DEF TestLoop, Update, Sleep, GoesTo, startVars, signalVars
<1>6. CASE BroadcastFrame
  BY <1>6 DEF BroadcastFrame, toString, GoesTo, startVars, signalVars
<1>7. CASE Shutdown \/ StopReturns
  BY <1>7 DEF Shutdown, StopReturns, ServerStopped, GoesTo, Ends, startVars,
     signalVars
<1>8. CASE SignalKills
  BY <1>8 DEF SignalKills, Ends, startVars, signalVars
<1>9. CASE Signal
  BY <1>9 DEF Signal, startVars
<1>10. CASE HandlerReturns
  BY <1>10 DEF HandlerReturns, startVars
<1>11. CASE UNCHANGED serverVars
  BY <1>11 DEF serverVars, startVars, signalVars
<1>12. CASE RunThrows
  BY <1>12 DEF RunThrows, toString, startVars, signalVars
<1> QED BY <1>1, <1>2, <1>3, <1>4, <1>5, <1>6, <1>7, <1>8, <1>9, <1>10,
    <1>11, <1>12 DEF ServerNext, MainStep

(* Every variable of the program keeps its type; a frame's header has the  *)
(* sides of the grid.                                                      *)
THEOREM ServerTypesHold == ServerSpec => []ServerTypeOK
<1>1. ServerInit => ProgramTypes
  BY DEF ServerInit, ProgramTypes
<1>2. TypeOK /\ ProgramTypes => ServerTypeOK
  BY DEF ProgramTypes, ServerTypeOK
<1>3. ServerSpec => []ProgramTypes
  BY <1>1, ProgramTypesNext, PTL DEF ServerSpec
<1>4. ServerSpec => []TypeOK
  BY ServerRunsLoop, LoopCorrect, PTL
<1> QED BY <1>2, <1>3, <1>4, PTL

(* Two sides of 200 at most make a frame that fits into a datagram.        *)
LEMMA FrameSize ==
  ASSUME NEW width \in 10..200, NEW height \in 10..200
  PROVE  7 + width * height + 1 <= 65507
<1>1. width * height <= 200 * height
  OBVIOUS
<1> QED BY <1>1

(* Whatever line parseCommandLine() accepts, the pause, the header and the *)
(* datagram exist.                                                         *)
THEOREM AcceptedIsEnough == ServerSpec => []AcceptedOptionsWork
<1>1. ASSUME ProgramInv, pc = "setup"
      PROVE  /\ args.fps > 0
             /\ args.width < 1000 /\ args.height < 1000
             /\ 7 + args.width * args.height + 1 <= 65507
  <2>1. ServerValid(args)
    BY <1>1 DEF ProgramInv, OptionsInv, ServerOutcome
  <2>2. args.fps \in 1..30 /\ args.width \in 10..200 /\ args.height \in 10..200
    BY <2>1 DEF ServerValid, ServerFps
  <2>3. PICK width \in 10..200, height \in 10..200 :
          width = args.width /\ height = args.height
    BY <2>2
  <2>4. 7 + width * height + 1 <= 65507
    BY FrameSize
  <2> QED BY <2>2, <2>3, <2>4
<1>2. ProgramInv => AcceptedOptionsWork
  BY <1>1 DEF AcceptedOptionsWork
<1> QED BY <1>2, ProgramInvariant, PTL

-----------------------------------------------------------------------------
(* What the viewer sees.                                                   *)

(* The index of a cell in the text names its column and its row.           *)
LEMMA RowMajor ==
  ASSUME NEW width \in Nat, NEW height \in Nat, width > 0,
         NEW a \in 0..width - 1, NEW b \in 0..height - 1
  PROVE  /\ b * width + a \in 0..width * height - 1
         /\ (b * width + a) % width = a
         /\ (b * width + a) \div width = b
<1>1. (b + 1) * width <= height * width
  OBVIOUS
<1>2. b * width + a \in 0..width * height - 1
  BY <1>1
<1>3. (b * width + a) % width = a
  OBVIOUS
<1>4. (b * width + a) \div width = b
  OBVIOUS
<1> QED BY <1>2, <1>3, <1>4

(* renderFrame() of the viewer finds the living cells that toString() of   *)
(* the server wrote, and no others.                                        *)
LEMMA TextIsGrid ==
  ASSUME TypeOK
  PROVE  toString # NoFrame /\ renderFrame(toString) = mGrid
<1> DEFINE Indices == 0..mWidth * mHeight - 1
<1>1. /\ toString.header[1] = mWidth /\ toString.header[2] = mHeight
      /\ \A i \in Indices :
           toString.data[i] <=> <<i % mWidth, i \div mWidth>> \in mGrid
  BY DEF toString
<1>2. renderFrame(toString) =
        {<<i % mWidth, i \div mWidth>> :
           i \in {j \in Indices : <<j % mWidth, j \div mWidth>> \in mGrid}}
  BY <1>1 DEF renderFrame
<1>3. ASSUME NEW c \in mGrid
      PROVE  c \in renderFrame(toString)
  <2>1. PICK a \in 0..mWidth - 1, b \in 0..mHeight - 1 : c = <<a, b>>
    BY DEF TypeOK, Cell, Cols, Rows
  <2>2. /\ b * mWidth + a \in Indices
        /\ (b * mWidth + a) % mWidth = a /\ (b * mWidth + a) \div mWidth = b
    BY RowMajor, SizeAssumption
  <2> QED BY <1>2, <2>1, <2>2
<1>4. renderFrame(toString) \subseteq mGrid
  BY <1>2
<1>5. toString # NoFrame
  <2>1. toString.header[1] # NoFrame.header[1]
    BY <1>1, SizeAssumption DEF NoFrame
  <2> QED BY <2>1
<1> QED BY <1>3, <1>4, <1>5

(* The rules of the game for the window are those for the grid.            *)
LEMMA SameRules ==
  ASSUME NEW S
  PROVE  Watched!Generation(S) = Torus!Generation(S)
<1>1. ASSUME NEW T
      PROVE  Watched!Cardinality(T) = Torus!Cardinality(T)
  BY DEF Watched!Cardinality, Torus!Cardinality, Watched!IsFiniteSet,
     Torus!IsFiniteSet
<1>2. Watched!Cell = Torus!Cell
  BY DEF Watched!Cell, Torus!Cell
<1>3. ASSUME NEW c
      PROVE  Watched!Neighbours(c) = Torus!Neighbours(c)
  BY <1>2 DEF Watched!Neighbours, Torus!Neighbours, Watched!Near, Torus!Near
<1>4. ASSUME NEW c
      PROVE  Watched!LivesOn(S, c) <=> Torus!LivesOn(S, c)
  BY <1>1, <1>3 DEF Watched!LivesOn, Torus!LivesOn
<1> QED BY <1>2, <1>4 DEF Watched!Generation, Torus!Generation

(* Between an update() and the frame it is broadcast in, the window is one *)
(* generation behind the grid; before the first frame it has nothing.      *)
WatchInv ==
  /\ frame # NoFrame /\ pc \in {"loop", "update", "sleep"} =>
       renderFrame(frame) = mGrid
  /\ frame # NoFrame /\ pc = "frame" =>
       mGrid = Torus!Generation(renderFrame(frame))

(* Every step keeps the distance between the window and the grid.          *)
LEMMA WatchInvNext ==
  ASSUME LoopTyped, ProgramInv, WatchInv, [ServerNext]_serverVars
  PROVE  WatchInv'
<1>1. CASE ParseCommandLine \/ InitLogger \/ SetupSignalHandling
           \/ SetupServer \/ SetupServerFails
  <2>1. frame' = frame /\ frame = NoFrame
    BY <1>1 DEF ParseCommandLine, InitLogger, SetupSignalHandling, SetupServer,
       SetupServerFails, ProgramInv, ServedInv
  <2> QED BY <2>1 DEF WatchInv
<1>2. CASE TestLoop \/ Sleep \/ Shutdown \/ StopReturns \/ SignalKills
  <2>1. UNCHANGED <<frame, mGrid>> /\ pc' # "frame"
        /\ (pc' \in {"loop", "update", "sleep"} => pc \in {"loop", "sleep"})
    BY <1>2 DEF TestLoop, Sleep, Shutdown, StopReturns, SignalKills, GoesTo,
       Ends, vars
  <2> QED BY <2>1 DEF WatchInv
<1>3. CASE Signal \/ HandlerReturns \/ UNCHANGED serverVars
  BY <1>3 DEF Signal, HandlerReturns, serverVars, vars, WatchInv
<1>4. CASE Update
  <2>1. pc = "update" /\ frame' = frame
    BY <1>4 DEF Update
  <2>2. CASE EndUpdate
    <3>1. mGrid' = Torus!Generation(mGrid) /\ pc' = "frame"
      BY <1>4, <2>2, EndIsGeneration DEF Update, GoesTo, EndUpdate
    <3> QED BY <2>1, <3>1 DEF WatchInv
  <2>3. CASE BeginUpdate \/ UpdateCell
    <3>1. mGrid' = mGrid /\ pc' = "update"
      BY <1>4, <2>3, SizeAssumption
      DEF Update, GoesTo, BeginUpdate, UpdateCell, LoopTyped, TypeOK
    <3> QED BY <2>1, <3>1 DEF WatchInv
  <2> QED BY <1>4, <2>2, <2>3 DEF Update
<1>5. CASE BroadcastFrame
  <2>1. frame' = toString /\ pc' = "sleep" /\ mGrid' = mGrid
    BY <1>5 DEF BroadcastFrame, GoesTo, vars
  <2>2. renderFrame(frame') = mGrid
    BY <2>1, TextIsGrid DEF LoopTyped
  <2> QED BY <2>1, <2>2 DEF WatchInv
<1>6. CASE RunThrows
  BY <1>6 DEF RunThrows, WatchInv
<1> QED BY <1>1, <1>2, <1>3, <1>4, <1>5, <1>6 DEF ServerNext, MainStep

(* What the window shows: the first grid, until there is a frame.          *)
Window == IF frame = NoFrame THEN mGrid ELSE renderFrame(frame)

(* A step either leaves the window as it is or shows the next generation.  *)
LEMMA WindowStep ==
  ASSUME LoopTyped, WatchInv, [ServerNext]_serverVars
  PROVE  Window' = Window \/ Window' = Torus!Generation(Window)
<1>1. CASE Update
  <2>1. frame' = frame
    BY <1>1 DEF Update
  <2>2. mGrid' = mGrid \/ mGrid' = Torus!Generation(mGrid)
    BY <1>1, EndIsGeneration DEF Update, BeginUpdate, UpdateCell
  <2> QED BY <2>1, <2>2 DEF Window
<1>2. CASE BroadcastFrame
  <2>1. pc = "frame" /\ frame' = toString
    BY <1>2 DEF BroadcastFrame
  <2>2. Window' = mGrid
    BY <2>1, TextIsGrid DEF Window, LoopTyped
  <2> QED BY <2>1, <2>2 DEF Window, WatchInv
<1>3. CASE \/ ParseCommandLine \/ InitLogger \/ SetupSignalHandling
           \/ SetupServer \/ SetupServerFails
  BY <1>3 DEF ParseCommandLine, InitLogger, SetupSignalHandling, SetupServer,
     SetupServerFails, vars, Window
<1>4. CASE TestLoop \/ Sleep \/ Shutdown \/ StopReturns
  BY <1>4 DEF TestLoop, Sleep, Shutdown, StopReturns, vars, Window
<1>6. CASE RunThrows
  <2>1. mGrid' = mGrid
    BY <1>6 DEF RunThrows, vars
  <2>2. CASE frame' = frame
    BY <2>1, <2>2 DEF Window
  <2>3. CASE pc = "frame" /\ frame' = toString
    <3>1. Window' = mGrid
      BY <2>3, TextIsGrid DEF Window, LoopTyped
    <3> QED BY <2>3, <3>1 DEF Window, WatchInv
  <2> QED BY <1>6, <2>2, <2>3 DEF RunThrows
<1>5. CASE SignalKills \/ Signal \/ HandlerReturns \/ UNCHANGED serverVars
  BY <1>5 DEF SignalKills, Signal, HandlerReturns, serverVars, vars, Window
<1> QED BY <1>1, <1>2, <1>3, <1>4, <1>5, <1>6 DEF ServerNext, MainStep

(* The frames a viewer draws are the generations of Conway's game, one     *)
(* after the other, for every size of the grid: update(), toString() and   *)
(* renderFrame() together (Application.cpp:69-75, GameOfLife.cpp:30-69,    *)
(* Client/Application.cpp:213-252).                                        *)
THEOREM ViewerWatchesLife == ServerSpec => ViewerSeesLife
<1>1. ServerInit => Watched!Init
  <2>1. Watched!Cell = Cell
    BY DEF Watched!Cell, Cell, Cols, Rows
  <2> QED BY <2>1 DEF ServerInit, Init, Watched!Init
<1>2. ServerInit => WatchInv
  BY DEF ServerInit, WatchInv
<1>3. ServerSpec => []LoopTyped
  BY ServerRunsLoop, LoopCorrect, PTL DEF LoopTyped
<1>4. ServerSpec => []WatchInv
  BY <1>2, <1>3, ProgramInvariant, WatchInvNext, PTL DEF ServerSpec
<1>5. ASSUME LoopTyped, WatchInv, [ServerNext]_serverVars
      PROVE  [Watched!Next]_Window
  BY <1>5, WindowStep, SameRules DEF Watched!Next, Window
<1> QED BY <1>1, <1>3, <1>4, <1>5, PTL
    DEF ServerSpec, ViewerSeesLife, Watched!Spec, Window
=============================================================================
