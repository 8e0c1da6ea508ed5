# Game of Life streaming: a TLA+ verification project

The repository streams Conway's Game of Life from a server to viewers, over one
of three backends chosen at compile time (Boost.Beast WebSockets by default,
Asio or Poco UDP multicast). This directory models both programs from the command
line to the exit code, the three backends between them, and the points where
threads, handlers and shutdown meet; it checks them with TLC, and proves with
TLAPS, for every number of threads, frames, viewers and connections and every grid,
every invariant, action property and refinement that a passing run checks. Liveness
is checked by TLC alone.

Run `tlc -config <run>.cfg <module>` for a run of `PROJECT.json`, `tlapm <module>.tla`
for the proofs.

## The system

| Component | State | Operations | Talks to |
|---|---|---|---|
| Server application (`Server/Application`) | `mRunning`, `gShutdownRequested` | `initialize`, `run`, `shutdown`, the signal handler | calls `IServer::start`, `broadcastData`, `stop` from the main thread |
| Game of Life (`Server/GameOfLife`) | `mGrid` | `initializeRandom`, `update`, `toString` | called by the main thread only |
| Beast server (`Streaming/Beast/Server`, `Acceptor`) | `mSessions` (mutex), `mRunning`, `mWork`, the acceptor's `mNextSocket`, `mIsStopped` | `start`, `stop`, `broadcastData`, `onAccept`, `addSession`, `removeSession` | main thread and io threads; handlers in one `io_context` |
| Beast session (`Session`) | `mWriteQueue` (mutex), `mIsWriting`, `mIsClosing`, `mSelfPtr` | `run`, `read`, `send`, `write`, `close` | called by main (broadcast, stop) and by handlers on io threads |
| Beast client (`Streaming/Beast/Client`) | `mRunning`, `mConnected`, `mWebSocket`, `mBuffer`, `mFrameBuffer` | `connect`, `disconnect`, `doRead`, `doClose`, `fail` | caller's thread and one io thread; calls the application back |
| Asio server, client | socket, work guard, `mRunning`, `mFrameBuffer` | the same interfaces over datagrams | the multicast group |
| Poco server, `ThreadPoolManager` | `mTaskQueue`, `mQueueNotEmpty`, `mActiveTasks`, the pool | `start`, `stop`, `broadcastData`, `enqueue`, `processNextTask` | main, the monitor thread and the pool's workers |
| Poco client | socket, `mRunning`, the thread's stop token, `mFrameBuffer` | `connect`, `disconnect`, `receiveLoop` | caller's thread and the receive thread |
| Client application (`Client/Application`) | `mLatestFrame` (mutex), `mNewFrameReceived`, grid size | `initialize`, callbacks, game loop, `shutdown` | main thread and the client's thread |
| Config (`Server/Config`, `Client/Config`) | the options | `parseCommandLine`, the validators | read by the applications |
| Logger, `Singleton` (`GLUtils`) | `mLogger`, `mInstance` | `initFileLogger`, `log`; `Get`, `Destroy` | every thread, and the signal handler |
| Printing, input, string helpers, factory | | | |

What is hard in it: handlers on several io threads that share a session's flags
without a strand; handlers that hold a bare `this` across `stop()`, `close()` and
reconnects; a shutdown that has to empty an `io_context`; a wakeup flag that two
threads write; frames that pass several queues and must stay in order; buffers
that survive a connection; datagrams larger than the buffer; a signal handler that
logs; a start that fails half-way; a text format that two programs share.
`PROJECT.json` lists each such hazard at its line, with the properties that watch
it.

What makes each component correct: a session never has two writes outstanding,
shows frames in order, and is given up exactly once; the server accepts as long
as it listens, lists only sessions it serves, and its `stop()` returns and leaves
nothing behind; a client reports in order and is silent after `disconnect()`; the
pool starts each task once and misses no wakeup; the viewer shows the last frame
at its own size; the grid's update is Life on a torus, and what a viewer reads from
the broadcast text is that game; a signal that is caught is heeded, and the exit code
tells the truth.

## Modules

Every action stands for the code from one access of shared state to the next;
`PROJECT.json` maps each definition to its lines. What is outside `src/` (Boost,
Poco, the network) is modelled by what the code relies on and marked external.
Some modules hold a few definitions right before the one they resemble, named
for the mistake they make (`WriteBlockedByCloseOnly`, `PushFirst`, ...): putting
one in the place of the next definition must break a property. They are not part
of any specification.

* `FrameStream`: abstract. Frames are broadcast one by one, a viewer is shown a
  subsequence of them in order.
* `ClientContract`: abstract. What `IClient` promises the application: callbacks
  come between a `connect()` and the end of the `disconnect()` only. All three
  clients are shown to implement it, and `Viewer` relies on it.
* `Session`: one viewer's `Session` with the main thread's broadcasts and stop,
  any number of io threads, and the stream's operations that may fail at any
  time. `ready` is the `io_context`'s queue; `pc[t]` names the statement a thread
  is at (`IoStep`: handlers; `MainStep`: `broadcastData`, `stop`). With one io
  thread it refines `FrameStream` (`StreamSpec`). A handler that runs on a
  destroyed session may do anything its memory allows: it returns, or the process
  dies (`crashed`).
* `BeastServer`: `start()` to the end of `stop()`, the accept chain, and all
  sessions at once, without their frames. The unlocked `mSessions.clear()` against
  a concurrent insert may crash.
* `Life`, `GameOfLife`: the generations of Life on a torus, and the program's
  loop, cell by cell, with its wrapping of coordinates; refinement by `PlaysLife`.
* `Options`: what the two command lines accept. A line gives each option a value; a
  text is represented by what its validator asks of it.
* `ServerProgram`: `main()` and `Server::Application` around the loop of
  `GameOfLife`: options, logger, signal handler, `setupServer()`, the main loop with
  `toString()` and the exceptions out of it, `shutdown()`, the exit code. The server's
  `stop()` is called in one step and returns in another (`StopReturns`), which no
  fairness forces: `server_ctrl_c` shows it hanging. `renderFrame`, of the viewer, reads the
  broadcast text back: the frames drawn are the generations of Life
  (`ViewerSeesLife`, refinement of `Life` through the text).
* `BeastClient`: the caller's thread in `connect()`/`disconnect()` and the io
  thread. `mBuffer` and `mFrameBuffer` hold bytes, each the i-th of its frame or a
  delimiter: what a connection leaves in `mBuffer` (the beginning of a message, or a
  whole one whose handler returned early, `Client.cpp:199-201`) goes with the next
  one's messages, in which as many bytes are consumed as a message has. Servers
  have messages of one size or another. `inherited` says what `connect()` found:
  handlers in the `io_context`, bytes in `mBuffer`. Implements `ClientContract`; each
  step of a connection that found no bytes is one of `FrameStream`.
* `PocoServer`: the main thread in `start()`, `broadcastData()` and `stop()`, the
  queue monitor, the workers of the pool, and the life of the singleton. With one
  worker it refines `FrameStream`.
* `Multicast`: the Asio server, a network that loses, doubles and reorders, and what
  the two UDP clients share (their state and their frame parser is the same code
  twice). A frame is its number and its length; one that is longer than the receive
  buffer loses its end there, and with it the delimiter. Servers follow one another,
  each with a grid of its own. `received` is the log of the datagrams a client has
  parsed. `AsioClient`: asynchronous receives on an `io_context`. `PocoClient`: a
  thread that polls with a timeout. `UdpStream` is the composition: one of the two
  clients, as the build chooses, with server and network; it implements
  `ClientContract`.
* `Viewer`: the viewer's `main()` and `Client::Application` from the command line to
  the exit code, its main loop against the callbacks of any client that keeps
  `ClientContract`.
* `SessionProofs`, `BeastServerProofs`, `BeastClientProofs`, `PocoServerProofs`,
  `UdpStreamProofs`, `GameOfLifeProofs`, `ServerProofs`, `ViewerProofs`: theorems, one
  module for each specification that a run checks. `MCSession`, `MCServer`: symmetry
  for TLC.

## Runs

| Run | Instance | Shows |
|---|---|---|
| `session_threads` | 2 io threads, 3 frames | `SingleWriter`; `WriterInv`, the inductive invariant of its proof |
| `session_order` | 1 io thread, 3 frames | `StreamSpec`; nothing starts on a stream after its close (`QuietAfterClose`); a closing session is destroyed (`Released`) |
| `session_queue_drains` (violation) | 1 io thread | a frame queued during a write wedges the viewer |
| `session_dangling` (violation) | 1 io thread | a handler runs on a destroyed session |
| `server_threads` | 2 io threads, 2 viewers, 1 failed accept | `AcceptChain`, `ListedIsServed`, `StoppedClean` |
| `server_shutdown` | 1 io thread, 2 viewers who leave at last | `ShutdownCompletes`, `ViewerForgotten` |
| `server_ctrl_c` (violation) | 1 viewer who stays | `stop()` waits for a viewer that connected while it stopped |
| `life_torus` | `ServerProgram` on every first grid of a 4x3 torus, 39 command lines, one signal at any moment | `PlaysLife`, `LoopInv`, `ViewerSeesLife`, `AcceptedOptionsWork`, `HandlerFindsLogger`, `ExitTells`, `SignalHeeded` |
| `client_reconnect` | two connections, 3 frames, messages of 2 or 3 bytes | `ContractSpec`, `DisconnectReturns`, `NewestIsLast`; for a connection that found no handlers `ReportsInOrder`, `LossReported`, `LostByServerUnlessInherited`; for one that found no bytes `StreamUnlessInherited` |
| `poco_pool` | 1 or 2 workers, 4 frames, starts that fail, a second start | `RunningIsActive`, `SentOnce`, `PoolOutlivesTasks`, `RunningHasPool`, `TasksAreStarted`, `StopReturns`, `StreamSpec` |
| `viewer_frames` | every command line of `ClientLines`, 3 frames of sides 1 and 2, some with a bad header | `WrongPictureIsPending`, `LastFrameDrawn`, `OrderlyEnd` |
| `udp_lossy` | either UDP client, frames of 808 and 40008 bytes, 2 frames, 3 datagrams, 2 connections | `BufferUnshared`, `ReceivedIsShown`, `FirstConnectionReceives`, `ContractSpec`, `DisconnectReturns` |

The runs that end say `CHECK_DEADLOCK FALSE`: these systems stop.

### Bounds, and why they are enough

* Two io threads: a session's flags are read by one thread and written by another;
  the proof of `SingleWriter` covers any number. The application itself starts
  one (`IServer.h:15`, `Server/Application.cpp:99-116`), which is what ordering and
  liveness are checked for.
* Three frames: one being written, one queued, one posted. Two viewers: one being
  closed, one arriving. One failed accept: the chain has passed an error.
* Two connections of a client: what one leaves behind, the next meets. Three messages
  of the Beast client: one is left behind, and with two more the client gets out of
  step (1, 2, 2, 3). Messages of 2 and 3 bytes, delimiter included: the residue of one
  server is shorter than, as long as, or longer than a message of the next.
* One or two workers and four frames in the Poco pool: one running, one at the
  monitor, one queued, one being broadcast. One worker is what the application asks
  for; with two a pool is partly busy, and the frames need not leave in order.
* A 4x3 torus has every kind of edge and corner, and two different sides; the
  proof covers every grid of at least 3x3 (the options allow 10 to 200). The grid
  that is played is 4x3 whatever the line says: nothing after `run()` has read the
  options depends on them.
* A command line differs from the defaults in one option, with the values on both
  sides of each limit; in `ServerProgram` such a line starts from an empty or a full
  grid, the default line from every grid.
* One signal: a second finds the handler installed and the flag set.
* Two connections and three datagrams in `UdpStream`: a repeated one, and one that
  arrives after its successor. 808 bytes are the default grid, 40008 the largest that
  the options allow; the buffer has 4096. Three datagrams are a whole one after a cut
  one, and another after it, in any order.
* Sides 1 and 2 in `Viewer` against the initial 20: smaller, larger and equal areas.

### Fairness

Threads that can run do (weak fairness of a thread's steps). Boost ends what it
has a timeout for (`timeout::suggested`: handshake and close) and what has failed;
a Poco poll ends by its timeout of 10 ms, which is part of the thread's fairness.
Nothing makes a viewer leave, a frame arrive, a datagram survive or a user press
Ctrl+C, except in `PatientSpec`, where viewers leave at last; without it `stop()`
need not return, which is what `server_ctrl_c` shows; so in `ServerProgram` the main
thread is fair up to its call of `stop()`, and no further. A signal handler that waits
for a lock of the thread it interrupted is never made to go on.

## Findings

Each has a run that TLC ends with a counterexample.

* A frame that is queued while another is being written is never written, nor is
  any later one (`Session.cpp:117,155`; `session_queue_drains`).
* `close()` destroys a session whose read is outstanding (`Session.cpp:202`;
  `session_dangling`).
* A viewer that connects during `stop()` is never closed and keeps the server from
  ending (`Server.cpp:88-110`; `server_ctrl_c`).

Some further properties are stated in the modules and not kept by the code. They
have no run of their own; each is refuted with its module's small constants.

| Property | Module, constants | What happens |
|---|---|---|
| `AcceptorOutlivesHandler` | `BeastServer`, as `server_ctrl_c` | `stop()` destroys the acceptor while the handler of its cancelled accept is queued (`Server.cpp:84`) |
| `LostByServer` | `BeastClient`, `MaxConnects = 2`, `MaxFrames = 0`, `Sizes = {2}` | a `doClose()` that `disconnect()` posted runs in the next connection and ends it (`Client.cpp:148`) |
| `WholeFrames` | `BeastClient`, `MaxConnects = 2`, `MaxFrames = 1`, `Sizes = {2}` | the beginning of a message stays in `mBuffer` and spoils the next connection's frames (`Client.cpp:214`) |
| `FramesOnce` | `BeastClient`, `MaxConnects = 2`, `MaxFrames = 3`, `Sizes = {2}` | a read that completes while `disconnect()` runs returns before `consume()` (`Client.cpp:199-201`); its message stays in `mBuffer`, and the next connection shows it, and then each frame twice |
| `EveryFrameShown` | `UdpStream`, `FrameLengths = {4104}`, the others 1 | a 64x64 grid does not fit the 4096 bytes of the receive buffer, and no frame is ever shown (`Asio/Client.cpp:7`) |
| `ConnectedReceives` | `UdpStream`, as `udp_lossy` | the Asio client's `connect()` does not restart the `io_context`; the second connection receives nothing (`Asio/Client.cpp:101`) |
| `DestructorReturns` | `UdpStream`, as `udp_lossy` | leaving the group throws in the Asio client's `disconnect()`, the thread runs on and the destructor waits for it (`Asio/Client.cpp:90`) |
| `StoppedIsClosed` | `PocoServer`, as `poco_pool` | a `start()` that fails after it has made the socket leaves it open, `stop()` having nothing to do (`Poco/Server.cpp:50-67`) |
| `CallbackFindsMembers` | `Viewer`, as `viewer_frames` | the window cannot be opened and the `Application` is destroyed under its client's thread (`Client/Application.cpp:53`) |
| `SignalEndsProgram` | `ServerProgram`, as `life_torus` | the handler logs, and waits for the allocator or the stream that the interrupted main thread holds (`Server/Application.cpp:16`) |

Smaller disagreements, met while translating the options:

* The client's help offers the log level `fatal` (`Client/Config.cpp:31`), which its
  validator refuses; the level it means is `throw` (`Client/Config.cpp:12-19`).
* By default the server uses port 9000 and the client 9090 (`Server/Config.cpp:28`,
  `Client/Config.cpp:27`). The server's port has no validator.
* `threads` is validated and printed (`Server/Config.cpp:34`) but `start()` is called
  without it (`Server/Application.cpp:105`).
* A side that does not fit an `int` leaves `parseCommandLine()` as an exception
  (`Server/Config.cpp:126`) and ends the program without the usage text. `--help`
  ends it with exit code 1.

## Proofs

Each module `XProofs` is about the specification of `X`, for every value of its
constants. The arguments have one shape: an inductive invariant, a conjunction of
named parts; a lemma `NextCases` that splits `Next`; for each part a lemma with one
step per action; and the theorems that follow from it. The theorems hold without
fairness. Three have a hypothesis on the constants, which the code justifies:

* `OneThread` (`ClosedIsQuiet`, `OneThreadStreams`): at most one io thread, which is
  what the application starts (`IServer.h:15`, `Server/Application.cpp:99-116`). With
  more the two properties do not hold, and `session_order` has one thread as well.
* `IoThreads # {}` (`StopLeavesNothing`): there is an io thread; the options refuse a
  thread count that is not in 1 to 64 (`Server/Config.cpp:141-145`). With none
  `join()` would return at once and leave the handlers unrun.

Some properties speak of part of the behaviours by name, since the code does not keep
them in the rest: those of the Beast client that end in `UnlessInherited`,
`ReportsInOrder` and `LossReported` (connections that found no handlers, or no bytes,
of an earlier one), `FirstConnectionReceives` (not the second connection of the Asio
client), `ReceivedIsShown` (frames that fit the buffer, and a torn one after a cut one).
Their theorems say no more than that; the rest is under Findings.

### The Beast session (`SessionProofs`)

* `TypesHold`: `Spec => []TypeOK`.
* `OneWriter`, `WriterInvariant`: `Spec => []SingleWriter`, `Spec => []WriterInv`.
  `SingleWriter` is not inductive: what makes it hold is where a thread may be while
  `mIsWriting` is set. `WriterInv` says it in three parts: `FlagInv` (whoever is
  between the test of `write()` and the end of the completion handler finds the flag
  set), `StarterInv` (at most one thread, queued handler or outstanding operation is
  in that stretch) and `PlaceInv` (where they are). `Typed` carries the types the
  argument needs.
* `ClosedIsQuiet`: with one thread, `QuietAfterClose`, an action property. `QuietInv`:
  the lambda of `close()` is posted only after `mIsClosing` is set, and once it has run
  nobody stands between the test of the flag in `write()` and its `async_write`.
* `OneThreadStreams`: with one thread, `Spec => StreamSpec`. A frame goes through
  stages: posted, in the hands of the handler, queued, in flight, on the wire.
  `OrderInv` says that the stages hold increasing frames and that every frame of a
  later stage is older than every frame of an earlier one; a step moves a frame one
  stage on or drops it, so that what reaches the wire is newer than all on it.

### The Beast server (`BeastServerProofs`)

* `AcceptsOnceAtATime`: `AcceptChain`, from `ChainInv`: who holds the one end of the
  chain, an operation, a queued handler or a thread.
* `SessionsAreServed`, `StopLeavesNothing`: `ListedIsServed` and `StoppedClean`, from
  `ConnInv`, which describes each connection alone: one carrier takes it from its
  accept over the handshake and from read to read (`OneCarrier`), at most one closes
  it (`OneCloser`), and it owns itself exactly until the lambda of its close has run
  (`Owned`). `MainInv` follows `start()` and `stop()`. When `stop()` returns the
  `io_context` is out of work, so that nothing carries or closes a connection, and
  `Owned` leaves no session alive.
* `TypesHold`.

### The Beast client (`BeastClientProofs`)

* `LossToldAfterConnection` (`ReportsInOrder`) and the action property `OnlyServerLoses`
  (`LostByServerUnlessInherited`), from `ToldInv` and `LossInv`: what an earlier
  connection left in the `io_context` cannot do harm as long as there is nothing of it.
* `KeepsContract`: `Spec => ContractSpec`. `LifeInv`: the io thread lives between
  `connect()` and the join in `disconnect()` only. Each step is mapped to one of the
  contract or to a stutter (`StepAllowed`, `AllowedIsContract`).
* `ReadsEndWithNewest`: `Spec => []NewestIsLast`, for any bytes that earlier
  connections left. While a read is handled, `mFrameBuffer` ends with the text of the
  message read and a delimiter (`TailInv`), because the end of the message is always
  appended last and what is consumed is taken from the front; the last string cut is
  therefore that text, or one that has it at its end.
* `FramesStream`: `Spec => StreamUnlessInherited`, an action property. In a connection
  that found `mBuffer` empty it holds the beginning of the message that is read and
  nothing else (`ReadInv`, `ResidueInv`), so that what is cut is that message's text. At
  any time one read at most is outstanding, queued or handled (`OneReader`), and its
  frame is newer than all that were shown (`OrderInv`).
* `TypesHold`.

### The Poco server (`PocoServerProofs`)

* `StopWaitsForAll` (`PoolOutlivesTasks`) and `BroadcastFindsPool` (`RunningHasPool`),
  from `StageInv`: how far `start()` and `stop()` have come, and what exists then.
* `TaskOutlivesRun` (`RunningIsActive`) and `FrameLeavesOnce` (`SentOnce`), from
  `TaskInv`: the queue is increasing, every task that waits or runs is in
  `mActiveTasks`, those that run are older than those that wait and differ from one
  another, and nothing that was sent waits. The head of the queue while the monitor
  starts it counts as started, not as waiting.
* `OneWorkerStreams`: `Spec => StreamSpec`, where `OrderInv` adds that one worker
  sends the frames in order.
* `TypesHold`.

### The UDP clients (`UdpStreamProofs`)

For either client and any network:

* `ReceiveBufferIsOwned` (`BufferUnshared`): `OneEnd`, the Asio client's receive is
  outstanding, queued or handled, and once.
* `DatagramsAreShown` (`ReceivedIsShown`), for frames of any lengths: `ParsedInv` says
  that `mFrameBuffer` is torn exactly when the datagram parsed last was cut, so that
  each cut one spoils its successor at most.
* `ConnectionHasThread` (`FirstConnectionReceives`), from the life of the two clients
  (`AsioLifeInv`, `PocoLifeInv`).
* `KeepsContract`: `Spec => ContractSpec`.
* `TypesHold`.

### The server's program (`GameOfLifeProofs`, `ServerProofs`)

For every grid of at least 3x3 (the options allow 10 to 200):

* `LoopCorrect`: `Spec => [](TypeOK /\ LoopInv)`, where `LoopInv` says that the
  cells before the loop's position are those of the next generation.
* `GameOfLifePlaysLife`: `Spec => PlaysLife`, from `LoopInv`, the lemmas on the
  eight neighbours (the offsets reach eight different cells when both sides are at
  least three) and on `Wrap`, which is the remainder on the coordinates that occur.
* `ServerRunsLoop`: `ServerSpec => Spec` of `GameOfLife`, for every command line and a
  signal at any moment: every step of the program is one of `update()` or leaves the
  grid alone. `ServerKeepsLoop` (`LoopInv`) and `ServerPlaysLife` (`PlaysLife`) follow
  from it and the theorems above.
* `ViewerWatchesLife`: `ServerSpec => ViewerSeesLife`. Lemma `TextIsGrid`: `toString()`
  and `renderFrame()` are inverse, by the arithmetic of `i % width` and `i / width`
  (`RowMajor`). `WatchInv`: the last frame is the grid, or one generation behind it
  between an `update()` and its broadcast.
* `HandlerIsSafe`, `ExitIsTrue`, `AcceptedIsEnough`: `HandlerFindsLogger`, `ExitTells`
  and `AcceptedOptionsWork`, all from `ProgramInv`. The three are not inductive:
  `ProgramInv` adds that the options stay accepted until `run()` has read them
  (`OptionsInv`), that logger, handler and signal come in this order (`LoggerInv`),
  and that nothing is served before `setupServer()` has succeeded, and the loop left
  by the flag or by an exception only (`ServedInv`). `HandlerFindsLogger` is about the
  log: without a logger `Log::Info()` only prints, since the level is `Error` until
  `initFileLogger()` or `initConsoleLogger()` has run (`Log.h:66`, `Log.cpp:55-58`).
* `ServerTypesHold`: `ServerTypeOK`.

### The viewer's program (`ViewerProofs`)

For frames of every number and size:

* `WrongPictureIsRedrawn`: `Spec => []WrongPictureIsPending`. The property looks at the
  window between two rounds of the loop; `PictureInv` follows the latest frame through
  a round (copied, then the window's sides, then the picture) as long as the callback
  has not set the flag again, and `HeaderInv` says that a good header has sides.
* `EndIsOrderly`: `Spec => []OrderlyEnd`, from `EndInv`, which says when the client's
  thread and the members exist.
* `ViewerTypesHold`: `TypeOK`.

### What is assumed, and what is only checked

Assumed are the modules' named ASSUMEs (sizes, counts and bounds are naturals, the
sides are at least 3, the main thread is no io thread) and the two hypotheses
above. The bounds on frames, connections, starts and datagrams are constants, and
the theorems hold for every value of them.

Liveness stays with TLC, because fairness and ENABLED are out of the prover's reach:
`Released`, `ShutdownCompletes`, `ViewerForgotten`, `SignalHeeded`,
`DisconnectReturns` (of `BeastClient` and of `UdpStream`), `LossReported`,
`TasksAreStarted`, `StopReturns` and `LastFrameDrawn`. `FrameStream`, `ClientContract`
and `Life` are specifications that others are proved to implement. The properties
under Findings are violated, and there is nothing to prove.

## What is not modelled

* Console input and the string helpers (`GLUtils/Input`, `Utils`), which neither
  program calls; printing and `showCurrentConfig()`, which are wording; the build
  files, which choose the backend.
* In `Viewer` the cells of a frame: it is about the sides they are drawn with. The
  cells are read back in `ServerProgram`, with the header's width.
* `receiveFrom()` after a `poll()` whose datagram is gone (it would block), and a
  file descriptor that is reused between the two. Frames longer than a datagram:
  the options exclude them (`AcceptedOptionsWork`).
* Data races are modelled by the order of the conflicting accesses and, where
  memory is gone or a container is torn, by a crash; not by what the compiler may
  make of them. In `BeastClient` a stale handler and the first read of the next
  connection take turns on the stream.
* In `BeastServer` and `Session`, exceptions out of Boost calls other than
  `start()`'s; in `ServerProgram`, exceptions out of `stop()`. Why `stop()` may not
  return is `BeastServer`'s matter.
* Memory: `mWriteQueue` has no bound, and the model bounds the frames instead.
* One composition of everything: the pieces meet in the abstract modules instead
  (`FrameStream` between server and viewer, `ClientContract` between client and
  application, `Life` between grid and window).

## Plan

Proofs that are left: what the two abstract modules give their users (frames shown
are increasing; nothing is called back between a `disconnect()` and the next
`connect()`); the safety half of the liveness properties, that the threads and
handlers they wait for are never left without anybody to wake them (the wakeup flag
of the Poco pool, the work of the `io_context` in `stop()`).
