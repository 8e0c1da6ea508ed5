------------------------------ MODULE PocoServer ------------------------------
(***************************************************************************)
(* Streaming::Poco::PocoServer and its ThreadPoolManager: broadcastData()  *)
(* queues a task for every frame, the queue monitor thread hands the tasks *)
(* to the threads of a Poco::ThreadPool, and each sends its frame to the   *)
(* multicast group.  stop() destroys the pool and closes the socket.       *)
(*                                                                         *)
(* A task is the number of its frame.  A section of code that holds a      *)
(* mutex is one action, and so is an access of mQueueNotEmpty outside one. *)
(***************************************************************************)
EXTENDS Naturals, Sequences, FiniteSets

CONSTANTS MaxThreads, \* bound: threads of the Poco::ThreadPool
          MaxFrames   \* bound: frames broadcast in a behaviour

ASSUME PoolAssumption == MaxThreads \in Nat \ {0} /\ MaxFrames \in Nat

VARIABLES
  pc,             \* the main thread's statement
  mRunning, published, \* and the number of frames broadcast so far
  poolExists,     \* the Singleton has a ThreadPoolManager
  monitor, task,  \* mQueueMonitorThread's statement, and its task
  pool, running,  \* the statements of the pool's threads, and their tasks
  mQueueNotEmpty, mTaskQueue, mActiveTasks,
  stopRequested,  \* the stop_token's state
  socketOpen,     \* mSocket
  sent            \* frames sent to the group, in order

serverVars  == <<mRunning, published, poolExists, socketOpen>>
monitorVars == <<monitor, task>>
poolVars    == <<pool, running>>
queueVars   == <<mQueueNotEmpty, mTaskQueue>>
vars == <<pc, serverVars, monitorVars, poolVars, queueVars, mActiveTasks,
          stopRequested, sent>>

Workers == DOMAIN pool
Tasks == 1..MaxFrames
NoTask == 0

TypeOK ==
  /\ pc \in {"stopped", "running", "insert", "push", "requestStop", "setFlag",
             "joinMonitor", "clear", "joinAll", "close"}
  /\ mRunning \in BOOLEAN /\ published \in 0..MaxFrames
  /\ poolExists \in BOOLEAN
  /\ monitor \in {"none", "test", "wait", "retest", "front", "start", "pop",
                  "setFlag", "exited"}
  /\ task \in Tasks \cup {NoTask}
  /\ pool \in Seq({"idle", "send", "remove"})
  /\ running \in Seq(Tasks \cup {NoTask})
  /\ mQueueNotEmpty \in BOOLEAN /\ mTaskQueue \in Seq(Tasks)
  /\ mActiveTasks \subseteq Tasks
  /\ stopRequested \in BOOLEAN /\ socketOpen \in BOOLEAN
  /\ sent \in Seq(Tasks)

(* The constructor makes the ThreadPoolManager.                            *)
Init ==
  /\ pc = "stopped" /\ mRunning = FALSE /\ published = 0 /\ poolExists = TRUE
  /\ monitor = "none" /\ task = NoTask
  /\ pool = <<>> /\ running = <<>>
  /\ mQueueNotEmpty = FALSE /\ mTaskQueue = <<>> /\ mActiveTasks = {}
  /\ stopRequested = FALSE /\ socketOpen = FALSE /\ sent = <<>>

-----------------------------------------------------------------------------
(* The main thread.                                                        *)

Main(from, to) == pc = from /\ pc' = to /\ UNCHANGED <<task, sent>>

(* start() takes the ThreadPoolManager for granted.                        *)
PoolAssumed == TRUE

(* ThreadPoolManager::Get() throws once stop() has destroyed it.           *)
PoolFound == poolExists

(* start(): the socket, the pool of threadCount threads and its monitor.   *)
Start(threadCount) ==
  /\ Main("stopped", "running") /\ PoolFound
  /\ pool' = [w \in 1..threadCount |-> "idle"]
  /\ running' = [w \in 1..threadCount |-> NoTask]
  /\ socketOpen' = TRUE /\ monitor' = "test" /\ mRunning' = TRUE
  /\ UNCHANGED <<published, poolExists, queueVars, mActiveTasks, stopRequested>>

(* start() is false: the address is no multicast address, or the socket    *)
(* cannot be made, or something throws once it is made: the pool is gone.  *)
(* stop() finds that the server does not run, and leaves the socket open.  *)
StartFails ==
  /\ Main("stopped", "stopped")
  /\ socketOpen' \in {socketOpen, TRUE}
  /\ UNCHANGED <<mRunning, published, poolExists, monitor, poolVars, queueVars,
                 mActiveTasks, stopRequested>>

(* enqueue() inserts the task into the queue first.                        *)
PushFirst == <<"push", "insert">>

(* The order of enqueue()'s two critical sections.                         *)
EnqueueOrder == <<"insert", "push">>

AfterSection(label) ==
  IF label = EnqueueOrder[1] THEN EnqueueOrder[2] ELSE "running"

(* broadcastData() makes the task of the next frame.                       *)
Broadcast ==
  /\ Main("running", EnqueueOrder[1]) /\ published < MaxFrames
  /\ published' = published + 1
  /\ UNCHANGED <<mRunning, poolExists, socketOpen, monitor, poolVars, queueVars,
                 mActiveTasks, stopRequested>>

(* mActiveTasks owns the task.                                             *)
InsertTask ==
  /\ Main("insert", AfterSection("insert"))
  /\ mActiveTasks' = mActiveTasks \cup {published}
  /\ UNCHANGED <<serverVars, monitor, poolVars, queueVars, stopRequested>>

(* The task is queued, and the monitor notified.                           *)
PushTask ==
  /\ Main("push", AfterSection("push"))
  /\ mTaskQueue' = Append(mTaskQueue, published)
  /\ mQueueNotEmpty' = TRUE
  /\ UNCHANGED <<serverVars, monitor, poolVars, mActiveTasks, stopRequested>>

(* stopQueueMonitor() wakes the monitor before it requests the stop.       *)
WakeFirst == <<"setFlag", "requestStop">>

(* The order of stopQueueMonitor()'s two writes.                           *)
StopOrder == <<"requestStop", "setFlag">>

AfterWrite(label) ==
  IF label = StopOrder[1] THEN StopOrder[2] ELSE "joinMonitor"

(* Ctrl+C: the main loop ends, and stop() destroys the ThreadPoolManager.  *)
Signal ==
  /\ Main("running", StopOrder[1])
  /\ mRunning' = FALSE
  /\ UNCHANGED <<published, poolExists, socketOpen, monitor, poolVars,
                 queueVars, mActiveTasks, stopRequested>>

RequestStop ==
  /\ Main("requestStop", AfterWrite("requestStop"))
  /\ stopRequested' = TRUE
  /\ UNCHANGED <<serverVars, monitor, poolVars, queueVars, mActiveTasks>>

(* mQueueNotEmpty = true, and the monitor is notified.                     *)
WakeMonitor ==
  /\ Main("setFlag", AfterWrite("setFlag"))
  /\ mQueueNotEmpty' = TRUE
  /\ UNCHANGED <<serverVars, monitor, poolVars, mTaskQueue, mActiveTasks,
                 stopRequested>>

JoinMonitor ==
  /\ Main("joinMonitor", "clear") /\ monitor = "exited"
  /\ UNCHANGED <<serverVars, monitor, poolVars, queueVars, mActiveTasks,
                 stopRequested>>

(* Tasks that no worker has taken are dropped.                             *)
ClearQueue ==
  /\ Main("clear", "joinAll")
  /\ mTaskQueue' = <<>> /\ mQueueNotEmpty' = FALSE
  /\ UNCHANGED <<serverVars, monitor, poolVars, mActiveTasks, stopRequested>>

(* The pool is stopped while its threads still run.                        *)
NobodyAwaited == TRUE

WorkersIdle == \A w \in Workers : pool[w] = "idle"

(* joinAll(), stopAll() and the end of the ThreadPoolManager.              *)
JoinAll ==
  /\ Main("joinAll", "close") /\ WorkersIdle
  /\ mActiveTasks' = {} /\ poolExists' = FALSE
  /\ UNCHANGED <<mRunning, published, socketOpen, monitor, poolVars, queueVars,
                 stopRequested>>

CloseSocket ==
  /\ Main("close", "stopped")
  /\ socketOpen' = FALSE
  /\ UNCHANGED <<mRunning, published, poolExists, monitor, poolVars, queueVars,
                 mActiveTasks, stopRequested>>

-----------------------------------------------------------------------------
(* The queue monitor thread.                                               *)

Monitor(from, to) ==
  /\ monitor = from /\ monitor' = to
  /\ UNCHANGED <<pc, serverVars, mActiveTasks, stopRequested, sent>>

(* The loop's test of the stop token, and the one after the wait.          *)
TestStop ==
  /\ \/ Monitor("test", IF stopRequested THEN "exited" ELSE "wait")
     \/ Monitor("retest", IF stopRequested THEN "exited" ELSE "front")
  /\ UNCHANGED <<task, poolVars, queueVars>>

(* mQueueNotEmpty.wait(false): whoever sets it notifies.                   *)
Wait ==
  /\ Monitor("wait", "retest") /\ mQueueNotEmpty
  /\ UNCHANGED <<task, poolVars, queueVars>>

(* processNextTask() looks at the front of the queue.                      *)
FrontTask ==
  /\ Monitor("front", IF mTaskQueue = <<>> THEN "setFlag" ELSE "start")
  /\ task' = IF mTaskQueue = <<>> THEN NoTask ELSE Head(mTaskQueue)
  /\ UNCHANGED <<poolVars, queueVars>>

(* An idle worker, or a new one, takes the task.                           *)
StartTask(w) ==
  /\ Monitor("start", "pop")
  /\ pool[w] = "idle"
  /\ pool' = [pool EXCEPT ![w] = "send"]
  /\ running' = [running EXCEPT ![w] = task]
  /\ UNCHANGED <<task, queueVars>>

(* NoThreadAvailableException: the task stays where it is.                 *)
NoThreadAvailable ==
  /\ Monitor("start", "setFlag")
  /\ \A w \in Workers : pool[w] # "idle"
  /\ UNCHANGED <<task, poolVars, queueVars>>

(* The task that was started stays in the queue.                           *)
KeepFront == mTaskQueue

(* The task that was started is taken out.                                 *)
WithoutTask ==
  IF mTaskQueue # <<>> /\ Head(mTaskQueue) = task THEN Tail(mTaskQueue)
  ELSE mTaskQueue

PopTask ==
  /\ Monitor("pop", "setFlag")
  /\ mTaskQueue' = WithoutTask
  /\ task' = NoTask
  /\ UNCHANGED <<poolVars, mQueueNotEmpty>>

(* The flag is lowered after every task.                                   *)
Lowered == FALSE

MoreTasks == mTaskQueue # <<>>

(* mQueueNotEmpty = !mTaskQueue.empty()                                    *)
SetFlag ==
  /\ Monitor("setFlag", "test")
  /\ mQueueNotEmpty' = MoreTasks
  /\ task' = NoTask
  /\ UNCHANGED <<poolVars, mTaskQueue>>

-----------------------------------------------------------------------------
(* The workers: RunnableTask::run().                                       *)

Worker(w, from, to) ==
  /\ w \in Workers /\ pool[w] = from
  /\ pool' = [pool EXCEPT ![w] = to]
  /\ UNCHANGED <<pc, serverVars, monitorVars, queueVars, stopRequested>>

(* The task sends its frame, unless sendTo() throws, which it swallows.    *)
SendFrame(w, ok) ==
  /\ Worker(w, "send", "remove")
  /\ sent' = IF ok /\ socketOpen THEN Append(sent, running[w]) ELSE sent
  /\ UNCHANGED <<running, mActiveTasks>>

RemoveActiveTask(w) ==
  /\ Worker(w, "remove", "idle")
  /\ mActiveTasks' = mActiveTasks \ {running[w]}
  /\ running' = [running EXCEPT ![w] = NoTask]
  /\ UNCHANGED sent

-----------------------------------------------------------------------------
StopStep ==
  \/ RequestStop \/ WakeMonitor \/ JoinMonitor \/ ClearQueue \/ JoinAll
  \/ CloseSocket

MainStep == InsertTask \/ PushTask \/ StopStep

MonitorStep ==
  \/ TestStop \/ Wait \/ FrontTask \/ NoThreadAvailable \/ PopTask \/ SetFlag
  \/ \E w \in Workers : StartTask(w)

WorkerStep(w) == RemoveActiveTask(w) \/ \E ok \in BOOLEAN : SendFrame(w, ok)

Next ==
  \/ StartFails \/ Broadcast \/ Signal
  \/ \E threadCount \in 1..MaxThreads : Start(threadCount)
  \/ MainStep \/ MonitorStep \/ \E w \in 1..MaxThreads : WorkerStep(w)

Spec == Init /\ [][Next]_vars

(* Threads that can run do; the signal may never come.                     *)
FairSpec ==
  /\ Spec
  /\ WF_vars(MainStep) /\ WF_vars(MonitorStep)
  /\ \A w \in 1..MaxThreads : WF_vars(WorkerStep(w))

-----------------------------------------------------------------------------
(* Properties.                                                             *)

(* A worker holds a plain reference to its task (ThreadPoolManager.cpp:60) *)
(* and mActiveTasks keeps it alive until run() is over, whatever the       *)
(* monitor and enqueue() do with theirs (116-139, 147-161).                *)
RunningIsActive ==
  \A w \in Workers : pool[w] # "idle" => running[w] \in mActiveTasks

(* No frame is sent twice, though a task stays in the queue while it is    *)
(* being started (ThreadPoolManager.cpp:47-74).                            *)
SentOnce == \A i, j \in DOMAIN sent : sent[i] = sent[j] => i = j

(* When the socket is closed nobody can touch what stop() destroyed: the   *)
(* monitor has left, no task is queued or runs (ThreadPoolManager.cpp:     *)
(* 28-45, Poco/Server.cpp:70-78).                                          *)
PoolOutlivesTasks ==
  pc \in {"close", "stopped"} =>
    /\ monitor \in {"none", "exited"} /\ mTaskQueue = <<>>
    /\ WorkersIdle /\ \A w \in Workers : running[w] = NoTask

(* A server that runs has the pool that broadcastData() gets without a     *)
(* test, through stop() and a second start() (Poco/Server.cpp:23-97,       *)
(* Singleton.h:36-48).                                                     *)
RunningHasPool == mRunning => poolExists /\ monitor # "none"

(* A queued task is started, unless the server stops: the monitor misses   *)
(* no wakeup and tries again when every worker was busy                    *)
(* (ThreadPoolManager.cpp:64-66, 81-98, 128-133).                          *)
TasksAreStarted ==
  \A f \in Tasks :
    (\E i \in DOMAIN mTaskQueue : mTaskQueue[i] = f)
      ~> ~ \E i \in DOMAIN mTaskQueue : mTaskQueue[i] = f

(* stop() returns: the monitor sees the stop token even when it overwrites *)
(* the flag that was to wake it (ThreadPoolManager.cpp:81-114).            *)
StopReturns == pc \in {"requestStop", "setFlag"} ~> pc = "stopped"

(* With the one worker the application asks for, the frames leave in the   *)
(* order of their broadcast (Poco/Server.cpp:44, 97-117).                  *)
Stream == INSTANCE FrameStream WITH
            shown <- IF Len(pool) = 1 THEN sent ELSE <<>>
StreamSpec == Stream!Spec

(* "PocoServer stopped." (Poco/Server.cpp:85), and what a start() that     *)
(* fails leaves: a server that does not run holds no socket.  The code     *)
(* does not keep this.                                                     *)
StoppedIsClosed == pc = "stopped" => ~socketOpen
=============================================================================
