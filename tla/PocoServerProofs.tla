--------------------------- MODULE PocoServerProofs ---------------------------
(***************************************************************************)
(* Proofs about PocoServer for any number of worker threads and of frames: *)
(* a task lives while a worker holds a reference to it, no frame is sent   *)
(* twice, and stop() destroys the pool after everyone has left it.         *)
(***************************************************************************)
EXTENDS PocoServer, SequenceTheorems, TLAPS

(* The task of the frame that broadcastData() is enqueueing.               *)
Enqueueing == pc \in {"insert", "push"}

Busy(w) == w \in 1..Len(pool) /\ pool[w] # "idle"

(* Whoever has a task has the task of a frame.                             *)
Typed ==
  /\ TypeOK
  /\ Len(running) = Len(pool)
  /\ Enqueueing => published \in Tasks
  /\ monitor \in {"start", "pop"} => task \in Tasks
  /\ \A w \in 1..Len(pool) : Busy(w) => running[w] \in Tasks

-----------------------------------------------------------------------------
(* Who exists while the main thread is where it is.                        *)

(* Before start(): there is no thread and no task.                         *)
NotStarted ==
  pc = "stopped" /\ poolExists =>
    /\ monitor = "none" /\ pool = <<>>
    /\ mTaskQueue = <<>> /\ sent = <<>>
    /\ published = 0

(* From start() on there is a monitor, and until stop() has joined the     *)
(* workers there is a ThreadPoolManager.                                   *)
Started ==
  /\ pc # "stopped" => monitor # "none"
  /\ pc \notin {"close", "stopped"} => poolExists
  /\ mRunning => pc \in {"running", "insert", "push"}

(* What stopQueueMonitor(), clearQueue() and joinAll() have achieved.      *)
Stopping ==
  /\ pc \in {"clear", "joinAll", "close"} => monitor = "exited"
  /\ pc \in {"joinAll", "close"} => mTaskQueue = <<>>
  /\ pc = "close" => ~poolExists
  /\ ~poolExists => /\ monitor = "exited" /\ mTaskQueue = <<>>
                    /\ WorkersIdle

IdleHoldsNothing ==
  \A w \in Workers : pool[w] = "idle" => running[w] = NoTask

StageInv == NotStarted /\ Started /\ Stopping /\ IdleHoldsNothing

-----------------------------------------------------------------------------
(* Where a task is: queued, with a worker, or sent.                        *)

(* A frame that was enqueued before the one in hand.                       *)
Enqueued(f) == f <= published /\ (Enqueueing => f < published)

(* A place of the queue whose task no worker has: the monitor starts the   *)
(* first task before it takes it out.                                      *)
Waiting(i) == i \in 1..Len(mTaskQueue) /\ (monitor = "pop" => i # 1)

(* The queue holds tasks in the order of their broadcast.                  *)
QueueInv ==
  /\ \A i, j \in 1..Len(mTaskQueue) : i < j => mTaskQueue[i] < mTaskQueue[j]
  /\ \A i \in 1..Len(mTaskQueue) : Enqueued(mTaskQueue[i])
  /\ monitor \in {"start", "pop"} =>
       mTaskQueue # <<>> /\ task = mTaskQueue[1]

(* mActiveTasks owns the tasks that wait or run.                           *)
OwnedInv ==
  /\ pc = "push" => published \in mActiveTasks
  /\ \A i \in 1..Len(mTaskQueue) :
       Waiting(i) => mTaskQueue[i] \in mActiveTasks
  /\ \A w \in 1..Len(pool) : Busy(w) => running[w] \in mActiveTasks

(* A task that waits is newer than all that run, which are distinct.       *)
RunInv ==
  /\ \A w \in 1..Len(pool) : Busy(w) =>
       /\ Enqueued(running[w])
       /\ \A i \in 1..Len(mTaskQueue) :
            Waiting(i) => running[w] < mTaskQueue[i]
  /\ \A v, w \in 1..Len(pool) :
       Busy(v) /\ Busy(w) /\ running[v] = running[w] => v = w

(* No frame that was sent waits or is being sent again.                    *)
SentInv ==
  /\ SentOnce
  /\ \A k \in 1..Len(sent) :
       /\ Enqueued(sent[k])
       /\ \A i \in 1..Len(mTaskQueue) :
            Waiting(i) => sent[k] < mTaskQueue[i]
       /\ \A w \in 1..Len(pool) :
            pool[w] = "send" => sent[k] # running[w]

TaskInv == QueueInv /\ OwnedInv /\ RunInv /\ SentInv

(* With one worker the frames leave in the order of their broadcast, and   *)
(* the one it holds is the next.                                           *)
OrderInv ==
  Len(pool) = 1 =>
    /\ \A i, j \in 1..Len(sent) : i < j => sent[i] < sent[j]
    /\ pool[1] = "send" =>
         \A i \in 1..Len(sent) : sent[i] < running[1]

-----------------------------------------------------------------------------
(* The actions of Next, one by one.                                        *)
LEMMA NextCases ==
  ASSUME Next
  PROVE  \/ StartFails \/ Broadcast \/ Signal
         \/ \E threadCount \in 1..MaxThreads : Start(threadCount)
         \/ InsertTask \/ PushTask \/ RequestStop \/ WakeMonitor
         \/ JoinMonitor \/ ClearQueue \/ JoinAll \/ CloseSocket
         \/ TestStop \/ Wait \/ FrontTask \/ NoThreadAvailable
         \/ PopTask \/ SetFlag
         \/ \E w \in Workers : StartTask(w)
         \/ \E w \in 1..MaxThreads : RemoveActiveTask(w)
         \/ \E w \in 1..MaxThreads, ok \in BOOLEAN : SendFrame(w, ok)
  BY DEF Next, MainStep, StopStep, MonitorStep, WorkerStep

(* Before start() there is nothing.                                        *)
LEMMA InitTyped == Init => Typed
<1> SUFFICES ASSUME Init PROVE Typed
  OBVIOUS
<1>1. /\ <<>> \in Seq({"idle", "send", "remove"})
      /\ <<>> \in Seq(Tasks \cup {NoTask}) /\ <<>> \in Seq(Tasks)
      /\ Len(<<>>) = 0
  OBVIOUS
<1>2. TypeOK
  <2>1. published \in 0..MaxFrames /\ task \in Tasks \cup {NoTask}
        /\ mActiveTasks \subseteq Tasks
    BY PoolAssumption DEF Init, NoTask
  <2> QED BY <1>1, <2>1 DEF Init, TypeOK
<1>3. Len(pool) = 0 /\ Len(running) = 0 /\ 1..Len(pool) = {}
  <2>1. pool = <<>> /\ running = <<>>
    BY DEF Init
  <2> QED BY <2>1, <1>1
<1> QED BY <1>2, <1>3 DEF Init, Typed, Enqueueing

(* What a step does to the pool: one worker moves.                         *)
LEMMA StartedTask ==
  ASSUME Typed, NEW w \in Workers, StartTask(w)
  PROVE  /\ w \in 1..Len(pool) /\ pool[w] = "idle"
         /\ pool' \in Seq({"idle", "send", "remove"})
         /\ running' \in Seq(Tasks \cup {NoTask})
         /\ Len(pool') = Len(pool) /\ Len(running') = Len(running)
         /\ pool'[w] = "send" /\ running'[w] = task
         /\ \A v \in 1..Len(pool) :
              v # w => pool'[v] = pool[v] /\ running'[v] = running[v]
<1> USE DEF Typed, TypeOK
<1>1. w \in 1..Len(pool) /\ pool[w] = "idle" /\ w \in 1..Len(running)
  BY DEF StartTask, Workers
<1>2. /\ pool' = [pool EXCEPT ![w] = "send"]
      /\ running' = [running EXCEPT ![w] = task]
  BY DEF StartTask
<1> QED BY <1>1, <1>2, ExceptSeq

(* removeActiveTask() at the end of a task frees one worker, which keeps   *)
(* its place in the pool.                                                  *)
LEMMA RemovedTask ==
  ASSUME Typed, NEW w, RemoveActiveTask(w)
  PROVE  /\ w \in 1..Len(pool) /\ pool[w] = "remove"
         /\ pool' \in Seq({"idle", "send", "remove"})
         /\ running' \in Seq(Tasks \cup {NoTask})
         /\ Len(pool') = Len(pool) /\ Len(running') = Len(running)
         /\ pool'[w] = "idle" /\ running'[w] = NoTask
         /\ \A v \in 1..Len(pool) :
              v # w => pool'[v] = pool[v] /\ running'[v] = running[v]
<1> USE DEF Typed, TypeOK
<1>1. w \in 1..Len(pool) /\ pool[w] = "remove" /\ w \in 1..Len(running)
  BY DEF RemoveActiveTask, Worker, Workers
<1>2. /\ pool' = [pool EXCEPT ![w] = "idle"]
      /\ running' = [running EXCEPT ![w] = NoTask]
  BY DEF RemoveActiveTask, Worker
<1> QED BY <1>1, <1>2, ExceptSeq

(* sendTo() of a task leaves the pool's size and the tasks' owners alone.  *)
LEMMA SentFrame ==
  ASSUME Typed, NEW w, NEW ok \in BOOLEAN, SendFrame(w, ok)
  PROVE  /\ w \in 1..Len(pool) /\ pool[w] = "send" /\ running[w] \in Tasks
         /\ pool' \in Seq({"idle", "send", "remove"})
         /\ Len(pool') = Len(pool) /\ running' = running
         /\ pool'[w] = "remove"
         /\ \A v \in 1..Len(pool) : v # w => pool'[v] = pool[v]
         /\ sent' \in {sent, Append(sent, running[w])}
<1> USE DEF Typed, TypeOK
<1>1. w \in 1..Len(pool) /\ pool[w] = "send"
  BY DEF SendFrame, Worker, Workers
<1>2. pool' = [pool EXCEPT ![w] = "remove"] /\ running' = running
      /\ sent' \in {sent, Append(sent, running[w])}
  BY DEF SendFrame, Worker
<1> QED BY <1>1, <1>2, ExceptSeq DEF Busy

(* What a start() that fails changes: nothing but the socket and where the *)
(* main thread is.                                                         *)
LEMMA StartFailsFacts ==
  ASSUME StartFails
  PROVE  /\ UNCHANGED <<mRunning, published, poolExists, monitor, pool,
                        running, sent, mQueueNotEmpty, mTaskQueue, task,
                        mActiveTasks, stopRequested>>
         /\ pc' = "stopped" /\ socketOpen' \in {socketOpen, TRUE}
<1> QED BY DEF StartFails, Main, poolVars, queueVars

(* Every step keeps the types.                                             *)
LEMMA TypedNext ==
  ASSUME Typed, Next
  PROVE  Typed'
<1> USE DEF Typed, TypeOK, Enqueueing, Busy
<1>1. CASE StartFails
  <2>1. socketOpen' \in BOOLEAN
    BY <1>1, StartFailsFacts, Zenon
  <2>2. TypeOK'
    BY <1>1, <2>1, StartFailsFacts
  <2>3. /\ Len(running)' = Len(pool)'
        /\ Enqueueing' => (published \in Tasks)'
        /\ monitor' \in {"start", "pop"} => (task \in Tasks)'
        /\ \A w \in 1..Len(pool)' : Busy(w)' => (running[w] \in Tasks)'
    BY <1>1, StartFailsFacts
  <2> QED BY <2>2, <2>3
<1>2. CASE Broadcast
  BY <1>2, PoolAssumption
  DEF Broadcast, Main, EnqueueOrder, poolVars, queueVars, Tasks
<1>3. CASE Signal
  BY <1>3 DEF Signal, Main, StopOrder, poolVars, queueVars
<1>4. ASSUME NEW threadCount \in 1..MaxThreads, Start(threadCount)
      PROVE  Typed'
  <2>1. /\ pool' \in Seq({"idle", "send", "remove"})
        /\ running' \in Seq(Tasks \cup {NoTask})
        /\ Len(running') = Len(pool')
        /\ \A w \in 1..Len(pool') : pool'[w] = "idle"
    BY <1>4, PoolAssumption DEF Start
  <2> QED BY <1>4, <2>1 DEF Start, Main, queueVars
<1>5. CASE InsertTask
  BY <1>5 DEF InsertTask, Main, AfterSection, EnqueueOrder, poolVars,
     queueVars, serverVars
<1>6. CASE PushTask
  <2>1. mTaskQueue' \in Seq(Tasks)
    BY <1>6 DEF PushTask, Main
  <2> QED BY <1>6, <2>1 DEF PushTask, Main, AfterSection, EnqueueOrder,
          poolVars, serverVars
<1>7. CASE RequestStop
  BY <1>7 DEF RequestStop, Main, AfterWrite, StopOrder, serverVars, poolVars,
     queueVars
<1>8. CASE WakeMonitor
  BY <1>8 DEF WakeMonitor, Main, AfterWrite, StopOrder, serverVars, poolVars
<1>9. CASE JoinMonitor
  BY <1>9 DEF JoinMonitor, Main, serverVars, poolVars, queueVars
<1>10. CASE ClearQueue
  <2>1. <<>> \in Seq(Tasks)
    OBVIOUS
  <2> QED BY <1>10, <2>1 DEF ClearQueue, Main, serverVars, poolVars
<1>11. CASE JoinAll
  BY <1>11 DEF JoinAll, Main, poolVars, queueVars
<1>12. CASE CloseSocket
  BY <1>12 DEF CloseSocket, Main, poolVars, queueVars
<1>13. CASE TestStop
  BY <1>13 DEF TestStop, Monitor, serverVars, poolVars, queueVars
<1>14. CASE Wait
  BY <1>14 DEF Wait, Monitor, serverVars, poolVars, queueVars
<1>15. CASE FrontTask
  <2>1. mTaskQueue # <<>> => Head(mTaskQueue) \in Tasks
    OBVIOUS
  <2> QED BY <1>15, <2>1 DEF FrontTask, Monitor, serverVars, poolVars, queueVars
<1>16. CASE NoThreadAvailable
  BY <1>16 DEF NoThreadAvailable, Monitor, serverVars, poolVars, queueVars
<1>17. CASE PopTask
  <2>1. mTaskQueue' \in Seq(Tasks)
    BY <1>17 DEF PopTask, WithoutTask
  <2> QED BY <1>17, <2>1 DEF PopTask, Monitor, serverVars, poolVars
<1>18. CASE SetFlag
  BY <1>18 DEF SetFlag, MoreTasks, Monitor, serverVars, poolVars
<1>19. ASSUME NEW w \in Workers, StartTask(w)
       PROVE  Typed'
  <2>1. /\ pool' \in Seq({"idle", "send", "remove"})
        /\ running' \in Seq(Tasks \cup {NoTask})
        /\ Len(pool') = Len(pool) /\ Len(running') = Len(running)
        /\ \A v \in 1..Len(pool) :
             /\ v = w => running'[v] = task
             /\ v # w => pool'[v] = pool[v] /\ running'[v] = running[v]
    BY <1>19, StartedTask
  <2> QED BY <1>19, <2>1 DEF StartTask, Monitor, serverVars, queueVars
<1>20. ASSUME NEW w \in 1..MaxThreads, RemoveActiveTask(w)
       PROVE  Typed'
  <2>1. /\ pool' \in Seq({"idle", "send", "remove"})
        /\ running' \in Seq(Tasks \cup {NoTask})
        /\ Len(pool') = Len(pool) /\ Len(running') = Len(running)
        /\ \A v \in 1..Len(pool) :
             /\ v = w => pool'[v] = "idle"
             /\ v # w => pool'[v] = pool[v] /\ running'[v] = running[v]
    BY <1>20, RemovedTask
  <2> QED BY <1>20, <2>1 DEF RemoveActiveTask, Worker, serverVars,
          monitorVars, queueVars
<1>21. ASSUME NEW w \in 1..MaxThreads, NEW ok \in BOOLEAN, SendFrame(w, ok)
       PROVE  Typed'
  <2>1. /\ pool' \in Seq({"idle", "send", "remove"})
        /\ Len(pool') = Len(pool) /\ running[w] \in Tasks
        /\ \A v \in 1..Len(pool) : v # w => pool'[v] = pool[v]
    BY <1>21, SentFrame DEF SendFrame, Worker
  <2>2. sent' \in Seq(Tasks)
    BY <1>21, <2>1 DEF SendFrame
  <2> QED BY <1>21, <2>1, <2>2 DEF SendFrame, Worker, serverVars,
          monitorVars, queueVars
<1> QED BY NextCases, <1>1, <1>2, <1>3, <1>4, <1>5, <1>6, <1>7, <1>8, <1>9,
    <1>10, <1>11, <1>12, <1>13, <1>14, <1>15, <1>16, <1>17, <1>18, <1>19,
    <1>20, <1>21

(* The types are an invariant.                                             *)
LEMMA TypedInvariant == Spec => []Typed
<1>1. Typed /\ UNCHANGED vars => Typed'
  BY DEF Typed, TypeOK, Enqueueing, Busy, vars, serverVars, monitorVars,
     poolVars, queueVars
<1> QED BY <1>1, InitTyped, TypedNext, PTL DEF Spec

(* Every variable has its type: what is queued, run and sent are tasks of  *)
(* frames that were broadcast.                                             *)
THEOREM TypesHold == Spec => []TypeOK
BY TypedInvariant, PTL DEF Typed

-----------------------------------------------------------------------------
(* Every step keeps the order of start() and stop().                       *)
LEMMA StageNext ==
  ASSUME Typed, StageInv, Next
  PROVE  StageInv'
<1> USE DEF StageInv, NotStarted, Started, Stopping, IdleHoldsNothing,
            WorkersIdle, Workers
<1>0. DOMAIN pool = 1..Len(pool) /\ pool \in Seq({"idle", "send", "remove"})
  BY DEF Typed, TypeOK
<1>1. CASE StartFails
  BY <1>1 DEF StartFails, Main, poolVars, queueVars
<1>2. CASE Broadcast
  BY <1>2 DEF Broadcast, Main, EnqueueOrder, poolVars, queueVars
<1>3. CASE Signal
  BY <1>3 DEF Signal, Main, StopOrder, poolVars, queueVars
<1>4. ASSUME NEW threadCount \in 1..MaxThreads, Start(threadCount)
      PROVE  StageInv'
  <2>1. \A w \in DOMAIN pool' : pool'[w] = "idle" /\ running'[w] = NoTask
    BY <1>4 DEF Start
  <2> QED BY <1>4, <2>1 DEF Start, Main, PoolFound, queueVars
<1>5. CASE InsertTask
  BY <1>5 DEF InsertTask, Main, AfterSection, EnqueueOrder, poolVars,
     queueVars, serverVars
<1>6. CASE PushTask
  BY <1>6 DEF PushTask, Main, AfterSection, EnqueueOrder, poolVars, serverVars
<1>7. CASE RequestStop
  BY <1>7 DEF RequestStop, Main, AfterWrite, StopOrder, serverVars, poolVars,
     queueVars
<1>8. CASE WakeMonitor
  BY <1>8 DEF WakeMonitor, Main, AfterWrite, StopOrder, serverVars, poolVars
<1>9. CASE JoinMonitor
  BY <1>9 DEF JoinMonitor, Main, serverVars, poolVars, queueVars
<1>10. CASE ClearQueue
  BY <1>10 DEF ClearQueue, Main, serverVars, poolVars
<1>11. CASE JoinAll
  BY <1>11 DEF JoinAll, Main, poolVars, queueVars
<1>12. CASE CloseSocket
  BY <1>12 DEF CloseSocket, Main, poolVars, queueVars
<1>13. CASE TestStop
  BY <1>13 DEF TestStop, Monitor, serverVars, poolVars, queueVars
<1>14. CASE Wait
  BY <1>14 DEF Wait, Monitor, serverVars, poolVars, queueVars
<1>15. CASE FrontTask
  BY <1>15 DEF FrontTask, Monitor, serverVars, poolVars, queueVars
<1>16. CASE NoThreadAvailable
  BY <1>16 DEF NoThreadAvailable, Monitor, serverVars, poolVars, queueVars
<1>17. CASE PopTask
  BY <1>17 DEF PopTask, WithoutTask, Monitor, serverVars, poolVars
<1>18. CASE SetFlag
  BY <1>18 DEF SetFlag, Monitor, serverVars, poolVars
<1>19. ASSUME NEW w \in Workers, StartTask(w)
       PROVE  StageInv'
  <2>1. DOMAIN pool' = 1..Len(pool) /\ monitor = "start" /\ monitor' = "pop"
        /\ UNCHANGED <<pc, serverVars, mTaskQueue, sent>>
    BY <1>19, StartedTask DEF StartTask, Monitor, queueVars
  <2> QED BY <1>0, <1>19, <2>1, StartedTask DEF serverVars
<1>20. ASSUME NEW w \in 1..MaxThreads, RemoveActiveTask(w)
       PROVE  StageInv'
  <2>1. DOMAIN pool' = 1..Len(pool)
        /\ UNCHANGED <<pc, serverVars, monitor, mTaskQueue, sent>>
    BY <1>20, RemovedTask DEF RemoveActiveTask, Worker, monitorVars, queueVars
  <2>2. pool # <<>>
    BY <1>20, RemovedTask
  <2> QED BY <1>0, <1>20, <2>1, <2>2, RemovedTask DEF serverVars
<1>21. ASSUME NEW w \in 1..MaxThreads, NEW ok \in BOOLEAN, SendFrame(w, ok)
       PROVE  StageInv'
  <2>1. DOMAIN pool' = 1..Len(pool)
        /\ UNCHANGED <<pc, serverVars, monitor, mTaskQueue>>
    BY <1>21, SentFrame DEF SendFrame, Worker, monitorVars, queueVars
  <2>2. pool # <<>>
    BY <1>21, SentFrame
  <2> QED BY <1>0, <1>21, <2>1, <2>2, SentFrame DEF serverVars
<1> QED BY NextCases, <1>1, <1>2, <1>3, <1>4, <1>5, <1>6, <1>7, <1>8, <1>9,
    <1>10, <1>11, <1>12, <1>13, <1>14, <1>15, <1>16, <1>17, <1>18, <1>19,
    <1>20, <1>21

(* StageInv, on the order of start() and stop(), holds always.             *)
LEMMA StageInvariant == Spec => []StageInv
<1>1. Init => StageInv
  BY DEF Init, StageInv, NotStarted, Started, Stopping, IdleHoldsNothing,
     WorkersIdle, Workers
<1>2. StageInv /\ UNCHANGED vars => StageInv'
  BY DEF StageInv, NotStarted, Started, Stopping, IdleHoldsNothing,
     WorkersIdle, Workers, vars, serverVars, monitorVars, poolVars, queueVars
<1> QED BY <1>1, <1>2, TypedInvariant, StageNext, PTL DEF Spec

(* When stop() closes the socket, and ever after, the monitor has left, no *)
(* task is queued and no worker holds one.                                 *)
THEOREM StopWaitsForAll == Spec => []PoolOutlivesTasks
<1>1. StageInv => PoolOutlivesTasks
  BY DEF StageInv, NotStarted, Stopping, IdleHoldsNothing, PoolOutlivesTasks,
     WorkersIdle, Workers
<1> QED BY <1>1, StageInvariant, PTL

(* A server that runs has the ThreadPoolManager that broadcastData() takes *)
(* without a test, and its monitor.                                        *)
THEOREM BroadcastFindsPool == Spec => []RunningHasPool
<1>1. StageInv => RunningHasPool
  BY DEF StageInv, Started, RunningHasPool
<1> QED BY <1>1, StageInvariant, PTL

-----------------------------------------------------------------------------
(* A step that touches neither the queue nor the tasks in hand.            *)
LEMMA AsideKeepsTasks ==
  ASSUME TaskInv,
         UNCHANGED <<published, task, poolVars, mTaskQueue, mActiveTasks,
                     sent>>,
         Enqueueing' => Enqueueing, pc' = "push" => pc = "push",
         monitor' \in {"start", "pop"} => monitor' = monitor,
         monitor = "pop" => monitor' = "pop"
  PROVE  TaskInv'
BY DEF TaskInv, QueueInv, OwnedInv, RunInv, SentInv, SentOnce, Enqueued,
   Waiting, Busy, poolVars

(* Every step keeps the tasks in their order and in one place.             *)
LEMMA TaskNext ==
  ASSUME Typed, StageInv, TaskInv, Next
  PROVE  TaskInv'
<1>0. /\ published \in Nat /\ mTaskQueue \in Seq(Tasks)
      /\ \A i \in 1..Len(mTaskQueue) : mTaskQueue[i] \in Nat
      /\ pool \in Seq({"idle", "send", "remove"})
      /\ sent \in Seq(Tasks) /\ running \in Seq(Tasks \cup {NoTask})
      /\ \A k \in 1..Len(sent) : sent[k] \in Nat
      /\ \A w \in 1..Len(pool) : Busy(w) => running[w] \in Nat
      /\ Len(mTaskQueue) \in Nat /\ Len(pool) \in Nat /\ Len(sent) \in Nat
  <2>1. \A w \in 1..Len(pool) : Busy(w) => running[w] \in Tasks
    BY DEF Typed
  <2>2. /\ published \in Nat /\ mTaskQueue \in Seq(Tasks)
        /\ pool \in Seq({"idle", "send", "remove"})
        /\ sent \in Seq(Tasks) /\ running \in Seq(Tasks \cup {NoTask})
    BY DEF Typed, TypeOK
  <2>3. Tasks \subseteq Nat
    BY DEF Tasks
  <2>4. /\ Len(mTaskQueue) \in Nat
        /\ \A i \in 1..Len(mTaskQueue) : mTaskQueue[i] \in Tasks
    BY <2>2, ElementOfSeq, LenProperties
  <2>5. Len(sent) \in Nat /\ \A k \in 1..Len(sent) : sent[k] \in Tasks
    BY <2>2, ElementOfSeq, LenProperties
  <2>6. Len(pool) \in Nat
    BY <2>2, LenProperties
  <2> QED BY <2>1, <2>2, <2>3, <2>4, <2>5, <2>6
<1>1. CASE StartFails
  BY <1>1, AsideKeepsTasks DEF StartFails, Main, poolVars, queueVars, Enqueueing
<1>2. CASE Broadcast
  <2>1. UNCHANGED <<monitor, poolVars, mTaskQueue, mActiveTasks, sent, task>>
        /\ pc = "running" /\ pc' = "insert" /\ published' = published + 1
    BY <1>2 DEF Broadcast, Main, EnqueueOrder, queueVars
  <2>2. \A f \in Nat : Enqueued(f) => Enqueued(f)'
    BY <1>0, <2>1 DEF Enqueued, Enqueueing
  <2> QED BY <1>0, <2>1, <2>2 DEF TaskInv, QueueInv, OwnedInv, RunInv, SentInv,
          SentOnce, Waiting, Busy, poolVars
<1>3. CASE Signal
  BY <1>3, AsideKeepsTasks
  DEF Signal, Main, StopOrder, poolVars, queueVars, Enqueueing
<1>4. ASSUME NEW threadCount \in 1..MaxThreads, Start(threadCount)
      PROVE  TaskInv'
  <2>1. mTaskQueue = <<>> /\ sent = <<>>
    BY <1>4 DEF Start, Main, PoolFound, StageInv, NotStarted
  <2>2. UNCHANGED <<mTaskQueue, mActiveTasks, sent>>
        /\ monitor' = "test" /\ pc' = "running"
    BY <1>4 DEF Start, Main, queueVars
  <2>3. pool' \in Seq({"idle"})
        /\ \A w \in 1..Len(pool') : pool'[w] = "idle"
    BY <1>4, PoolAssumption DEF Start
  <2>4. Len(mTaskQueue) = 0 /\ Len(sent) = 0 /\ DOMAIN sent = {}
    BY <2>1
  <2> QED BY <2>1, <2>2, <2>3, <2>4 DEF TaskInv, QueueInv, OwnedInv, RunInv,
          SentInv, SentOnce, Busy
<1>5. CASE InsertTask
  <2>1. UNCHANGED <<published, monitor, poolVars, mTaskQueue, sent, task>>
        /\ pc = "insert" /\ pc' = "push"
        /\ mActiveTasks' = mActiveTasks \cup {published}
    BY <1>5 DEF InsertTask, Main, AfterSection, EnqueueOrder, queueVars,
       serverVars
  <2> QED BY <2>1 DEF TaskInv, QueueInv, OwnedInv, RunInv, SentInv, SentOnce,
          Enqueued, Enqueueing, Waiting, Busy, poolVars
<1>6. CASE PushTask
  <2>1. UNCHANGED <<published, monitor, poolVars, mActiveTasks, sent, task>>
        /\ pc = "push" /\ pc' = "running"
        /\ mTaskQueue' = Append(mTaskQueue, published)
    BY <1>6 DEF PushTask, Main, AfterSection, EnqueueOrder, serverVars
  <2>2. /\ Len(mTaskQueue') = Len(mTaskQueue) + 1
        /\ mTaskQueue'[Len(mTaskQueue) + 1] = published
        /\ \A i \in 1..Len(mTaskQueue) : mTaskQueue'[i] = mTaskQueue[i]
    BY <1>0, <2>1
  <2>3. \A f \in Nat : Enqueued(f) => f < published /\ Enqueued(f)'
    BY <1>0, <2>1 DEF Enqueued, Enqueueing
  <2>4. \A i \in 1..Len(mTaskQueue) : mTaskQueue'[i] < published
    BY <1>0, <2>2, <2>3 DEF TaskInv, QueueInv
  <2>5. QueueInv'
    <3>1. \A i \in 1..Len(mTaskQueue') : Enqueued(mTaskQueue[i])'
      BY <1>0, <2>1, <2>2, <2>3 DEF TaskInv, QueueInv, Enqueued, Enqueueing
    <3>2. monitor' \in {"start", "pop"} =>
            mTaskQueue' # <<>> /\ task' = mTaskQueue'[1]
      BY SMTT(60), <1>0, <2>1, <2>2 DEF TaskInv, QueueInv
    <3>3. \A i, j \in 1..Len(mTaskQueue') :
            i < j => mTaskQueue'[i] < mTaskQueue'[j]
      <4> SUFFICES ASSUME NEW i \in 1..Len(mTaskQueue'),
                          NEW j \in 1..Len(mTaskQueue'), i < j
                   PROVE  mTaskQueue'[i] < mTaskQueue'[j]
        OBVIOUS
      <4>1. i \in 1..Len(mTaskQueue)
        BY <1>0, <2>2
      <4>2. CASE j = Len(mTaskQueue) + 1
        BY <2>2, <2>4, <4>1, <4>2
      <4>3. CASE j \in 1..Len(mTaskQueue)
        BY <2>2, <4>1, <4>3 DEF TaskInv, QueueInv
      <4>4. j = Len(mTaskQueue) + 1 \/ j \in 1..Len(mTaskQueue)
        BY <1>0, <2>2
      <4> QED BY <4>2, <4>3, <4>4
    <3> QED BY <3>1, <3>2, <3>3 DEF QueueInv
  <2>6. OwnedInv'
    BY <1>0, <2>1, <2>2 DEF TaskInv, OwnedInv, Waiting, Busy, poolVars
  <2>7. RunInv'
    <3>1. \A w \in 1..Len(pool) : Busy(w) => running[w] < published
      BY <1>0, <2>3 DEF TaskInv, RunInv
    <3> QED BY <1>0, <2>1, <2>2, <2>3, <3>1
            DEF TaskInv, RunInv, Waiting, Busy, poolVars
  <2>8. SentInv'
    <3>1. \A k \in 1..Len(sent) : sent[k] < published
      BY <1>0, <2>3 DEF TaskInv, SentInv
    <3> QED BY <1>0, <2>1, <2>2, <2>3, <3>1
            DEF TaskInv, SentInv, SentOnce, Waiting, poolVars
  <2> QED BY <2>5, <2>6, <2>7, <2>8 DEF TaskInv
<1>7. CASE RequestStop
  BY <1>7, AsideKeepsTasks DEF RequestStop, Main, AfterWrite, StopOrder,
     serverVars, poolVars, queueVars, Enqueueing
<1>8. CASE WakeMonitor
  BY <1>8, AsideKeepsTasks DEF WakeMonitor, Main, AfterWrite, StopOrder,
     serverVars, poolVars, Enqueueing
<1>9. CASE JoinMonitor
  BY <1>9, AsideKeepsTasks
  DEF JoinMonitor, Main, serverVars, poolVars, queueVars, Enqueueing
<1>10. CASE ClearQueue
  <2>1. UNCHANGED <<published, monitor, poolVars, mActiveTasks, sent>>
        /\ pc' = "joinAll" /\ ~Enqueueing /\ monitor = "exited"
        /\ mTaskQueue' = <<>>
    BY <1>10 DEF ClearQueue, Main, serverVars, Enqueueing, StageInv, Stopping
  <2>2. Len(mTaskQueue') = 0
    BY <2>1
  <2> QED BY <2>1, <2>2 DEF TaskInv, QueueInv, OwnedInv, RunInv, SentInv,
          SentOnce, Enqueued, Enqueueing, Waiting, Busy, poolVars
<1>11. CASE JoinAll
  <2>1. UNCHANGED <<published, monitor, poolVars, mTaskQueue, sent, task>>
        /\ pc = "joinAll" /\ pc' = "close"
        /\ mTaskQueue = <<>> /\ monitor = "exited"
    BY <1>11 DEF JoinAll, Main, queueVars, StageInv, Stopping
  <2>2. \A w \in 1..Len(pool) : ~Busy(w)
    BY <1>0, <1>11 DEF JoinAll, WorkersIdle, Workers, Busy
  <2>3. Len(mTaskQueue) = 0
    BY <2>1
  <2> QED BY <2>1, <2>2, <2>3 DEF TaskInv, QueueInv, OwnedInv, RunInv, SentInv,
          SentOnce, Enqueued, Enqueueing, Waiting, Busy, poolVars
<1>12. CASE CloseSocket
  BY <1>12, AsideKeepsTasks
  DEF CloseSocket, Main, poolVars, queueVars, Enqueueing
<1>13. CASE TestStop
  BY <1>13, AsideKeepsTasks
  DEF TestStop, Monitor, serverVars, poolVars, queueVars, Enqueueing
<1>14. CASE Wait
  BY <1>14, AsideKeepsTasks
  DEF Wait, Monitor, serverVars, poolVars, queueVars, Enqueueing
<1>15. CASE FrontTask
  <2>1. UNCHANGED <<published, pc, poolVars, mTaskQueue, mActiveTasks, sent>>
        /\ monitor = "front"
    BY <1>15 DEF FrontTask, Monitor, serverVars, queueVars
  <2>2. \/ mTaskQueue = <<>> /\ monitor' = "setFlag"
        \/ mTaskQueue # <<>> /\ monitor' = "start" /\ task' = mTaskQueue[1]
    BY <1>0, <1>15 DEF FrontTask, Monitor
  <2> QED BY <2>1, <2>2 DEF TaskInv, QueueInv, OwnedInv, RunInv, SentInv,
          SentOnce, Enqueued, Enqueueing, Waiting, Busy, poolVars
<1>16. CASE NoThreadAvailable
  BY <1>16, AsideKeepsTasks
  DEF NoThreadAvailable, Monitor, serverVars, poolVars, queueVars, Enqueueing
<1>17. CASE PopTask
  <2>1. UNCHANGED <<published, pc, poolVars, mActiveTasks, sent>>
        /\ monitor = "pop" /\ monitor' = "setFlag"
    BY <1>17 DEF PopTask, Monitor, serverVars
  <2>2. mTaskQueue # <<>> /\ mTaskQueue' = Tail(mTaskQueue)
    BY <1>0, <1>17, <2>1 DEF PopTask, WithoutTask, TaskInv, QueueInv
  <2>3. /\ Len(mTaskQueue') = Len(mTaskQueue) - 1
        /\ \A i \in 1..Len(mTaskQueue') :
             /\ mTaskQueue'[i] = mTaskQueue[i + 1]
             /\ i + 1 \in 1..Len(mTaskQueue) /\ Waiting(i + 1)
    BY <1>0, <2>2 DEF Waiting
  <2>4. QueueInv'
    <3>1. \A i, j \in 1..Len(mTaskQueue') :
            i < j => mTaskQueue'[i] < mTaskQueue'[j]
      <4> SUFFICES ASSUME NEW i \in 1..Len(mTaskQueue'),
                          NEW j \in 1..Len(mTaskQueue'), i < j
                   PROVE  mTaskQueue[i + 1] < mTaskQueue[j + 1]
        BY <2>3
      <4>1. i + 1 \in 1..Len(mTaskQueue) /\ j + 1 \in 1..Len(mTaskQueue)
            /\ i + 1 < j + 1
        BY <1>0, <2>3
      <4> QED BY <4>1 DEF TaskInv, QueueInv
    <3>2. \A i \in 1..Len(mTaskQueue') : Enqueued(mTaskQueue[i])'
      BY <2>1, <2>3 DEF TaskInv, QueueInv, Enqueued, Enqueueing
    <3> QED BY <2>1, <3>1, <3>2 DEF QueueInv
  <2>5. OwnedInv'
    BY <1>0, <2>1, <2>3 DEF TaskInv, OwnedInv, Busy, poolVars
  <2>6. RunInv'
    BY <1>0, <2>1, <2>3
    DEF TaskInv, RunInv, Busy, Enqueued, Enqueueing, poolVars
  <2>7. SentInv'
    BY <1>0, <2>1, <2>3
    DEF TaskInv, SentInv, SentOnce, Enqueued, Enqueueing, poolVars
  <2> QED BY <2>4, <2>5, <2>6, <2>7 DEF TaskInv
<1>18. CASE SetFlag
  <2>1. UNCHANGED <<published, pc, poolVars, mTaskQueue, mActiveTasks, sent>>
        /\ monitor = "setFlag" /\ monitor' = "test"
    BY <1>18 DEF SetFlag, Monitor, serverVars
  <2> QED BY <2>1 DEF TaskInv, QueueInv, OwnedInv, RunInv, SentInv,
          SentOnce, Enqueued, Enqueueing, Waiting, Busy, poolVars
<1>19. ASSUME NEW w \in Workers, StartTask(w)
       PROVE  TaskInv'
  <2>1. UNCHANGED <<published, pc, mTaskQueue, mActiveTasks, sent, task>>
        /\ monitor = "start" /\ monitor' = "pop"
    BY <1>19 DEF StartTask, Monitor, serverVars, queueVars
  <2>2. mTaskQueue # <<>> /\ task = mTaskQueue[1] /\ 1 \in 1..Len(mTaskQueue)
        /\ Waiting(1)
    BY <1>0, <2>1 DEF TaskInv, QueueInv, Waiting
  <2>3. QueueInv'
    BY <2>1, <2>2 DEF TaskInv, QueueInv, Enqueued, Enqueueing
  <2>4. OwnedInv'
    BY <1>19, <2>1, <2>2, StartedTask DEF TaskInv, OwnedInv, Waiting, Busy
  <2>5. RunInv'
    <3>1. \A i \in 1..Len(mTaskQueue) : i # 1 => mTaskQueue[1] < mTaskQueue[i]
      BY <1>0, <2>2 DEF TaskInv, QueueInv
    <3>2. \A v \in 1..Len(pool) : Busy(v) => running[v] < mTaskQueue[1]
      BY <2>2 DEF TaskInv, RunInv
    <3>3. \A v \in 1..Len(pool) : v # w => (Busy(v)' <=> Busy(v))
      BY <1>19, StartedTask DEF Busy
    <3>4. \A v \in 1..Len(pool') : Busy(v)' =>
             /\ Enqueued(running[v])'
             /\ \A i \in 1..Len(mTaskQueue) :
                  Waiting(i)' => running'[v] < mTaskQueue[i]
      BY <1>19, <2>1, <2>2, <3>1, <3>3, StartedTask
      DEF TaskInv, QueueInv, RunInv, Waiting, Enqueued, Enqueueing
    <3>5. \A u, v \in 1..Len(pool') :
             Busy(u)' /\ Busy(v)' /\ running'[u] = running'[v] => u = v
      <4> SUFFICES ASSUME NEW u \in 1..Len(pool), NEW v \in 1..Len(pool),
                          Busy(u)', Busy(v)', running'[u] = running'[v]
                   PROVE  u = v
        BY <1>19, StartedTask
      <4>1. CASE u # w /\ v # w
        BY <1>19, <3>3, <4>1, StartedTask DEF TaskInv, RunInv
      <4>2. CASE u = w /\ v # w
        BY <1>0, <1>19, <2>2, <3>2, <3>3, <4>2, StartedTask
      <4>3. CASE u # w /\ v = w
        BY <1>0, <1>19, <2>2, <3>2, <3>3, <4>3, StartedTask
      <4> QED BY <4>1, <4>2, <4>3
    <3> QED BY <2>1, <3>4, <3>5 DEF RunInv
  <2>6. SentInv'
    <3>1. \A k \in 1..Len(sent) : sent[k] < mTaskQueue[1]
      BY <2>2 DEF TaskInv, SentInv
    <3>2. \A k \in 1..Len(sent) : sent[k] # task
      BY <1>0, <2>2, <3>1
    <3> QED BY <1>19, <2>1, <3>2, StartedTask
            DEF TaskInv, SentInv, SentOnce, Waiting, Enqueued, Enqueueing
  <2> QED BY <2>3, <2>4, <2>5, <2>6 DEF TaskInv
<1>20. ASSUME NEW w \in 1..MaxThreads, RemoveActiveTask(w)
       PROVE  TaskInv'
  <2>1. UNCHANGED <<published, pc, monitor, task, mTaskQueue, sent>>
        /\ mActiveTasks' = mActiveTasks \ {running[w]}
    BY <1>20 DEF RemoveActiveTask, Worker, serverVars, monitorVars, queueVars
  <2>2. \A v \in 1..Len(pool) : Busy(v)' => Busy(v) /\ v # w
    BY <1>20, RemovedTask DEF Busy
  <2>3. Busy(w) /\ w \in 1..Len(pool)
    BY <1>20, RemovedTask DEF Busy
  <2>4. QueueInv'
    BY <2>1 DEF TaskInv, QueueInv, Enqueued, Enqueueing
  <2>5. OwnedInv'
    <3>1. pc' = "push" => published \in mActiveTasks'
      BY <1>0, <2>1, <2>3
      DEF TaskInv, OwnedInv, RunInv, Enqueued, Enqueueing
    <3>2. \A i \in 1..Len(mTaskQueue) :
             Waiting(i)' => mTaskQueue[i] \in mActiveTasks'
      BY <1>0, <2>1, <2>3 DEF TaskInv, OwnedInv, RunInv, Waiting
    <3>3. \A v \in 1..Len(pool) : Busy(v)' => running'[v] \in mActiveTasks'
      BY <1>20, <2>1, <2>2, <2>3, RemovedTask DEF TaskInv, OwnedInv, RunInv
    <3> QED BY <1>20, <2>1, <3>1, <3>2, <3>3, RemovedTask DEF OwnedInv
  <2>6. RunInv'
    BY SMTT(60), <1>20, <2>1, <2>2, RemovedTask
    DEF TaskInv, RunInv, Waiting, Enqueued, Enqueueing
  <2>7. SentInv'
    BY SMTT(60), <1>20, <2>1, <2>2, RemovedTask
    DEF TaskInv, SentInv, SentOnce, Busy, Waiting, Enqueued, Enqueueing
  <2> QED BY <2>4, <2>5, <2>6, <2>7 DEF TaskInv
<1>21. ASSUME NEW w \in 1..MaxThreads, NEW ok \in BOOLEAN, SendFrame(w, ok)
       PROVE  TaskInv'
  <2>1. UNCHANGED <<published, pc, monitor, task, mTaskQueue, mActiveTasks>>
    BY <1>21 DEF SendFrame, Worker, serverVars, monitorVars, queueVars
  <2>2. /\ \A v \in 1..Len(pool) : Busy(v)' <=> Busy(v)
        /\ \A v \in 1..Len(pool) :
             pool'[v] = "send" => pool[v] = "send" /\ v # w
        /\ Busy(w) /\ pool[w] = "send" /\ w \in 1..Len(pool)
        /\ Len(pool') = Len(pool) /\ running' = running
    BY <1>21, SentFrame DEF Busy
  <2>3. QueueInv' /\ OwnedInv' /\ RunInv'
    BY <2>1, <2>2
    DEF TaskInv, QueueInv, OwnedInv, RunInv, Waiting, Enqueued, Enqueueing
  <2>4. SentInv'
    <3>1. CASE sent' = sent
      BY <2>1, <2>2, <3>1
      DEF TaskInv, SentInv, SentOnce, Waiting, Enqueued, Enqueueing
    <3>2. CASE sent' = Append(sent, running[w])
      <4> DEFINE n == Len(sent) + 1
      <4>1. /\ Len(sent') = n /\ DOMAIN sent' = 1..n
            /\ DOMAIN sent = 1..Len(sent)
            /\ sent'[n] = running[w]
            /\ \A k \in 1..Len(sent) : sent'[k] = sent[k]
        BY <1>0, <3>2
      <4>2. \A k \in 1..Len(sent) : sent[k] # running[w]
        BY <2>2 DEF TaskInv, SentInv
      <4>3. SentOnce'
        BY SMTT(60), <1>0, <4>1, <4>2 DEF TaskInv, SentInv, SentOnce
      <4>4. \A v \in 1..Len(pool) : pool'[v] = "send" =>
              running[v] # running[w]
        BY <2>2 DEF TaskInv, RunInv, Busy
      <4>5. \A k \in 1..n :
              /\ Enqueued(sent'[k])
              /\ \A i \in 1..Len(mTaskQueue) :
                   Waiting(i) => sent'[k] < mTaskQueue[i]
              /\ \A v \in 1..Len(pool) :
                   pool'[v] = "send" => sent'[k] # running[v]
        <5>1. \A k \in 1..n : k \in 1..Len(sent) \/ k = n
          BY <1>0
        <5>2. \A k \in 1..Len(sent) :
                /\ Enqueued(sent[k])
                /\ \A i \in 1..Len(mTaskQueue) :
                     Waiting(i) => sent[k] < mTaskQueue[i]
                /\ \A v \in 1..Len(pool) :
                     pool'[v] = "send" => sent[k] # running[v]
          BY <2>2 DEF TaskInv, SentInv
        <5>3. /\ Enqueued(running[w])
              /\ \A i \in 1..Len(mTaskQueue) :
                   Waiting(i) => running[w] < mTaskQueue[i]
              /\ \A v \in 1..Len(pool) :
                   pool'[v] = "send" => running[w] # running[v]
          BY <2>2, <4>4 DEF TaskInv, RunInv
        <5> QED BY <4>1, <5>1, <5>2, <5>3
      <4>6. \A k \in 1..n : Enqueued(sent[k])'
        BY <2>1, <4>5 DEF Enqueued, Enqueueing
      <4>7. \A i : Waiting(i)' <=> Waiting(i)
        BY <2>1 DEF Waiting
      <4> QED BY <2>1, <2>2, <4>1, <4>3, <4>5, <4>6, <4>7 DEF SentInv
    <3> QED BY <1>21, <3>1, <3>2, SentFrame
  <2> QED BY <2>3, <2>4 DEF TaskInv
<1> QED BY NextCases, <1>1, <1>2, <1>3, <1>4, <1>5, <1>6, <1>7, <1>8, <1>9,
    <1>10, <1>11, <1>12, <1>13, <1>14, <1>15, <1>16, <1>17, <1>18, <1>19,
    <1>20, <1>21

(* TaskInv, on where a broadcast frame's task is, holds always.            *)
LEMMA TaskInvariant == Spec => []TaskInv
<1>1. Init => TaskInv
  <2> SUFFICES ASSUME Init PROVE TaskInv
    OBVIOUS
  <2>1. mTaskQueue = <<>> /\ pool = <<>> /\ sent = <<>>
        /\ monitor = "none" /\ pc = "stopped"
    BY DEF Init
  <2>2. Len(mTaskQueue) = 0 /\ Len(pool) = 0 /\ Len(sent) = 0
        /\ DOMAIN sent = {}
    BY <2>1
  <2> QED BY <2>1, <2>2 DEF TaskInv, QueueInv, OwnedInv, RunInv, SentInv,
          SentOnce, Enqueueing
<1>2. TaskInv /\ UNCHANGED vars => TaskInv'
  BY DEF TaskInv, QueueInv, OwnedInv, RunInv, SentInv, SentOnce, Enqueued,
     Enqueueing, Waiting, Busy, vars, serverVars, monitorVars, poolVars,
     queueVars
<1> QED BY <1>1, <1>2, TypedInvariant, StageInvariant, TaskNext, PTL DEF Spec

(* The task a worker holds a reference to is in mActiveTasks, which owns   *)
(* it, until the worker has left run().                                    *)
THEOREM TaskOutlivesRun == Spec => []RunningIsActive
<1>1. Typed /\ TaskInv => RunningIsActive
  BY DEF Typed, TypeOK, TaskInv, OwnedInv, Busy, RunningIsActive, Workers
<1> QED BY <1>1, TypedInvariant, TaskInvariant, PTL

(* No frame is sent twice, though the task of a frame is still in the      *)
(* queue while the monitor starts it.                                      *)
THEOREM FrameLeavesOnce == Spec => []SentOnce
<1>1. TaskInv => SentOnce
  BY DEF TaskInv, SentInv
<1> QED BY <1>1, TaskInvariant, PTL

-----------------------------------------------------------------------------
(* The steps that neither broadcast, start, nor send: the size of the pool *)
(* and what the viewer was shown stay as they are, and no worker begins to *)
(* send.                                                                   *)
Aside ==
  /\ UNCHANGED <<published, sent>> /\ Len(pool') = Len(pool)
  /\ \A w \in 1..Len(pool) :
       pool'[w] = "send" => pool[w] = "send" /\ running'[w] = running[w]

(* The steps of the server as the viewer's stream sees them.               *)
LEMMA StreamCases ==
  ASSUME Typed, Next
  PROVE  \/ Aside
         \/ Broadcast
         \/ \E threadCount \in 1..MaxThreads : Start(threadCount)
         \/ \E w \in Workers : StartTask(w)
         \/ \E w \in 1..MaxThreads, ok \in BOOLEAN : SendFrame(w, ok)
<1>1. UNCHANGED <<published, sent, pool, running>> => Aside
  BY DEF Aside
<1>2. StartFails \/ Signal => Aside
  BY <1>1 DEF StartFails, Signal, Main, poolVars
<1>3. InsertTask \/ PushTask => Aside
  BY <1>1 DEF InsertTask, PushTask, Main, serverVars, poolVars
<1>4. RequestStop \/ WakeMonitor \/ JoinMonitor \/ ClearQueue => Aside
  BY <1>1 DEF RequestStop, WakeMonitor, JoinMonitor, ClearQueue, Main,
     serverVars, poolVars
<1>5. JoinAll \/ CloseSocket => Aside
  BY <1>1 DEF JoinAll, CloseSocket, Main, poolVars
<1>6. TestStop \/ Wait \/ FrontTask => Aside
  BY <1>1 DEF TestStop, Wait, FrontTask, Monitor, serverVars, poolVars
<1>7. NoThreadAvailable \/ PopTask \/ SetFlag => Aside
  BY <1>1 DEF NoThreadAvailable, PopTask, SetFlag, Monitor, serverVars, poolVars
<1>8. ASSUME NEW w \in 1..MaxThreads, RemoveActiveTask(w)
      PROVE  Aside
  <2>1. UNCHANGED <<published, sent>>
    BY <1>8 DEF RemoveActiveTask, Worker, serverVars
  <2> QED BY <1>8, <2>1, RemovedTask DEF Aside
<1> QED BY NextCases, <1>2, <1>3, <1>4, <1>5, <1>6, <1>7, <1>8

(* Appending the newest keeps a sequence of frames in order.               *)
LEMMA AppendNewest ==
  ASSUME NEW s \in Seq(Tasks), NEW f \in Tasks,
         \A i, j \in 1..Len(s) : i < j => s[i] < s[j],
         \A i \in 1..Len(s) : s[i] < f
  PROVE  \A i, j \in 1..Len(Append(s, f)) :
           i < j => Append(s, f)[i] < Append(s, f)[j]
<1> DEFINE r == Append(s, f)
<1>1. /\ Len(s) \in Nat /\ Len(r) = Len(s) + 1 /\ r[Len(s) + 1] = f
      /\ \A i \in 1..Len(s) : r[i] = s[i]
  BY AppendProperties, LenProperties
<1> SUFFICES ASSUME NEW i \in 1..Len(r), NEW j \in 1..Len(r), i < j
             PROVE  r[i] < r[j]
  OBVIOUS
<1>2. i \in 1..Len(s) /\ (j = Len(s) + 1 \/ j \in 1..Len(s))
  BY <1>1
<1> QED BY <1>1, <1>2

(* Every step keeps the order in which a single worker sends.              *)
LEMMA OrderNext ==
  ASSUME Typed, StageInv, TaskInv, OrderInv, Next
  PROVE  OrderInv'
<1> SUFFICES ASSUME Len(pool') = 1
             PROVE  /\ \A i, j \in 1..Len(sent') : i < j => sent'[i] < sent'[j]
                    /\ pool'[1] = "send" =>
                         \A i \in 1..Len(sent') : sent'[i] < running'[1]
  BY DEF OrderInv
<1>1. CASE Aside
  <2>0. sent' = sent /\ Len(pool) = 1
    BY <1>1, Zenon DEF Aside
  <2>1. sent' = sent /\ Len(pool) = 1 /\ 1 \in 1..Len(pool)
    BY <2>0
  <2>2. pool'[1] = "send" => pool[1] = "send" /\ running'[1] = running[1]
    BY <1>1, <2>1 DEF Aside
  <2> QED BY <2>1, <2>2 DEF OrderInv
<1>2. CASE Broadcast
  BY <1>2 DEF Broadcast, Main, poolVars, OrderInv
<1>3. ASSUME NEW threadCount \in 1..MaxThreads, Start(threadCount)
      PROVE  Len(sent') = 0
  BY <1>3 DEF Start, Main, PoolFound, StageInv, NotStarted
<1>4. ASSUME NEW w \in Workers, StartTask(w)
      PROVE  OrderInv'
  <2>1. w = 1 /\ Len(pool) = 1 /\ running'[1] = task
    BY <1>4, StartedTask
  <2>2. sent' = sent /\ monitor = "start"
    BY <1>4 DEF StartTask, Monitor
  <2>3. task = mTaskQueue[1] /\ 1 \in 1..Len(mTaskQueue) /\ Waiting(1)
    <3>1. mTaskQueue \in Seq(Tasks) /\ mTaskQueue # <<>> /\ task = mTaskQueue[1]
      BY <2>2 DEF TaskInv, QueueInv, Typed, TypeOK
    <3>2. Len(mTaskQueue) \in Nat /\ Len(mTaskQueue) # 0
      BY <3>1
    <3> QED BY <2>2, <3>1, <3>2 DEF Waiting
  <2>4. \A i \in 1..Len(sent) : sent[i] < task
    BY <2>3 DEF TaskInv, SentInv
  <2> QED BY <2>1, <2>2, <2>4 DEF OrderInv
<1>5. ASSUME NEW w \in 1..MaxThreads, NEW ok \in BOOLEAN, SendFrame(w, ok)
      PROVE  OrderInv'
  <2>1. w = 1 /\ Len(pool) = 1 /\ pool[1] = "send" /\ pool'[1] = "remove"
        /\ sent' \in {sent, Append(sent, running[1])} /\ running[1] \in Tasks
    BY <1>5, SentFrame
  <2>2. sent \in Seq(Tasks)
    BY DEF Typed, TypeOK
  <2>3. \A i, j \in 1..Len(sent') : i < j => sent'[i] < sent'[j]
    BY <2>1, <2>2, AppendNewest DEF OrderInv
  <2> QED BY <2>1, <2>3 DEF OrderInv
<1> QED BY StreamCases, <1>1, <1>2, <1>3, <1>4, <1>5 DEF OrderInv

(* OrderInv, on the frames of a pool with one worker, holds always.        *)
LEMMA OrderInvariant == Spec => []OrderInv
<1>1. Init => OrderInv
  <2>1. Init => Len(pool) = 0
    BY DEF Init
  <2> QED BY <2>1 DEF OrderInv
<1>2. OrderInv /\ UNCHANGED vars => OrderInv'
  BY DEF OrderInv, vars, poolVars
<1> QED BY <1>1, <1>2, TypedInvariant, StageInvariant, TaskInvariant, OrderNext,
    PTL DEF Spec

(* Every step broadcasts the next frame, shows a newer one, or is none of  *)
(* the stream's.                                                           *)
LEMMA StreamStep ==
  ASSUME Typed, StageInv, TaskInv, OrderInv, Next
  PROVE  Stream!Next
         \/ UNCHANGED <<published, IF Len(pool) = 1 THEN sent ELSE <<>>>>
<1> DEFINE viewed == IF Len(pool) = 1 THEN sent ELSE <<>>
<1>1. CASE Aside
  BY <1>1 DEF Aside
<1>2. CASE Broadcast
  <2>1. UNCHANGED viewed
    BY <1>2 DEF Broadcast, Main, poolVars
  <2>2. published < MaxFrames /\ published' = published + 1
    BY <1>2 DEF Broadcast
  <2> QED BY <2>1, <2>2 DEF Stream!Next, Stream!Publish
<1>3. ASSUME NEW threadCount \in 1..MaxThreads, Start(threadCount)
      PROVE  UNCHANGED <<published, viewed>>
  BY <1>3 DEF Start, Main, PoolFound, StageInv, NotStarted
<1>4. ASSUME NEW w \in Workers, StartTask(w)
      PROVE  UNCHANGED <<published, viewed>>
  <2>1. UNCHANGED <<published, sent>> /\ Len(pool') = Len(pool)
    BY <1>4, StartedTask DEF StartTask, Monitor, serverVars
  <2> QED BY <2>1
<1>5. ASSUME NEW w \in 1..MaxThreads, NEW ok \in BOOLEAN, SendFrame(w, ok)
      PROVE  Stream!Next \/ UNCHANGED <<published, viewed>>
  <2>1. published' = published /\ Len(pool') = Len(pool)
        /\ sent' \in {sent, Append(sent, running[w])}
    BY <1>5, SentFrame DEF SendFrame, Worker, serverVars
  <2>2. CASE Len(pool) # 1 \/ sent' = sent
    BY <2>1, <2>2
  <2>3. CASE Len(pool) = 1 /\ sent' = Append(sent, running[w])
    <3>1. w = 1 /\ pool[1] = "send" /\ running[1] \in Tasks
      BY <1>5, <2>3, SentFrame
    <3>2. running[1] <= published
      BY <2>3, <3>1 DEF TaskInv, RunInv, Busy, Enqueued
    <3>3. Stream!Newest < running[1]
      <4>1. CASE sent = <<>>
        BY <2>3, <3>1, <4>1 DEF Stream!Newest, Tasks
      <4>2. CASE sent # <<>>
        <5>1. sent \in Seq(Tasks)
          BY DEF Typed, TypeOK
        <5>2. Len(sent) \in 1..Len(sent)
          BY <4>2, <5>1
        <5>3. Stream!Newest = sent[Len(sent)]
          BY <2>3, <4>2 DEF Stream!Newest
        <5> QED BY <2>3, <3>1, <5>2, <5>3 DEF OrderInv
      <4> QED BY <4>1, <4>2
    <3>4. Stream!Show(running[1])
      BY <2>1, <2>3, <3>1, <3>2, <3>3 DEF Stream!Show
    <3> QED BY <3>1, <3>4 DEF Stream!Next, Tasks
  <2> QED BY <2>1, <2>2, <2>3
<1> QED BY StreamCases, <1>1, <1>2, <1>3, <1>4, <1>5

(* With one worker, as in Server::Application, the server is a stream of   *)
(* frames: none is sent twice, and none after a newer one.                 *)
THEOREM OneWorkerStreams == Spec => StreamSpec
<1>1. Init => Stream!Init
  <2>1. Init => Len(pool) = 0
    BY DEF Init
  <2> QED BY <2>1 DEF Init, Stream!Init
<1>2. UNCHANGED vars =>
        UNCHANGED <<published, IF Len(pool) = 1 THEN sent ELSE <<>>>>
  BY DEF vars, serverVars, poolVars
<1> QED BY <1>1, <1>2, TypedInvariant, StageInvariant, TaskInvariant,
    OrderInvariant, StreamStep, PTL DEF Spec, StreamSpec, Stream!Spec
=============================================================================
