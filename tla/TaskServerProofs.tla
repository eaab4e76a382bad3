--------------------------- MODULE TaskServerProofs ---------------------------
(***************************************************************************)
(* Proofs about TaskServer, for every value of its constants that the      *)
(* theorems assume: its type, that a task is never re-entered, that the    *)
(* flag waiting is true of the queues, that the counters of the server     *)
(* account for every thread as long as no task yields, raises, or is       *)
(* spawned by a callback, that without yields and exceptions no thread is  *)
(* lost and the processors suffice for the running list, and that stages   *)
(* are issued in their order.                                              *)
(***************************************************************************)
EXTENDS TaskServer, FiniteSetTheorems, TLAPS

-------------------------------------------------------------------------------
(* Type correctness.                                                       *)

LEMMA NewFrameType ==
  ASSUME NEW T \in SUBSET Threads
  PROVE  NewFrame(T) \in Frames
  BY StagesAssumption DEF NewFrame, Frames, StageIds

LEMMA SetTopType ==
  ASSUME TypeOK, depth > 0, NEW f \in Frames, SetTop(f)
  PROVE  frame' \in [1 .. MaxDepth -> Frames]
  BY DepthAssumption DEF TypeOK, SetTop

LEMMA PopType ==
  ASSUME TypeOK, depth > 0, Pop
  PROVE  depth' \in 0 .. MaxDepth /\ frame' \in [1 .. MaxDepth -> Frames]
<1>1. NewFrame({}) \in Frames
  BY NewFrameType
<1>2. frame' \in [1 .. MaxDepth -> Frames]
  BY <1>1, SetTopType DEF Pop
<1>3. depth' \in 0 .. MaxDepth
  BY DepthAssumption DEF TypeOK, Pop
<1>. QED
  BY <1>2, <1>3

LEMMA TopType ==
  ASSUME TypeOK, depth > 0
  PROVE  depth \in 1 .. MaxDepth /\ Top \in Frames
  BY DepthAssumption DEF TypeOK, Top

LEMMA KillType ==
  ASSUME TypeOK, NEW T \in SUBSET Threads, Kill(T)
  PROVE  task' \in [Threads -> TaskStates]
  BY DEF TypeOK, Kill, TaskStates

\* The threads of the queues and of the running list are threads.
LEMMA QueuedType == Queued \in SUBSET Threads
  BY DEF Queued

\* Every reachable state of the server has its type.
THEOREM TypeCorrect == Spec => []TypeOK
<1>1. Init => TypeOK
  <2>. SUFFICES ASSUME Init PROVE TypeOK
    OBVIOUS
  <2>1. NewFrame({}) \in Frames
    BY NewFrameType
  <2>2. <<>> \in Seq(Threads)
    OBVIOUS
  <2>3. queue \in [StageIds -> Seq(Threads)]
    BY <2>2 DEF Init
  <2>4. depth \in 0 .. MaxDepth
    BY DepthAssumption DEF Init
  <2>. QED
    BY <2>1, <2>3, <2>4, DepthAssumption, ProcsAssumption DEF Init, TypeOK, TaskStates
<1>2. TypeOK /\ [Next]_vars => TypeOK'
  <2>. SUFFICES ASSUME TypeOK, [Next]_vars PROVE TypeOK'
    OBVIOUS
  <2>1. ASSUME NEW t \in Threads, NEW i \in StageIds, spawn(t, i) PROVE TypeOK'
    <3>1. queue' \in [StageIds -> Seq(Threads)]
      BY <2>1 DEF TypeOK, spawn
    <3>2. task' \in [Threads -> TaskStates]
      BY <2>1 DEF TypeOK, spawn, TaskStates
    <3>3. scheduled' \in Nat
      BY <2>1 DEF TypeOK, spawn
    <3>4. UNCHANGED <<lock, running, procs, launched, terminated, calls>>
      BY <2>1 DEF spawn
    <3>5. waiting' = FALSE
      BY <2>1 DEF spawn
    <3>. QED
      BY <3>1, <3>2, <3>3, <3>4, <3>5 DEF TypeOK, calls
  <2>2. CASE launch
    BY <2>2 DEF TypeOK, launch
  <2>3. ASSUME NEW p \in ProcsValues, set_procs(p) PROVE TypeOK'
    BY <2>3 DEF TypeOK, set_procs, calls
  <2>4. ASSUME NEW t \in Threads, cancel(t) PROVE TypeOK'
    <3>1. task' \in [Threads -> TaskStates]
      BY <2>4, KillType DEF cancel
    <3>. QED
      BY <2>4, <3>1 DEF TypeOK, cancel, calls, server
  <2>5. CASE cancel_all
    <3>1. task' \in [Threads -> TaskStates]
      BY <2>5, KillType, QueuedType DEF cancel_all, TypeOK
    <3>. QED
      BY <2>5, <3>1 DEF TypeOK, cancel_all, calls, server
  <2>6. CASE Tick
    <3>1. NewFrame(running) \in Frames
      BY NewFrameType DEF TypeOK
    <3>2. depth' \in 0 .. MaxDepth
      BY <2>6, DepthAssumption DEF TypeOK, Tick
    <3>3. frame' \in [1 .. MaxDepth -> Frames]
      BY <2>6, <3>1, DepthAssumption DEF TypeOK, Tick
    <3>. QED
      BY <2>6, <3>2, <3>3 DEF TypeOK, Tick, server
  <2>7. ASSUME NEW t \in Threads, FilterVisit(t) PROVE TypeOK'
    <3>1. depth \in 1 .. MaxDepth /\ Top \in Frames
      BY <2>7, TopType DEF FilterVisit, At, Between
    <3>2. frame' \in [1 .. MaxDepth -> Frames]
      BY <2>7, <3>1, SetTopType DEF FilterVisit, Begin, Frames, At, Between
    <3>3. terminated' \in Nat
      BY <2>7 DEF TypeOK, FilterVisit
    <3>4. lock' \in [Threads -> BOOLEAN]
      BY <2>7 DEF TypeOK, FilterVisit, Begin
    <3>. QED
      BY <2>7, <3>2, <3>3, <3>4 DEF TypeOK, FilterVisit
  <2>8. ASSUME NEW t \in Threads, ScheduleTake(t) PROVE TypeOK'
    <3>1. depth \in 1 .. MaxDepth /\ Top \in Frames
      BY <2>8, TopType DEF ScheduleTake, At, Between
    <3>2. frame' \in [1 .. MaxDepth -> Frames]
      <4>1. [Top EXCEPT !.cur = t] \in Frames
        BY <3>1 DEF Frames
      <4>2. SetTop([Top EXCEPT !.cur = t]) \/ UNCHANGED frame
        BY <2>8 DEF ScheduleTake
      <4>. QED
        BY <2>8, <4>1, <4>2, SetTopType DEF TypeOK, ScheduleTake, At, Between
    <3>3. queue' \in [StageIds -> Seq(Threads)]
      BY <2>8, <3>1 DEF ScheduleTake, TypeOK, Frames, MayTake
    <3>4. terminated' \in Nat
      BY <2>8 DEF TypeOK, ScheduleTake
    <3>5. lock' \in [Threads -> BOOLEAN]
      BY <2>8 DEF TypeOK, ScheduleTake, Begin
    <3>. QED
      BY <2>8, <3>2, <3>3, <3>4, <3>5 DEF TypeOK, ScheduleTake
  <2>9. CASE FilterExit
    <3>1. depth \in 1 .. MaxDepth /\ Top \in Frames
      BY <2>9, TopType DEF FilterExit, At, Between
    <3>2. frame' \in [1 .. MaxDepth -> Frames]
      BY <2>9, <3>1, SetTopType DEF FilterExit, Frames, At, Between
    <3>. QED
      BY <2>9, <3>1, <3>2 DEF TypeOK, FilterExit, Frames
  <2>10. CASE ScheduleNext
    <3>1. depth \in 1 .. MaxDepth /\ Top \in Frames
      BY <2>10, TopType DEF ScheduleNext, At, Between
    <3>2. frame' \in [1 .. MaxDepth -> Frames]
      BY <2>10, <3>1, StagesAssumption, SetTopType DEF ScheduleNext, Frames, At, Between, StageIds
    <3>. QED
      BY <2>10, <3>2 DEF TypeOK, ScheduleNext, server
  <2>11. CASE YieldReturn
    <3>1. depth \in 1 .. MaxDepth /\ Top \in Frames
      BY <2>11, TopType DEF YieldReturn, At, Between
    <3>2. frame' \in [1 .. MaxDepth -> Frames]
      BY <2>11, <3>1, SetTopType DEF YieldReturn, Frames, At, Between
    <3>3. task' \in [Threads -> TaskStates]
      BY <2>11, KillType, QueuedType DEF YieldReturn, TypeOK
    <3>. QED
      BY <2>11, <3>2, <3>3 DEF TypeOK, YieldReturn, server
  <2>12. CASE ProgressTrue
    <3>1. depth' \in 0 .. MaxDepth /\ frame' \in [1 .. MaxDepth -> Frames]
      BY <2>12, PopType DEF ProgressTrue, At, Between
    <3>. QED
      BY <2>12, <3>1 DEF TypeOK, ProgressTrue, IsEmpty
  <2>13. CASE ProgressFalse
    <3>1. depth' \in 0 .. MaxDepth /\ frame' \in [1 .. MaxDepth -> Frames]
      BY <2>13, PopType DEF ProgressFalse, At, Between
    <3>. QED
      BY <2>13, <3>1 DEF TypeOK, ProgressFalse
  <2>14. ASSUME NEW t \in Threads, NEW s \in {"waiting", "done"},
                FilterReturn(t, s)
         PROVE  TypeOK'
    <3>1. depth \in 1 .. MaxDepth /\ Top \in Frames
      BY <2>14, TopType DEF FilterReturn, At, Between
    <3>2. frame' \in [1 .. MaxDepth -> Frames]
      BY <2>14, <3>1, SetTopType DEF FilterReturn, Frames, At, Between
    <3>. QED
      BY <2>14, <3>2 DEF TypeOK, FilterReturn, Leave, TaskStates
  <2>15. ASSUME NEW t \in Threads, NEW s \in {"waiting", "done"},
                ScheduleReturn(t, s)
         PROVE  TypeOK'
    <3>1. depth \in 1 .. MaxDepth /\ Top \in Frames
      BY <2>15, TopType DEF ScheduleReturn, At, Between
    <3>2. frame' \in [1 .. MaxDepth -> Frames]
      BY <2>15, <3>1, SetTopType DEF ScheduleReturn, Frames, At, Between
    <3>. QED
      BY <2>15, <3>2 DEF TypeOK, ScheduleReturn, Leave, TaskStates
  <2>16. ASSUME NEW t \in Threads, Raise(t) PROVE TypeOK'
    <3>1. depth' \in 0 .. MaxDepth /\ frame' \in [1 .. MaxDepth -> Frames]
      BY <2>16, PopType DEF Raise, Abort, InBody
    <3>. QED
      BY <2>16, <3>1 DEF TypeOK, Raise, Abort, server
  <2>17. CASE Unwind
    <3>1. lock' \in [Threads -> BOOLEAN]
      BY <2>17 DEF TypeOK, Unwind, server
    <3>2. CASE Abort
      <4>1. depth' \in 0 .. MaxDepth /\ frame' \in [1 .. MaxDepth -> Frames]
        BY <2>17, <3>2, PopType DEF Abort, Unwind
      <4>. QED
        BY <2>17, <3>1, <3>2, <4>1 DEF TypeOK, Unwind, Abort, server
    <3>3. CASE exn' = FALSE /\ UNCHANGED <<task, lock, server, idle, depth, frame>>
      BY <2>17, <3>3 DEF TypeOK, Unwind, server
    <3>. QED
      BY <2>17, <3>2, <3>3 DEF Unwind
  <2>18. CASE YieldRaise
    <3>1. depth' \in 0 .. MaxDepth /\ frame' \in [1 .. MaxDepth -> Frames]
      BY <2>18, PopType DEF YieldRaise, Abort, Between, At
    <3>. QED
      BY <2>18, <3>1 DEF TypeOK, YieldRaise, Abort, server
  <2>19. CASE UNCHANGED vars
    BY <2>19 DEF TypeOK, vars, server, calls
  <2>. QED
    BY <2>1, <2>2, <2>3, <2>4, <2>5, <2>6, <2>7, <2>8, <2>9, <2>10, <2>11,
       <2>12, <2>13, <2>14, <2>15, <2>16, <2>17, <2>18, <2>19
    DEF Next, Client, Steps, Return
<1>. QED
  BY <1>1, <1>2, PTL DEF Spec

-------------------------------------------------------------------------------
(* Where the threads are.                                                  *)

InQueue(t) == \E i \in StageIds : \E j \in DOMAIN queue[i] : queue[i][j] = t

InFrame(t, d) == t \in frame[d].rest \/ t \in frame[d].kept \/ frame[d].cur = t

\* t has been taken from its queue, and some list or some call still knows it.
Started(t) == t \in running \/ \E d \in 1 .. depth : InFrame(t, d)

\* A queued thread is in one queue, once; it exists, and has not been started.
Placement ==
  /\ \A t \in Threads : InQueue(t) \/ Started(t) => task[t] # "new"
  /\ \A t \in Threads : InQueue(t) => ~Started(t)
  /\ \A i, k \in StageIds : \A j \in DOMAIN queue[i], l \in DOMAIN queue[k] :
       queue[i][j] = queue[k][l] => i = k /\ j = l

\* The lock of a thread is taken exactly by the call that runs its task.
LockInv ==
  \A t \in Threads :
    /\ lock[t] <=> \E d \in 1 .. depth : frame[d].cur = t
    /\ \A d, e \in 1 .. depth : frame[d].cur = t /\ frame[e].cur = t => d = e

EntryInv == TypeOK /\ Placement /\ LockInv

\* Most steps neither queue nor take a thread, and start none.
LEMMA PlacementKept ==
  ASSUME Placement, UNCHANGED queue,
         \A t \in Threads : Started(t)' => Started(t),
         \A t \in Threads : task'[t] = "new" => task[t] = "new"
  PROVE  Placement'
<1>1. \A t \in Threads : InQueue(t)' <=> InQueue(t)
  BY DEF InQueue
<1>. QED
  BY <1>1 DEF Placement

\* The innermost call changes, in its lists and in cur, only by what it drops.
LEMMA StartedKept ==
  ASSUME TypeOK, depth > 0, NEW f \in Frames, SetTop(f),
         depth' \in {depth - 1, depth}, running' \subseteq {t \in Threads : Started(t)},
         depth' = depth => \A t \in Threads :
           t \in f.rest \/ t \in f.kept \/ f.cur = t => Started(t)
  PROVE  \A t \in Threads : Started(t)' => Started(t)
<1>. SUFFICES ASSUME NEW t \in Threads, Started(t)' PROVE Started(t)
  OBVIOUS
<1>1. CASE t \in running'
  BY <1>1
<1>2. ASSUME NEW d \in 1 .. depth', InFrame(t, d)' PROVE Started(t)
  <2>1. depth \in 1 .. MaxDepth /\ d \in 1 .. depth
    BY <1>2, DepthAssumption DEF TypeOK
  <2>2. CASE d = depth
    <3>1. frame'[d] = f /\ depth' = depth
      BY <2>1, <2>2, DepthAssumption DEF TypeOK, SetTop
    <3>. QED
      BY <1>2, <3>1 DEF InFrame
  <2>3. CASE d # depth
    <3>1. frame'[d] = frame[d]
      BY <2>1, <2>3, DepthAssumption DEF TypeOK, SetTop
    <3>. QED
      BY <1>2, <2>1, <3>1 DEF InFrame, Started
  <2>. QED
    BY <2>2, <2>3
<1>. QED
  BY <1>1, <1>2 DEF Started

LEMMA RunningStarted ==
  ASSUME TypeOK PROVE running \subseteq {t \in Threads : Started(t)}
  BY DEF TypeOK, Started

LEMMA TopStarted ==
  ASSUME TypeOK, depth > 0
  PROVE  \A t \in Threads : t \in Top.rest \/ t \in Top.kept \/ Top.cur = t => Started(t)
  BY DepthAssumption DEF TypeOK, Top, InFrame, Started

\* A call returns, or is abandoned by an exception.
LEMMA PopStarted ==
  ASSUME TypeOK, depth > 0, Pop, UNCHANGED running
  PROVE  \A t \in Threads : Started(t)' => Started(t)
<1>1. NewFrame({}) \in Frames
  BY NewFrameType
<1>2. depth' = depth - 1 /\ depth' # depth
  BY DEF TypeOK, Pop
<1>. QED
  BY <1>1, <1>2, RunningStarted, StartedKept DEF Pop

LEMMA KillNew ==
  ASSUME NEW T, Kill(T), TypeOK
  PROVE  \A t \in Threads : task'[t] = "new" => task[t] = "new"
  BY DEF Kill, TypeOK

LEMMA PlacementInit == Init => Placement
  BY DEF Init, Placement, InQueue, Started

LEMMA SpawnPlacement ==
  ASSUME TypeOK, Placement, NEW t \in Threads, NEW i \in StageIds, spawn(t, i)
  PROVE  Placement'
<1>1. queue' = [queue EXCEPT ![i] = Append(@, t)] /\ queue \in [StageIds -> Seq(Threads)]
  BY DEF spawn, TypeOK
<1>2. \A u \in Threads : Started(u)' <=> Started(u)
  BY DEF spawn, calls, Started, InFrame
<1>3. task[t] = "new" /\ ~InQueue(t) /\ ~Started(t)
  BY DEF spawn, Placement
<1>4. ASSUME NEW k \in StageIds, NEW j \in DOMAIN queue'[k]
      PROVE  \/ j \in DOMAIN queue[k] /\ queue'[k][j] = queue[k][j]
             \/ k = i /\ j = Len(queue[i]) + 1 /\ queue'[k][j] = t
  BY <1>1, <1>4
<1>5. \A u \in Threads : InQueue(u)' => InQueue(u) \/ u = t
  BY <1>4 DEF InQueue
<1>6. \A k, m \in StageIds : \A j \in DOMAIN queue'[k], l \in DOMAIN queue'[m] :
        queue'[k][j] = queue'[m][l] => k = m /\ j = l
  BY <1>3, <1>4 DEF InQueue, Placement
<1>7. task' = [task EXCEPT ![t] = "todo"]
  BY DEF spawn
<1>. QED
  BY <1>2, <1>3, <1>5, <1>6, <1>7 DEF Placement, TypeOK

LEMMA TakePlacement ==
  ASSUME TypeOK, Placement, NEW t \in Threads, ScheduleTake(t)
  PROVE  /\ Placement'
         /\ InQueue(t)
<1>. DEFINE s == Top.stage
<1>1. depth \in 1 .. MaxDepth /\ Top \in Frames /\ s \in StageIds
  BY TopType DEF ScheduleTake, At, Between, Frames
<1>2. queue[s] \in Seq(Threads) /\ queue[s] # <<>> /\ t = Head(queue[s])
  BY <1>1 DEF ScheduleTake, MayTake, TypeOK
<1>3. queue' = [queue EXCEPT ![s] = Tail(@)] /\ queue \in [StageIds -> Seq(Threads)]
  BY DEF ScheduleTake, TypeOK
<1>4. 1 \in DOMAIN queue[s] /\ queue[s][1] = t
  BY <1>2
<1>5. InQueue(t)
  BY <1>1, <1>4 DEF InQueue
<1>6. ASSUME NEW k \in StageIds, NEW j \in DOMAIN queue'[k]
      PROVE  \/ k # s /\ j \in DOMAIN queue[k] /\ queue'[k][j] = queue[k][j]
             \/ /\ k = s /\ j + 1 \in DOMAIN queue[k]
                /\ j \in Nat \ {0} /\ queue'[k][j] = queue[k][j + 1]
  BY <1>1, <1>2, <1>3, <1>6
<1>7. \A u \in Threads : InQueue(u)' => InQueue(u) /\ u # t
  BY <1>1, <1>4, <1>6 DEF InQueue, Placement
<1>8. \A k, m \in StageIds : \A j \in DOMAIN queue'[k], l \in DOMAIN queue'[m] :
        queue'[k][j] = queue'[m][l] => k = m /\ j = l
  <2>. SUFFICES ASSUME NEW k \in StageIds, NEW m \in StageIds,
                       NEW j \in DOMAIN queue'[k], NEW l \in DOMAIN queue'[m],
                       queue'[k][j] = queue'[m][l]
                PROVE  k = m /\ j = l
    OBVIOUS
  <2>1. j \in Nat /\ l \in Nat
    BY <1>1, <1>2, <1>3
  <2>2. CASE k = s /\ m = s
    BY <1>6, <2>1, <2>2 DEF Placement
  <2>3. CASE k = s /\ m # s
    BY <1>6, <2>1, <2>3 DEF Placement
  <2>4. CASE k # s /\ m = s
    BY <1>6, <2>1, <2>4 DEF Placement
  <2>5. CASE k # s /\ m # s
    BY <1>6, <2>1, <2>5 DEF Placement
  <2>. QED
    BY <2>2, <2>3, <2>4, <2>5
<1>9. \A u \in Threads : Started(u)' => Started(u) \/ u = t
  <2>. SUFFICES ASSUME NEW u \in Threads, u # t, Started(u)' PROVE Started(u)
    OBVIOUS
  <2>1. CASE u \in running'
    BY <2>1 DEF ScheduleTake, Started
  <2>2. ASSUME NEW d \in 1 .. depth', InFrame(u, d)' PROVE Started(u)
    <3>1. depth' = depth /\ d \in 1 .. MaxDepth
      BY <1>1, DepthAssumption DEF ScheduleTake
    <3>2. InFrame(u, d)
      <4>1. SetTop([Top EXCEPT !.cur = t]) \/ UNCHANGED frame
        BY DEF ScheduleTake
      <4>2. /\ frame'[d].rest = frame[d].rest /\ frame'[d].kept = frame[d].kept
            /\ frame'[d].cur \in {frame[d].cur, t}
        <5>1. Top.rest = [Top EXCEPT !.cur = t].rest /\ Top.kept = [Top EXCEPT !.cur = t].kept
              /\ [Top EXCEPT !.cur = t].cur = t
          BY <1>1 DEF Frames
        <5>2. \/ frame'[d] = frame[d]
              \/ frame[d] = Top /\ frame'[d] = [Top EXCEPT !.cur = t]
          BY <1>1, <3>1, <4>1 DEF SetTop, Top, TypeOK
        <5>. QED
          BY <5>1, <5>2
      <4>. QED
        BY <2>2, <4>2 DEF InFrame
    <3>. QED
      BY <3>1, <3>2 DEF Started
  <2>. QED
    BY <2>1, <2>2 DEF Started
<1>10. task' = task
  BY DEF ScheduleTake
<1>. QED
  BY <1>5, <1>7, <1>8, <1>9, <1>10 DEF Placement

-------------------------------------------------------------------------------
(* The locks.                                                              *)

\* Steps that run no task and stop none.
LEMMA LockKept ==
  ASSUME LockInv, UNCHANGED lock, UNCHANGED depth,
         \A d \in 1 .. depth : frame'[d].cur = frame[d].cur
  PROVE  LockInv'
  BY DEF LockInv

\* The innermost call starts to run t, which no call was running.
LEMMA LockBegin ==
  ASSUME TypeOK, LockInv, depth > 0, NEW t \in Threads, ~lock[t], Top.cur = NoThread,
         NEW f \in Frames, SetTop(f), f.cur = t, UNCHANGED depth,
         lock' = [lock EXCEPT ![t] = TRUE]
  PROVE  LockInv'
<1>1. depth \in 1 .. MaxDepth /\ depth' = depth
  BY DepthAssumption DEF TypeOK
<1>2. \A d \in 1 .. depth : frame'[d].cur = IF d = depth THEN t ELSE frame[d].cur
  BY <1>1 DEF SetTop, TypeOK
<1>3. \A d \in 1 .. depth : frame[d].cur # t
  BY DEF LockInv
<1>4. \A u \in Threads : lock'[u] = IF u = t THEN TRUE ELSE lock[u]
  BY DEF TypeOK
<1>5. frame[depth].cur \notin Threads
  BY NoThreadAssumption DEF Top
<1>6. \A u \in Threads : (\E d \in 1 .. depth : frame'[d].cur = u)
                           <=> u = t \/ \E d \in 1 .. depth : frame[d].cur = u
  BY <1>1, <1>2, <1>5
<1>7. ASSUME NEW u \in Threads, NEW d \in 1 .. depth, NEW e \in 1 .. depth,
             frame'[d].cur = u, frame'[e].cur = u
      PROVE  d = e
  BY <1>1, <1>2, <1>3, <1>5, <1>7 DEF LockInv
<1>8. \A u \in Threads : lock'[u] <=> \E d \in 1 .. depth : frame'[d].cur = u
  BY <1>4, <1>6 DEF LockInv
<1>. QED
  BY <1>1, <1>7, <1>8 DEF LockInv

\* The innermost call has finished with t.
LEMMA LockLeave ==
  ASSUME TypeOK, LockInv, depth > 0, NEW t \in Threads, Top.cur = t,
         NEW f \in Frames, SetTop(f), f.cur = NoThread, depth' \in {depth, depth - 1},
         lock' = [lock EXCEPT ![t] = FALSE]
  PROVE  LockInv'
<1>1. depth \in 1 .. MaxDepth /\ depth' \in 0 .. depth /\ depth' >= depth - 1
  BY DepthAssumption DEF TypeOK
<1>2. \A d \in 1 .. depth : frame'[d].cur = IF d = depth THEN NoThread ELSE frame[d].cur
  BY <1>1 DEF SetTop, TypeOK
<1>3. \A d \in 1 .. depth : frame[d].cur = t => d = depth
  BY <1>1 DEF LockInv, Top
<1>4. \A u \in Threads : lock'[u] = IF u = t THEN FALSE ELSE lock[u]
  BY DEF TypeOK
<1>5. \A d \in 1 .. depth' : frame'[d].cur # t
  BY <1>1, <1>2, <1>3, NoThreadAssumption
<1>6. ASSUME NEW u \in Threads, u # t
      PROVE  (\E d \in 1 .. depth' : frame'[d].cur = u) <=> \E d \in 1 .. depth : frame[d].cur = u
  <2>1. \A d \in 1 .. depth : frame[d].cur = u => d # depth
    BY <1>6 DEF Top
  <2>. QED
    BY <1>1, <1>2, <2>1, NoThreadAssumption
<1>7. ASSUME NEW u \in Threads, NEW d \in 1 .. depth', NEW e \in 1 .. depth',
             frame'[d].cur = u, frame'[e].cur = u
      PROVE  d = e
  BY <1>1, <1>2, <1>7, NoThreadAssumption DEF LockInv
<1>. QED
  BY <1>4, <1>5, <1>6, <1>7 DEF LockInv

\* A call that runs no task returns, or is abandoned.
LEMMA LockPop ==
  ASSUME TypeOK, LockInv, depth > 0, Top.cur = NoThread, Pop, UNCHANGED lock
  PROVE  LockInv'
<1>1. depth \in 1 .. MaxDepth /\ depth' = depth - 1
  BY DepthAssumption DEF TypeOK, Pop
<1>2. \A d \in 1 .. depth' : frame'[d] = frame[d]
  BY <1>1 DEF Pop, SetTop, TypeOK
<1>3. \A t \in Threads : \A d \in 1 .. depth : frame[d].cur = t => d \in 1 .. depth'
  BY <1>1, NoThreadAssumption DEF Top
<1>. QED
  BY <1>1, <1>2, <1>3 DEF LockInv

LEMMA EntryInit == Init => LockInv
  BY DEF Init, LockInv

LEMMA EntryStep ==
  ASSUME EntryInv, [Next]_vars
  PROVE  Placement' /\ LockInv'
<1>. USE DEF EntryInv
<1>0. \A t \in Threads : t \in running => Started(t)
  BY DEF Started
<1>1. ASSUME NEW t \in Threads, NEW i \in StageIds, spawn(t, i)
      PROVE  Placement' /\ LockInv'
  <2>1. LockInv'
    BY <1>1, LockKept DEF spawn, calls
  <2>. QED
    BY <1>1, <2>1, SpawnPlacement
<1>2. CASE launch
  BY <1>2, PlacementKept, LockKept DEF launch, Started, InFrame
<1>3. ASSUME NEW p \in ProcsValues, set_procs(p) PROVE Placement' /\ LockInv'
  BY <1>3, PlacementKept, LockKept DEF set_procs, calls, Started, InFrame
<1>4. ASSUME NEW t \in Threads, cancel(t) PROVE Placement' /\ LockInv'
  <2>1. \A u \in Threads : task'[u] = "new" => task[u] = "new"
    BY <1>4, KillNew DEF cancel
  <2>. QED
    BY <1>4, <2>1, PlacementKept, LockKept DEF cancel, calls, server, Started, InFrame
<1>5. CASE cancel_all
  <2>1. \A u \in Threads : task'[u] = "new" => task[u] = "new"
    BY <1>5, KillNew DEF cancel_all
  <2>. QED
    BY <1>5, <2>1, PlacementKept, LockKept DEF cancel_all, calls, server, Started, InFrame
<1>6. CASE Tick
  <2>1. depth \in 0 .. MaxDepth - 1 /\ depth' = depth + 1
        /\ frame' = [frame EXCEPT ![depth + 1] = NewFrame(running)]
    BY <1>6, DepthAssumption DEF Tick, TypeOK
  <2>2. /\ \A d \in 1 .. depth : frame'[d] = frame[d]
        /\ frame'[depth + 1] = NewFrame(running)
    BY <2>1, DepthAssumption DEF TypeOK
  <2>3. \A t \in Threads : Started(t)' => Started(t)
    BY <1>6, <2>1, <2>2, NoThreadAssumption DEF Tick, server, Started, InFrame, NewFrame
  <2>4. Placement'
    BY <1>6, <2>3, PlacementKept DEF Tick, server
  <2>5. \A t \in Threads : frame'[depth + 1].cur # t
    BY <2>2, NoThreadAssumption DEF NewFrame
  <2>6. LockInv'
    BY <1>6, <2>1, <2>2, <2>5 DEF Tick, LockInv
  <2>. QED
    BY <2>4, <2>6
<1>7. ASSUME NEW t \in Threads, FilterVisit(t) PROVE Placement' /\ LockInv'
  <2>. DEFINE keep == [Top EXCEPT !.rest = @ \ {t}, !.kept = @ \cup {t}]
              run  == [Top EXCEPT !.rest = @ \ {t}, !.cur = t]
              drop == [Top EXCEPT !.rest = @ \ {t}]
  <2>1. depth > 0 /\ depth' = depth /\ Top \in Frames /\ Top.cur = NoThread /\ t \in Top.rest
    BY <1>7, TopType DEF FilterVisit, At, Between
  <2>2. keep \in Frames /\ run \in Frames /\ drop \in Frames
    BY <2>1 DEF Frames
  <2>3. \/ SetTop(keep) /\ UNCHANGED lock
        \/ SetTop(run) /\ ~lock[t] /\ lock' = [lock EXCEPT ![t] = TRUE]
        \/ SetTop(drop) /\ UNCHANGED lock
    BY <1>7 DEF FilterVisit, Begin
  <2>4. /\ keep.rest \subseteq Top.rest /\ keep.kept = Top.kept \cup {t} /\ keep.cur = NoThread
        /\ run.rest \subseteq Top.rest /\ run.kept = Top.kept /\ run.cur = t
        /\ drop.rest \subseteq Top.rest /\ drop.kept = Top.kept /\ drop.cur = NoThread
    BY <2>1 DEF Frames
  <2>5. running' = running /\ running' \subseteq {u \in Threads : Started(u)}
    BY <1>7, RunningStarted DEF FilterVisit
  <2>6. \A u \in Threads : u \in Top.rest \/ u \in Top.kept \/ Top.cur = u => Started(u)
    BY <2>1, TopStarted
  <2>7. \A u \in Threads : Started(u)' => Started(u)
    <3>. HIDE DEF keep, run, drop
    <3>1. CASE SetTop(keep)
      BY <2>1, <2>2, <2>4, <2>5, <2>6, <3>1, StartedKept, NoThreadAssumption
    <3>2. CASE SetTop(run)
      BY <2>1, <2>2, <2>4, <2>5, <2>6, <3>2, StartedKept
    <3>3. CASE SetTop(drop)
      BY <2>1, <2>2, <2>4, <2>5, <2>6, <3>3, StartedKept, NoThreadAssumption
    <3>. QED
      BY <2>3, <3>1, <3>2, <3>3
  <2>8. Placement'
    BY <1>7, <2>7, PlacementKept DEF FilterVisit
  <2>9. LockInv'
    <3>. HIDE DEF keep, run, drop
    <3>1. ASSUME NEW f \in Frames, SetTop(f), f.cur = NoThread, UNCHANGED lock
          PROVE  LockInv'
      <4>1. \A d \in 1 .. depth : frame'[d].cur = frame[d].cur
        BY <2>1, <3>1, DepthAssumption DEF SetTop, Top, TypeOK
      <4>. QED
        BY <2>1, <3>1, <4>1, LockKept
    <3>2. CASE SetTop(run) /\ ~lock[t] /\ lock' = [lock EXCEPT ![t] = TRUE]
      BY <2>1, <2>2, <2>4, <3>2, LockBegin
    <3>. QED
      BY <2>2, <2>3, <2>4, <3>1, <3>2
  <2>. QED
    BY <2>8, <2>9
<1>8. ASSUME NEW t \in Threads, ScheduleTake(t) PROVE Placement' /\ LockInv'
  <2>. DEFINE run == [Top EXCEPT !.cur = t]
  <2>1. depth > 0 /\ depth' = depth /\ Top \in Frames /\ Top.cur = NoThread
    BY <1>8, TopType DEF ScheduleTake, At, Between
  <2>2. run \in Frames /\ run.cur = t
    BY <2>1 DEF Frames
  <2>3. Placement' /\ InQueue(t)
    BY <1>8, TakePlacement
  <2>4. ~lock[t]
    BY <2>3 DEF LockInv, Placement, Started, InFrame
  <2>5. CASE SetTop(run) /\ lock' = [lock EXCEPT ![t] = TRUE]
    <3>. HIDE DEF run
    <3>. QED
      BY <2>1, <2>2, <2>3, <2>4, <2>5, LockBegin
  <2>6. CASE UNCHANGED <<lock, frame>>
    BY <2>1, <2>3, <2>6, LockKept
  <2>. QED
    BY <1>8, <2>5, <2>6 DEF ScheduleTake, Begin
<1>9. CASE FilterExit
  <2>. DEFINE f == [Top EXCEPT !.pc = "schedule"]
  <2>1. depth > 0 /\ depth' = depth /\ Top \in Frames /\ Top.cur = NoThread
    BY <1>9, TopType DEF FilterExit, At, Between
  <2>2. f \in Frames /\ f.rest = Top.rest /\ f.kept = Top.kept /\ f.cur = Top.cur
    BY <2>1 DEF Frames
  <2>3. SetTop(f)
    BY <1>9 DEF FilterExit
  <2>4. \A u \in Threads : u \in Top.rest \/ u \in Top.kept \/ Top.cur = u => Started(u)
    BY <2>1, TopStarted
  <2>5. running' \subseteq {u \in Threads : Started(u)}
    BY <1>9, <2>1, <2>4 DEF FilterExit, Frames
  <2>. HIDE DEF f
  <2>6. \A u \in Threads : Started(u)' => Started(u)
    BY <2>1, <2>2, <2>3, <2>4, <2>5, StartedKept
  <2>7. \A d \in 1 .. depth : frame'[d].cur = frame[d].cur
    BY <2>1, <2>2, <2>3, DepthAssumption DEF SetTop, Top, TypeOK
  <2>. QED
    BY <1>9, <2>1, <2>6, <2>7, PlacementKept, LockKept DEF FilterExit
<1>10. ASSUME ScheduleNext \/ YieldReturn PROVE Placement' /\ LockInv'
  <2>1. depth > 0 /\ depth' = depth /\ Top \in Frames
    BY <1>10, TopType DEF ScheduleNext, YieldReturn, At, Between
  <2>2. PICK f \in Frames : /\ SetTop(f) /\ f.cur = Top.cur
                            /\ f.rest = Top.rest /\ f.kept = Top.kept
    <3>1. /\ [Top EXCEPT !.pc = "yield"] \in Frames
          /\ [Top EXCEPT !.pc = "activity"] \in Frames
      BY <2>1 DEF Frames
    <3>2. Top.stage + 1 < NStages => [Top EXCEPT !.stage = @ + 1] \in Frames
      BY <2>1, StagesAssumption DEF Frames, StageIds
    <3>. QED
      BY <1>10, <2>1, <3>1, <3>2 DEF ScheduleNext, YieldReturn, Frames
  <2>3. \A u \in Threads : u \in Top.rest \/ u \in Top.kept \/ Top.cur = u => Started(u)
    BY <2>1, TopStarted
  <2>4. running' = running /\ queue' = queue /\ lock' = lock
    BY <1>10 DEF ScheduleNext, YieldReturn, server
  <2>5. \A u \in Threads : Started(u)' => Started(u)
    BY <2>1, <2>2, <2>3, <2>4, RunningStarted, StartedKept
  <2>6. \A u \in Threads : task'[u] = "new" => task[u] = "new"
    BY <1>10, KillNew DEF ScheduleNext, YieldReturn
  <2>7. \A d \in 1 .. depth : frame'[d].cur = frame[d].cur
    BY <2>1, <2>2, DepthAssumption DEF SetTop, Top, TypeOK
  <2>. QED
    BY <2>1, <2>4, <2>5, <2>6, <2>7, PlacementKept, LockKept
<1>11. ASSUME ProgressTrue \/ ProgressFalse PROVE Placement' /\ LockInv'
  <2>1. depth > 0 /\ Pop /\ UNCHANGED <<lock, queue, running, task>>
    BY <1>11 DEF ProgressTrue, ProgressFalse, At, Between
  <2>2. Placement'
    BY <2>1, PopStarted, PlacementKept
  <2>. QED
    BY <1>11, <2>1, <2>2, LockPop DEF ProgressTrue, ProgressFalse, Between
<1>12. ASSUME NEW t \in Threads, NEW s \in {"waiting", "done"},
              FilterReturn(t, s) \/ ScheduleReturn(t, s)
       PROVE  Placement' /\ LockInv'
  <2>1. depth > 0 /\ depth' = depth /\ Top \in Frames /\ Top.cur = t /\ queue' = queue
    BY <1>12, TopType DEF FilterReturn, ScheduleReturn, At, Between, Leave
  <2>2. PICK f \in Frames : /\ SetTop(f) /\ f.cur = NoThread
                            /\ f.rest = Top.rest /\ f.kept \subseteq Top.kept \cup {t}
    <3>1. /\ [Top EXCEPT !.cur = NoThread] \in Frames
          /\ [Top EXCEPT !.kept = @ \cup {t}, !.cur = NoThread] \in Frames
      BY <2>1 DEF Frames
    <3>. QED
      BY <1>12, <2>1, <3>1 DEF FilterReturn, ScheduleReturn, Frames
  <2>3. \A u \in Threads : u \in Top.rest \/ u \in Top.kept \/ Top.cur = u => Started(u)
    BY <2>1, TopStarted
  <2>4. running' \subseteq running \cup {t}
    BY <1>12 DEF FilterReturn, ScheduleReturn
  <2>5. running' \subseteq {u \in Threads : Started(u)}
    BY <2>1, <2>3, <2>4, RunningStarted
  <2>6. \A u \in Threads : Started(u)' => Started(u)
    BY <2>1, <2>2, <2>3, <2>5, StartedKept, NoThreadAssumption
  <2>7. task' = [task EXCEPT ![t] = s] /\ lock' = [lock EXCEPT ![t] = FALSE]
    BY <1>12 DEF FilterReturn, ScheduleReturn, Leave
  <2>8. \A u \in Threads : task'[u] = "new" => task[u] = "new"
    BY <2>7 DEF TypeOK
  <2>. QED
    BY <2>1, <2>2, <2>6, <2>7, <2>8, PlacementKept, LockLeave
<1>13. ASSUME NEW t \in Threads, Raise(t) PROVE Placement' /\ LockInv'
  <2>1. /\ depth > 0 /\ Top.cur = t /\ Pop /\ UNCHANGED <<queue, running, task>>
        /\ lock' = [lock EXCEPT ![t] = FALSE]
    BY <1>13 DEF Raise, InBody, Abort, server
  <2>2. Placement'
    BY <2>1, PopStarted, PlacementKept
  <2>3. NewFrame({}) \in Frames /\ NewFrame({}).cur = NoThread
    BY NewFrameType DEF NewFrame
  <2>4. depth' \in {depth, depth - 1} /\ SetTop(NewFrame({}))
    BY <2>1 DEF Pop
  <2>. QED
    BY <2>1, <2>2, <2>3, <2>4, LockLeave
<1>14. CASE Unwind
  <2>1. CASE Top.cur = NoThread /\ Abort /\ UNCHANGED lock
    <3>1. depth > 0 /\ Pop /\ UNCHANGED <<queue, running, task, lock>>
      BY <1>14, <2>1 DEF Unwind, Abort, server
    <3>. QED
      BY <2>1, <3>1, PopStarted, PlacementKept, LockPop
  <2>2. CASE exn' = FALSE /\ UNCHANGED <<task, lock, server, idle, depth, frame>>
    BY <2>2, PlacementKept, LockKept DEF server, Started, InFrame
  <2>3. CASE Top.cur \in Raising /\ Top.cur # NoThread
             /\ lock' = [lock EXCEPT ![Top.cur] = FALSE] /\ Abort
    <3>1. depth > 0 /\ Pop /\ UNCHANGED <<queue, running, task>> /\ Top.cur \in Threads
      BY <1>14, <2>3, TopType DEF Unwind, Abort, server, Frames
    <3>2. NewFrame({}) \in Frames /\ NewFrame({}).cur = NoThread
      BY NewFrameType DEF NewFrame
    <3>3. depth' \in {depth, depth - 1} /\ SetTop(NewFrame({}))
      BY <3>1 DEF Pop
    <3>. QED
      BY <2>3, <3>1, <3>2, <3>3, PopStarted, PlacementKept, LockLeave
  <2>. QED
    BY <1>14, <2>1, <2>2, <2>3, RaisingAssumption, NoThreadAssumption DEF Unwind
<1>15. CASE YieldRaise
  <2>1. depth > 0 /\ Top.cur = NoThread /\ Pop /\ UNCHANGED <<queue, running, task, lock>>
    BY <1>15 DEF YieldRaise, Abort, Between, At, server
  <2>. QED
    BY <2>1, PopStarted, PlacementKept, LockPop
<1>16. CASE UNCHANGED vars
  BY <1>16, PlacementKept, LockKept DEF vars, calls, server, Started, InFrame
<1>. QED
  BY <1>1, <1>2, <1>3, <1>4, <1>5, <1>6, <1>7, <1>8, <1>9, <1>10, <1>11,
     <1>12, <1>13, <1>14, <1>15, <1>16
  DEF Next, Client, Steps, Return

\* A task is never entered while it runs, however deep the calls nest.
THEOREM NeverReentered == Spec => []NoReentry
<1>1. Init => Placement /\ LockInv
  BY PlacementInit, EntryInit
<1>2. TypeOK /\ (Placement /\ LockInv) /\ [Next]_vars => (Placement /\ LockInv)'
  BY EntryStep DEF EntryInv
<1>3. LockInv => NoReentry
  BY DEF LockInv, NoReentry
<1>. QED
  BY <1>1, <1>2, <1>3, TypeCorrect, PTL DEF Spec

-------------------------------------------------------------------------------
(* The counters, for calls that do not nest.                               *)

\* The tasks do not yield, nothing raises, set_procs never receives 0, no callback
\* spawns, and a task spawns only in a server that has a single stage.
PlainUse ==
  /\ MaxDepth = 1
  /\ MaxRaises = 0
  /\ 0 \notin ProcsValues
  /\ "callback" \notin SpawnSites
  /\ NStages = 1 \/ "task" \notin SpawnSites
  /\ IsFiniteSet(Threads)

\* The running list, rebuilt in the frame while List.filter visits it.
Alive == IF depth = 1 /\ frame[1].pc = "filter"
         THEN frame[1].rest \cup frame[1].kept ELSE running

InFlight == IF depth = 1 /\ frame[1].cur # NoThread THEN 1 ELSE 0

\* A thread is in one place of the running call.
Apart ==
  depth = 1 =>
    /\ frame[1].pc = "filter" => frame[1].rest \cap frame[1].kept = {}
    /\ frame[1].pc = "filter" => frame[1].cur \notin frame[1].rest \cup frame[1].kept
    /\ frame[1].pc = "schedule" => frame[1].cur \notin running
    /\ frame[1].pc \in {"yield", "activity"} => frame[1].cur = NoThread
    /\ frame[1].pc = "filter" => frame[1].stage = 0

\* While a stage is scheduled and nothing runs, the stages before it are empty;
\* past the last one, either some thread runs or no thread is queued.
Drained ==
  depth = 1 /\ running = {} =>
    /\ frame[1].pc = "schedule" =>
         \A i \in StageIds : i < frame[1].stage => queue[i] = <<>>
    /\ frame[1].pc \in {"yield", "activity"} => IsEmpty

CountInv ==
  /\ depth \in {0, 1}
  /\ exn = FALSE
  /\ Apart
  /\ Drained
  /\ IsFiniteSet(Slots)
  /\ terminated + Cardinality(Alive) + Cardinality(Slots) + InFlight = scheduled

LEMMA SlotsDef ==
  ASSUME NEW x
  PROVE  x \in Slots <=> \E k \in StageIds : \E j \in DOMAIN queue[k] : x = <<k, j>>
  BY DEF Slots

LEMMA SpawnSlots ==
  ASSUME TypeOK, IsFiniteSet(Slots), NEW t \in Threads, NEW i \in StageIds, spawn(t, i)
  PROVE  IsFiniteSet(Slots') /\ Cardinality(Slots') = Cardinality(Slots) + 1
<1>. DEFINE x == <<i, Len(queue[i]) + 1>>
<1>1. queue' = [queue EXCEPT ![i] = Append(@, t)] /\ queue \in [StageIds -> Seq(Threads)]
  BY DEF spawn, TypeOK
<1>2. \A k \in StageIds : DOMAIN queue'[k] =
        IF k = i THEN DOMAIN queue[i] \cup {Len(queue[i]) + 1} ELSE DOMAIN queue[k]
  <2>1. /\ \A k \in StageIds \ {i} : queue'[k] = queue[k]
        /\ queue'[i] = Append(queue[i], t) /\ queue[i] \in Seq(Threads)
    BY <1>1
  <2>2. DOMAIN Append(queue[i], t) = DOMAIN queue[i] \cup {Len(queue[i]) + 1}
    BY <2>1
  <2>. QED
    BY <2>1, <2>2
<1>3. Slots' = Slots \cup {x}
  BY <1>2 DEF Slots
<1>4. x \notin Slots
  BY <1>1 DEF Slots
<1>. QED
  BY <1>3, <1>4, FS_AddElement

LEMMA TakeSlots ==
  ASSUME TypeOK, IsFiniteSet(Slots), NEW t \in Threads, ScheduleTake(t)
  PROVE  /\ IsFiniteSet(Slots')
         /\ Cardinality(Slots) = Cardinality(Slots') + 1
<1>. DEFINE s == Top.stage
            x == <<s, Len(queue[s])>>
<1>1. s \in StageIds
  BY TopType DEF ScheduleTake, At, Between, Frames
<1>2. queue[s] \in Seq(Threads) /\ queue[s] # <<>>
  BY <1>1 DEF ScheduleTake, MayTake, TypeOK
<1>3. queue' = [queue EXCEPT ![s] = Tail(@)] /\ queue \in [StageIds -> Seq(Threads)]
  BY DEF ScheduleTake, TypeOK
<1>4. Len(queue[s]) \in DOMAIN queue[s] /\ DOMAIN Tail(queue[s]) = DOMAIN queue[s] \ {Len(queue[s])}
  BY <1>2
<1>5. \A k \in StageIds : DOMAIN queue'[k] =
        IF k = s THEN DOMAIN queue[s] \ {Len(queue[s])} ELSE DOMAIN queue[k]
  BY <1>1, <1>3, <1>4
<1>6. Slots' = Slots \ {x}
  BY <1>1, <1>5 DEF Slots
<1>7. x \in Slots
  BY <1>1, <1>4 DEF Slots
<1>8. Cardinality(Slots) \in Nat /\ Cardinality(Slots') \in Nat /\ IsFiniteSet(Slots')
  BY <1>6, FS_RemoveElement, FS_CardinalityType
<1>. QED
  BY <1>6, <1>7, <1>8, FS_RemoveElement

LEMMA EmptySlots ==
  ASSUME TypeOK, IsEmpty
  PROVE  Slots = {}
<1>1. \A i \in StageIds : DOMAIN queue[i] = {}
  BY DEF IsEmpty
<1>. QED
  BY <1>1 DEF Slots

LEMMA CountInit == ASSUME PlainUse, Init PROVE CountInv
<1>1. Slots = {}
  BY DEF Init, Slots
<1>2. Alive = {} /\ InFlight = 0
  BY DEF Init, Alive, InFlight
<1>. QED
  BY <1>1, <1>2, FS_EmptySet DEF Init, CountInv, Apart, Drained

\* Every step keeps the counts, and the place of each thread, of a single call.
LEMMA CountStep ==
  ASSUME PlainUse, EntryInv, CountInv, [Next]_vars
  PROVE  CountInv'
<1>. USE DEF EntryInv
<1>0. /\ IsFiniteSet(Threads) /\ depth \in {0, 1} /\ exn = FALSE /\ MaxDepth = 1
      /\ \A T \in SUBSET Threads : IsFiniteSet(T) /\ Cardinality(T) \in Nat
      /\ Cardinality(Slots) \in Nat /\ terminated \in Nat /\ scheduled \in Nat
  BY FS_Subset, FS_CardinalityType DEF PlainUse, CountInv, TypeOK
<1>a. depth = 1 => Top = frame[1] /\ Top \in Frames
  BY <1>0, TopType DEF Top
<1>b. Alive \subseteq Threads
  BY <1>a DEF Alive, TypeOK, Top, Frames
<1>1. ASSUME NEW t \in Threads, NEW i \in StageIds, spawn(t, i) PROVE CountInv'
  <2>1. UNCHANGED <<depth, exn, frame, running, terminated>> /\ scheduled' = scheduled + 1
    BY <1>1 DEF spawn, calls
  <2>2. IsFiniteSet(Slots') /\ Cardinality(Slots') = Cardinality(Slots) + 1
    BY <1>1, SpawnSlots DEF CountInv
  <2>3. Alive' = Alive /\ InFlight' = InFlight
    BY <2>1 DEF Alive, InFlight
  <2>4. Apart'
    BY <2>1 DEF CountInv, Apart
  <2>5. Drained'
    <3>1. Site \in {"outside", "task"}
      BY <1>1, SitesAssumption DEF spawn, PlainUse
    <3>2. depth = 1 => InBody /\ NStages = 1 /\ frame[1].pc \in {"filter", "schedule"}
      BY <1>0, <1>1, <1>a, <3>1
      DEF spawn, Site, Outside, InBody, PlainUse, CountInv, Apart, Frames, InYield, InActivity
    <3>3. depth = 1 => \A i_1 \in StageIds : ~(i_1 < frame[1].stage)
      BY <1>a, <3>2 DEF Frames, StageIds
    <3>. QED
      BY <2>1, <3>2, <3>3 DEF Drained
  <2>. QED
    BY <1>0, <2>1, <2>2, <2>3, <2>4, <2>5, <1>b, FS_CardinalityType DEF CountInv, InFlight
<1>2. ASSUME \/ launch
             \/ \E p \in ProcsValues : set_procs(p)
             \/ \E t \in Threads : cancel(t)
             \/ cancel_all
             \/ UNCHANGED vars
      PROVE  CountInv'
  <2>1. UNCHANGED <<depth, exn, frame, running, terminated, scheduled, queue>>
    BY <1>2 DEF launch, set_procs, cancel, cancel_all, server, calls, vars
  <2>. QED
    BY <2>1 DEF CountInv, Apart, Drained, Alive, InFlight, Slots, IsEmpty
<1>3. CASE Tick
  <2>1. /\ depth = 0 /\ depth' = 1 /\ frame' = [frame EXCEPT ![1] = NewFrame(running)]
        /\ UNCHANGED <<queue, running, terminated, scheduled, exn>>
    <3>1. depth = 0 /\ depth + 1 = 1
      BY <1>0, <1>3 DEF Tick
    <3>. QED
      BY <1>3, <3>1 DEF Tick, server
  <2>2. frame'[1] = NewFrame(running)
    BY <1>0, <2>1 DEF TypeOK
  <2>3. Alive' = Alive /\ InFlight' = 0 /\ InFlight = 0 /\ Slots' = Slots
    BY <2>1, <2>2 DEF Alive, InFlight, NewFrame, Slots
  <2>4. Apart' /\ Drained'
    BY <2>1, <2>2, NoThreadAssumption DEF Apart, Drained, NewFrame, TypeOK
  <2>. QED
    BY <1>0, <2>1, <2>3, <2>4 DEF CountInv
<1>4. ASSUME NEW t \in Threads, FilterVisit(t) PROVE CountInv'
  <2>. DEFINE keep == [Top EXCEPT !.rest = @ \ {t}, !.kept = @ \cup {t}]
              run  == [Top EXCEPT !.rest = @ \ {t}, !.cur = t]
              drop == [Top EXCEPT !.rest = @ \ {t}]
  <2>1. /\ depth = 1 /\ frame[1] = Top /\ Top \in Frames /\ Top.pc = "filter"
        /\ Top.cur = NoThread /\ t \in Top.rest
        /\ UNCHANGED <<depth, exn, running, queue, scheduled>>
    BY <1>0, <1>4, <1>a DEF FilterVisit, At, Between
  <2>2. /\ Top.rest \cap Top.kept = {} /\ Alive = Top.rest \cup Top.kept /\ InFlight = 0
        /\ Top.stage = 0
    BY <2>1 DEF CountInv, Apart, Alive, InFlight
  <2>3. /\ keep.pc = "filter" /\ keep.rest = Top.rest \ {t} /\ keep.kept = Top.kept \cup {t}
        /\ keep.cur = NoThread
        /\ keep.stage = Top.stage /\ run.stage = Top.stage /\ drop.stage = Top.stage
        /\ run.pc = "filter" /\ run.rest = Top.rest \ {t} /\ run.kept = Top.kept /\ run.cur = t
        /\ drop.pc = "filter" /\ drop.rest = Top.rest \ {t} /\ drop.kept = Top.kept
        /\ drop.cur = NoThread
    BY <2>1 DEF Frames
  <2>4. \/ frame'[1] = keep /\ terminated' = terminated
        \/ frame'[1] = run /\ terminated' = terminated
        \/ frame'[1] = drop /\ terminated' = terminated + 1
    <3>1. \/ SetTop(keep) /\ terminated' = terminated
          \/ SetTop(run) /\ terminated' = terminated
          \/ SetTop(drop) /\ terminated' = terminated + 1
      BY <1>4 DEF FilterVisit
    <3>. HIDE DEF keep, run, drop
    <3>. QED
      BY <1>0, <2>1, <3>1 DEF SetTop, TypeOK
  <2>. HIDE DEF keep, run, drop
  <2>5. Slots' = Slots
    BY <2>1 DEF Slots
  <2>6. Apart' /\ Drained'
    <3>1. Top.rest \subseteq Threads /\ Top.kept \subseteq Threads
      BY <2>1 DEF Frames
    <3>. QED
      BY <2>1, <2>2, <2>3, <2>4, <3>1, NoThreadAssumption DEF Apart, Drained
  <2>7. Alive' = frame'[1].rest \cup frame'[1].kept
    BY <2>1, <2>3, <2>4 DEF Alive
  <2>8. Cardinality(Alive \ {t}) = Cardinality(Alive) - 1
    BY <1>0, <1>b, <2>1, <2>2, FS_RemoveElement
  <2>9. CASE frame'[1] = keep /\ terminated' = terminated
    <3>1. Alive' = Alive /\ InFlight' = 0
      BY <2>1, <2>2, <2>3, <2>7, <2>9 DEF InFlight
    <3>. QED
      BY <1>0, <2>1, <2>2, <2>5, <2>6, <2>9, <3>1 DEF CountInv
  <2>10. CASE frame'[1] = run /\ terminated' = terminated
    <3>1. Alive' = Alive \ {t} /\ InFlight' = 1
      BY <2>1, <2>2, <2>3, <2>7, <2>10, NoThreadAssumption DEF InFlight
    <3>. QED
      BY <1>0, <1>b, <2>1, <2>2, <2>5, <2>6, <2>8, <2>10, <3>1 DEF CountInv
  <2>11. CASE frame'[1] = drop /\ terminated' = terminated + 1
    <3>1. Alive' = Alive \ {t} /\ InFlight' = 0
      BY <2>1, <2>2, <2>3, <2>7, <2>11 DEF InFlight
    <3>. QED
      BY <1>0, <1>b, <2>1, <2>2, <2>5, <2>6, <2>8, <2>11, <3>1 DEF CountInv
  <2>. QED
    BY <2>4, <2>9, <2>10, <2>11
<1>5. ASSUME NEW t \in Threads, NEW s \in {"waiting", "done"}, FilterReturn(t, s)
      PROVE  CountInv'
  <2>. DEFINE keep == [Top EXCEPT !.kept = @ \cup {t}, !.cur = NoThread]
              drop == [Top EXCEPT !.cur = NoThread]
  <2>1. /\ depth = 1 /\ frame[1] = Top /\ Top \in Frames /\ Top.pc = "filter" /\ Top.cur = t
        /\ UNCHANGED <<depth, exn, running, queue, scheduled>>
    BY <1>0, <1>5, <1>a DEF FilterReturn, At, Leave
  <2>2. /\ Top.rest \cap Top.kept = {} /\ t \notin Top.rest \cup Top.kept
        /\ Alive = Top.rest \cup Top.kept /\ InFlight = 1 /\ Top.stage = 0
    BY <2>1, NoThreadAssumption DEF CountInv, Apart, Alive, InFlight
  <2>3. /\ keep.pc = "filter" /\ keep.rest = Top.rest /\ keep.kept = Top.kept \cup {t}
        /\ keep.cur = NoThread /\ keep.stage = Top.stage /\ drop.stage = Top.stage
        /\ drop.pc = "filter" /\ drop.rest = Top.rest /\ drop.kept = Top.kept
        /\ drop.cur = NoThread
    BY <2>1 DEF Frames
  <2>4. \/ frame'[1] = keep /\ terminated' = terminated
        \/ frame'[1] = drop /\ terminated' = terminated + 1
    <3>1. \/ SetTop(keep) /\ terminated' = terminated
          \/ SetTop(drop) /\ terminated' = terminated + 1
      BY <1>5 DEF FilterReturn
    <3>. HIDE DEF keep, drop
    <3>. QED
      BY <1>0, <2>1, <3>1 DEF SetTop, TypeOK
  <2>. HIDE DEF keep, drop
  <2>5. Slots' = Slots
    BY <2>1 DEF Slots
  <2>6. Top.rest \subseteq Threads /\ Top.kept \subseteq Threads
    BY <2>1 DEF Frames
  <2>7. Apart' /\ Drained'
    BY <2>1, <2>2, <2>3, <2>4, <2>6, NoThreadAssumption DEF Apart, Drained
  <2>8. Alive' = frame'[1].rest \cup frame'[1].kept
    BY <2>1, <2>3, <2>4 DEF Alive
  <2>12. InFlight' = 0
    BY <2>1, <2>3, <2>4 DEF InFlight
  <2>9. Cardinality(Alive \cup {t}) = Cardinality(Alive) + 1
    BY <1>0, <1>b, <2>2, FS_AddElement
  <2>10. CASE frame'[1] = keep /\ terminated' = terminated
    <3>1. Alive' = Alive \cup {t}
      BY <2>2, <2>3, <2>8, <2>10
    <3>. QED
      BY <1>0, <1>b, <2>1, <2>2, <2>5, <2>7, <2>9, <2>10, <2>12, <3>1 DEF CountInv
  <2>11. CASE frame'[1] = drop /\ terminated' = terminated + 1
    <3>1. Alive' = Alive
      BY <2>2, <2>3, <2>8, <2>11
    <3>. QED
      BY <1>0, <1>b, <2>1, <2>2, <2>5, <2>7, <2>11, <2>12, <3>1 DEF CountInv
  <2>. QED
    BY <2>4, <2>10, <2>11
<1>6. CASE FilterExit
  <2>. DEFINE f == [Top EXCEPT !.pc = "schedule"]
  <2>1. /\ depth = 1 /\ frame[1] = Top /\ Top \in Frames /\ Top.pc = "filter"
        /\ Top.cur = NoThread /\ Top.rest = {} /\ running' = Top.kept
        /\ UNCHANGED <<depth, exn, queue, scheduled, terminated>>
    BY <1>0, <1>6, <1>a DEF FilterExit, At, Between
  <2>2. f.pc = "schedule" /\ f.cur = NoThread /\ f.stage = Top.stage
    BY <2>1 DEF Frames
  <2>3. frame'[1] = f
    <3>1. SetTop(f)
      BY <1>6 DEF FilterExit
    <3>. HIDE DEF f
    <3>. QED
      BY <1>0, <2>1, <3>1 DEF SetTop, TypeOK
  <2>. HIDE DEF f
  <2>4. Top.stage = 0 /\ Top.kept \subseteq Threads
    BY <2>1 DEF Frames, CountInv, Apart
  <2>5. Alive' = Alive /\ InFlight' = InFlight /\ Slots' = Slots
    BY <2>1, <2>2, <2>3 DEF Alive, InFlight, Slots
  <2>6. Apart'
    BY <2>1, <2>2, <2>3, <2>4, NoThreadAssumption DEF Apart
  <2>7. Drained'
    BY <2>2, <2>3, <2>4 DEF Drained, StageIds
  <2>. QED
    BY <2>1, <2>5, <2>6, <2>7 DEF CountInv
<1>7. ASSUME NEW t \in Threads, ScheduleTake(t) PROVE CountInv'
  <2>. DEFINE run == [Top EXCEPT !.cur = t]
  <2>1. /\ depth = 1 /\ frame[1] = Top /\ Top \in Frames /\ Top.pc = "schedule"
        /\ Top.cur = NoThread /\ UNCHANGED <<depth, exn, running, scheduled>>
    BY <1>0, <1>7, <1>a DEF ScheduleTake, At, Between
  <2>2. run.pc = "schedule" /\ run.cur = t /\ run.stage = Top.stage
    BY <2>1 DEF Frames
  <2>3. \/ frame'[1] = run /\ terminated' = terminated
        \/ frame' = frame /\ terminated' = terminated + 1
    <3>1. \/ SetTop(run) /\ terminated' = terminated
          \/ frame' = frame /\ terminated' = terminated + 1
      BY <1>7 DEF ScheduleTake
    <3>. HIDE DEF run
    <3>. QED
      BY <1>0, <2>1, <3>1 DEF SetTop, TypeOK
  <2>. HIDE DEF run
  <2>4. t \notin running
    BY <1>7, TakePlacement DEF Placement, Started
  <2>5. IsFiniteSet(Slots') /\ Cardinality(Slots) = Cardinality(Slots') + 1
        /\ Cardinality(Slots') \in Nat
    BY <1>7, TakeSlots, FS_CardinalityType DEF CountInv
  <2>6. Alive' = Alive /\ Alive = running
    BY <2>1, <2>2, <2>3 DEF Alive
  <2>7. InFlight = 0 /\ InFlight' = IF frame'[1].cur # NoThread THEN 1 ELSE 0
    BY <2>1 DEF InFlight
  <2>8. Apart'
    BY <2>1, <2>2, <2>3, <2>4 DEF Apart, CountInv
  <2>9. Drained'
    <3>1. \A i \in StageIds : queue[i] = <<>> => queue'[i] = <<>>
      BY <1>7 DEF ScheduleTake, MayTake, TypeOK
    <3>2. frame'[1].pc = "schedule" /\ frame'[1].stage = Top.stage
      BY <2>1, <2>2, <2>3
    <3>. QED
      BY <2>1, <3>1, <3>2 DEF Drained, CountInv
  <2>10. CASE frame'[1] = run /\ terminated' = terminated
    <3>1. InFlight' = 1
      BY <2>2, <2>7, <2>10, NoThreadAssumption
    <3>2. InFlight = 0
      BY <2>7
    <3>. QED
      BY <1>0, <1>b, <2>1, <2>5, <2>6, <2>8, <2>9, <2>10, <3>1, <3>2 DEF CountInv
  <2>11. CASE frame' = frame /\ terminated' = terminated + 1
    <3>1. InFlight' = 0 /\ InFlight = 0
      BY <2>1, <2>7, <2>11
    <3>. QED
      BY <1>0, <1>b, <2>1, <2>5, <2>6, <2>8, <2>9, <2>11, <3>1 DEF CountInv
  <2>. QED
    BY <2>3, <2>10, <2>11
<1>8. ASSUME NEW t \in Threads, NEW s \in {"waiting", "done"}, ScheduleReturn(t, s)
      PROVE  CountInv'
  <2>. DEFINE f == [Top EXCEPT !.cur = NoThread]
  <2>1. /\ depth = 1 /\ frame[1] = Top /\ Top \in Frames /\ Top.pc = "schedule" /\ Top.cur = t
        /\ UNCHANGED <<depth, exn, queue, scheduled>>
    BY <1>0, <1>8, <1>a DEF ScheduleReturn, At, Leave
  <2>2. f.pc = "schedule" /\ f.cur = NoThread /\ f.stage = Top.stage
    BY <2>1 DEF Frames
  <2>3. frame'[1] = f
    <3>1. SetTop(f)
      BY <1>8 DEF ScheduleReturn
    <3>. HIDE DEF f
    <3>. QED
      BY <1>0, <2>1, <3>1 DEF SetTop, TypeOK
  <2>. HIDE DEF f
  <2>4. t \notin running
    BY <2>1 DEF CountInv, Apart
  <2>5. Slots' = Slots /\ InFlight' = 0
    BY <2>1, <2>2, <2>3 DEF Slots, InFlight
  <2>6. InFlight = 1
    BY <2>1, NoThreadAssumption DEF InFlight
  <2>7. Alive = running /\ Alive' = running'
    BY <2>1, <2>2, <2>3 DEF Alive
  <2>8. Cardinality(running \cup {t}) = Cardinality(running) + 1
    BY <1>0, <2>4, FS_AddElement DEF TypeOK
  <2>9. \/ running' = running \cup {t} /\ terminated' = terminated
        \/ running' = running /\ terminated' = terminated + 1
    BY <1>8 DEF ScheduleReturn
  <2>10. Apart'
    <3>1. NoThread \notin running'
      BY <2>9, NoThreadAssumption DEF TypeOK
    <3>. QED
      BY <2>2, <2>3, <3>1 DEF Apart
  <2>11. Drained'
    BY <2>1, <2>2, <2>3, <2>9 DEF Drained, CountInv
  <2>12. Cardinality(running) \in Nat
    BY <1>0 DEF TypeOK
  <2>13. terminated' + Cardinality(running') = terminated + Cardinality(running) + 1
    BY <1>0, <2>8, <2>9, <2>12
  <2>14. Cardinality(running') \in Nat /\ terminated' \in Nat
    BY <1>0, <2>8, <2>9, <2>12
  <2>15. terminated + Cardinality(running) + Cardinality(Slots) + 1 = scheduled
    BY <2>6, <2>7 DEF CountInv
  <2>16. terminated' + Cardinality(running') + Cardinality(Slots) + 0 = scheduled
    BY <1>0, <2>12, <2>13, <2>14, <2>15
  <2>. QED
    BY <2>1, <2>5, <2>7, <2>10, <2>11, <2>16 DEF CountInv
<1>9. CASE ScheduleNext
  <2>. DEFINE f == [Top EXCEPT !.stage = @ + 1]
              g == [Top EXCEPT !.pc = "yield"]
  <2>1. /\ depth = 1 /\ frame[1] = Top /\ Top \in Frames /\ Top.pc = "schedule"
        /\ Top.cur = NoThread /\ ~MayTake
        /\ UNCHANGED <<depth, exn, queue, scheduled, terminated, running>>
    BY <1>0, <1>9, <1>a DEF ScheduleNext, At, Between, server
  <2>2. /\ f.pc = "schedule" /\ f.cur = NoThread /\ f.stage = Top.stage + 1
        /\ g.pc = "yield" /\ g.cur = NoThread
    BY <2>1 DEF Frames
  <2>3. \/ Top.stage + 1 < NStages /\ frame'[1] = f
        \/ Top.stage + 1 = NStages /\ frame'[1] = g
    <3>1. \/ Top.stage + 1 < NStages /\ SetTop(f)
          \/ Top.stage + 1 = NStages /\ SetTop(g)
      BY <1>9 DEF ScheduleNext
    <3>. HIDE DEF f, g
    <3>. QED
      BY <1>0, <2>1, <3>1 DEF SetTop, TypeOK
  <2>. HIDE DEF f, g
  <2>4. Alive' = Alive /\ InFlight' = InFlight /\ Slots' = Slots
    BY <2>1, <2>2, <2>3 DEF Alive, InFlight, Slots
  <2>5. NoThread \notin running
    BY NoThreadAssumption DEF TypeOK
  <2>6. Apart'
    BY <2>1, <2>2, <2>3, <2>5 DEF Apart
  <2>7. running = {} => \A i \in StageIds : i < Top.stage + 1 => queue[i] = <<>>
    <3>. SUFFICES ASSUME running = {} PROVE \A i \in StageIds : i < Top.stage + 1 => queue[i] = <<>>
      OBVIOUS
    <3>1. procs \in Nat /\ procs # 0
      BY ProcsAssumption DEF TypeOK, PlainUse
    <3>2. queue[Top.stage] = <<>>
      BY <2>1, <3>1, FS_EmptySet DEF MayTake
    <3>3. \A i \in StageIds : i < Top.stage + 1 => i < Top.stage \/ i = Top.stage
      BY <2>1 DEF Frames, StageIds
    <3>. QED
      BY <2>1, <3>2, <3>3 DEF CountInv, Drained
  <2>8. Top.stage + 1 = NStages => \A i \in StageIds : i < Top.stage + 1
    BY StagesAssumption DEF StageIds
  <2>9. Drained'
    BY <2>1, <2>2, <2>3, <2>7, <2>8 DEF Drained, IsEmpty
  <2>. QED
    BY <2>1, <2>4, <2>6, <2>9 DEF CountInv
<1>10. CASE YieldReturn
  <2>. DEFINE f == [Top EXCEPT !.pc = "activity"]
  <2>1. /\ depth = 1 /\ frame[1] = Top /\ Top \in Frames /\ Top.pc = "yield"
        /\ Top.cur = NoThread
        /\ UNCHANGED <<depth, exn, queue, scheduled, terminated, running>>
    BY <1>0, <1>10, <1>a DEF YieldReturn, At, Between, server
  <2>2. f.pc = "activity" /\ f.cur = NoThread
    BY <2>1 DEF Frames
  <2>3. frame'[1] = f
    <3>1. SetTop(f)
      BY <1>10 DEF YieldReturn
    <3>. HIDE DEF f
    <3>. QED
      BY <1>0, <2>1, <3>1 DEF SetTop, TypeOK
  <2>. HIDE DEF f
  <2>4. Alive' = Alive /\ InFlight' = InFlight /\ Slots' = Slots
    BY <2>1, <2>2, <2>3 DEF Alive, InFlight, Slots
  <2>5. Apart' /\ Drained'
    BY <2>1, <2>2, <2>3 DEF Apart, Drained, CountInv, IsEmpty
  <2>. QED
    BY <2>1, <2>4, <2>5 DEF CountInv
<1>11. ASSUME ProgressTrue \/ ProgressFalse PROVE CountInv'
  <2>1. /\ depth = 1 /\ frame[1] = Top /\ Top.pc = "activity" /\ Top.cur = NoThread
        /\ depth' = 0 /\ UNCHANGED <<exn, queue, running>>
    BY <1>0, <1>11, <1>a DEF ProgressTrue, ProgressFalse, At, Between, Pop
  <2>2. Alive = running /\ Alive' = running /\ InFlight = 0 /\ InFlight' = 0 /\ Slots' = Slots
    BY <2>1 DEF Alive, InFlight, Slots
  <2>3. Apart' /\ Drained'
    BY <2>1 DEF Apart, Drained
  <2>4. CASE ProgressTrue
    BY <2>1, <2>2, <2>3, <2>4 DEF CountInv, ProgressTrue
  <2>5. CASE ProgressFalse
    <3>1. running = {} /\ scheduled' = 0 /\ terminated' = 0
      BY <2>5 DEF ProgressFalse
    <3>2. Slots = {}
      BY <2>1, <3>1, EmptySlots DEF CountInv, Drained
    <3>3. Cardinality({}) = 0
      BY FS_EmptySet
    <3>. QED
      BY <2>1, <2>2, <2>3, <3>1, <3>2, <3>3 DEF CountInv
  <2>. QED
    BY <1>11, <2>4, <2>5
<1>. QED
  <2>1. ~(\E t \in Threads : Raise(t)) /\ ~YieldRaise /\ ~Unwind
    BY <1>0 DEF Raise, YieldRaise, Unwind, PlainUse, CountInv, TypeOK
  <2>. QED
    BY <1>1, <1>2, <1>3, <1>4, <1>5, <1>6, <1>7, <1>8, <1>9, <1>10, <1>11, <2>1
    DEF Next, Client, Steps, Return

\* When tasks neither yield nor raise, the counters account for every thread.
THEOREM CountersConserved == PlainUse => (Spec => []Conservation)
<1>. SUFFICES ASSUME PlainUse PROVE Spec => []Conservation
  OBVIOUS
<1>1. Init => Placement /\ LockInv /\ CountInv
  BY PlacementInit, EntryInit, CountInit
<1>2. TypeOK /\ (Placement /\ LockInv /\ CountInv) /\ [Next]_vars
      => (Placement /\ LockInv /\ CountInv)'
  BY EntryStep, CountStep DEF EntryInv
<1>3. TypeOK /\ CountInv => Conservation
  <2>. SUFFICES ASSUME TypeOK, CountInv, depth = 0
                PROVE  terminated + Cardinality(running) + Cardinality(Slots) = scheduled
    BY DEF Conservation
  <2>1. Alive = running /\ InFlight = 0
    BY DEF Alive, InFlight
  <2>2. IsFiniteSet(running) /\ IsFiniteSet(Slots)
    BY <2>1, FS_Subset DEF CountInv, PlainUse, TypeOK
  <2>3. Cardinality(running) \in Nat /\ Cardinality(Slots) \in Nat /\ terminated \in Nat
    BY <2>2, FS_CardinalityType DEF TypeOK
  <2>. QED
    BY <2>1, <2>3 DEF CountInv
<1>. QED
  BY <1>1, <1>2, <1>3, TypeCorrect, PTL DEF Spec

-------------------------------------------------------------------------------
(* The flag waiting.                                                       *)

\* The flag waiting is only up while every queue is empty (task.ml:477), for
\* any nesting of the calls and any exception.
THEOREM WaitingIsScheduled == Spec => []WaitingMeansScheduled
<1>1. Init => WaitingMeansScheduled
  BY DEF Init, WaitingMeansScheduled
<1>2. TypeOK /\ WaitingMeansScheduled /\ [Next]_vars => WaitingMeansScheduled'
  <2>. SUFFICES ASSUME TypeOK, WaitingMeansScheduled, [Next]_vars
                PROVE  WaitingMeansScheduled'
    OBVIOUS
  <2>1. ASSUME NEW t \in Threads, NEW i \in StageIds, spawn(t, i)
        PROVE  WaitingMeansScheduled'
    BY <2>1 DEF spawn, WaitingMeansScheduled
  <2>2. ASSUME NEW t \in Threads, ScheduleTake(t) PROVE WaitingMeansScheduled'
    <3>1. Top.stage \in StageIds /\ queue[Top.stage] # <<>> /\ waiting' = waiting
      BY <2>2, TopType DEF ScheduleTake, MayTake, At, Between, Frames
    <3>. QED
      BY <3>1 DEF WaitingMeansScheduled, IsEmpty
  <2>3. CASE ProgressTrue
    BY <2>3 DEF ProgressTrue, WaitingMeansScheduled, IsEmpty
  <2>4. ASSUME UNCHANGED <<queue, waiting>> PROVE WaitingMeansScheduled'
    BY <2>4 DEF WaitingMeansScheduled, IsEmpty
  <2>5. \/ \E t \in Threads, i \in StageIds : spawn(t, i)
        \/ \E t \in Threads : ScheduleTake(t)
        \/ ProgressTrue
        \/ UNCHANGED <<queue, waiting>>
    BY DEF Next, Client, Steps, Return, launch, set_procs, cancel, cancel_all, Tick,
       FilterVisit, FilterExit, ScheduleNext, YieldReturn, ProgressFalse, FilterReturn,
       ScheduleReturn, Raise, YieldRaise, Unwind, Abort, vars, server, calls
  <2>. QED
    BY <2>1, <2>2, <2>3, <2>4, <2>5
<1>. QED
  BY <1>1, <1>2, TypeCorrect, PTL DEF Spec

-------------------------------------------------------------------------------
(* The threads, and the running list, of calls that do not nest.           *)

\* The tasks do not yield and nothing raises.
SingleCall == MaxDepth = 1 /\ MaxRaises = 0 /\ IsFiniteSet(Threads)

\* A thread that is not finished is queued, in the running list as the call
\* rebuilds it, or in progress.
Held(t) == InQueue(t) \/ t \in Alive \/ (depth = 1 /\ frame[1].cur = t)

\* The list that is rebuilt has no thread the old one has not, and the thread
\* taken from a queue has a processor until it returns.
HeldInv ==
  /\ exn = FALSE
  /\ \A t \in Threads : task[t] \in {"todo", "waiting"} => Held(t)
  /\ depth = 1 /\ frame[1].pc = "filter" =>
       frame[1].rest \cup frame[1].kept \cup ({frame[1].cur} \ {NoThread}) \subseteq running
  /\ depth = 1 /\ frame[1].pc = "schedule" /\ frame[1].cur # NoThread =>
       Cardinality(running) < procs
  /\ depth = 1 /\ frame[1].pc \in {"yield", "activity"} => frame[1].cur = NoThread

LEMMA HeldInit == ASSUME SingleCall, Init PROVE HeldInv
  BY DEF Init, HeldInv

\* A step that leaves the queues, the calls and the list alone, and unfinished
\* threads where they were.
LEMMA HeldSame ==
  ASSUME HeldInv, UNCHANGED <<queue, running, depth, frame, exn>>,
         \A t \in Threads : task'[t] \in {"todo", "waiting"} => task[t] \in {"todo", "waiting"},
         depth = 1 /\ frame[1].pc = "schedule" => procs' = procs
  PROVE  HeldInv'
<1>1. \A t : Held(t)' <=> Held(t)
  BY DEF Held, InQueue, Alive
<1>. QED
  BY <1>1 DEF HeldInv

\* The threads that a cancellation leaves unfinished were unfinished.
LEMMA KillUnfinished ==
  ASSUME TypeOK, NEW T, Kill(T)
  PROVE  \A t \in Threads : task'[t] \in {"todo", "waiting"} => task[t] \in {"todo", "waiting"}
  BY DEF Kill, TypeOK

\* The single call goes on as f.
LEMMA SingleTop ==
  ASSUME SingleCall, TypeOK, depth > 0
  PROVE  /\ depth = 1 /\ Top = frame[1] /\ Top \in Frames
         /\ \A f : SetTop(f) => frame'[1] = f
  BY TopType DEF SingleCall, TypeOK, Top, SetTop

\* The queues lose only the thread that is taken.
LEMMA TakeQueued ==
  ASSUME TypeOK, NEW t \in Threads, ScheduleTake(t)
  PROVE  \A u \in Threads : InQueue(u) => InQueue(u)' \/ u = t
<1>. DEFINE s == Top.stage
<1>1. s \in StageIds /\ queue[s] \in Seq(Threads) /\ queue[s] # <<>> /\ t = Head(queue[s])
  BY TopType DEF ScheduleTake, MayTake, At, Between, Frames, TypeOK
<1>2. queue' = [queue EXCEPT ![s] = Tail(@)] /\ queue \in [StageIds -> Seq(Threads)]
  BY DEF ScheduleTake, TypeOK
<1>. SUFFICES ASSUME NEW u \in Threads, u # t, NEW i \in StageIds,
                     NEW j \in DOMAIN queue[i], queue[i][j] = u
              PROVE  \E k \in StageIds : \E l \in DOMAIN queue'[k] : queue'[k][l] = u
  BY DEF InQueue
<1>3. CASE i # s
  <2>1. queue'[i] = queue[i]
    BY <1>2, <1>3
  <2>. QED
    BY <2>1
<1>4. CASE i = s
  <2>1. queue'[s] = Tail(queue[s])
    BY <1>1, <1>2
  <2>2. j \in 2 .. Len(queue[s])
    BY <1>1, <1>4
  <2>3. j - 1 \in DOMAIN Tail(queue[s]) /\ Tail(queue[s])[j - 1] = queue[s][j]
    BY <1>1, <2>2
  <2>. QED
    BY <1>1, <1>4, <2>1, <2>3
<1>. QED
  BY <1>3, <1>4

\* Every step of a single call keeps the threads, and the list only grows by a
\* thread for which there is a processor.
LEMMA HeldStep ==
  ASSUME SingleCall, TypeOK, HeldInv, [Next]_vars
  PROVE  /\ HeldInv'
         /\ Cardinality(running') > Cardinality(running) => Cardinality(running') <= procs
<1>. DEFINE Goal == /\ HeldInv'
                    /\ Cardinality(running') > Cardinality(running)
                         => Cardinality(running') <= procs
<1>0. /\ depth \in {0, 1} /\ exn = FALSE /\ MaxDepth = 1 /\ procs \in Nat
      /\ \A T \in SUBSET Threads : IsFiniteSet(T) /\ Cardinality(T) \in Nat
      /\ running \in SUBSET Threads
  BY FS_Subset, FS_CardinalityType, ProcsAssumption DEF SingleCall, HeldInv, TypeOK
<1>a. UNCHANGED running => (Cardinality(running') > Cardinality(running)
                              => Cardinality(running') <= procs)
  BY <1>0
<1>1. ASSUME NEW t \in Threads, NEW i \in StageIds, spawn(t, i) PROVE Goal
  <2>1. queue' = [queue EXCEPT ![i] = Append(@, t)] /\ queue \in [StageIds -> Seq(Threads)]
        /\ task' = [task EXCEPT ![t] = "todo"]
        /\ UNCHANGED <<running, procs, depth, frame, exn>>
    BY <1>1 DEF spawn, TypeOK, calls
  <2>2. /\ \A k \in StageIds \ {i} : queue'[k] = queue[k]
        /\ queue'[i] = Append(queue[i], t) /\ queue[i] \in Seq(Threads)
    BY <2>1
  <2>3. InQueue(t)'
    <3>1. Len(queue[i]) + 1 \in DOMAIN queue'[i] /\ queue'[i][Len(queue[i]) + 1] = t
      BY <2>2
    <3>. QED
      BY <3>1 DEF InQueue
  <2>4. ASSUME NEW u \in Threads, InQueue(u) PROVE InQueue(u)'
    <3>1. PICK k \in StageIds : \E j \in DOMAIN queue[k] : queue[k][j] = u
      BY <2>4 DEF InQueue
    <3>2. \A j \in DOMAIN queue[k] : j \in DOMAIN queue'[k] /\ queue'[k][j] = queue[k][j]
      BY <2>2
    <3>. QED
      BY <3>1, <3>2 DEF InQueue
  <2>5. Alive' = Alive
    BY <2>1 DEF Alive
  <2>6. \A u \in Threads : task'[u] \in {"todo", "waiting"} => Held(u)'
    BY <2>1, <2>3, <2>4, <2>5 DEF HeldInv, Held, TypeOK
  <2>. QED
    BY <1>a, <2>1, <2>6 DEF HeldInv
<1>2. ASSUME \/ launch
             \/ \E p \in ProcsValues : set_procs(p)
             \/ \E t \in Threads : cancel(t)
             \/ cancel_all
             \/ UNCHANGED vars
      PROVE  Goal
  <2>1. UNCHANGED <<queue, running, depth, frame, exn>>
    BY <1>2 DEF launch, set_procs, cancel, cancel_all, server, calls, vars
  <2>2. \A t \in Threads : task'[t] \in {"todo", "waiting"} => task[t] \in {"todo", "waiting"}
    BY <1>2, KillUnfinished DEF launch, set_procs, cancel, cancel_all, vars
  <2>3. depth = 1 /\ frame[1].pc = "schedule" => procs' = procs
    <3>. SUFFICES ASSUME depth = 1, frame[1].pc = "schedule" PROVE procs' = procs
      OBVIOUS
    <3>0. Top = frame[1]
      BY SingleTop
    <3>1. ~Outside /\ ~InYield /\ ~(MaxDepth > 1)
      BY <1>0, <3>0 DEF Outside, InYield
    <3>2. ~(\E p \in ProcsValues : set_procs(p))
      BY <3>1 DEF set_procs
    <3>. QED
      BY <1>2, <3>2 DEF launch, cancel, cancel_all, server, vars
  <2>. QED
    BY <1>a, <2>1, <2>2, <2>3, HeldSame
<1>3. ASSUME Tick PROVE Goal
  <2>1. depth = 0
    BY <1>0, <1>3 DEF Tick
  <2>2. /\ depth' = 1 /\ frame' = [frame EXCEPT ![1] = NewFrame(running)]
        /\ UNCHANGED <<task, queue, running, procs, exn>>
    BY <1>3, <2>1 DEF Tick, server
  <2>3. frame'[1] = NewFrame(running)
    BY <1>0, <2>2 DEF TypeOK
  <2>4. \A t : Held(t) => Held(t)'
    BY <2>1, <2>2, <2>3 DEF Held, InQueue, Alive, NewFrame
  <2>. QED
    BY <1>a, <2>2, <2>3, <2>4 DEF HeldInv, NewFrame
<1>4. ASSUME NEW t \in Threads, FilterVisit(t) PROVE Goal
  <2>. DEFINE keep == [Top EXCEPT !.rest = @ \ {t}, !.kept = @ \cup {t}]
              run  == [Top EXCEPT !.rest = @ \ {t}, !.cur = t]
              drop == [Top EXCEPT !.rest = @ \ {t}]
  <2>1. /\ depth = 1 /\ frame[1] = Top /\ Top \in Frames /\ Top.pc = "filter"
        /\ Top.cur = NoThread /\ t \in Top.rest
        /\ UNCHANGED <<depth, exn, running, queue, task, procs>>
    BY <1>0, <1>4, SingleTop DEF FilterVisit, At, Between
  <2>2. \/ frame'[1] = keep
        \/ frame'[1] = run
        \/ frame'[1] = drop /\ task[t] = "done"
    <3>1. \/ SetTop(keep)
          \/ SetTop(run)
          \/ SetTop(drop) /\ task[t] = "done"
      BY <1>4 DEF FilterVisit
    <3>. HIDE DEF keep, run, drop
    <3>. QED
      BY <2>1, <3>1, SingleTop
  <2>3. /\ keep.pc = "filter" /\ keep.rest = Top.rest \ {t} /\ keep.kept = Top.kept \cup {t}
        /\ keep.cur = NoThread
        /\ run.pc = "filter" /\ run.rest = Top.rest \ {t} /\ run.kept = Top.kept /\ run.cur = t
        /\ drop.pc = "filter" /\ drop.rest = Top.rest \ {t} /\ drop.kept = Top.kept
        /\ drop.cur = NoThread
    BY <2>1 DEF Frames
  <2>. HIDE DEF keep, run, drop
  <2>4. Top.rest \cup Top.kept \subseteq running
    BY <2>1 DEF HeldInv
  <2>5. /\ depth' = 1 /\ frame'[1].pc = "filter" /\ exn' = FALSE
        /\ frame'[1].rest \cup frame'[1].kept \cup ({frame'[1].cur} \ {NoThread}) \subseteq running'
    BY <1>0, <2>1, <2>2, <2>3, <2>4
  <2>6. ASSUME NEW u \in Threads, task'[u] \in {"todo", "waiting"} PROVE Held(u)'
    <3>1. InQueue(u) \/ u \in Top.rest \cup Top.kept
      BY <2>1, <2>6, NoThreadAssumption DEF HeldInv, Held, Alive
    <3>2. Alive' = frame'[1].rest \cup frame'[1].kept
      BY <2>5 DEF Alive
    <3>3. InQueue(u) => InQueue(u)'
      BY <2>1 DEF InQueue
    <3>4. u \in Top.rest \cup Top.kept => u \in frame'[1].rest \cup frame'[1].kept \/ frame'[1].cur = u
      BY <2>1, <2>2, <2>3, <2>6
    <3>. QED
      BY <2>5, <3>1, <3>2, <3>3, <3>4 DEF Held
  <2>. QED
    BY <1>a, <2>1, <2>5, <2>6 DEF HeldInv
<1>5. ASSUME NEW t \in Threads, NEW s \in {"waiting", "done"}, FilterReturn(t, s)
      PROVE  Goal
  <2>. DEFINE keep == [Top EXCEPT !.kept = @ \cup {t}, !.cur = NoThread]
              drop == [Top EXCEPT !.cur = NoThread]
  <2>1. /\ depth = 1 /\ frame[1] = Top /\ Top \in Frames /\ Top.pc = "filter" /\ Top.cur = t
        /\ task' = [task EXCEPT ![t] = s]
        /\ UNCHANGED <<depth, exn, running, queue, procs>>
    BY <1>0, <1>5, SingleTop DEF FilterReturn, At, Leave
  <2>2. \/ frame'[1] = keep
        \/ frame'[1] = drop /\ s = "done"
    <3>1. \/ SetTop(keep)
          \/ SetTop(drop) /\ s = "done"
      BY <1>5 DEF FilterReturn
    <3>. HIDE DEF keep, drop
    <3>. QED
      BY <2>1, <3>1, SingleTop
  <2>3. /\ keep.pc = "filter" /\ keep.rest = Top.rest /\ keep.kept = Top.kept \cup {t}
        /\ keep.cur = NoThread
        /\ drop.pc = "filter" /\ drop.rest = Top.rest /\ drop.kept = Top.kept
        /\ drop.cur = NoThread
    BY <2>1 DEF Frames
  <2>. HIDE DEF keep, drop
  <2>4. Top.rest \cup Top.kept \cup {t} \subseteq running
    BY <2>1, NoThreadAssumption DEF HeldInv
  <2>5. /\ depth' = 1 /\ frame'[1].pc = "filter" /\ exn' = FALSE
        /\ frame'[1].rest \cup frame'[1].kept \cup ({frame'[1].cur} \ {NoThread}) \subseteq running'
    BY <1>0, <2>1, <2>2, <2>3, <2>4
  <2>6. ASSUME NEW u \in Threads, task'[u] \in {"todo", "waiting"} PROVE Held(u)'
    <3>1. task[u] \in {"todo", "waiting"} \/ u = t
      BY <2>1, <2>6 DEF TypeOK
    <3>2. Alive' = frame'[1].rest \cup frame'[1].kept
      BY <2>5 DEF Alive
    <3>3. InQueue(u) => InQueue(u)'
      BY <2>1 DEF InQueue
    <3>4. CASE u = t
      <4>1. s = "waiting"
        BY <2>1, <2>6, <3>4 DEF TypeOK
      <4>. QED
        BY <2>2, <2>3, <3>2, <3>4, <4>1 DEF Held
    <3>5. CASE u # t
      <4>1. InQueue(u) \/ u \in Top.rest \cup Top.kept
        BY <2>1, <3>1, <3>5 DEF HeldInv, Held, Alive
      <4>. QED
        BY <2>2, <2>3, <3>2, <3>3, <4>1 DEF Held
    <3>. QED
      BY <3>4, <3>5
  <2>. QED
    BY <1>a, <2>1, <2>5, <2>6 DEF HeldInv
<1>6. ASSUME FilterExit PROVE Goal
  <2>. DEFINE f == [Top EXCEPT !.pc = "schedule"]
  <2>1. /\ depth = 1 /\ frame[1] = Top /\ Top \in Frames /\ Top.pc = "filter"
        /\ Top.cur = NoThread /\ Top.rest = {} /\ running' = Top.kept
        /\ UNCHANGED <<depth, exn, queue, task, procs>>
    BY <1>0, <1>6, SingleTop DEF FilterExit, At, Between
  <2>2. f.pc = "schedule" /\ f.cur = NoThread
    BY <2>1 DEF Frames
  <2>3. frame'[1] = f
    <3>1. SetTop(f)
      BY <1>6 DEF FilterExit
    <3>. HIDE DEF f
    <3>. QED
      BY <2>1, <3>1, SingleTop
  <2>. HIDE DEF f
  <2>4. Alive' = Alive
    BY <2>1, <2>2, <2>3 DEF Alive
  <2>5. \A u \in Threads : Held(u) => Held(u)'
    BY <2>1, <2>2, <2>3, <2>4, NoThreadAssumption DEF Held, InQueue
  <2>6. HeldInv'
    BY <2>1, <2>2, <2>3, <2>5 DEF HeldInv
  <2>7. Cardinality(running') <= Cardinality(running)
    <3>1. running' \subseteq running
      BY <2>1 DEF HeldInv
    <3>. QED
      BY <1>0, <3>1, FS_Subset
  <2>8. Cardinality(running') \in Nat /\ Cardinality(running) \in Nat
    BY <1>0, <2>1 DEF Frames
  <2>. QED
    BY <2>6, <2>7, <2>8
<1>7. ASSUME NEW t \in Threads, ScheduleTake(t) PROVE Goal
  <2>. DEFINE run == [Top EXCEPT !.cur = t]
  <2>1. /\ depth = 1 /\ frame[1] = Top /\ Top \in Frames /\ Top.pc = "schedule"
        /\ Top.cur = NoThread /\ MayTake
        /\ UNCHANGED <<depth, exn, running, task, procs>>
    BY <1>0, <1>7, SingleTop DEF ScheduleTake, At, Between
  <2>2. run.pc = "schedule" /\ run.cur = t
    BY <2>1 DEF Frames
  <2>3. frame'[1] = run \/ (frame' = frame /\ task[t] = "done")
    <3>1. SetTop(run) \/ (frame' = frame /\ task[t] = "done")
      BY <1>7 DEF ScheduleTake
    <3>. HIDE DEF run
    <3>. QED
      BY <2>1, <3>1, SingleTop
  <2>. HIDE DEF run
  <2>4. frame'[1].pc = "schedule" /\ Alive' = Alive
    BY <2>1, <2>2, <2>3 DEF Alive
  <2>5. Cardinality(running) < procs
    BY <2>1 DEF MayTake
  <2>6. ASSUME NEW u \in Threads, task'[u] \in {"todo", "waiting"} PROVE Held(u)'
    <3>1. InQueue(u) \/ u \in Alive
      BY <2>1, <2>6, NoThreadAssumption DEF HeldInv, Held
    <3>2. InQueue(u) => InQueue(u)' \/ u = t
      BY <1>7, TakeQueued
    <3>3. u = t => frame'[1].cur = u
      BY <2>1, <2>2, <2>3, <2>6
    <3>. QED
      BY <2>1, <2>4, <3>1, <3>2, <3>3 DEF Held
  <2>7. HeldInv'
    BY <2>1, <2>4, <2>5, <2>6 DEF HeldInv
  <2>. QED
    BY <1>a, <2>1, <2>7
<1>8. ASSUME NEW t \in Threads, NEW s \in {"waiting", "done"}, ScheduleReturn(t, s)
      PROVE  Goal
  <2>. DEFINE f == [Top EXCEPT !.cur = NoThread]
  <2>1. /\ depth = 1 /\ frame[1] = Top /\ Top \in Frames /\ Top.pc = "schedule" /\ Top.cur = t
        /\ task' = [task EXCEPT ![t] = s]
        /\ UNCHANGED <<depth, exn, queue, procs>>
    BY <1>0, <1>8, SingleTop DEF ScheduleReturn, At, Leave
  <2>2. f.pc = "schedule" /\ f.cur = NoThread
    BY <2>1 DEF Frames
  <2>3. frame'[1] = f
    <3>1. SetTop(f)
      BY <1>8 DEF ScheduleReturn
    <3>. HIDE DEF f
    <3>. QED
      BY <2>1, <3>1, SingleTop
  <2>. HIDE DEF f
  <2>4. \/ s = "waiting" /\ running' = running \cup {t}
        \/ s = "done" /\ running' = running
    BY <1>8 DEF ScheduleReturn
  <2>5. Alive = running /\ Alive' = running'
    BY <2>1, <2>2, <2>3 DEF Alive
  <2>6. ASSUME NEW u \in Threads, task'[u] \in {"todo", "waiting"} PROVE Held(u)'
    <3>1. CASE u = t
      <4>1. s = "waiting"
        BY <2>1, <2>6, <3>1 DEF TypeOK
      <4>. QED
        BY <2>4, <2>5, <3>1, <4>1 DEF Held
    <3>2. CASE u # t
      <4>1. InQueue(u) \/ u \in running
        BY <2>1, <2>5, <2>6, <3>2 DEF HeldInv, Held, TypeOK
      <4>2. InQueue(u) => InQueue(u)'
        BY <2>1 DEF InQueue
      <4>. QED
        BY <2>4, <2>5, <4>1, <4>2 DEF Held
    <3>. QED
      BY <3>1, <3>2
  <2>7. HeldInv'
    BY <2>1, <2>2, <2>3, <2>6 DEF HeldInv
  <2>8. Cardinality(running) < procs
    BY <2>1, NoThreadAssumption DEF HeldInv
  <2>9. Cardinality(running') <= Cardinality(running) + 1
    <3>1. Cardinality(running \cup {t}) \in {Cardinality(running), Cardinality(running) + 1}
      BY <1>0, FS_AddElement
    <3>. QED
      BY <1>0, <2>4, <3>1
  <2>10. Cardinality(running') \in Nat /\ Cardinality(running) \in Nat
    BY <1>0, <2>4
  <2>. QED
    BY <1>0, <2>7, <2>8, <2>9, <2>10
<1>9. ASSUME ScheduleNext \/ YieldReturn PROVE Goal
  <2>. DEFINE f == [Top EXCEPT !.stage = @ + 1]
              g == [Top EXCEPT !.pc = "yield"]
              h == [Top EXCEPT !.pc = "activity"]
  <2>1. /\ depth = 1 /\ frame[1] = Top /\ Top \in Frames /\ Top.pc \in {"schedule", "yield"}
        /\ Top.cur = NoThread
        /\ UNCHANGED <<depth, exn, queue, procs, running>>
    BY <1>0, <1>9, SingleTop DEF ScheduleNext, YieldReturn, At, Between, server
  <2>2. /\ f.pc = Top.pc /\ f.cur = NoThread
        /\ g.pc = "yield" /\ g.cur = NoThread
        /\ h.pc = "activity" /\ h.cur = NoThread
    BY <2>1 DEF Frames
  <2>3. frame'[1] \in {f, g, h}
    <3>1. SetTop(f) \/ SetTop(g) \/ SetTop(h)
      BY <1>9 DEF ScheduleNext, YieldReturn
    <3>. HIDE DEF f, g, h
    <3>. QED
      BY <2>1, <3>1, SingleTop
  <2>. HIDE DEF f, g, h
  <2>4. frame'[1].pc # "filter" /\ frame'[1].cur = NoThread /\ Alive' = Alive
    BY <2>1, <2>2, <2>3 DEF Alive
  <2>5. \A t \in Threads : task'[t] \in {"todo", "waiting"} => task[t] \in {"todo", "waiting"}
    BY <1>9, KillUnfinished DEF ScheduleNext, YieldReturn
  <2>6. \A t \in Threads : Held(t) => Held(t)'
    BY <2>1, <2>4, NoThreadAssumption DEF Held, InQueue
  <2>. QED
    BY <1>a, <2>1, <2>4, <2>5, <2>6 DEF HeldInv
<1>10. ASSUME ProgressTrue \/ ProgressFalse PROVE Goal
  <2>1. /\ depth = 1 /\ frame[1] = Top /\ Top.pc = "activity" /\ Top.cur = NoThread
        /\ depth' = 0 /\ UNCHANGED <<exn, queue, running, task, procs>>
    BY <1>0, <1>10, SingleTop DEF ProgressTrue, ProgressFalse, At, Between, Pop
  <2>2. Alive = running /\ Alive' = running
    BY <2>1 DEF Alive
  <2>3. \A t \in Threads : Held(t) => Held(t)'
    BY <2>1, <2>2, NoThreadAssumption DEF Held, InQueue
  <2>. QED
    BY <1>a, <2>1, <2>3 DEF HeldInv
<1>. HIDE DEF Goal
<1>11. Goal
  <2>1. ~(\E t \in Threads : Raise(t)) /\ ~YieldRaise /\ ~Unwind
    BY <1>0 DEF Raise, YieldRaise, Unwind, SingleCall, TypeOK
  <2>. QED
    BY <1>1, <1>2, <1>3, <1>4, <1>5, <1>6, <1>7, <1>8, <1>9, <1>10, <2>1
    DEF Next, Client, Steps, Return
<1>. QED
  BY <1>11 DEF Goal

\* When tasks neither yield nor raise, no thread is lost between two calls,
\* though the list is rebuilt from a copy (task.ml:462), for any number of
\* threads, stages and processors.
THEOREM ThreadsKept == SingleCall => (Spec => []NoLostThread)
<1>. SUFFICES ASSUME SingleCall PROVE Spec => []NoLostThread
  OBVIOUS
<1>1. Init => HeldInv
  BY HeldInit
<1>2. TypeOK /\ HeldInv /\ [Next]_vars => HeldInv'
  BY HeldStep
<1>3. HeldInv => NoLostThread
  BY DEF HeldInv, NoLostThread, Held, Alive, InQueue, Queued
<1>. QED
  BY <1>1, <1>2, <1>3, TypeCorrect, PTL DEF Spec

\* Under the same assumption the running list only grows while a processor is
\* free (task.ml:450), whenever set_procs moves their number.
THEOREM ProcsRespected == SingleCall => (Spec => NeverOverbooks)
<1>. SUFFICES ASSUME SingleCall PROVE Spec => NeverOverbooks
  OBVIOUS
<1>1. Init => HeldInv
  BY HeldInit
<1>2. TypeOK /\ HeldInv /\ [Next]_vars => HeldInv'
  BY HeldStep
<1>3. TypeOK /\ HeldInv /\ [Next]_vars
      => [Cardinality(running') > Cardinality(running) => Cardinality(running') <= procs]_vars
  BY HeldStep
<1>. QED
  BY <1>1, <1>2, <1>3, TypeCorrect, PTL DEF Spec, NeverOverbooks

-------------------------------------------------------------------------------
(* The order of the stages.                                                *)

\* A call that schedules a stage has left the earlier ones empty, or had no
\* processor for them: it then has none for its stage either, as long as no
\* task runs in it.  A call is suspended in the body of a task only, and one
\* that has taken a task has had a processor.
OrderInv ==
  \A d \in 1 .. depth :
    /\ frame[d].pc = "filter" => frame[d].stage = 0
    /\ frame[d].pc = "schedule" =>
         \/ \A i \in StageIds : i < frame[d].stage => queue[i] = <<>>
         \/ d = depth /\ frame[d].cur = NoThread /\ ~(Cardinality(running) < procs)

\* No queue that was empty gets a thread.
NoneQueued == \A i \in StageIds : queue[i] = <<>> => queue'[i] = <<>>

\* The innermost call goes on as f.
LEMMA OrderTop ==
  ASSUME TypeOK, OrderInv, depth > 0, NEW f \in Frames, SetTop(f), UNCHANGED depth, NoneQueued,
         f.pc = "filter" => f.stage = 0,
         f.pc = "schedule" =>
           \/ \A i \in StageIds : i < f.stage => queue'[i] = <<>>
           \/ f.cur = NoThread /\ ~(Cardinality(running') < procs')
  PROVE  OrderInv'
<1>1. /\ depth \in 1 .. MaxDepth /\ frame'[depth] = f
      /\ \A d \in 1 .. depth : d # depth => frame'[d] = frame[d]
  BY TopType, DepthAssumption DEF TypeOK, SetTop
<1>2. ASSUME NEW d \in 1 .. depth, d # depth, frame[d].pc = "schedule"
      PROVE  \A i \in StageIds : i < frame[d].stage => queue'[i] = <<>>
  BY <1>2 DEF OrderInv, NoneQueued
<1>. QED
  BY <1>1, <1>2 DEF OrderInv

\* The innermost call returns, or is abandoned.
LEMMA OrderPop ==
  ASSUME TypeOK, OrderInv, depth > 0, Pop, UNCHANGED queue
  PROVE  OrderInv'
<1>1. depth \in 1 .. MaxDepth /\ depth' = depth - 1
  BY TopType DEF Pop
<1>2. \A d \in 1 .. depth' : d \in 1 .. depth /\ d # depth /\ frame'[d] = frame[d]
  BY <1>1, DepthAssumption DEF TypeOK, Pop, SetTop
<1>. QED
  BY <1>1, <1>2 DEF OrderInv

\* Nothing changes that the order depends on, but the processors perhaps, when
\* no call is between two tasks.
LEMMA OrderSame ==
  ASSUME OrderInv, UNCHANGED <<queue, running, depth, frame>>,
         procs' = procs \/ depth = 0 \/ Top.pc # "schedule" \/ Top.cur # NoThread
  PROVE  OrderInv'
  BY DEF OrderInv, Top

LEMMA OrderStep ==
  ASSUME SpawnSites \subseteq {"outside"}, TypeOK, OrderInv, [Next]_vars
  PROVE  /\ OrderInv'
         /\ \A i \in StageIds : Len(queue'[i]) < Len(queue[i]) =>
              \A j \in StageIds : j < i => queue[j] = <<>>
<1>. DEFINE Ordered == \A i \in StageIds : Len(queue'[i]) < Len(queue[i]) =>
                         \A j \in StageIds : j < i => queue[j] = <<>>
<1>1. queue \in [StageIds -> Seq(Threads)] /\ depth \in 0 .. MaxDepth
  BY DEF TypeOK
<1>2. UNCHANGED queue => NoneQueued /\ Ordered
  <2>1. \A i \in StageIds : Len(queue[i]) \in Nat
    BY <1>1
  <2>. QED
    BY <2>1 DEF NoneQueued
<1>3. depth > 0 => Top \in Frames /\ depth \in 1 .. depth
  BY <1>1, TopType
<1>4. ASSUME NEW t \in Threads, NEW i \in StageIds, spawn(t, i)
      PROVE  OrderInv' /\ Ordered
  <2>1. depth = 0 /\ UNCHANGED depth
    BY <1>4 DEF spawn, Site, Outside, calls
  <2>2. \A k \in StageIds : Len(queue'[k]) >= Len(queue[k])
    BY <1>1, <1>4 DEF spawn
  <2>3. \A k \in StageIds : Len(queue'[k]) \in Nat /\ Len(queue[k]) \in Nat
    BY <1>1, <1>4 DEF spawn
  <2>. QED
    BY <2>1, <2>2, <2>3 DEF OrderInv
<1>5. CASE launch
  BY <1>2, <1>5, OrderSame DEF launch
<1>6. ASSUME NEW p \in ProcsValues, set_procs(p) PROVE OrderInv' /\ Ordered
  <2>1. depth = 0 \/ Top.pc # "schedule" \/ Top.cur # NoThread
    BY <1>6 DEF set_procs, Outside, InYield, InBody
  <2>. QED
    BY <1>2, <1>6, <2>1, OrderSame DEF set_procs, calls
<1>7. CASE cancel_all \/ \E t \in Threads : cancel(t)
  BY <1>2, <1>7, OrderSame DEF cancel_all, cancel, server, calls
<1>8. CASE Tick
  <2>1. /\ depth' = depth + 1 /\ frame'[depth + 1] = NewFrame(running)
        /\ \A d \in 1 .. depth : frame'[d] = frame[d]
        /\ UNCHANGED queue
    BY <1>1, <1>8, DepthAssumption DEF Tick, TypeOK, server
  <2>2. ASSUME NEW d \in 1 .. depth, frame[d].pc = "schedule"
        PROVE  \A i \in StageIds : i < frame[d].stage => queue[i] = <<>>
    <3>1. depth > 0 => Top.cur # NoThread \/ Top.pc = "yield"
      BY <1>8 DEF Tick, InBody, InYield
    <3>. QED
      BY <1>1, <2>2, <3>1 DEF OrderInv, Top
  <2>3. \A d \in 1 .. depth' : d \in 1 .. depth \/ d = depth + 1
    BY <1>1, <2>1
  <2>. QED
    BY <1>2, <2>1, <2>2, <2>3 DEF OrderInv, NewFrame
<1>9. ASSUME NEW t \in Threads, FilterVisit(t) PROVE OrderInv' /\ Ordered
  <2>1. depth > 0 /\ Top.pc = "filter" /\ UNCHANGED <<queue, depth>>
    BY <1>9 DEF FilterVisit, Between, At
  <2>2. Top.stage = 0
    BY <1>3, <2>1 DEF OrderInv, Top
  <2>3. PICK f \in Frames : SetTop(f) /\ f.pc = "filter" /\ f.stage = 0
    <3>. DEFINE a == [Top EXCEPT !.rest = @ \ {t}, !.kept = @ \cup {t}]
                b == [Top EXCEPT !.rest = @ \ {t}, !.cur = t]
                c == [Top EXCEPT !.rest = @ \ {t}]
    <3>1. \A f \in {a, b, c} : f \in Frames /\ f.pc = "filter" /\ f.stage = 0
      <4>1. a \in Frames /\ a.pc = "filter" /\ a.stage = 0
        BY <1>3, <2>1, <2>2 DEF Frames
      <4>2. b \in Frames /\ b.pc = "filter" /\ b.stage = 0
        BY <1>3, <2>1, <2>2 DEF Frames
      <4>3. c \in Frames /\ c.pc = "filter" /\ c.stage = 0
        BY <1>3, <2>1, <2>2 DEF Frames
      <4>. HIDE DEF a, b, c
      <4>. QED
        BY <4>1, <4>2, <4>3
    <3>2. SetTop(a) \/ SetTop(b) \/ SetTop(c)
      BY <1>9 DEF FilterVisit
    <3>. HIDE DEF a, b, c
    <3>. QED
      BY <3>1, <3>2
  <2>. QED
    BY <1>2, <2>1, <2>3, OrderTop
<1>10. ASSUME NEW t \in Threads, NEW s \in {"waiting", "done"}, FilterReturn(t, s)
       PROVE  OrderInv' /\ Ordered
  <2>1. depth > 0 /\ Top.pc = "filter" /\ UNCHANGED <<queue, depth>>
    BY <1>10 DEF FilterReturn, At
  <2>2. Top.stage = 0
    BY <1>3, <2>1 DEF OrderInv, Top
  <2>3. PICK f \in Frames : SetTop(f) /\ f.pc = "filter" /\ f.stage = 0
    <3>. DEFINE a == [Top EXCEPT !.kept = @ \cup {t}, !.cur = NoThread]
                b == [Top EXCEPT !.cur = NoThread]
    <3>1. \A f \in {a, b} : f \in Frames /\ f.pc = "filter" /\ f.stage = 0
      BY <1>3, <2>1, <2>2 DEF Frames
    <3>2. SetTop(a) \/ SetTop(b)
      BY <1>10 DEF FilterReturn
    <3>. HIDE DEF a, b
    <3>. QED
      BY <3>1, <3>2
  <2>. QED
    BY <1>2, <2>1, <2>3, OrderTop
<1>11. CASE FilterExit
  <2>1. depth > 0 /\ Top.pc = "filter" /\ UNCHANGED <<queue, depth>>
    BY <1>11 DEF FilterExit, Between, At
  <2>2. Top.stage = 0
    BY <1>3, <2>1 DEF OrderInv, Top
  <2>. DEFINE f == [Top EXCEPT !.pc = "schedule"]
  <2>3. SetTop(f) /\ f \in Frames /\ f.pc = "schedule" /\ f.stage = 0
    BY <1>3, <1>11, <2>1, <2>2 DEF FilterExit, Frames
  <2>. HIDE DEF f
  <2>4. \A i \in StageIds : ~(i < 0)
    BY StagesAssumption DEF StageIds
  <2>. QED
    BY <1>2, <2>1, <2>3, <2>4, OrderTop
<1>12. ASSUME NEW t \in Threads, ScheduleTake(t) PROVE OrderInv' /\ Ordered
  <2>. DEFINE k == Top.stage
  <2>1. /\ depth > 0 /\ Top.pc = "schedule" /\ UNCHANGED depth
        /\ Cardinality(running) < procs /\ queue[k] # <<>>
        /\ queue' = [queue EXCEPT ![k] = Tail(@)]
    BY <1>12 DEF ScheduleTake, Between, At, MayTake
  <2>2. k \in StageIds
    BY <1>3, <2>1 DEF Frames
  <2>3. \A i \in StageIds : i < k => queue[i] = <<>>
    BY <1>3, <2>1 DEF OrderInv, Top
  <2>4. \A i \in StageIds : i # k => queue'[i] = queue[i]
    BY <1>1, <2>1
  <2>5. NoneQueued
    BY <2>1, <2>4 DEF NoneQueued
  <2>6. PICK f \in Frames : SetTop(f) /\ f.pc = "schedule" /\ f.stage = k
    <3>1. SetTop([Top EXCEPT !.cur = t]) \/ UNCHANGED frame
      BY <1>12 DEF ScheduleTake
    <3>2. CASE SetTop([Top EXCEPT !.cur = t])
      BY <1>3, <2>1, <3>2 DEF Frames
    <3>3. CASE UNCHANGED frame
      <4>1. SetTop(Top)
        BY <1>1, <1>3, <2>1, <3>3 DEF SetTop, Top, TypeOK
      <4>. QED
        BY <1>3, <2>1, <4>1
    <3>. QED
      BY <3>1, <3>2, <3>3
  <2>7. Ordered
    <3>1. \A i \in StageIds : Len(queue[i]) \in Nat
      BY <1>1
    <3>. QED
      BY <2>3, <2>4, <3>1
  <2>. HIDE DEF k
  <2>. QED
    BY <2>1, <2>3, <2>4, <2>5, <2>6, <2>7, OrderTop DEF NoneQueued
<1>13. ASSUME NEW t \in Threads, NEW s \in {"waiting", "done"}, ScheduleReturn(t, s)
       PROVE  OrderInv' /\ Ordered
  <2>. DEFINE f == [Top EXCEPT !.cur = NoThread]
  <2>1. /\ depth > 0 /\ Top.pc = "schedule" /\ Top.cur # NoThread /\ UNCHANGED <<queue, depth>>
        /\ SetTop(f)
    BY <1>13 DEF ScheduleReturn, At, Leave, InBody
  <2>2. \A i \in StageIds : i < Top.stage => queue[i] = <<>>
    BY <1>3, <2>1 DEF OrderInv, Top
  <2>3. f \in Frames /\ f.pc = "schedule" /\ f.stage = Top.stage
    BY <1>3, <2>1 DEF Frames
  <2>. HIDE DEF f
  <2>. QED
    BY <1>2, <2>1, <2>2, <2>3, OrderTop
<1>14. CASE ScheduleNext
  <2>1. /\ depth > 0 /\ Top.pc = "schedule" /\ Top.cur = NoThread
        /\ UNCHANGED <<queue, running, procs, depth>>
        /\ ~MayTake
    BY <1>14 DEF ScheduleNext, Between, At, server
  <2>2. Top.stage \in StageIds /\ Top.stage \in Int
    BY <1>3, <2>1, StagesAssumption DEF Frames, StageIds
  <2>3. \/ \A i \in StageIds : i < Top.stage => queue[i] = <<>>
        \/ ~(Cardinality(running) < procs)
    BY <1>3, <2>1 DEF OrderInv, Top
  <2>4. \/ \A i \in StageIds : i < Top.stage + 1 => queue[i] = <<>>
        \/ ~(Cardinality(running) < procs)
    <3>1. \A i \in StageIds : i < Top.stage + 1 => i < Top.stage \/ i = Top.stage
      BY <2>2, StagesAssumption DEF StageIds
    <3>. QED
      BY <2>1, <2>3, <3>1 DEF MayTake
  <2>5. CASE Top.stage + 1 < NStages /\ SetTop([Top EXCEPT !.stage = @ + 1])
    <3>. DEFINE f == [Top EXCEPT !.stage = @ + 1]
    <3>1. /\ f \in Frames /\ f.pc = "schedule" /\ f.cur = NoThread /\ f.stage = Top.stage + 1
          /\ SetTop(f)
      BY <1>3, <2>1, <2>2, <2>5, StagesAssumption DEF Frames, StageIds
    <3>. HIDE DEF f
    <3>. QED
      BY <1>2, <2>1, <2>4, <3>1, OrderTop
  <2>6. CASE SetTop([Top EXCEPT !.pc = "yield"])
    <3>. DEFINE f == [Top EXCEPT !.pc = "yield"]
    <3>1. f \in Frames /\ f.pc = "yield" /\ SetTop(f)
      BY <1>3, <2>1, <2>6 DEF Frames
    <3>. HIDE DEF f
    <3>. QED
      BY <1>2, <2>1, <3>1, OrderTop
  <2>. QED
    BY <1>14, <2>5, <2>6 DEF ScheduleNext
<1>15. CASE YieldReturn
  <2>. DEFINE f == [Top EXCEPT !.pc = "activity"]
  <2>1. depth > 0 /\ UNCHANGED <<queue, depth>> /\ SetTop(f)
    BY <1>15 DEF YieldReturn, Between, At, server
  <2>2. f \in Frames /\ f.pc = "activity"
    BY <1>3, <2>1 DEF Frames
  <2>. HIDE DEF f
  <2>. QED
    BY <1>2, <2>1, <2>2, OrderTop
<1>16. CASE ProgressTrue \/ ProgressFalse
  BY <1>2, <1>16, OrderPop DEF ProgressTrue, ProgressFalse, Between, At
<1>17. CASE YieldRaise \/ \E t \in Threads : Raise(t)
  BY <1>2, <1>17, OrderPop DEF YieldRaise, Raise, Abort, InBody, Between, At, server
<1>18. CASE Unwind
  <2>1. CASE Abort
    BY <1>2, <1>18, <2>1, OrderPop DEF Unwind, Abort, server
  <2>2. CASE UNCHANGED <<server, depth, frame>>
    BY <1>2, <2>2, OrderSame DEF server
  <2>. QED
    BY <1>18, <2>1, <2>2 DEF Unwind
<1>19. CASE UNCHANGED vars
  BY <1>2, <1>19, OrderSame DEF vars, server, calls
<1>. QED
  BY <1>4, <1>5, <1>6, <1>7, <1>8, <1>9, <1>10, <1>11, <1>12, <1>13, <1>14, <1>15, <1>16, <1>17,
     <1>18, <1>19 DEF Next, Client, Steps, Return

\* Where threads are spawned between the calls of server_progress only, a thread
\* leaves the queue of its stage when the earlier stages have none (task.ml:469,
\* task.mli:203), although calls are nested in the bodies of tasks, set_procs
\* frees processors in the middle of a pass, and exceptions abandon calls.
THEOREM StagesInOrder ==
  ASSUME SpawnSites \subseteq {"outside"}
  PROVE  Spec => StageOrder
<1>1. Init => OrderInv
  BY DEF Init, OrderInv
<1>2. TypeOK /\ OrderInv /\ [Next]_vars => OrderInv'
  BY OrderStep
<1>3. TypeOK /\ OrderInv /\ [Next]_vars
      => [\A i \in StageIds : Len(queue'[i]) < Len(queue[i]) =>
            \A j \in StageIds : j < i => queue[j] = <<>>]_vars
  BY OrderStep
<1>. QED
  BY <1>1, <1>2, <1>3, TypeCorrect, PTL DEF Spec, StageOrder

===============================================================================
