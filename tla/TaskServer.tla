------------------------------ MODULE TaskServer ------------------------------
(***************************************************************************)
(* The task server of libraries/utils/task.ml: a pool that queues threads  *)
(* by stage and makes at most `procs' of them progress, one call of        *)
(* server_progress after the other.  server_progress is not atomic: the    *)
(* body of a task runs in the middle of it, and may spawn and cancel       *)
(* threads, raise, or call Async.yield.                                    *)
(*                                                                         *)
(* In batch mode Task.on_idle is a plain loop.  When the request server    *)
(* runs (plugins/server/main.ml:500) server_progress is an Async daemon,   *)
(* and an Async.yield made by the body of a task can call it again before  *)
(* the first call returns.  The calls form a stack of frames; MaxDepth     *)
(* bounds it, and MaxDepth = 1 is the server whose tasks never yield.      *)
(***************************************************************************)
EXTENDS Integers, Sequences, FiniteSets

CONSTANTS
  Threads,      \* the threads that may be created (Task.thread)
  NoThread,     \* "no task is in progress in this frame"
  NStages,      \* Task.server ~stages
  ProcsValues,  \* the values Task.set_procs receives
  OnIdle,       \* "loop": the default Task.on_idle; "daemon": Async.while_progress
  SpawnSites,   \* where Task.spawn is called from (see Site)
  Raising,      \* threads whose continuation may raise
  MaxDepth,     \* bound: nested calls of server_progress
  MaxRaises     \* bound: exceptions in one behaviour

ASSUME NoThreadAssumption == NoThread \notin Threads
ASSUME StagesAssumption   == NStages \in Nat \ {0}
ASSUME ProcsAssumption    == ProcsValues \subseteq Nat /\ ProcsValues # {}
ASSUME OnIdleAssumption   == OnIdle \in {"loop", "daemon"}
ASSUME SitesAssumption    == SpawnSites \subseteq {"outside", "task", "callback"}
ASSUME RaisingAssumption  == Raising \subseteq Threads
ASSUME DepthAssumption    == MaxDepth \in Nat \ {0} /\ MaxRaises \in Nat
ASSUME LoopAssumption     == OnIdle = "loop" => MaxDepth = 1

VARIABLES
  task,        \* state of each thread's monad
  lock,        \* thread.lock
  queue,       \* one FIFO queue of threads per stage
  running,     \* threads started and not finished (a list in the code)
  procs, launched, scheduled, terminated, waiting,
  idle,        \* Task.on_idle still calls server_progress
  depth,       \* number of calls of server_progress on the call stack
  frame,       \* these calls, the innermost one at index depth
  exn,         \* an exception is propagating to the innermost frame
  raises       \* exceptions raised so far (bound)

server == <<queue, running, procs, launched, scheduled, terminated, waiting>>
calls  == <<idle, depth, frame, exn, raises>>
vars   == <<task, lock, server, calls>>

StageIds == 0 .. NStages - 1

(***************************************************************************)
(* "new": not created; "todo": created and never progressed; "waiting":    *)
(* YIELD or WAIT after a first progress; "done": UNIT.                     *)
(***************************************************************************)
TaskStates == {"new", "todo", "waiting", "done"}

(***************************************************************************)
(* A call of server_progress.  "filter": inside List.filter, with the      *)
(* threads still to visit and the ones kept so far; "schedule": inside     *)
(* schedule for the queue of a stage; "yield": in Async.yield; "activity": *)
(* in the activity callbacks.  cur is the thread whose task is being run.  *)
(***************************************************************************)
Frames == [pc    : {"filter", "schedule", "yield", "activity"},
           rest  : SUBSET Threads,
           kept  : SUBSET Threads,
           stage : StageIds,
           cur   : Threads \cup {NoThread}]

NewFrame(ths) == [pc |-> "filter", rest |-> ths, kept |-> {},
                  stage |-> 0, cur |-> NoThread]

Top == frame[depth]

SetTop(f) == frame' = [frame EXCEPT ![depth] = f]

\* The innermost call returns.
Pop == /\ depth' = depth - 1
       /\ SetTop(NewFrame({}))

Slots == UNION {{i} \X DOMAIN queue[i] : i \in StageIds}
IsEmpty == \A i \in StageIds : queue[i] = <<>>
Queued == {t \in Threads : \E i \in StageIds : \E j \in DOMAIN queue[i] : queue[i][j] = t}

Init ==
  /\ task = [t \in Threads |-> "new"]
  /\ lock = [t \in Threads |-> FALSE]
  /\ queue = [i \in StageIds |-> <<>>]
  /\ running = {}
  /\ procs \in ProcsValues
  /\ launched = FALSE
  /\ scheduled = 0
  /\ terminated = 0
  /\ waiting = FALSE
  /\ idle = FALSE
  /\ depth = 0
  /\ frame = [d \in 1 .. MaxDepth |-> NewFrame({})]
  /\ exn = FALSE
  /\ raises = 0

-------------------------------------------------------------------------------
(* The callers of the server.                                              *)

\* Code that runs between two calls of server_progress; with the default
\* on_idle the caller of launch is blocked until the loop stops.
Outside == depth = 0 /\ (OnIdle = "daemon" \/ ~idle)

\* The body of a task runs.
InBody == depth > 0 /\ ~exn /\ Top.cur # NoThread

\* Async.yield runs inside server_progress.
InYield == depth > 0 /\ ~exn /\ Top.pc = "yield"

InActivity == depth > 0 /\ ~exn /\ Top.pc = "activity"

Site == IF Outside THEN "outside"
        ELSE IF InBody THEN "task"
        ELSE IF InYield \/ InActivity THEN "callback"
        ELSE "none"

\* Mutant: the flag waiting is not taken back.
spawn_StillWaiting(t, i) ==
  /\ Site \in SpawnSites
  /\ task[t] = "new"
  /\ task' = [task EXCEPT ![t] = "todo"]
  /\ queue' = [queue EXCEPT ![i] = Append(@, t)]
  /\ scheduled' = scheduled + 1
  /\ UNCHANGED <<lock, running, procs, launched, terminated, waiting, calls>>

spawn(t, i) ==
  /\ Site \in SpawnSites
  /\ task[t] = "new"
  /\ task' = [task EXCEPT ![t] = "todo"]
  /\ queue' = [queue EXCEPT ![i] = Append(@, t)]
  /\ scheduled' = scheduled + 1
  /\ waiting' = FALSE
  /\ UNCHANGED <<lock, running, procs, launched, terminated, calls>>

launch ==
  /\ Outside
  /\ ~launched
  /\ scheduled > terminated
  /\ launched' = TRUE
  /\ idle' = TRUE
  /\ UNCHANGED <<task, lock, queue, running, procs, scheduled, terminated,
                 waiting, depth, frame, exn, raises>>

\* GET getScheduledTasks and the option hooks call Task.set_procs.
set_procs(p) ==
  /\ Outside \/ InYield \/ (InBody /\ MaxDepth > 1)
  /\ procs # p
  /\ procs' = p
  /\ UNCHANGED <<task, lock, queue, running, launched, scheduled, terminated,
                 waiting, calls>>

\* Kill is put into the tasks of T: one not started ends (later, call), one
\* that waits ends now or goes on until the resource it polls is gone.
Kill(T) ==
  \E D \in SUBSET {t \in T : task[t] = "waiting"} :
    task' = [t \in Threads |->
               IF t \in D \/ (t \in T /\ task[t] = "todo") THEN "done" ELSE task[t]]

\* Task.cancel, from a request or from the body of a task; it ignores the lock.
cancel(t) ==
  /\ Outside \/ InBody
  /\ task[t] \in {"todo", "waiting"}
  /\ Kill({t})
  /\ UNCHANGED <<lock, server, calls>>

cancel_all ==
  /\ Outside
  /\ Queued \cup running # {}
  /\ Kill(Queued \cup running)
  /\ UNCHANGED <<lock, server, calls>>

-------------------------------------------------------------------------------
(* server_progress.                                                        *)

\* on_idle, or a yield in the middle of another call, calls server_progress.
Tick ==
  /\ idle
  /\ depth < MaxDepth
  /\ depth = 0 \/ InBody \/ InYield
  /\ depth' = depth + 1
  /\ frame' = [frame EXCEPT ![depth + 1] = NewFrame(running)]
  /\ UNCHANGED <<task, lock, server, idle, exn, raises>>

At(pc) == depth > 0 /\ ~exn /\ Top.pc = pc

\* server_progress itself runs, no task does.
Between(pc) == At(pc) /\ Top.cur = NoThread

\* progress: the task of t starts to run, its lock is taken.
Begin(t) ==
  /\ task[t] # "done"
  /\ lock' = [lock EXCEPT ![t] = TRUE]

\* Mutant: the lock is not looked at.
FilterVisit_NoLock(t) ==
  /\ Between("filter")
  /\ t \in Top.rest
  /\ \/ /\ Begin(t)
        /\ SetTop([Top EXCEPT !.rest = @ \ {t}, !.cur = t])
        /\ UNCHANGED terminated
     \/ /\ task[t] = "done"
        /\ terminated' = terminated + 1
        /\ SetTop([Top EXCEPT !.rest = @ \ {t}])
        /\ UNCHANGED lock
  /\ UNCHANGED <<task, queue, running, procs, launched, scheduled, waiting,
                 idle, depth, exn, raises>>

\* Mutant: a thread found finished is dropped without being counted.
FilterVisit_Uncounted(t) ==
  /\ Between("filter")
  /\ t \in Top.rest
  /\ \/ /\ Begin(t)
        /\ SetTop([Top EXCEPT !.rest = @ \ {t}, !.cur = t])
     \/ /\ task[t] = "done"
        /\ SetTop([Top EXCEPT !.rest = @ \ {t}])
        /\ UNCHANGED lock
  /\ UNCHANGED <<task, queue, running, procs, launched, scheduled, terminated, waiting,
                 idle, depth, exn, raises>>

\* List.filter visits a thread.
FilterVisit(t) ==
  /\ Between("filter")
  /\ t \in Top.rest
  /\ \/ /\ lock[t]
        /\ SetTop([Top EXCEPT !.rest = @ \ {t}, !.kept = @ \cup {t}])
        /\ UNCHANGED <<lock, terminated>>
     \/ /\ ~lock[t]
        /\ Begin(t)
        /\ SetTop([Top EXCEPT !.rest = @ \ {t}, !.cur = t])
        /\ UNCHANGED terminated
     \/ /\ ~lock[t]
        /\ task[t] = "done"
        /\ terminated' = terminated + 1
        /\ SetTop([Top EXCEPT !.rest = @ \ {t}])
        /\ UNCHANGED lock
  /\ UNCHANGED <<task, queue, running, procs, launched, scheduled, waiting,
                 idle, depth, exn, raises>>

\* The task in progress yields, or returns: th.task is assigned, its lock released.
Leave(t, s) ==
  /\ InBody
  /\ Top.cur = t
  /\ task' = [task EXCEPT ![t] = s]
  /\ lock' = [lock EXCEPT ![t] = FALSE]

\* Mutant: a thread that yields is not kept.
FilterReturn_Drops(t, s) ==
  /\ At("filter")
  /\ Leave(t, s)
  /\ SetTop([Top EXCEPT !.cur = NoThread])
  /\ terminated' = IF s = "done" THEN terminated + 1 ELSE terminated
  /\ UNCHANGED <<queue, running, procs, launched, scheduled, waiting,
                 idle, depth, exn, raises>>

FilterReturn(t, s) ==
  /\ At("filter")
  /\ Leave(t, s)
  /\ \/ /\ s = "waiting"
        /\ SetTop([Top EXCEPT !.kept = @ \cup {t}, !.cur = NoThread])
        /\ UNCHANGED terminated
     \/ /\ s = "done"
        /\ SetTop([Top EXCEPT !.cur = NoThread])
        /\ terminated' = terminated + 1
  /\ UNCHANGED <<queue, running, procs, launched, scheduled, waiting,
                 idle, depth, exn, raises>>

\* server.running is assigned only now, from the list read at the first visit.
FilterExit ==
  /\ Between("filter")
  /\ Top.rest = {}
  /\ running' = Top.kept
  /\ SetTop([Top EXCEPT !.pc = "schedule"])
  /\ UNCHANGED <<task, lock, queue, procs, launched, scheduled, terminated,
                 waiting, idle, depth, exn, raises>>

\* Mutant: off by one, a thread too many.
MayTake_Plus == Cardinality(running) <= procs /\ queue[Top.stage] # <<>>

\* Mutant: off by one, a processor is never used.
MayTake_Minus == Cardinality(running) + 1 < procs /\ queue[Top.stage] # <<>>

MayTake == Cardinality(running) < procs /\ queue[Top.stage] # <<>>

\* schedule takes a thread from the queue and makes it progress.
ScheduleTake(t) ==
  /\ Between("schedule")
  /\ MayTake
  /\ t = Head(queue[Top.stage])
  /\ queue' = [queue EXCEPT ![Top.stage] = Tail(@)]
  /\ \/ /\ Begin(t)
        /\ SetTop([Top EXCEPT !.cur = t])
        /\ UNCHANGED terminated
     \/ /\ task[t] = "done"
        /\ terminated' = terminated + 1
        /\ UNCHANGED <<lock, frame>>
  /\ UNCHANGED <<task, running, procs, launched, scheduled, waiting,
                 idle, depth, exn, raises>>

ScheduleReturn(t, s) ==
  /\ At("schedule")
  /\ Leave(t, s)
  /\ SetTop([Top EXCEPT !.cur = NoThread])
  /\ \/ /\ s = "waiting"
        /\ running' = running \cup {t}
        /\ UNCHANGED terminated
     \/ /\ s = "done"
        /\ terminated' = terminated + 1
        /\ UNCHANGED running
  /\ UNCHANGED <<queue, procs, launched, scheduled, waiting, idle, depth, exn, raises>>

\* Mutant: one thread at most is taken from a stage (`if' for `while').
ScheduleNext_Early ==
  /\ Between("schedule")
  /\ \/ /\ Top.stage + 1 < NStages
        /\ SetTop([Top EXCEPT !.stage = @ + 1])
     \/ /\ Top.stage + 1 = NStages
        /\ SetTop([Top EXCEPT !.pc = "yield"])
  /\ UNCHANGED <<task, lock, server, idle, depth, exn, raises>>

\* The loop of a stage ends; Array.iter goes to the next stage or ends.
ScheduleNext ==
  /\ Between("schedule")
  /\ ~MayTake
  /\ \/ /\ Top.stage + 1 < NStages
        /\ SetTop([Top EXCEPT !.stage = @ + 1])
     \/ /\ Top.stage + 1 = NStages
        /\ SetTop([Top EXCEPT !.pc = "yield"])
  /\ UNCHANGED <<task, lock, server, idle, depth, exn, raises>>

\* Async.yield returns, or raises Cancel.
YieldReturn ==
  /\ Between("yield")
  /\ SetTop([Top EXCEPT !.pc = "activity"])
  /\ \/ UNCHANGED task
     \/ Kill(Queued \cup running)
  /\ UNCHANGED <<lock, server, idle, depth, exn, raises>>

\* The call returns true: some thread is running.
ProgressTrue ==
  /\ Between("activity")
  /\ running # {}
  /\ waiting' = (waiting \/ IsEmpty)
  /\ Pop
  /\ UNCHANGED <<task, lock, queue, running, procs, launched, scheduled,
                 terminated, idle, exn, raises>>

\* The call returns false: on_idle forgets the server.
ProgressFalse ==
  /\ Between("activity")
  /\ running = {}
  /\ launched' = FALSE
  /\ scheduled' = 0
  /\ terminated' = 0
  /\ idle' = FALSE
  /\ Pop
  /\ UNCHANGED <<task, lock, queue, running, procs, waiting, exn, raises>>

-------------------------------------------------------------------------------
(* Exceptions.                                                             *)

\* The innermost call is abandoned.  The default loop ends with it; a daemon
\* stays registered, and the exception reaches the code that yielded.
Abort ==
  /\ Pop
  /\ exn' = (depth > 1)
  /\ idle' = (idle /\ OnIdle = "daemon")
  /\ UNCHANGED <<task, server>>

\* A continuation raises: progress releases the lock and raises again.
Raise(t) ==
  /\ InBody
  /\ Top.cur = t
  /\ t \in Raising
  /\ raises < MaxRaises
  /\ raises' = raises + 1
  /\ lock' = [lock EXCEPT ![t] = FALSE]
  /\ Abort

\* A daemon of the yield of server_progress raises: do_yield of the request server
\* when the request that runs was killed, or when a message fails.
YieldRaise ==
  /\ Between("yield")
  /\ raises < MaxRaises
  /\ raises' = raises + 1
  /\ Abort
  /\ UNCHANGED lock

\* An exception out of a nested call reaches the frame below: a yield of
\* server_progress (which handles Cancel only), or the body of a task, where
\* later and call turn it into a Failed status and a bare continuation does not.
Unwind ==
  /\ exn /\ depth > 0
  /\ \/ /\ Top.cur = NoThread
        /\ Abort
        /\ UNCHANGED lock
     \/ /\ Top.cur # NoThread
        /\ exn' = FALSE
        /\ UNCHANGED <<task, lock, server, idle, depth, frame>>
     \/ /\ Top.cur \in Raising
        /\ lock' = [lock EXCEPT ![Top.cur] = FALSE]
        /\ Abort
  /\ UNCHANGED raises

-------------------------------------------------------------------------------
Client ==
  \/ \E t \in Threads, i \in StageIds : spawn(t, i)
  \/ launch
  \/ \E p \in ProcsValues : set_procs(p)
  \/ \E t \in Threads : cancel(t)
  \/ cancel_all

Return(s) == \E t \in Threads : FilterReturn(t, s) \/ ScheduleReturn(t, s)

Steps ==
  \/ \E t \in Threads : FilterVisit(t) \/ ScheduleTake(t)
  \/ FilterExit
  \/ ScheduleNext
  \/ YieldReturn
  \/ ProgressTrue
  \/ ProgressFalse

Next ==
  \/ Client
  \/ Tick
  \/ Steps
  \/ \E s \in {"waiting", "done"} : Return(s)
  \/ \E t \in Threads : Raise(t)
  \/ YieldRaise
  \/ Unwind

Spec == Init /\ [][Next]_vars

\* on_idle calls server_progress again and again, every call of it ends, and
\* a task that is asked to progress for ever ends some day.
Fairness ==
  /\ WF_vars(Tick)
  /\ WF_vars(Steps)
  /\ WF_vars(\E s \in {"waiting", "done"} : Return(s))
  /\ \A t \in Threads : SF_vars(FilterReturn(t, "done"))
  /\ \A t \in Threads : SF_vars(ScheduleReturn(t, "done"))

LiveSpec == Spec /\ Fairness

-------------------------------------------------------------------------------
(* Properties.                                                             *)

\* Every variable of the server and of its callers keeps its type.
TypeOK ==
  /\ task \in [Threads -> TaskStates]
  /\ lock \in [Threads -> BOOLEAN]
  /\ queue \in [StageIds -> Seq(Threads)]
  /\ running \in SUBSET Threads
  /\ procs \in ProcsValues
  /\ launched \in BOOLEAN
  /\ scheduled \in Nat
  /\ terminated \in Nat
  /\ waiting \in BOOLEAN
  /\ idle \in BOOLEAN
  /\ depth \in 0 .. MaxDepth
  /\ frame \in [1 .. MaxDepth -> Frames]
  /\ exn \in BOOLEAN
  /\ raises \in Nat

\* Between two calls of server_progress the counters account for every thread:
\* the invariant task.ml:384-386 writes above the type of the server.
Conservation ==
  depth = 0 => terminated + Cardinality(running) + Cardinality(Slots) = scheduled

\* Between two calls of server_progress a thread that was spawned and has not
\* finished is where the next calls will find it: in a queue or in the running
\* list.  server_progress rebuilds the list from a copy it read earlier.
NoLostThread ==
  depth = 0 =>
    \A t \in Threads : task[t] \in {"todo", "waiting"} => t \in Queued \cup running

\* A thread enters the running list only while there is a processor for it,
\* although set_procs moves under the running tasks.
NeverOverbooks ==
  [][Cardinality(running') > Cardinality(running) => Cardinality(running') <= procs]_vars

\* A thread leaves the queue of its stage only when no thread of an earlier
\* stage is queued (task.mli:203: stage 0 tasks are issued first).
StageOrder ==
  [][\A i \in StageIds : Len(queue'[i]) < Len(queue[i]) =>
       \A j \in StageIds : j < i => queue[j] = <<>>]_vars

\* on_server_wait is fired, and waiting set, for an empty queue only, and a
\* later spawn takes the flag back.
WaitingMeansScheduled == waiting => IsEmpty

\* The task of a thread is never entered while it is already running, in
\* whichever nested call of server_progress: its lock tells exactly whether
\* some call on the stack is running it, and one call at most is.
NoReentry ==
  \A t \in Threads :
    LET in == {d \in 1 .. depth : frame[d].cur = t}
    IN  /\ lock[t] <=> in # {}
        /\ \A d, e \in in : d = e

\* A thread queued in a server that has been launched ends some day.
Drains == \A t \in Threads : (t \in Queued /\ launched) ~> task[t] = "done"

===============================================================================
