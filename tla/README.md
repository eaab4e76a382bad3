# A TLA+ development for Frama-C with the HipSleek plug-in

This directory specifies the parts of the repository whose correctness depends on the *order* in which things
happen: the task server, the request server, the tables that it keeps in step with its client, the plug-in that drives
the HIP/SLEEK prover, and the C runtime that E-ACSL links with an instrumented program. Each part has a
TLA+ module translated from its source, instances that TLC model-checks, and theorems that TLAPS proves for
every value of the constants. Paths are relative to the repository (`src/libraries` below is `src/src/libraries`
in `PROJECT.json`, which counts from the directory that holds the repository).

## 1. Inventory

Frama-C is a sequential OCaml process. Nothing runs in parallel in it, but a lot is interleaved: long computations
call `Async.yield`, which runs the registered daemons in the middle of them; the request server is one of these
daemons, and the task server another one. The runtime of E-ACSL is a C library of another process, the instrumented
program, which may have threads. External processes (provers, `hip.exe`) and the Ivette client run beside it.

| Component | State it keeps | Operations | What is hard | Correct when |
|---|---|---|---|---|
| Task server (`src/libraries/utils/task.ml` 338-501) | queues by stage, running list, counters, `waiting`, `launched`; a monad and a lock per thread | `spawn`, `launch`, `cancel`, `cancel_all`, `set_procs`, `server_progress` | `server_progress` rebuilds the running list from a copy while task bodies spawn, cancel, raise and yield (hence call it again) | no thread is lost or entered twice, counters account for all, stages in order, never more than `procs` started, everything queued ends |
| Task monad, mutex, commands, shared tasks (`task.ml` 1-337) | continuation, waiters of a mutex, a process, clients of a shared task | `bind`, `sequence`, `sync`, `command`, `share` | cancelling a waiter, a command that ends at its timeout, a shared task whose last client leaves | one owner at a time, one outcome per task |
| Async daemons (`src/libraries/utils/async.ml`) | list of daemons, `canceled` | `on_progress`, `off_progress`, `yield`, `cancel` | exceptions of a daemon reach the code that yielded | a cancel is raised once, in the code that can be cancelled |
| Request server (`src/plugins/server/main.ml`) | `q_in`, `q_out`, signals (`s_listen`, `s_emitted`, `s_pending`), `running`, `cmdline`, `shutdown` | requests GET/SET/EXEC, kill, sigon/sigoff, shutdown, `emit`, `Main.async`, `start`/`stop`/`run` | `communicate` runs inside an EXEC; kills and shutdowns that race with the end of a request | each request answered once, no signal lost, only the killed are killed, shutdown stops |
| Entry points (`server_socket.ml`, `server_zmq.ok.ml`, `server_batch.ml`) | connection, buffers | fetch, reply | framing, a client that leaves | the reply goes to who asked |
| Synchronized arrays (`states.ml`, `ivette/src/frama-c/states.ts`) | a content by project: `cleared` and `updates`; `array.current`; rows, `fetching` and `signaled` in the client | `update`, `remove_key`, `reload`, `fetch` by pages, hooks of the table and of projects; `fetch`, `reload` and signals of the client | updates, signals, reloads and changes of project between two pages of a fetch | the client ends with the rows of the current project, and nothing that it misses is forgotten |
| Ivette client (`server.ts`, `client_socket.ts`) | pending requests, status, queue of commands | send, kill, restart | server restarts, late answers | every promise is settled once |
| Projects (`src/libraries/project`) | current project, states and their dependencies | `set_current`, `on`, `copy`, `clear` | a computation that switches project and raises | states of a project never leak into another |
| WP provers (`ProverTask.ml`, `ProverScript.ml`) | pool of prover tasks | `spawn`, cancel of the losers | race of provers on one goal | one verdict, from a prover that answered |
| HipSleek: pairing (`hipsleek_translate.ml`) | `used_blocks`, annotations per function | `find_annotation`, `translate` | comments are matched to definitions by line only, and loops inside a switch or try are never matched | a specification is checked against the code it was written for |
| HipSleek: run (`hipsleek_run.ml`, `hipsleek_acsl.ml`, `hipsleek_register.ml`, `hipsleek_store.ml`) | a `.ss` file, a log, property statuses, the panel's table | `run`, `run_hip`, `read_sleek_log`, `attach_function` | files with fixed names that two runs may write at a time, a prover that stops half-way, also in its log, loops proved apart | statuses are about this program and rest on nothing that failed |
| E-ACSL: Patricia trie (`e_acsl_patricia_trie.c`) | nodes with masks, leaves | `pt_insert`, `pt_remove`, `pt_remove_if`, `pt_lookup`, `pt_find` | removing a leaf rewrites its parent; a search comes back to a branch it passed | one leaf for each region, and an address is found in its own |
| E-ACSL: bittree model (`bittree_model/`) | a block for each base: size, read-only, init bits and their count; heap counters | store, delete, full init, initialize, malloc, calloc, realloc, free and the predicates | `realloc` of a block partly written; three views of what is initialized | it implements the map of blocks of its interface |
| E-ACSL: shadow model (`segment_model/`) | primary and secondary shadows, heap segments, init bits | the same | codes at the boundary of short and long blocks; bits at any alignment; what a dead block leaves | the same |
| E-ACSL: memory of threads (`e_acsl_shadow_concurrency.c`) | a trie of partitions, two for a thread | creation, lookups, end | an access asks the trie twice and uses the answer after the lock; stacks are used again; a thread may be canceled while it starts | an address is found in the shadow of its thread, which is not freed |
| E-ACSL: layout, contracts, temporal analysis, assertions, replacements of libc | | | address arithmetic, data | see section 8 |
| HIP/SLEEK itself (`hipsleek/`), kernel, Eva, WP calculus, other analysers, `share/libc`, dlmalloc, Ivette UI | | | sequential symbolic code, or layout | not protocol: see section 8 |

Interactions. The request server registers `do_yield` as a daemon; `Task.on_idle` is `Async.while_progress` when it runs,
so that the task server progresses from the same yields; `Main.async` puts jobs of tasks in the queue of the requests; WP and
the kernel spawn threads; `hip.exe` is started by the plug-in and speaks by its standard output and a log file. A synchronized array is one signal and two GET requests of the request server; its
table changes while other requests run. An instrumented program calls the interface of its observation model
(`e_acsl_observation_model.h`); the bittree model and the threads of the shadow model both keep a Patricia trie.

## 2. Modules

| Module | Models | Composes / refines |
|---|---|---|
| `TaskServer` | task.ml 338-501, with the daemon that may call it again | |
| `RequestLife` | what the request server promises of one request: the abstract specification | |
| `ServerMain` | main.ml and the part of async.ml it relies on | implements `RequestLife` |
| `HipsleekTranslate` | the pairing of `[SL]` and `[SL_loop]` blocks | |
| `HipsleekRun` | a verification from the `.ss` file to the statuses, with `hip.exe` as a process | |
| `SyncArrays` | `states.ml` (arrays), the hooks of `project.ml` and the client half in `states.ts` | |
| `PatriciaTrie` | the trie, as operators on a value | used by `BittreeModel`, `ThreadShadow` |
| `BlockMap` | what E-ACSL promises whatever its model: the abstract specification | |
| `BittreeModel`, `SegmentModel` | the two observation models, each with an instrumented program that calls it | implement `BlockMap` |
| `Runtime` | a program linked with either model, as `e-acsl-gcc` does | composes `SegmentModel` and `BittreeModel` |
| `ThreadShadow` | partitions of threads | |
| `ThreadShadowInv` | the inductive invariants of `ThreadShadow` | extends `ThreadShadow` and `PatriciaTrieProofs` |
| `RuntimeThreads` | the threads of a linked program, with the assumptions on their memory | instantiates `ThreadShadowInv` |
| `WordBits` | the width of an address, which the trie, `Runtime` and `RuntimeThreads` share | |
| `MC*` | model values, symmetry and constant definitions for TLC | |
| `*Proofs` | theorems and their proofs | |

### TaskServer
A thread is `new`, `todo` (created), `waiting` (YIELD or WAIT) or `done` (UNIT); what it computes is left out, so that at
each progress a task may yield or return. `server_progress` is cut where other code can run: each visit of
`List.filter` (`FilterVisit`, `FilterReturn`), the assignment of the list (`FilterExit`), each thread taken from a stage
(`ScheduleTake`, `ScheduleReturn`, `ScheduleNext`), the yield (`YieldReturn`) and the return (`ProgressTrue`, `ProgressFalse`).
The calls of it that are in progress form a stack of frames (`depth`, `frame`), since a body that yields makes a daemon
call it again. Exceptions (`Raise`, `YieldRaise`, `Unwind`) abandon the innermost frame and what it had taken. Bounds:
`MaxDepth` nested calls, `MaxRaises` exceptions, and the finite set of threads.

### ServerMain and RequestLife
One action per case of `process_request`, one for each way an exchange ends (`Callback`, after which `q_out` is
delivered and cleared; `CallbackCancel`; `CallbackFails`), one per step of `process`, of the handlers, and of `start`,
`foreground`, `stop` and `run`. An exchange is not atomic: it opens by `Fetch` and takes the requests of a message one at a time.
Each request identifier is sent once. `GET` handlers do not yield (they have no daemon). An exception in a message drops the rest of
it, which is the same as a shorter message. History variables (`received`, `delivered`, `owed`, `shown`, `asked`, `aborted`)
record what the client sent and got. The debouncing and the list of `Async` are abstracted: any yield may, or may not, fetch.
`RequestLife` forgets all of it but the life of a request: new, queued, running, ready, given or lost.

### HipsleekTranslate
A source is a set of lines, each holding a block, a definition, a prototype, a loop or nothing of interest; every layout that
C allows is an initial state. Functions take their block first, in source order; loops take theirs when bodies are printed, function by
function in the order of the AST (any order here). Blocks are consumed by `used_blocks`. `translate_stmt` drops a switch, throw or try statement
whole (449-463): a loop inside one is a `dropped` loop, for which no block is searched, while its block is in the list of blocks all the same.

### HipsleekRun
Runs are processes that share directories, one after the other or at the same time. The content of a file is the run it is about, or `Mixed` when two wrote it
at the same time. The `.ss` is opened, which truncates it, written, and read by `hip`, in three steps. `hip` checks callees first (its
call graph), prints verdicts one by one, and ends, stops at an exception (exit status 0, log still written) or is killed. With a proof log it then opens
the log (`HipOpensLog`: truncated, `log.ml` 770) and writes and closes it (`HipClosesLog`, 784), and may die in between: `whole` says
whether all is there. The plug-in reads the log that is there, whoever wrote it; if it is truncated while it is read, the run ends (`ReadFails`). `crossed` and `ended` are
history: the runs whose file another run opened or wrote between their own writing and their reading it, and those whose `hip` came to its end. A loop is a
method of its own for `hip`; `Verdict` folds its failure into its function (`humanize_loop_results`). Left out: a verdict
`Error` is handled like `Fail` but for its text; what a mixture contains, any procedures of the program; a loop that calls the function it
is in shares a recursive group with it, for which `hip` has no order.

### SyncArrays
One array and one client that watches it. The server keeps for each project a content (`contents`), and `array.current`
(`cached`) is a shortcut to one of them: a content removed from the table of projects while it is the shortcut
stays in use, as the element `Detached`. Requests that run (`Start` to `End`) change the table (`Put`, `ClearTable`) or the projects
(`set_current`, `remove`, `clear`, each with its hooks in the order of the code); `FETCH` and `RELOAD` are GETs, served between `Open`
and `Close` of an exchange, which may come in the middle of the requests that run. The client's `fetch` is cut at its `await`:
`Fetch` up to it, `ReceiveFetch` from it. Abstractions: requests and answers on their way are sets, since the client waits for at most one
of each kind; signals are counted; the rest of a message and the continuation of an `await` are one step; an
exchange with nothing on either side is left out; the client goes offline only when the server stops, which is not modelled;
no exception. `Page` is the 20000 of the code, and the order of keys in a page is left out. `Shared` says that the table is one for all
projects (the list of projects is) and not a projectified state; the runs and the theorems have a table of each project.
`MaxChanges` and `MaxReloads` bound the run.

### PatriciaTrie, BlockMap, BittreeModel, SegmentModel
A trie is a value: its root and a table of nodes with their links, prefix and mask, on integers of `WORDBITS` bits; each function of the code is an operator, its loops
functions of the node they are at (`Descend`) or of the number of steps (`pt_remove_node_if`, which changes the trie it walks). That number is bounded by twice the nodes: on small
tries TLC finds the result to be that of the recursion of the code, and the theorem on it holds for any bound. `pt_lookup` returns an uninitialised variable for a leaf that it finds; `LookupReturns` is what the build makes of it.
The two models have the same actions, one per call of the interface that changes them: the calls that instrumentation inserts
for variables (`eacsl_store_block`, `eacsl_delete_block`, `eacsl_full_init`, `eacsl_initialize`, `eacsl_mark_readonly`) and the allocation functions. The program is any one that
uses its own memory: it stores variables that overlap no other block, writes in its blocks, and gives any of
`Pointers` to `free` and `realloc`, a variable too; the runtime stops it (`aborted`) where the code does, and the process is lost (`crashed`) where the code reads a block or a
root that is not there, or overruns the init shadow. The allocator is external: it returns any free place, or fails. The bittree hands a variable to it as it does a block: the C library stops the
process or goes on, and after that nothing is said of the program (`undefined`). In the shadow model a byte of a variable has a code, the length of its block and its offset, as in the code; the place of a
shadow is its address. `written` records what the program gave a value. `Memory` maps the trie, or the shadows
decoded, on the blocks of `BlockMap` (`KeepsTheBlocks`): each call does to them what it does to the memory of a C program. Of the bittree it says that of each step
but two: one that loses the process changes no block (`Crashes`), and one that gives a variable to the C library removes that variable's block or takes it for a block of the heap (`TakesVariable`).
`CHAR_BIT` and `HEAP_SEGMENT` (8 and 32 in the code) are parameters, so that a region crosses bytes of the init
shadow and heap segments in small instances. `uncleared` is a history variable of the shadow model: the bytes that count as initialized since `calloc` has marked
the padding of their block and `realloc` in place has left it set (section 6). `ShrinksPartly` (bittree model) admits programs that meet a defect of `realloc` (section 6).

### ThreadShadow
A thread is created at an area, adds the partitions of its stack and of its thread-local storage one by one, and removes them when it ends. The area is the
stack as `fill_thread_layout_stack` computes it (145-154), from the start of its mapping on; the thread-local storage is inside of it, in glibc near its end. A thread is put
at any area that no living thread has, those of ended threads included, and then has their id: a `pthread_t` is an address in that area. While it starts it may be canceled (`canceled`:
the handler is pushed after `init_thread_shadow_layout`, at 297), and what it has inserted stays. Another
thread that reads a shadow asks the trie whether the address is of a thread, asks again where its shadow is, and then reads the
partition: three steps, since the lock of the trie is taken for each search only. It may look at memory of a thread that has ended, or that ends meanwhile: `\valid` is asked of such addresses too.
`fault` is the thread whose memory was looked at when a null or freed partition was read. Areas lie apart in the memory.

## 3. Runs

| Run | Instance | What it shows |
|---|---|---|
| `TaskPool` | 3 threads, one stage, 1 or 2 processors, spawns from outside and from tasks, fair | no thread is lost, the counters account for all of them, none is entered above `procs`, `waiting` means an empty queue, and a launched queue drains |
| `TaskNested` | nesting 2, two stages, an exception, spawns between the calls | a task is never entered twice, and a stage is issued when those before it have nothing queued |
| `TaskLost` (violated) | nesting 2, no exception | the counters lose a thread when a nested call resets them (finding) |
| `ServerRequests` | 2 EXEC, an unknown request, a job; kill, shutdown, one Ctrl+C; fair | nothing forgotten, answered once, only the asked is killed, the command line signal is known, `RequestLife` is implemented; every request is answered and a shutdown stops |
| `ServerSignals` | a GET, a SET, an EXEC and a signal, emitted by handlers, GETs and idle tasks; sigon, sigoff, shutdown, Ctrl+C | no emission is lost |
| `HipSpecs` | two files of five and two lines, every layout | blocks and definitions pair like brackets, one owner per block; in a well placed source the only block that is adopted is one of a loop inside a switch, throw or try |
| `HipRuns` | 2 runs in a directory, one after the other or at the same time, 2 functions, a loop that an edit between the two runs has moved from one to the other | statuses are about this program unless the other run crossed it, rest on nothing that failed, and agree with the panel; the log shown is the run's own and whole if its `hip` came to its end and nobody crossed it |
| `Arrays` | 2 projects, 2 keys, one row a page, 2 changes, 1 reload, fair | the client that waits for nothing is in sync, what it misses is kept for it, contents of other projects are to be fetched again, and it converges |
| `Runtime` | 3 variables, 2 places in the heap, sizes 2, 3, 6 and 10 (3 and 10 with the bittree), 3 blocks alive, any pointer given to `free` and `realloc`; linked with either model | both models implement `BlockMap`, up to the steps that `KeepsTheBlocks` of the bittree excepts, and answer as their contracts say for every address; what is said to be initialized was written, in the shadow model exactly that and what `uncleared` has; the trie has the living blocks and no other, the shadows nothing of a dead block; the heap is counted |
| `Threads` | 3 threads, 2 areas | the trie has the partitions that were not freed, and is well formed unless two are at one place; each address is found in its own partition, or the oldest at its place; one is read after it was freed only if the thread it is about ends meanwhile |
| `SegmentInit` (violated) | the shadow model of `Runtime`, sizes 3 and 12 | `\initialized` of a region reads bits of other addresses (finding) |
| `ThreadsLeft` (violated) | as `Threads` | one of the two partitions of a thread that ended is still there (finding) |

Bounds, and why they suffice. Two threads are needed for one to be in the list while the other resets it, and the third is the one
that is lost or overtaken; two stages give the order and two values of `procs` let it fall under the running threads. Nesting 2
is where a call meets the frame of another; deeper frames meet the same state. Two EXEC let a kill miss the first and find the
second; one job shares their queue, and an unknown request answers at once as a GET does. One signal is enough
since signals do not interact (the theorem covers all sets of them). Five lines of a file hold a function, a dropped loop with
its block and the loop that adopts it, or two blocks, two takers and a prototype between them; two more in another file let line numbers be compared across files. Two runs let the log, the `.ss` and the loop line of one be read by the other, and two writers are what makes a mixture.
One row a page makes a fetch of two rows take two exchanges, between which a change of project, a removal and a reload can
come; the two changes are the least for an update noted under one project to meet another one. Three blocks of 1, 2, 3, 6, 8, 10 or 11 bytes are short and long for the shadow
(more than 8 bytes), cross segments of 8 and init bytes of 4 bits (in place, 2 to 3 overruns the init shadow, and 2 or 3 to 6 ends inside a byte that `calloc` has marked), and have bases, 21, 22 and 24, for which the search of the trie must come
back to a branch it passed; a fourth block has not been tried. The heap has room for a block that moves. Three threads make a trie with
inner nodes at two depths, let one end while another is added, and, on two areas, make one of them start where an ended or canceled one was; an area of 4 bytes with 1 of thread-local storage at offset 2 has addresses of the stack below and past it. Counters of the models are not bounded: they are functions of the blocks.
`Arrays` starts with two rows in one project and one in the other, and `Runtime` and `Threads` use a view that identifies tries
that differ by the addresses of their nodes only; `Runtime` also makes one state of the programs that were stopped with the same blocks and counters. In `Runtime` the library is
chosen at the start, as by `e-acsl-gcc`: the variables of the other one keep their initial values.
The type invariants of `TaskServer`, `HipsleekRun`, `SyncArrays` and `BlockMap` are theorems only; no run repeats them. `NoLostThread` and `Conservation` are stated for a pool of one stage.
The instances are small; the theorems of section 5 remove the bounds for the properties they name.

Every property of a passing run is broken by a mutant: the definition with suffix (`Reply_Early`, `Victims_Any`, ...) that
stands before the one it alters is a plausible bug of that code, and TLC finds the property violated with it.

`CHECK_DEADLOCK FALSE`: each of these systems really stops (no thread left to spawn, the server left its loop, translation
finished, all runs reported, a client in sync, a program that the runtime stopped).

## 4. Fairness

- `TaskServer`: `on_idle` calls `server_progress` again and again (weak on `Tick`), its steps and the bodies go on (weak on `Steps`, `Return`),
  and a task asked to progress for ever ends some day (strong on the return of each thread with `done`): the condition of
  any polling pool. Nothing is assumed of the client.
- `ServerMain`: the loop and the code that runs go on (weak), the client polls for ever (weak on `Fetch`), exchanges end (weak on `Callbacks`),
  and the command line and each handler end although they may yield any number of times (strong on `foreground` and
  `HandlerEnds`; exchanges that they start disable these actions in between). No fairness on signals, kills or shutdown.
- `SyncArrays`: the client polls while it waits (weak on `Open`), an exchange ends (weak on `Close`) and may do so before a request has come but not for
  ever (strong on `Serve`), and the client handles what it gets (weak on each reception). Nothing is assumed of the requests that run: the table and
  the projects may change for ever, or never again.
- The runtime of E-ACSL has none: its calls are steps of the program, and no liveness is claimed.
- The plug-in has none: nothing in the code bounds `hip`, and no liveness is claimed.

## 5. Theorems

All are of the form `Spec => []Inv`, but the refinements and the facts about the trie as a value. TLAPS checks them for every value of the constants that the named assumptions of
the modules admit; further assumptions are in the statement.

| Theorem | Says | Inductive invariant |
|---|---|---|
| `TaskServerProofs!TypeCorrect` | `TypeOK` | itself |
| `TaskServerProofs!NeverReentered` | `NoReentry`, with any nesting and exceptions | `LockInv`: frames above `depth` are empty, a lock is held exactly by the one frame that runs the task |
| `TaskServerProofs!CountersConserved` | `Conservation` under `PlainUse` (no nesting, no exception, a processor, no spawn from callbacks, and tasks that spawn only with one stage) | `CountInv`: places of threads are disjoint, `terminated` + running + queued + the one in progress = `scheduled` |
| `TaskServerProofs!ThreadsKept` | `NoLostThread`, when nothing nests or raises (`SingleCall`) | `HeldInv`: an unfinished thread is queued, in the list as the call rebuilds it, or in progress |
| `TaskServerProofs!ProcsRespected` | `NeverOverbooks`, same assumption | `HeldInv`: the rebuilt list is a part of the old one, and a thread taken from a queue has a processor until it returns |
| `TaskServerProofs!WaitingIsScheduled` | `WaitingMeansScheduled`, with any nesting and exceptions | itself with `TypeOK` |
| `TaskServerProofs!StagesInOrder` | `StageOrder`, with any nesting and exceptions, when threads are spawned between calls (`SpawnSites \subseteq {"outside"}`) | `OrderInv`: a call that schedules a stage has left the earlier ones empty, or had no processor for them and has none now |
| `ServerMainProofs!TypeCorrect` | `TypeOK`, with `running` the code that runs | `TypeInv`: and `ControlInv`, which relates `pc`, `current` and the open exchange |
| `ServerMainProofs!SignalsKept` | `NoLostSignal` | `SigInv`: `s_emitted` only holds signals that are in `q_out` |
| `ServerMainProofs!CommandLineKnown` | `CmdLineTold` | `CmdInv`: a command line signal that waits is the current one |
| `ServerMainProofs!KillsTheAsked` | `OnlyTheKilled` | `KillInv`: what waits was received, what is marked killed was asked for |
| `ServerMainProofs!NeverAnsweredTwice` | `AnsweredOnce` | `AnswerInv`: identifiers are distinct in `q_in`, what waits has no answer, an answer is in `q_out` or delivered but not both |
| `ServerMainProofs!RequestsKept` | `NothingForgotten` | `ForgetInv`: `canceled` means a shutdown or the end, a failed exchange means Ctrl+C |
| `ServerMainProofs!ImplementsLife` | `Spec => Life!Spec` | the above with `CancelInv` (a cancel only interrupts a command); each action is one abstract step or a stutter |
| `HipsleekTranslateProofs!PairingTypes` | `TypeOK` | itself |
| `HipsleekTranslateProofs!BlocksServeOnce` | `OneOwner`, for any sources and order of the AST | `OwnerInv`: every attached block is in `used_blocks` |
| `HipsleekTranslateProofs!OnlyLeftOversAreTaken` | `OnlyLeftOversAdopted`, for any sources and order of the AST | `PlacedInv`: in a well placed source an item that was searched for has the block before it, or, if there is none, no block or one left over by a dropped loop above it in its body |
| `HipsleekTranslateProofs!BlocksPairLikeBrackets` | `PairsLikeBrackets`, for any sources and order of the AST | `ChosenInv`: an item that was searched for has the last block it may take that no earlier item has; functions come in the order of the source within a file, loops within a body |
| `HipsleekRunProofs!OwnVerdicts` | `VerdictsAreOwn`, for any number of runs at the same time | `RunInv`: types; a `.ss` that no other run crossed is the run's from its opening to `hip`'s reading it (`FileInv`); a verdict is of a procedure of the program `hip` has read (`HipInv`); statuses are those of the verdicts (`ReportInv`) |
| `HipsleekRunProofs!NothingIsAssumed` | `NothingAssumed`, for any number of runs at the same time | `RunInv`, in which loops have their verdict before the function they are in |
| `HipsleekRunProofs!PanelAndStatus` | `PanelAgrees` | statuses and table are set together |
| `HipsleekRunProofs!OwnLogs` | `LogsAreOwn`, for any number of runs at the same time | `LogInv`: unless another run crossed it, the log of a run that has opened it is that run's, whole once it is closed; a log left in a directory is of a run of that directory that asked for one |
| `HipsleekRunProofs!TypeCorrect` | `TypeOK` | itself |
| `SyncArraysProofs!TypeCorrect` | `TypeOK` | itself |
| `SyncArraysProofs!ProjectsApart` | `OthersCleared`, when each project has its table | `ArrayInv`: the shortcut is a content of the current project, a content that is cleared has no update |
| `SyncArraysProofs!NothingForgotten` | `Covered`, same assumption | `SyncInv`: `ArrayInv`; `NetInv`, a FETCH is in one place and its data where the answer is; `WakeInv`, what is kept for the client will wake it; and `Covered` |
| `SyncArraysProofs!ClientInSync` | `InSync`, same assumption | `SyncInv`: a client at rest has an empty content, by `WakeInv`, hence the table, by `Covered` |
| `RuntimeProofs!BlocksAreTyped`, `BlocksAreDisjoint`, `ValuesDieWithBlocks`, `HeapStaysWritable` | of `BlockMap`: blocks are typed, disjoint, in memory, writable on the heap, and values are in blocks | `MapInv`, their conjunction: a block that moves needs all of them |
| `RuntimeProofs!ShadowIsWellFormed` | `ShadowInv`, for any variables, heap and sequence of calls | itself: variables and heap blocks lie apart, each byte of a variable has the code of its offset and length, the secondary shadow is that of the long blocks, segments lead to their base, flags are what was written, nothing is marked out of a block |
| `RuntimeProofs!FreeShadowIsNull` | `FreeIsNullified` | `ShadowInv` |
| `RuntimeProofs!ShadowKeepsTheBlocks` | `KeepsTheBlocks`, that is `Spec => Memory!Spec`, and the process is lost by `Overruns` only | `ShadowInv`; each call is the action of `BlockMap` of its name, or a stutter |
| `RuntimeProofs!ShadowAnswers` | `AnswersAgree`, at every address, but for a base that is in the padding of a heap block, or outside of the heap for a heap pointer | `ShadowInv` |
| `RuntimeProofs!ShadowInitialized` | `InitializedIffWritten`, where `uncleared` is what `calloc` has marked and `realloc` left | `ShadowInv` and `BitsInv`: in a heap block the init bits are those of the bytes that have a value or are in `uncleared` |
| `PatriciaTrieProofs!MaskTablesAreExact` | the tables of `pt_mask` find the common prefix, for the three widths | (a lemma on data, no state) |
| `PatriciaTrieProofs!InsertKeepsTrie`, `RemoveKeepsTrie`, `RemoveTakesEntry`, `RemoveIfKeepsTrie` | each function that changes a trie keeps `TrieInv`, and adds or takes the entries that it must; `pt_remove_if` may leave some (finding 3), but takes none that was not chosen | `TrieInv`: every node has the common prefix of the leaves below it, and of them only; `Counted`: there are twice as many nodes as leaves, but one; during `pt_remove_if`, `Removing`: the calls that are still to do are of nodes that are in the trie, on the way down to the current one |
| `PatriciaTrieProofs!LookupIsExact`, `FindIsExact`, `TrieIsWellFormed` | the searches return the entry of an address, and that of the greatest address below a pointer; `TrieInv` implies `WellFormed` | |
| `BittreeModelProofs!BittreeIsWellFormed` | `BittreeInv`, where `pt_lookup` returns the leaf | itself: the trie has the bases of `bt_block` structures as leaves; blocks are objects of the program or places of the heap, apart from each other; and `WritableInv`: what can be freed is not read-only, until a variable is given to the C library |
| `BittreeModelProofs!TrieHoldsTheBlocks`, `BittreeAnswers` | the trie is exact, the answers are those of the contracts, whatever is given to `free` and `realloc`; same assumption | `BittreeInv` |
| `BittreeModelProofs!BittreeKeepsTheBlocks` | `KeepsTheBlocks`: each call is the action of `BlockMap` of its name, `Crashes` or `TakesVariable`; same assumption | `BittreeInv` and `WritableInv` |
| `BittreeModelProofs!BittreeImplementsBlockMap` | `Memory!Spec` in the behaviours where the status is always running or aborted; same assumption | the same |
| `BittreeModelProofs!BittreeCounts` | `CountersMatch`: the heap is counted, less a variable given to `free` or `realloc`; same assumption | `BittreeInv` and `CountInv`, the same with the sum over a set of blocks |
| `BittreeModelProofs!BittreeInitialized` | `OnlyWrittenIsInitialized`, same assumption and without `ShrinksPartly` | `BittreeInv` and `InitInv`: the bits of a block partly written are inside it, as many as it counts, and of bytes that were written |
| `RuntimeProofs!LinkedBittreeIsExact`, `LinkedBittreeKeepsTheBlocks`, `LinkedBittreeAnswers`, `LinkedBittreeInitialized`, `LinkedHeapIsCounted`, `LinkedShadow` | the same of a linked program: `BittreeIsExact`, `BittreeKeepsTheBlocks`, `BittreeAnswers`, `BittreeInitialized`, `HeapIsCounted`, and the properties of the shadow model | a linked program is a program of the library it has, or one that does nothing |
| `RuntimeProofs!ThreadsKeepTrie` | `TrieOfPartitions`, as long as `EachPlaceOnce`: no thread starts where a partition was left | `ThreadInv`: threads that are not gone have areas of their own; a partition is of a thread that has got so far, and one that runs has both; the entries of the trie are the starts of the partitions |
| `RuntimeProofs!ThreadFindsItsOwn` | `FindsItsOwn`, same condition | `ThreadInv`, with `FindIsExact` |
| `RuntimeProofs!ThreadReadsNoFreed` | `NoFault`, same condition | `ThreadInv` and `AccessInv`: unless the thread that is looked at has ended, the next search finds a partition, and one that was found is one of that thread |

The invariants are needed because the properties speak of the outcome only: `NoLostSignal`, for instance, is not preserved by
`do_signal` from a state where `s_emitted` holds a signal that is not in `q_out`, which no execution reaches.

Six of the arguments deserve a word.
- *Shadow memory.* The state of the model is shadows; blocks are only what `Blocks` decodes from them. The refinement therefore has to show that
  decoding after a call gives what the contract says of the blocks before it. `ShadowInv` is what makes decoding a function of the layout: a
  lemma for each call says which codes, segments and bits it changes, and that those of other blocks stay. Numbers are those of the code for a
  short block (8 bytes) and for the codes (48 on), but the size of a segment and of a byte of init bits are any that divide as `SegmentAssumption` says. It also has the alignment
  of heap blocks and of the ends of the heap, and that the variables of the program lie below the heap: that is the layout of the shadows, set up once.
  Nothing is assumed of the program: the growths in place of section 6 are steps of the model, which lose the process (`Overruns`) or leave bytes marked (`LeftSet`).
  The theorems on `BlockMap` hold of the shadow model by `ShadowKeepsTheBlocks`, and of the bittree by `BittreeImplementsBlockMap` as long as the process lives and no variable is given to the C library.
- *Trie.* A trie is any table of nodes that satisfies `TrieInv`, of any depth, on words of 16, 32 or 64 bits (of which the model uses 30 at most). A path in it is not a recursion
  but a set of nodes: masks strictly grow from a node to its children, so that a walk ends, and the leaves below a node are those whose address has its prefix. That is what makes one step back enough
  for `pt_find`. Where a proof would need an induction theorem with an operator as parameter, it takes a smallest counterexample, which the library's theorem on
  `<` gives, or a set of numbers. `LookupReturns = "leaf"` is what `pt_lookup` was meant to return; without it nothing
  works. `~ShrinksPartly` leaves out the programs of section 6 that shrink a block partly written.
- *Threads.* `pt_remove_if` may leave a partition of a thread that has ended, and a canceled one leaves its own, so that the trie cannot be shown to be that of the threads that run: `ThreadInv`
  lets it have what is left of them. It suffices where no two partitions start at one place, since then no start of another partition is between an address
  and the start of its own. `EachPlaceOnce` is a condition on the execution, not on the constants: areas may be used again, and the theorems cover that where all was removed. Where a thread
  starts at a partition that was left, two leaves have one address, and masks do not grow strictly any more, on which every theorem about tries rests. TLC covers that case:
  in `Threads` the same properties hold there, `FindsItsOwn` with the oldest partition of the place.
- *Stages.* While a task runs in a call its body may yield, nested calls may take threads of any stage, and `set_procs` may free a
  processor. `OrderInv` holds since only the innermost call can be between two threads, and since calls only take from queues. A task that spawns in
  stage 0 while stage 1 is scheduled breaks the order: the assumption is needed.
- *Adoption.* `find_annotation` takes the last unused block above an item. Blocks before the item's own were left there only if an earlier item
  did not take them; `PlacedInv` says that in a well placed source only blocks of dropped loops are left. These are never between a loop and its own block, so that they reach
  only loops that have none (`LeftOverIsElsewhere`). Loops come function by function in any order: `Pending` says which
  have not been searched for, and bodies of two functions do not overlap (`OneAround`).
- *Brackets.* `PairsLikeBrackets` compares a search, which depends on the order of the AST, with a count, which does not. Whatever the order of
  files and bodies, within each the searches go down the source, so that `ChosenInv` determines each pair from those above it. `Matching` then
  turns "the last block that nothing above took" into the count: between a block and its taker each other block is taken
  between them, by descent on the line (`LastBefore`, from the library's theorem that `<` on naturals is well founded), and `spec` is the
  bijection that makes the two cardinalities equal.

Some modules exist for the proofs: a theorem can only be cited of a module that is extended or instantiated, so that `Runtime` instantiates `BittreeModelProofs`, and `RuntimeThreads` the
module `ThreadShadowInv`, which has the theorems on the trie with it. Both assume what the instantiated module says of its constants
(`BittreeAssumption`, `ThreadAssumption`), and TLC evaluates that on the instances.

Only model-checked: the liveness properties (`Drains`, `Answered`, `Stops`, `Converges`), since the prover has no `ENABLED`. Every safety
property that a passing run checks has its theorem, with the assumptions that its row names; what these leave out, nested calls of the pool for instance or threads that start at a partition left by another, is model-checked.

## 6. Findings

Each is the single property of a violated run; `PROJECT.json` quotes the sentence it contradicts.
1. `TaskLost`: `schedule` takes a thread off its queue and runs its body before adding it to `running` (`task.ml` 452); when the
   body yields, a nested `server_progress` sees an empty list and resets the counters (486-488), and the outer call then adds the
   thread (454): the pool holds a thread that `scheduled` does not count. That is the trace of the run. There is a second path:
   when the body that yields runs inside `List.filter` (462), the outer call assigns the list it has filtered and a thread that the
   nested call has started is in no list any more (TLC finds it when the run's property is `NoLostThread`).
2. `SegmentInit`: `heap_initialized` (`e_acsl_segment_tracking.c` 952) tests the first partial byte of the init shadow twice, since
   the pointer is not moved on, and never tests the last bits.
3. `ThreadsLeft`: `pt_remove_node_if` (`e_acsl_patricia_trie.c` 394) does not test a leaf that was copied over its parent when its
   sibling was removed: of the two partitions of a thread, one stays.

Met while modelling; the models follow the code, and no run of the project is about them:
- Task server: with `procs` = 0 the pool stops with a full queue.
- Request server: a request killed in the queue gets no answer at all, and `process` makes no exchange between queued requests; `Async.fire`
  turns `Killed` into `Failure` (`async.ml` 80-81), so that an EXEC that was interrupted is answered by ERROR, not KILLED
  (`plugins/server/doc/server.md` 116); Ctrl+C in a GET during a yield is turned into a `Failure` too.
- HipSleek: an `[SL]` block above a prototype is attached to the next function defined in the file, though `hipsleek_translate.ml` 19 has
  "immediately following". The comment of `used_blocks` (106-109) says that a leftover block is not adopted by a neighbour, but the block of a loop inside a switch, throw or try statement,
  for which `translate_stmt` (449-463) does not search, is adopted by the next loop of the body that has none: `OnlyLeftOversAdopted` says that there is no other adoption.
- HipSleek: `hipsleek_out.ss` and the log have fixed names in the output directory, by default the temporary directory, so that runs at the same time read each other's program or a mixture.
  `log.ml` truncates the log at 770 and closes it at 784: when `hip` dies in between, half a log is read (`read_sleek_log`, 494), and when it dies before, or is not there, that of an earlier run; nothing in the log tells. A log that is
  truncated while it is read makes the plug-in die of `End_of_file`. `VerdictsAreOwn` and `LogsAreOwn` say when a run gets its own.
- Arrays: the list of projects (`kernel_project.ml` 110) has one table and a content per project, with no reload when the project changes. With `Shared = TRUE`,
  `Page = 2`, `MaxChanges = 3`, TLC finds `InSync` violated: a project removed while another one is current is shown again. An
  exception of a column in the walk of a reload loses the rows after it (`states.ml` 298), and the client that gets the error stops fetching.
- E-ACSL, shadow model: `realloc` in place counts bytes to clear as a difference of unsigned numbers that may be negative (`e_acsl_segment_tracking.c` 793), and then clears all the memory up
  (`Overruns`); when it is not negative the division leaves out the last partial byte (789-800), so that what `calloc` has marked past the end of the block counts as initialized once the block has grown over it (`LeftSet`).
  `heap_allocated` (854-879) reads the heap shadow at the base pointer wherever it points: for the base of a variable that is a place outside of that shadow (`ReadsOutside`), and a base in the padding
  of a block passes for one in the block (`Padding`); `AnswersAgree` leaves out these two and nothing else. `unsafe_freeable` does not return what it found for a safe location (887: a statement without `return`).
- E-ACSL, bittree: `free` and `realloc` of a variable count it out of the heap (`e_acsl_bittree_observation_model.c` 523, 461-462), give it to the C library, and remove its block or take it for a block of the heap (442-528), where the interface
  promises an abort. `realloc` of what is not a block reads a block that is not there (454), and `free` in an empty trie the root that is not there: the process is lost where it should be aborted. Shrinking a
  block partly written recounts its initialized bytes over whole bytes of the map, with bits past the new size (494-500; `ShrinksPartly`). `pt_lookup` returns an uninitialised variable.
- E-ACSL, threads: with the partition left by finding 3, a new thread on the same stack gets the oldest partition of that place, whose id and length are those of another thread but whose shadow is still mapped (`FindsItsOwn`).
  A thread that is canceled while it starts leaves its partitions for good (`e_acsl_shadow_concurrency.c` 297). The partition of a stack counts the whole stack from the start of its mapping (145-154), so that it has the thread-local storage inside, and the part of the stack above that storage is found in no partition.
  An access to the memory of a thread that ends during the access may read a null or freed partition (239-247), for which `\valid` of a dangling pointer is enough.
- E-ACSL: `contract_partial_count_behaviors` stops after the first two behaviours it is given (`e_acsl_contract.c` 109).

## 7. Plan

In order; the number of runs is kept small, so that new runs replace or extend weaker ones.
1. `Contracts` and `Temporal` (`instrumentation_model/`): a call with its contract, its parameters and their timestamps, on `BlockMap`.
2. `IvetteClient` (`server.ts`) and `ServerSocket`: restarts of the process, late answers, identifiers used again, framing; composed with
   `RequestLife` as the server; then failures in `SyncArrays`.
3. `TaskMutex`, `TaskShared`, `TaskCommand` (`task.ml` 186-332): waiters that are cancelled, the last client of a shared task, a command
   at its timeout; then `ProverTask.spawn`, the race of provers. Theorem: one owner of the mutex, one outcome of a shared task.
4. `Projects` (`project.ml`): `on`, `copy` with exceptions and states outside of a selection. Theorem: contents of a
   project change only while it is current.
5. `TaskPool` as an abstract specification of `TaskServer` (a bag of threads and at most `procs` that start), and its composition
   with `ServerMain`: jobs of `Main.async` between the two, tasks launched after the loop has ended.
6. `AsyncDaemons`: the list of daemons while one of them unregisters another.
7. Proofs: tries with two leaves at one address, so that the theorems on threads need no `EachPlaceOnce`; one owner of the mutex.

## 8. Not modelled

- HIP/SLEEK (`hipsleek/`): a sequential symbolic prover; `HipsleekRun` has the order of its checks, its end and its log.
- Eva, WP's calculus and memory models, Pdg, Slicing, From, the code generator of E-ACSL, Rte, Aorai, the kernel's parser and type checker: sequential
  functions over programs, whose correctness is about C semantics and not about protocol state.
- JSON conversions, package declarations and generated documentation of the server; its kernel requests, which print tables.
- ZeroMQ and batch entry points: one library call per exchange, and a script run once.
- The user interface of Ivette: components and layout.
- E-ACSL: the layout of the shadows (sizes and mappings read from the system), printing of values and of assertions, and the replacements of the
  C library, which check their arguments with the predicates that are modelled and call it; `\separated`, `\aligned` and
  `\object_pointer`; blocks of no byte in the shadow model, and its temporal shadows.
- `share/libc`: headers with ACSL contracts, which the analysers read, and sequential reference functions. dlmalloc: third-party,
  taken as any allocator. The examples of HIP/SLEEK: inputs of the prover. Together they are most of the C lines of the repository, whose own
  programs are mostly in OCaml and TypeScript.
