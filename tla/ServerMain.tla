------------------------------ MODULE ServerMain ------------------------------
(***************************************************************************)
(* The logic layer of the request server: plugins/server/main.ml, with the *)
(* daemon it runs in libraries/utils/async.ml.                             *)
(*                                                                         *)
(* The client sends messages, lists of requests; the server answers each   *)
(* message with the list of the responses it has at that moment.  GET      *)
(* requests are executed inside `communicate', SET and EXEC requests are   *)
(* queued and executed one after the other by `process', like the commands *)
(* of Main.async.  While an EXEC, a command or the Frama-C command line    *)
(* runs, its calls of Async.yield run the daemon do_yield, hence           *)
(* `communicate': messages, kills, signals and shutdown are interleaved    *)
(* with the code that runs.                                                *)
(***************************************************************************)
EXTENDS Integers, Sequences, FiniteSets, SequencesExt

CONSTANTS
  Gets, Sets, Execs,  \* request identifiers, by kind of the request; each is sent once
  Unknown,            \* identifiers of requests that are not registered
  Jobs,               \* jobs given to Main.async
  Signals,
  Commands,           \* which of "kill", "sigon", "sigoff", "shutdown" the client sends
  Emitters,           \* which code emits signals: "handler", "get", "idle"
  Idle, CmdLine,      \* values of server.running that are not a process
  NoOne,              \* no pending job is being executed
  MaxBreaks           \* bound: Sys.Break (Ctrl+C) raised in one behaviour

Ids == Gets \cup Sets \cup Execs \cup Unknown
Queueable == Sets \cup Execs \cup Jobs

ASSUME KindsAssumption ==
  LET kinds == <<Gets, Sets, Execs, Unknown, Jobs, Signals, {Idle, CmdLine, NoOne}>> IN
  /\ \A i, j \in 1 .. 7 : i # j => kinds[i] \cap kinds[j] = {}
  /\ Idle # CmdLine /\ Idle # NoOne /\ CmdLine # NoOne
ASSUME CommandsAssumption == Commands \subseteq {"kill", "sigon", "sigoff", "shutdown"}
ASSUME EmittersAssumption == Emitters \subseteq {"handler", "get", "idle"}
ASSUME BreaksAssumption   == MaxBreaks \in Nat

VARIABLES
  q_in, q_out, s_listen, s_emitted, s_pending,
  shutdown, running,
  cmdline,      \* "none", "on", "off": the signal to send at the next exchange
  emitter,      \* Main.emitter is do_signal
  killed,       \* processes whose field killed is set
  status,       \* status of the task of each job
  canceled,     \* Async.canceled
  pc,           \* "off", "cmdline", "loop", "handler" (of current), "over"
  current,      \* the pending job popped by process
  comm,         \* communicate: "none", "open" (processing requests), "failed" (by an exception)
  \* history
  received,     \* requests the server took from a message
  delivered,    \* responses given to the client
  owed,         \* signals emitted since they were last notified
  shown,        \* last command line signal the client received
  asked,        \* requests the client asked to kill once they were received
  aborted,      \* EXEC requests interrupted by raise_if_killed
  breaks        \* Sys.Break raised so far

queues  == <<q_in, q_out>>
signals == <<s_listen, s_emitted, s_pending>>
control == <<running, pc, current>>
history == <<received, delivered, shown, asked, aborted, breaks>>
vars == <<queues, signals, shutdown, cmdline, emitter, killed, status, canceled,
          control, comm, owed, history>>

Response(tag, x) == [tag |-> tag, of |-> x]
Responses == [tag : {"Data", "Error", "Killed", "Rejected"}, of : Ids]
               \cup [tag : {"Signal"}, of : Signals]

Init ==
  /\ q_in = <<>> /\ q_out = <<>>
  /\ s_listen = {} /\ s_emitted = {} /\ s_pending = {}
  /\ shutdown = FALSE
  /\ running = Idle
  /\ cmdline = "none"
  /\ emitter = FALSE
  /\ killed = {}
  /\ status = [j \in Jobs |-> "none"]
  /\ canceled = FALSE
  /\ pc = "off"
  /\ current = NoOne
  /\ comm = "none"
  /\ received = {} /\ delivered = {} /\ owed = {}
  /\ shown = "none"
  /\ asked = {} /\ aborted = {}
  /\ breaks = 0

-------------------------------------------------------------------------------
(* Start and stop.                                                         *)

\* The plug-in's main entry, before the analyses of the command line.
start ==
  /\ pc = "off"
  /\ pc' = "cmdline"
  /\ running' = CmdLine
  /\ cmdline' = "on"
  /\ emitter' = TRUE
  /\ UNCHANGED <<queues, signals, shutdown, killed, status, canceled, current, comm,
                 owed, history>>

\* Mutant: a command line signal not yet sent is kept.
foreground_KeepsSignal ==
  /\ pc = "cmdline" /\ comm = "none"
  /\ pc' = "loop"
  /\ running' = Idle
  /\ cmdline' = IF cmdline = "none" THEN "off" ELSE cmdline
  /\ UNCHANGED <<queues, signals, shutdown, emitter, killed, status, canceled,
                 current, comm, owed, history>>

\* The command line is finished: run starts its loop.
foreground ==
  /\ pc = "cmdline" /\ comm = "none"
  /\ pc' = "loop"
  /\ running' = Idle
  /\ cmdline' = "off"
  /\ UNCHANGED <<queues, signals, shutdown, emitter, killed, status, canceled,
                 current, comm, owed, history>>

\* Frama-C exits before the end of the command line.
stop ==
  /\ pc = "cmdline" /\ comm = "none"
  /\ pc' = "over"
  /\ running' = Idle
  /\ cmdline' = "none"
  /\ emitter' = FALSE
  /\ canceled' = TRUE
  /\ UNCHANGED <<queues, signals, shutdown, killed, status, current, comm, owed, history>>

\* The loop of run ends.
Over ==
  /\ pc' = "over"
  /\ running' = Idle
  /\ current' = NoOne
  /\ emitter' = FALSE

\* Mutant: the flag is tested only when a request was popped.
Finish_OnPop ==
  /\ pc = "loop" /\ comm = "none"
  /\ shutdown /\ q_in # <<>>
  /\ Over
  /\ UNCHANGED <<queues, signals, shutdown, cmdline, killed, status, canceled, comm,
                 owed, history>>

Finish ==
  /\ pc = "loop" /\ comm = "none"
  /\ shutdown
  /\ Over
  /\ UNCHANGED <<queues, signals, shutdown, cmdline, killed, status, canceled, comm,
                 owed, history>>

-------------------------------------------------------------------------------
(* Signals.                                                                *)

\* do_signal; the responses `after' are pushed behind the signal.
do_signal(s, after) ==
  /\ s_emitted' = IF s \in s_listen THEN s_emitted \cup {s} ELSE s_emitted
  /\ s_pending' = IF s \in s_listen THEN s_pending ELSE s_pending \cup {s}
  /\ q_out' = q_out \o (IF s \in s_listen \ s_emitted THEN <<Response("Signal", s)>> ELSE <<>>)
                    \o after
  /\ owed' = owed \cup {s}

Running == comm = "none" /\ pc \in {"cmdline", "handler"}

\* The loop sleeps, and lets the tasks of the scheduled server progress.
Sleeping == comm = "none" /\ pc = "loop" /\ q_in = <<>> /\ ~shutdown

\* The code that runs, or a task progressing while the server sleeps, emits s.
emit(s) ==
  /\ emitter
  /\ \/ "handler" \in Emitters /\ Running
     \/ "idle" \in Emitters /\ Sleeping
  /\ do_signal(s, <<>>)
  /\ UNCHANGED <<q_in, s_listen, shutdown, cmdline, emitter, killed, status, canceled,
                 control, comm, history>>

-------------------------------------------------------------------------------
(* communicate.                                                            *)

\* The code that runs calls Async.yield while the daemon do_yield is registered.
Yields == Running /\ (pc = "cmdline" \/ current \in Execs \cup Jobs)

\* fetch returns a message, from the idle server or from a yield.
Fetch ==
  /\ \/ Sleeping
     \/ Yields /\ running \notin killed
  /\ comm' = "open"
  /\ UNCHANGED <<queues, signals, shutdown, cmdline, emitter, killed, status, canceled,
                 control, owed, history>>

Receive(id) ==
  /\ comm = "open"
  /\ id \notin received
  /\ received' = received \cup {id}
  /\ UNCHANGED <<delivered, shown, asked, aborted, breaks>>

\* A GET request is executed at once; its handler may emit a signal.
Get(id) ==
  /\ id \in Gets
  /\ Receive(id)
  /\ \E tag \in {"Data", "Error", "Killed"} :
       \/ /\ q_out' = Append(q_out, Response(tag, id))
          /\ UNCHANGED <<s_emitted, s_pending, owed>>
       \/ /\ emitter /\ "get" \in Emitters
          /\ \E s \in Signals : do_signal(s, <<Response(tag, id)>>)
  /\ UNCHANGED <<q_in, s_listen, shutdown, cmdline, emitter, killed, status, canceled,
                 control, comm>>

\* Mutant: a SET or EXEC that arrives during a yield is ignored.
Enqueue_Idle(id) ==
  /\ id \in Sets \cup Execs
  /\ Receive(id)
  /\ q_in' = IF running = Idle THEN Append(q_in, id) ELSE q_in
  /\ UNCHANGED <<q_out, signals, shutdown, cmdline, emitter, killed, status, canceled,
                 control, comm, owed>>

\* SET and EXEC requests are queued.
Enqueue(id) ==
  /\ id \in Sets \cup Execs
  /\ Receive(id)
  /\ q_in' = Append(q_in, id)
  /\ UNCHANGED <<q_out, signals, shutdown, cmdline, emitter, killed, status, canceled,
                 control, comm, owed>>

Reject(id) ==
  /\ id \in Unknown
  /\ Receive(id)
  /\ q_out' = Append(q_out, Response("Rejected", id))
  /\ UNCHANGED <<q_in, signals, shutdown, cmdline, emitter, killed, status, canceled,
                 control, comm, owed>>

SigOn(s) ==
  /\ comm = "open" /\ "sigon" \in Commands
  /\ s_listen' = s_listen \cup {s}
  /\ \/ /\ s \in s_pending
        /\ s_emitted' = s_emitted \cup {s}
        /\ s_pending' = s_pending \ {s}
        /\ q_out' = Append(q_out, Response("Signal", s))
     \/ /\ s \notin s_pending
        /\ UNCHANGED <<s_emitted, s_pending, q_out>>
  /\ UNCHANGED <<q_in, shutdown, cmdline, emitter, killed, status, canceled, control,
                 comm, owed, history>>

SigOff(s) ==
  /\ comm = "open" /\ "sigoff" \in Commands
  /\ s_listen' = s_listen \ {s}
  /\ UNCHANGED <<queues, s_emitted, s_pending, shutdown, cmdline, emitter, killed,
                 status, canceled, control, comm, owed, history>>

\* Mutant: the running process is killed without comparing its identifier.
Victims_Any(id) == ({running} \cap Ids) \cup ({id} \cap ToSet(q_in))

Victims(id) == {id} \cap ({running} \cup ToSet(q_in))

Kill(id) ==
  /\ comm = "open" /\ "kill" \in Commands
  /\ killed' = killed \cup Victims(id)
  /\ asked' = asked \cup ({id} \cap received)
  /\ UNCHANGED <<queues, signals, shutdown, cmdline, emitter, status, canceled, control,
                 comm, owed, received, delivered, shown, aborted, breaks>>

Shutdown ==
  /\ comm = "open" /\ "shutdown" \in Commands
  /\ shutdown' = TRUE
  /\ q_in' = <<>> /\ q_out' = <<>>
  /\ canceled' = (canceled \/ running = CmdLine)
  /\ killed' = killed \cup ({running} \cap Ids)
  /\ UNCHANGED <<signals, cmdline, emitter, status, control, comm, owed, history>>

\* Ctrl+C while a GET handler runs: `run' passes it on, `communicate' gives up the
\* other requests of the message and raises again once it has replied.
GetBreak ==
  /\ comm = "open"
  /\ breaks < MaxBreaks
  /\ comm' = "failed"
  /\ breaks' = breaks + 1
  /\ UNCHANGED <<queues, signals, shutdown, cmdline, emitter, killed, status, canceled,
                 control, owed, received, delivered, shown, asked, aborted>>

\* Mutant: q_out is cleared before it is copied.
Reply_Early(out) ==
  /\ delivered' = delivered
  /\ owed' = owed \ {s \in Signals : Response("Signal", s) \in ToSet(q_out)}
  /\ shown' = IF cmdline = "none" THEN shown ELSE cmdline
  /\ q_out' = out
  /\ cmdline' = "none"
  /\ s_emitted' = {}
  /\ comm' = "none"
  /\ UNCHANGED <<q_in, s_listen, s_pending, shutdown, killed, received, asked,
                 aborted, breaks>>

\* Mutant: q_out is not cleared.
Reply_Again(out) ==
  /\ delivered' = delivered \cup ToSet(q_out)
  /\ owed' = owed \ {s \in Signals : Response("Signal", s) \in ToSet(q_out)}
  /\ shown' = IF cmdline = "none" THEN shown ELSE cmdline
  /\ q_out' = q_out \o out
  /\ cmdline' = "none"
  /\ s_emitted' = {}
  /\ comm' = "none"
  /\ UNCHANGED <<q_in, s_listen, s_pending, shutdown, killed, received, asked,
                 aborted, breaks>>

\* Mutant: s_emitted is not reset.
Reply_KeepsEmitted(out) ==
  /\ delivered' = delivered \cup ToSet(q_out)
  /\ owed' = owed \ {s \in Signals : Response("Signal", s) \in ToSet(q_out)}
  /\ shown' = IF cmdline = "none" THEN shown ELSE cmdline
  /\ q_out' = out
  /\ cmdline' = "none"
  /\ s_emitted' = s_emitted
  /\ comm' = "none"
  /\ UNCHANGED <<q_in, s_listen, s_pending, shutdown, killed, received, asked,
                 aborted, breaks>>

\* The reply to the message; `out' is pushed after it.
Reply(out) ==
  /\ delivered' = delivered \cup ToSet(q_out)
  /\ owed' = owed \ {s \in Signals : Response("Signal", s) \in ToSet(q_out)}
  /\ shown' = IF cmdline = "none" THEN shown ELSE cmdline
  /\ q_out' = out
  /\ cmdline' = "none"
  /\ s_emitted' = {}
  /\ comm' = "none"
  /\ UNCHANGED <<q_in, s_listen, s_pending, shutdown, killed, received, asked,
                 aborted, breaks>>

\* Mutant: server.running is not set to Idle again.
Done_Busy ==
  /\ pc' = "loop"
  /\ running' = running
  /\ current' = NoOne

\* process forgets the job it was executing.
Done ==
  /\ pc' = "loop"
  /\ running' = Idle
  /\ current' = NoOne

Callback ==
  /\ comm = "open" /\ ~canceled
  /\ Reply(<<>>)
  /\ UNCHANGED <<emitter, status, canceled, control>>

\* After a Shutdown, Async.yield raises Cancel: in the command that runs, or in
\* the command line, which stops or goes on.
CallbackCancel ==
  /\ comm = "open" /\ canceled
  /\ canceled' = FALSE
  /\ Reply(<<>>)
  /\ \/ /\ pc = "handler"
        /\ status' = [status EXCEPT ![current] = "canceled"]
        /\ Done
        /\ UNCHANGED emitter
     \/ /\ pc = "cmdline"
        /\ UNCHANGED <<emitter, status, control>>

\* The exception is raised again.  The loop ends; in a daemon it becomes a
\* Failure of Async.yield, for the code that yielded.
CallbackFails ==
  /\ comm = "failed"
  /\ \/ /\ pc = "handler" /\ current \in Execs
        /\ Reply(<<Response("Error", current)>>)
        /\ Done
        /\ UNCHANGED <<emitter, status>>
     \/ /\ pc = "handler" /\ current \in Jobs
        /\ Reply(<<>>)
        /\ status' = [status EXCEPT ![current] = "failed"]
        /\ Done
        /\ UNCHANGED emitter
     \/ /\ pc \in {"loop", "cmdline"}
        /\ Reply(<<>>)
        /\ Over
        /\ UNCHANGED status
  /\ UNCHANGED canceled

-------------------------------------------------------------------------------
(* process.                                                                *)

InLoop == pc = "loop" /\ comm = "none" /\ ~shutdown /\ q_in # <<>>

\* Mutant: a request killed in the queue is started all the same.
Dropped_Job(x) == x \in Jobs /\ status[x] # "yield"

Dropped(x) == x \in killed \/ (x \in Jobs /\ status[x] # "yield")

\* A killed request is skipped; a command whose task was canceled does nothing.
Drop ==
  /\ InLoop
  /\ Dropped(Head(q_in))
  /\ q_in' = Tail(q_in)
  /\ UNCHANGED <<q_out, signals, shutdown, cmdline, emitter, killed, status, canceled,
                 control, comm, owed, history>>

process ==
  /\ InLoop
  /\ ~Dropped(Head(q_in))
  /\ q_in' = Tail(q_in)
  /\ current' = Head(q_in)
  /\ running' = IF Head(q_in) \in Jobs THEN CmdLine ELSE Head(q_in)
  /\ pc' = "handler"
  /\ UNCHANGED <<q_out, signals, shutdown, cmdline, emitter, killed, status, canceled,
                 comm, owed, history>>

\* The handler of a SET or EXEC returns or raises.
Return ==
  /\ comm = "none" /\ pc = "handler" /\ current \in Ids
  /\ \E tag \in {"Data", "Error", "Killed"} : q_out' = Append(q_out, Response(tag, current))
  /\ Done
  /\ UNCHANGED <<q_in, signals, shutdown, cmdline, emitter, killed, status, canceled,
                 comm, owed, history>>

\* The handler yields after it was killed: do_yield raises Killed, which
\* Async.fire turns into a Failure (async.ml:81) and `run' into an `Error.
YieldKilled ==
  /\ Yields
  /\ running \in killed
  /\ q_out' = Append(q_out, Response("Error", running))
  /\ aborted' = aborted \cup {running}
  /\ Done
  /\ UNCHANGED <<q_in, signals, shutdown, cmdline, emitter, killed, status, canceled,
                 comm, owed, received, delivered, shown, asked, breaks>>

\* The job of Main.async returns or raises (even Sys.Break is kept in its status).
JobReturn ==
  /\ comm = "none" /\ pc = "handler" /\ current \in Jobs
  /\ \E st \in {"result", "canceled", "failed"} :
       status' = [status EXCEPT ![current] = st]
  /\ Done
  /\ UNCHANGED <<queues, signals, shutdown, cmdline, emitter, killed, canceled, comm,
                 owed, history>>

\* Ctrl+C in a handler or while the server sleeps: the loop is left.
Break ==
  /\ comm = "none" /\ pc \in {"loop", "handler"} /\ current \notin Jobs
  /\ breaks < MaxBreaks
  /\ breaks' = breaks + 1
  /\ Over
  /\ UNCHANGED <<queues, signals, shutdown, cmdline, killed, status, canceled, comm,
                 owed, received, delivered, shown, asked, aborted>>

-------------------------------------------------------------------------------
(* Main.async.                                                             *)

\* A task of the scheduled server starts a job: the idle loop or a handler runs it.
schedule(j) ==
  /\ Sleeping \/ (comm = "none" /\ pc = "handler")
  /\ status[j] = "none"
  /\ status' = [status EXCEPT ![j] = "yield"]
  /\ q_in' = Append(q_in, j)
  /\ UNCHANGED <<q_out, signals, shutdown, cmdline, emitter, killed, canceled, control,
                 comm, owed, history>>

\* The task of the job is canceled: ping receives Kill.
ping(j) ==
  /\ Sleeping \/ (comm = "none" /\ pc = "handler")
  /\ status[j] = "yield"
  /\ status' = [status EXCEPT ![j] = "canceled"]
  /\ UNCHANGED <<queues, signals, shutdown, cmdline, emitter, killed, canceled, control,
                 comm, owed, history>>

-------------------------------------------------------------------------------
process_request ==
  \/ \E id \in Ids : Get(id) \/ Enqueue(id) \/ Reject(id) \/ Kill(id)
  \/ \E s \in Signals : SigOn(s) \/ SigOff(s)
  \/ Shutdown
  \/ GetBreak

Callbacks == Callback \/ CallbackCancel \/ CallbackFails

HandlerEnds == Return \/ YieldKilled \/ JobReturn

Next ==
  \/ start \/ foreground \/ stop \/ Finish
  \/ \E s \in Signals : emit(s)
  \/ Fetch \/ process_request \/ Callbacks
  \/ Drop \/ process \/ HandlerEnds \/ Break
  \/ \E j \in Jobs : schedule(j) \/ ping(j)

Spec == Init /\ [][Next]_vars

\* The loop goes on, the client polls for ever, and the code that runs between
\* two yields, and the number of its yields, are finite.
Fairness ==
  /\ WF_vars(start)
  /\ SF_vars(foreground)
  /\ WF_vars(Fetch)
  /\ WF_vars(Callbacks)
  /\ WF_vars(Drop \/ process)
  /\ SF_vars(HandlerEnds)
  /\ WF_vars(Finish)

LiveSpec == Spec /\ Fairness

-------------------------------------------------------------------------------
(* Properties.                                                             *)

\* Every variable keeps its type, and running follows the code that runs.
TypeOK ==
  /\ q_in \in Seq(Queueable)
  /\ q_out \in Seq(Responses)
  /\ s_listen \subseteq Signals /\ s_emitted \subseteq Signals /\ s_pending \subseteq Signals
  /\ shutdown \in BOOLEAN /\ emitter \in BOOLEAN /\ canceled \in BOOLEAN
  /\ cmdline \in {"none", "on", "off"} /\ shown \in {"none", "on", "off"}
  /\ killed \subseteq Sets \cup Execs
  /\ status \in [Jobs -> {"none", "yield", "result", "canceled", "failed"}]
  /\ pc \in {"off", "cmdline", "loop", "handler", "over"}
  /\ current \in Queueable \cup {NoOne}
  /\ running = IF pc = "cmdline" \/ current \in Jobs THEN CmdLine
               ELSE IF current = NoOne THEN Idle ELSE current
  /\ comm \in {"none", "open", "failed"}
  /\ received \subseteq Ids /\ asked \subseteq Ids /\ aborted \subseteq Execs
  /\ delivered \subseteq Responses
  /\ owed \subseteq Signals
  /\ breaks \in 0 .. MaxBreaks

Answers(id) == {r \in delivered \cup ToSet(q_out) : r.tag # "Signal" /\ r.of = id}
Waits(x) == x \in ToSet(q_in) \/ x = current

\* Until the server stops, every request that was received waits for its turn, is
\* running, is answered or was killed, and every job whose task is not finished
\* is queued or running (the jobs and the requests share one queue).
NothingForgotten ==
  ~shutdown /\ breaks = 0 =>
    /\ \A id \in received : Waits(id) \/ Answers(id) # {} \/ id \in killed
    /\ \A j \in Jobs : status[j] = "yield" => Waits(j)

\* No request gets two answers, and none is answered while it still waits or
\* runs, whatever the interleaving of its end, its kill and the exchanges.
AnsweredOnce ==
  \A id \in received :
    /\ Cardinality(Answers(id)) <= 1
    /\ Waits(id) => Answers(id) = {}
    /\ Cardinality({i \in DOMAIN q_out : q_out[i].of = id})
         + Cardinality({r \in delivered : r.of = id}) <= 1

\* A signal that was emitted is never lost: until the client is notified it is
\* queued for the next exchange, or kept until the client listens to it
\* (s_emitted and s_pending only filter out what is already on its way).
NoLostSignal ==
  ~shutdown =>
    \A s \in owed : s \in s_pending \/ Response("Signal", s) \in ToSet(q_out)

\* When no command line signal is waiting, the client knows whether the command
\* line is running, although foreground may overwrite a signal not yet sent.
CmdLineTold ==
  cmdline = "none" => /\ pc = "cmdline" => shown = "on"
                      /\ pc \in {"loop", "handler"} => shown = "off"

\* An EXEC is interrupted only if the client asked to kill this very request, or
\* asked for a shutdown: a kill that arrives late does not hit the next EXEC.
OnlyTheKilled == \A id \in aborted : id \in asked \/ shutdown

\* A request that is received is answered, unless it was killed or the server ends.
Answered ==
  \A id \in Ids :
    id \in received ~> Answers(id) # {} \/ id \in killed \/ shutdown \/ pc = "over"

\* A shutdown stops the server, even in the middle of an EXEC or a command.
Stops == shutdown ~> pc = "over"

-------------------------------------------------------------------------------
(* Refinement of RequestLife.                                              *)

LifeOf(id) ==
  IF id \notin received THEN "new"
  ELSE IF \E r \in delivered : r.of = id THEN "given"
  ELSE IF \E r \in ToSet(q_out) : r.of = id THEN "ready"
  ELSE IF id = current THEN "running"
  ELSE IF id \in ToSet(q_in) THEN "queued"
  ELSE "lost"

Life == INSTANCE RequestLife WITH
          Requests <- Ids,
          life <- [id \in Ids |-> LifeOf(id)],
          killed <- killed,
          closed <- shutdown \/ pc = "over"

\* Between the queues, the daemon, the kills and the exceptions, a request only
\* lives as RequestLife says: one runs at a time, what runs is answered even when
\* it is interrupted, what is answered is given at the next exchange, and only a
\* request killed in the queue is lost while the server is open.
LivesAsPromised == Life!Spec

===============================================================================
