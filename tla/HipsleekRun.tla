----------------------------- MODULE HipsleekRun -----------------------------
(****************************************************************************)
(* One verification by the HipSleek plug-in: the generated program goes to  *)
(* a file, hip.exe checks it in a process of its own, its output and its    *)
(* log are read back and become property statuses and the table of the      *)
(* proof panel (src/plugins/hipsleek/: hipsleek_run.ml, hipsleek_acsl.ml,   *)
(* hipsleek_register.ml, hipsleek_store.ml).                                *)
(*                                                                          *)
(* Runs share nothing but files, of which the names are fixed: two runs     *)
(* with one output directory use the same hipsleek_out.ss and the same      *)
(* logs/sleek_log_hipsleek_out_ss.txt.  The default directory is the        *)
(* system's temporary directory, and nothing keeps two runs from being in   *)
(* progress there at a time: one may write a file while another has it      *)
(* open, or between the other's writing and reading it.                     *)
(*                                                                          *)
(* The content of a file is the run it is about, or a mixture.  A loop is   *)
(* the line of the .ss it starts at, which is all that hip's name for it    *)
(* tells.  A verdict Error is handled as Fail but for its wording, and is   *)
(* not told apart.                                                          *)
(****************************************************************************)
EXTENDS Naturals, FiniteSets

CONSTANTS
    Runs,       \* executions of frama-c -hipsleek
    Funs,       \* the functions of the C program
    Lines,      \* the lines of the .ss where a loop may start
    Annotated,  \* the functions with an SL spec
    Span,       \* Span[r][l]: the function line l is in, in the .ss of run r
    Dirs,       \* output directories
    Dir         \* the output directory of each run

ASSUME RunAssumption ==
    /\ Annotated \subseteq Funs
    /\ Funs \cap Lines = {}
    /\ Runs \cap {"none", "mixed"} = {}
    /\ Span \in [Runs -> [Lines -> Funs]]
    /\ Dir \in [Runs -> Dirs]

Verdicts == {"SUCCESS", "FAIL"}

VARIABLES
    loops,      \* the lines where the loops of each run's .ss start
    proof_log,  \* the runs with -hipsleek-proof-log
    pc,         \* where each run is
    ss,         \* for each directory, the run whose .ss the file holds
    log,        \* for each directory, what the SLEEK log is about
    loaded,     \* the run whose .ss hip has read
    printed,    \* the verdicts hip has printed
    info,       \* what the obligations shown are about
    status,     \* the property statuses emitted
    table,      \* Hipsleek_store.table
    \* What happened to each run, which no code keeps:
    crossed,    \* the runs whose .ss or log another run got hold of meanwhile
    ended       \* the runs whose hip came to its end

vars == <<loops, proof_log, pc, ss, log, loaded, printed, info, status, table,
          crossed, ended>>

None == "none"
Mixed == "mixed"    \* a file that two runs wrote at the same time

\* A log: the run whose hip wrote it, the program it is about, and whether it
\* is all there.
Logs == [by : Runs \cup {Mixed}, about : Runs \cup {None, Mixed}, whole : BOOLEAN]
NoLog == [by |-> None, about |-> None, whole |-> FALSE]
MixedLog == [by |-> Mixed, about |-> Mixed, whole |-> FALSE]
LogBy(r, whole) == [by |-> r, about |-> loaded[r], whole |-> whole]

Init ==
    /\ loops \in [Runs -> SUBSET Lines]
    /\ proof_log \in SUBSET Runs
    /\ pc = [r \in Runs |-> "idle"]
    /\ ss = [d \in Dirs |-> None]
    /\ log = [d \in Dirs |-> NoLog]
    /\ loaded = [r \in Runs |-> None]
    /\ printed = [r \in Runs |-> [p \in Funs \cup Lines |-> None]]
    /\ info = [r \in Runs |-> NoLog]
    /\ status = [r \in Runs |-> [f \in Funs |-> None]]
    /\ table = [r \in Runs |-> [f \in Funs |-> None]]
    /\ crossed = {}
    /\ ended = {}

\* The other runs of the directory of r that are at one of these places.
Others(r, places) == {q \in Runs \ {r} : Dir[q] = Dir[r] /\ pc[q] \in places}

\* Run r writes the .ss, which these runs have open or are about to read; or
\* the log.
CrossSs(r) == crossed' = crossed \cup (Others(r, {"opened", "written"}) \X {"ss"})
CrossLog(r) == crossed' = crossed \cup (Others(r, {"logging", "exited"}) \X {"log"})

\* Mutant: the .ss that an earlier run left in the directory is used again.
ReuseSs(r) ==
    /\ pc[r] = "idle"
    /\ \/ /\ ss[Dir[r]] = None
          /\ pc' = [pc EXCEPT ![r] = "opened"]
       \/ /\ ss[Dir[r]] # None
          /\ pc' = [pc EXCEPT ![r] = "written"]
    /\ UNCHANGED <<loops, proof_log, ss, log, loaded, printed, info, status, table,
                   crossed, ended>>

\* run: open_out truncates the file, whatever it held.
OpenSs(r) ==
    /\ pc[r] = "idle"
    /\ pc' = [pc EXCEPT ![r] = "opened"]
    /\ ss' = [ss EXCEPT ![Dir[r]] = None]
    /\ CrossSs(r)
    /\ UNCHANGED <<loops, proof_log, log, loaded, printed, info, status, table, ended>>

\* run: output_string and close_out, which write over what the file holds.
WriteSs(r) ==
    /\ pc[r] = "opened"
    /\ pc' = [pc EXCEPT ![r] = "written"]
    /\ \E content \in IF ss[Dir[r]] = None THEN {r} ELSE {r, Mixed} :
          ss' = [ss EXCEPT ![Dir[r]] = content]
    /\ CrossSs(r)
    /\ UNCHANGED <<loops, proof_log, log, loaded, printed, info, status, table, ended>>

\* run_hip: hip.exe is not found, there is no verdict.
NoHip(r) ==
    /\ pc[r] = "written"
    /\ pc' = [pc EXCEPT ![r] = "exited"]
    /\ UNCHANGED <<loops, proof_log, ss, log, loaded, printed, info, status, table,
                   crossed, ended>>

\* run_hip: hip.exe starts and reads the file as it is then, in part if another
\* run is writing it.
InvokeHip(r) ==
    /\ pc[r] = "written"
    /\ pc' = [pc EXCEPT ![r] = "hip"]
    /\ \/ /\ loaded' = [loaded EXCEPT ![r] = ss[Dir[r]]]
          /\ UNCHANGED crossed
       \/ /\ Others(r, {"opened"}) # {}
          /\ loaded' = [loaded EXCEPT ![r] = Mixed]
          /\ crossed' = crossed \cup {<<r, "ss">>}
    /\ UNCHANGED <<loops, proof_log, ss, log, printed, info, status, table, ended>>

\* The loops that function f rests on, by the .ss of run q.
LoopsOf(q, f) == IF q \in Runs THEN {l \in loops[q] : Span[q][l] = f} ELSE {}

\* The procedures of that .ss: functions, and loops made methods; any of them
\* in a mixture.
Procs(q) ==
    CASE q \in Runs -> Funs \cup loops[q]
      [] q = Mixed -> Funs \cup Lines
      [] OTHER -> {}

\* hip checks a procedure and prints its verdict: callees first, so that the
\* loops of a function come before it.
HipChecks(r) ==
    /\ pc[r] = "hip"
    /\ \E p \in Procs(loaded[r]), v \in Verdicts :
          /\ printed[r][p] = None
          /\ p \in Funs => \A l \in LoopsOf(loaded[r], p) : printed[r][l] # None
          /\ printed' = [printed EXCEPT ![r][p] = v]
    /\ UNCHANGED <<loops, proof_log, pc, ss, log, loaded, info, status, table,
                   crossed, ended>>

\* hip ends, or stops at an exception, and its exit status is 0.  Without
\* -hipsleek-proof-log it has no log to write.
HipExits(r) ==
    /\ pc[r] = "hip" /\ r \notin proof_log
    /\ pc' = [pc EXCEPT ![r] = "exited"]
    /\ ended' = ended \cup {r}
    /\ UNCHANGED <<loops, proof_log, ss, log, loaded, printed, info, status, table, crossed>>

\* Mutant: the log is opened to append.
HipAppendsToLog(r) ==
    /\ pc[r] = "hip" /\ r \in proof_log
    /\ pc' = [pc EXCEPT ![r] = "logging"]
    /\ log' = [log EXCEPT ![Dir[r]] = IF @ = NoLog THEN LogBy(r, FALSE) ELSE MixedLog]
    /\ CrossLog(r)
    /\ UNCHANGED <<loops, proof_log, ss, loaded, printed, info, status, table, ended>>

\* With it, hip ends or stops at an exception all the same, and then opens the
\* log, what was there is lost, ...
HipOpensLog(r) ==
    /\ pc[r] = "hip" /\ r \in proof_log
    /\ pc' = [pc EXCEPT ![r] = "logging"]
    /\ log' = [log EXCEPT ![Dir[r]] = LogBy(r, FALSE)]
    /\ CrossLog(r)
    /\ UNCHANGED <<loops, proof_log, ss, loaded, printed, info, status, table, ended>>

\* ... and writes what it has checked: over what another hip has written there
\* since, if any.
HipClosesLog(r) ==
    /\ pc[r] = "logging"
    /\ pc' = [pc EXCEPT ![r] = "exited"]
    /\ log' = [log EXCEPT ![Dir[r]] = IF @ = LogBy(r, FALSE) THEN LogBy(r, TRUE) ELSE MixedLog]
    /\ CrossLog(r)
    /\ ended' = ended \cup {r}
    /\ UNCHANGED <<loops, proof_log, ss, loaded, printed, info, status, table>>

\* hip is killed (memory, a signal), or raises an exception while it writes the
\* log: the part that it has written stays.
HipDies(r) ==
    /\ \/ pc[r] = "hip" /\ UNCHANGED <<log, crossed>>
       \/ /\ pc[r] = "logging"
          /\ \/ UNCHANGED log
             \/ /\ log[Dir[r]] # LogBy(r, FALSE)
                /\ log' = [log EXCEPT ![Dir[r]] = MixedLog]
          /\ CrossLog(r)
    /\ pc' = [pc EXCEPT ![r] = "exited"]
    /\ UNCHANGED <<loops, proof_log, ss, loaded, printed, info, status, table, ended>>

\* Mutant: a failed loop is not charged to the function it is in.
NoFailedLoops(r, f) == {}

\* humanize_loop_results: the loops that did not verify, charged to the
\* function of this run's .ss that their line is in.
FailedLoops(r, f) == {l \in Lines : printed[r][l] = "FAIL" /\ Span[r][l] = f}

\* The verdict of f once humanized; UNKNOWN is the lack of one.
Verdict(r, f) ==
    CASE printed[r][f] = None -> "UNKNOWN"
      [] printed[r][f] = "FAIL" -> "FAIL"
      [] printed[r][f] = "SUCCESS" /\ FailedLoops(r, f) # {} -> "ASSUMED"
      [] OTHER -> "SUCCESS"

\* Mutant: proved under assumption counts as proved.
GenerousStatus(v) ==
    CASE v = "UNKNOWN" -> None
      [] v \in {"SUCCESS", "ASSUMED"} -> "True"
      [] OTHER -> "Dont_know"

\* attach_function and status_of_verdict: no verdict, no status.
Status(v) ==
    CASE v = "UNKNOWN" -> None
      [] v = "SUCCESS" -> "True"
      [] OTHER -> "Dont_know"

\* read_sleek_log: whatever log is in the directory.
ReadLog(r) == IF r \in proof_log THEN log[Dir[r]] ELSE NoLog

\* read_sleek_log takes the length of the log and then reads as much: another
\* run that opens the log in between makes it too short, and the exception ends
\* the run before any status is emitted.
ReadFails(r) ==
    /\ pc[r] = "exited" /\ r \in proof_log
    /\ Others(r, {"logging"}) # {}
    /\ pc' = [pc EXCEPT ![r] = "failed"]
    /\ UNCHANGED <<loops, proof_log, ss, log, loaded, printed, info, status, table,
                   crossed, ended>>

\* hip is over: its output is parsed, its log read, the statuses emitted and
\* the table filled.
Report(r) ==
    /\ pc[r] = "exited"
    /\ pc' = [pc EXCEPT ![r] = "done"]
    /\ info' = [info EXCEPT ![r] = ReadLog(r)]
    /\ status' = [status EXCEPT ![r] =
          [f \in Funs |-> IF f \in Annotated THEN Status(Verdict(r, f)) ELSE None]]
    /\ table' = [table EXCEPT ![r] = [f \in Funs |-> Verdict(r, f)]]
    /\ UNCHANGED <<loops, proof_log, ss, log, loaded, printed, crossed, ended>>

Step(r) ==
    \/ OpenSs(r) \/ WriteSs(r)
    \/ NoHip(r) \/ InvokeHip(r)
    \/ HipChecks(r) \/ HipExits(r) \/ HipOpensLog(r) \/ HipClosesLog(r) \/ HipDies(r)
    \/ ReadFails(r) \/ Report(r)

Next == \E r \in Runs : Step(r)

Spec == Init /\ [][Next]_vars

-----------------------------------------------------------------------------
(* Properties                                                               *)

\* The types.
TypeOK ==
    /\ loops \in [Runs -> SUBSET Lines]
    /\ proof_log \subseteq Runs
    /\ pc \in [Runs -> {"idle", "opened", "written", "hip", "logging", "exited",
                       "failed", "done"}]
    /\ ss \in [Dirs -> Runs \cup {None, Mixed}]
    /\ log \in [Dirs -> Logs \cup {NoLog}]
    /\ loaded \in [Runs -> Runs \cup {None, Mixed}]
    /\ printed \in [Runs -> [Funs \cup Lines -> Verdicts \cup {None}]]
    /\ info \in [Runs -> Logs \cup {NoLog}]
    /\ status \in [Runs -> [Funs -> {"True", "Dont_know", None}]]
    /\ table \in [Runs -> [Funs ->
                    {"SUCCESS", "ASSUMED", "FAIL", "UNKNOWN", None}]]
    /\ crossed \subseteq Runs \X {"ss", "log"}
    /\ ended \subseteq Runs

\* The verdicts of a run are about the program it has generated, unless another
\* run opened or wrote the .ss between this run's opening it and hip's reading
\* it: what hip reads then may be the other's program.
VerdictsAreOwn ==
    \A r \in Runs, f \in Funs :
       status[r][f] # None => loaded[r] = r \/ <<r, "ss">> \in crossed

\* A function is valid only if hip proved it, and every loop it rests on in
\* the program that this run generated, wherever hip stopped (the comment of
\* verdict).  If another run crossed this one the loops may be others.
NothingAssumed ==
    \A r \in Runs, f \in Funs :
       status[r][f] = "True" =>
          /\ printed[r][f] = "SUCCESS"
          /\ <<r, "ss">> \notin crossed =>
                \A l \in LoopsOf(r, f) : printed[r][l] = "SUCCESS"

\* The panel and the properties tell the same: they are computed by two
\* copies of the same case analysis.
PanelAgrees ==
    \A r \in Runs : pc[r] = "done" =>
       \A f \in Annotated :
          /\ table[r][f] = "SUCCESS" <=> status[r][f] = "True"
          /\ table[r][f] = "UNKNOWN" <=> status[r][f] = None

\* The obligations shown are those of this run, all of them, if its hip came to
\* its end and no other run opened or wrote the log until it was read.  If hip
\* died they may be half of them, or those of an earlier run of the directory:
\* nothing in the log says whose it is or that it is complete.
LogsAreOwn ==
    \A r \in Runs : pc[r] = "done" =>
       /\ r \notin proof_log => info[r] = NoLog
       /\ r \in proof_log /\ r \in ended /\ <<r, "log">> \notin crossed =>
             info[r] = LogBy(r, TRUE)
       /\ info[r].by \in Runs => info[r].by \in proof_log /\ Dir[info[r].by] = Dir[r]
=============================================================================
