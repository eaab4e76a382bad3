-------------------------- MODULE HipsleekRunProofs --------------------------
(****************************************************************************)
(* For any number of runs, functions and loops, and any number of runs in   *)
(* progress in one directory: unless another run wrote its files meanwhile, *)
(* the verdicts and the log of a run are about the program it generated,    *)
(* and a function found valid rests on nothing that failed.                 *)
(****************************************************************************)
EXTENDS HipsleekRun, TLAPS

\* The file holds the .ss of a run from its writing it to hip's reading it,
\* unless another run has been there.
OwnFile(r) ==
    /\ pc[r] = "opened" => ss[Dir[r]] = None
    /\ pc[r] = "written" => ss[Dir[r]] = r
    /\ loaded[r] \in {r, None}

FileInv == \A r \in Runs : <<r, "ss">> \notin crossed => OwnFile(r)

\* What hip has printed is about the program it has read, callees first.
NotStarted(r) ==
    pc[r] \in {"idle", "opened", "written"} =>
       \A p \in Funs \cup Lines : printed[r][p] = None

HasProgram(r) ==
    \A p \in Funs \cup Lines : printed[r][p] # None => loaded[r] # None

CalleesFirst(r) ==
    \A f \in Funs, l \in Lines :
       /\ loaded[r] \in Runs /\ printed[r][f] # None
       /\ l \in loops[loaded[r]] /\ Span[loaded[r]][l] = f
       => printed[r][l] # None

HipInv == \A r \in Runs : NotStarted(r) /\ HasProgram(r) /\ CalleesFirst(r)

\* What a run has reported follows from what hip printed.
Reported(r, f) ==
    /\ pc[r] # "done" => status[r][f] = None
    /\ pc[r] = "done" =>
          /\ table[r][f] = Verdict(r, f)
          /\ status[r][f] =
                IF f \in Annotated THEN Status(Verdict(r, f)) ELSE None

ReportInv == \A r \in Runs, f \in Funs : Reported(r, f)

RunInv == TypeOK /\ FileInv /\ HipInv /\ ReportInv

LEMMA VerdictType ==
    ASSUME NEW r, NEW f
    PROVE  /\ Verdict(r, f) \in {"SUCCESS", "ASSUMED", "FAIL", "UNKNOWN"}
           /\ Status(Verdict(r, f)) \in {"True", "Dont_know", None}
           /\ Status(Verdict(r, f)) = "True" <=> Verdict(r, f) = "SUCCESS"
           /\ Status(Verdict(r, f)) = None <=> Verdict(r, f) = "UNKNOWN"
BY DEF Verdict, Status, None

LEMMA TypeInit == Init => TypeOK
BY RunAssumption DEF Init, TypeOK, None, Verdicts

LEMMA TypeNext == TypeOK /\ [Next]_vars => TypeOK'
<1> SUFFICES ASSUME TypeOK, [Next]_vars PROVE TypeOK'
  OBVIOUS
<1> USE RunAssumption DEF TypeOK
<1>1. ASSUME NEW r \in Runs, Step(r) PROVE TypeOK'
  <2>1. CASE OpenSs(r)
    BY <2>1 DEF OpenSs, CrossSs, Others
  <2>2. CASE WriteSs(r)
    <3>1. PICK c \in {r, Mixed} : ss' = [ss EXCEPT ![Dir[r]] = c]
      BY <2>2 DEF WriteSs
    <3>2. ss' \in [Dirs -> Runs \cup {None, Mixed}]
      BY <3>1
    <3> QED BY <2>2, <3>2 DEF WriteSs, CrossSs, Others
  <2>3. CASE NoHip(r)
    BY <2>3 DEF NoHip
  <2>4. CASE InvokeHip(r)
    <3>1. PICK q \in Runs \cup {None, Mixed} : loaded' = [loaded EXCEPT ![r] = q]
      BY <2>4 DEF InvokeHip
    <3>2. loaded' \in [Runs -> Runs \cup {None, Mixed}]
      BY <3>1
    <3>3. crossed' = crossed \/ crossed' = crossed \cup {<<r, "ss">>}
      BY <2>4 DEF InvokeHip
    <3>4. crossed' \subseteq Runs \X {"ss", "log"}
      BY <3>3
    <3> QED BY <2>4, <3>2, <3>4 DEF InvokeHip
  <2>5. CASE HipChecks(r)
    <3>1. PICK p \in Procs(loaded[r]), v \in Verdicts :
             printed' = [printed EXCEPT ![r][p] = v]
      BY <2>5 DEF HipChecks
    <3>2. printed' \in [Runs -> [Funs \cup Lines -> Verdicts \cup {None}]]
      BY <3>1
    <3> QED BY <2>5, <3>2 DEF HipChecks
  <2>a. \A whole \in BOOLEAN : LogBy(r, whole) \in Logs
    BY DEF LogBy, Logs
  <2>b. MixedLog \in Logs
    BY DEF MixedLog, Logs
  <2>c. CrossLog(r) => crossed' \subseteq Runs \X {"ss", "log"}
    BY DEF CrossLog, Others
  <2>6. CASE HipExits(r)
    BY <2>6 DEF HipExits
  <2>7. CASE HipDies(r)
    <3>1. log' = log \/ log' = [log EXCEPT ![Dir[r]] = MixedLog]
      BY <2>7 DEF HipDies
    <3>2. log' \in [Dirs -> Logs \cup {NoLog}]
      BY <2>b, <3>1
    <3>3. crossed' \subseteq Runs \X {"ss", "log"}
      BY <2>7, <2>c DEF HipDies
    <3> QED BY <2>7, <3>2, <3>3 DEF HipDies
  <2>9. CASE HipOpensLog(r)
    <3>1. log' \in [Dirs -> Logs \cup {NoLog}]
      BY <2>9, <2>a DEF HipOpensLog
    <3> QED BY <2>9, <3>1, <2>c DEF HipOpensLog
  <2>10. CASE HipClosesLog(r)
    <3>1. log' \in [Dirs -> Logs \cup {NoLog}]
      BY <2>10, <2>a, <2>b DEF HipClosesLog
    <3> QED BY <2>10, <3>1, <2>c DEF HipClosesLog
  <2>11. CASE ReadFails(r)
    BY <2>11 DEF ReadFails
  <2>8. CASE Report(r)
    <3>1. info' \in [Runs -> Logs \cup {NoLog}]
      BY <2>8 DEF Report, ReadLog
    <3>2. status' \in [Runs -> [Funs -> {"True", "Dont_know", None}]]
      <4>1. [f \in Funs |-> IF f \in Annotated THEN Status(Verdict(r, f)) ELSE None]
               \in [Funs -> {"True", "Dont_know", None}]
        BY VerdictType
      <4> QED BY <2>8, <4>1 DEF Report
    <3>3. table' \in [Runs -> [Funs ->
                        {"SUCCESS", "ASSUMED", "FAIL", "UNKNOWN", None}]]
      <4>1. [f \in Funs |-> Verdict(r, f)]
               \in [Funs -> {"SUCCESS", "ASSUMED", "FAIL", "UNKNOWN", None}]
        BY VerdictType
      <4> QED BY <2>8, <4>1 DEF Report
    <3> QED BY <2>8, <3>1, <3>2, <3>3 DEF Report
  <2> QED BY <1>1, <2>1, <2>2, <2>3, <2>4, <2>5, <2>6, <2>7, <2>8, <2>9, <2>10, <2>11 DEF Step
<1>2. CASE UNCHANGED vars
  BY <1>2 DEF vars
<1> QED BY <1>1, <1>2 DEF Next

LEMMA RunInit == Init => FileInv /\ HipInv /\ ReportInv
<1> SUFFICES ASSUME Init PROVE FileInv /\ HipInv /\ ReportInv
  OBVIOUS
<1>1. FileInv
  BY DEF Init, FileInv, OwnFile
<1>2. HipInv /\ ReportInv
  BY DEF Init, HipInv, NotStarted, HasProgram, CalleesFirst, ReportInv, Reported
<1> QED BY <1>1, <1>2

\* Another run that touches the .ss is seen by the runs that rely on it.
LEMMA FileNext ==
    ASSUME TypeOK, FileInv, [Next]_vars PROVE FileInv'
<1> USE RunAssumption DEF TypeOK
<1>1. ASSUME NEW r \in Runs, Step(r), NEW q \in Runs, <<q, "ss">> \notin crossed'
      PROVE  OwnFile(q)'
  <2>1. CASE OpenSs(r) \/ WriteSs(r)
    <3>1. CrossSs(r) /\ loaded' = loaded /\ \A p \in Runs \ {r} : pc'[p] = pc[p]
      BY <2>1 DEF OpenSs, WriteSs
    <3>2. <<q, "ss">> \notin crossed /\ OwnFile(q) /\ q \notin Others(r, {"opened", "written"})
      BY <1>1, <3>1 DEF CrossSs, FileInv
    <3>3. CASE q = r
      BY <2>1, <3>1, <3>2, <3>3 DEF OpenSs, WriteSs, OwnFile
    <3>4. CASE q # r
      <4>1. Dir[q] # Dir[r] \/ pc[q] \notin {"opened", "written"}
        BY <3>2, <3>4 DEF Others
      <4>2. Dir[q] # Dir[r] => ss'[Dir[q]] = ss[Dir[q]]
        BY <2>1 DEF OpenSs, WriteSs
      <4> QED BY <3>1, <3>2, <3>4, <4>1, <4>2 DEF OwnFile
    <3> QED BY <3>3, <3>4
  <2>2. CASE InvokeHip(r)
    <3>1. <<q, "ss">> \notin crossed /\ OwnFile(q)
      BY <1>1, <2>2 DEF InvokeHip, FileInv
    <3>2. q = r => loaded'[q] = ss[Dir[r]]
      BY <1>1, <2>2 DEF InvokeHip
    <3> QED BY <2>2, <3>1, <3>2 DEF InvokeHip, OwnFile
  <2>3. CASE \/ NoHip(r) \/ HipChecks(r) \/ HipExits(r) \/ HipOpensLog(r)
             \/ HipClosesLog(r) \/ HipDies(r) \/ ReadFails(r) \/ Report(r)
    <3>1. /\ ss' = ss /\ loaded' = loaded
          /\ pc'[q] \in {"opened", "written"} => pc'[q] = pc[q]
      BY <2>3 DEF NoHip, HipChecks, HipExits, HipOpensLog, HipClosesLog, HipDies,
                  ReadFails, Report
    <3>2. crossed \subseteq crossed'
      BY <2>3 DEF NoHip, HipChecks, HipExits, HipOpensLog, HipClosesLog, HipDies,
                  ReadFails, Report, CrossLog
    <3> QED BY <1>1, <3>1, <3>2 DEF FileInv, OwnFile
  <2> QED BY <1>1, <2>1, <2>2, <2>3 DEF Step
<1>2. CASE UNCHANGED vars
  BY <1>2 DEF vars, FileInv, OwnFile
<1> QED BY <1>1, <1>2 DEF Next, FileInv

LEMMA HipNext == ASSUME TypeOK, HipInv, [Next]_vars PROVE HipInv'
<1>1. ASSUME NEW r \in Runs, Step(r), NEW q \in Runs
      PROVE  NotStarted(q)' /\ HasProgram(q)' /\ CalleesFirst(q)'
  <2> USE DEF NotStarted, HasProgram, CalleesFirst
  <2>1. NotStarted(q) /\ HasProgram(q) /\ CalleesFirst(q)
    BY DEF HipInv
  <2>2. CASE HipChecks(r)
    <3>1. PICK p \in Procs(loaded[r]), v \in Verdicts :
             /\ p \in Funs => \A l \in LoopsOf(loaded[r], p) : printed[r][l] # None
             /\ printed' = [printed EXCEPT ![r][p] = v]
      BY <2>2 DEF HipChecks
    <3>2. loaded[r] # None /\ v # None /\ p \in Funs \cup Lines
      BY RunAssumption DEF Procs, Verdicts, None, Mixed, TypeOK
    <3>3. /\ pc' = pc /\ loops' = loops /\ loaded' = loaded
          /\ pc[r] = "hip"
      BY <2>2 DEF HipChecks
    <3>4. CASE q # r
      <4>1. printed'[q] = printed[q]
        BY <3>1, <3>4 DEF TypeOK
      <4> QED BY <2>1, <3>3, <4>1
    <3>5. CASE q = r
      <4>1. /\ printed'[r][p] = v
            /\ \A o \in (Funs \cup Lines) \ {p} : printed'[r][o] = printed[r][o]
        BY <3>1, <3>2 DEF TypeOK
      <4>2. NotStarted(r)' /\ HasProgram(r)'
        BY <3>2, <3>3
      <4>3. ASSUME NEW f \in Funs, NEW l \in Lines, printed'[r][f] # None,
                   loaded[r] \in Runs, l \in loops[loaded[r]], Span[loaded[r]][l] = f
            PROVE  printed'[r][l] # None
        <5>1. CASE f = p
          <6>1. printed[r][l] # None
            BY <3>1, <4>3, <5>1 DEF LoopsOf
          <6> QED BY <3>2, <4>1, <6>1
        <5>2. CASE f # p
          BY <2>1, <3>2, <3>5, <4>1, <4>3, <5>2
        <5> QED BY <5>1, <5>2
      <4>4. CalleesFirst(r)'
        BY <3>3, <4>3
      <4> QED BY <3>5, <4>2, <4>4
    <3> QED BY <3>4, <3>5
  <2>3. CASE InvokeHip(r)
    <3>1. printed' = printed /\ loops' = loops
      BY <2>3 DEF InvokeHip
    <3>2. CASE q = r
      <4>1. \A p \in Funs \cup Lines : printed[r][p] = None
        BY <2>1, <2>3, <3>2 DEF InvokeHip
      <4> QED BY <3>1, <3>2, <4>1
    <3>3. CASE q # r
      <4>1. pc'[q] = pc[q] /\ loaded'[q] = loaded[q]
        BY <2>3, <3>3 DEF InvokeHip, TypeOK
      <4> QED BY <2>1, <3>1, <4>1
    <3> QED BY <3>2, <3>3
  <2>4. CASE \/ OpenSs(r) \/ WriteSs(r) \/ NoHip(r) \/ HipExits(r) \/ HipOpensLog(r)
             \/ HipClosesLog(r) \/ HipDies(r) \/ ReadFails(r) \/ Report(r)
    <3>1. /\ printed' = printed /\ loaded' = loaded /\ loops' = loops
          /\ pc'[q] \in {"idle", "opened", "written"} =>
                pc[q] \in {"idle", "opened", "written"}
      BY <2>4 DEF OpenSs, WriteSs, NoHip, HipExits, HipOpensLog, HipClosesLog, HipDies,
                  ReadFails, Report, TypeOK
    <3> QED BY <2>1, <3>1
  <2> QED BY <1>1, <2>2, <2>3, <2>4 DEF Step
<1>2. CASE UNCHANGED vars
  BY <1>2 DEF vars, HipInv, NotStarted, HasProgram, CalleesFirst
<1> QED BY <1>1, <1>2 DEF Next, HipInv

LEMMA ReportNext == ASSUME TypeOK, ReportInv, [Next]_vars PROVE ReportInv'
<1> USE RunAssumption DEF TypeOK
<1>1. ASSUME NEW r \in Runs, Step(r) PROVE ReportInv'
  <2>1. CASE Report(r)
    <3>1. ASSUME NEW q \in Runs, NEW f \in Funs PROVE Reported(q, f)'
      <4>1. Verdict(q, f)' = Verdict(q, f)
        BY <2>1 DEF Report, Verdict, FailedLoops
      <4>2. CASE q = r
        <5>1. /\ table'[r][f] = Verdict(r, f)
              /\ status'[r][f] =
                    IF f \in Annotated THEN Status(Verdict(r, f)) ELSE None
              /\ pc'[r] = "done"
          BY <2>1 DEF Report
        <5> QED BY <4>1, <4>2, <5>1 DEF Reported
      <4>3. CASE q # r
        <5>1. pc'[q] = pc[q] /\ table'[q] = table[q] /\ status'[q] = status[q]
          BY <2>1, <4>3 DEF Report
        <5> QED BY <4>1, <5>1 DEF ReportInv, Reported
      <4> QED BY <4>2, <4>3
    <3> QED BY <3>1 DEF ReportInv
  <2>2. CASE HipChecks(r)
    <3>1. /\ pc' = pc /\ table' = table /\ status' = status /\ pc[r] # "done"
          /\ \A q \in Runs \ {r} : printed'[q] = printed[q]
      BY <2>2 DEF HipChecks
    <3>2. ASSUME NEW q \in Runs, NEW f \in Funs PROVE Reported(q, f)'
      <4>1. CASE q = r
        BY <3>1, <4>1 DEF ReportInv, Reported
      <4>2. CASE q # r
        <5>1. Verdict(q, f)' = Verdict(q, f)
          BY <3>1, <4>2 DEF Verdict, FailedLoops
        <5> QED BY <3>1, <5>1 DEF ReportInv, Reported
      <4> QED BY <4>1, <4>2
    <3> QED BY <3>2 DEF ReportInv
  <2>3. CASE \/ OpenSs(r) \/ WriteSs(r) \/ NoHip(r) \/ InvokeHip(r) \/ HipExits(r)
             \/ HipOpensLog(r) \/ HipClosesLog(r) \/ HipDies(r) \/ ReadFails(r)
    <3>1. /\ printed' = printed /\ table' = table /\ status' = status
          /\ \A q \in Runs : pc'[q] = "done" <=> pc[q] = "done"
      BY <2>3 DEF OpenSs, WriteSs, NoHip, InvokeHip, HipExits, HipOpensLog, HipClosesLog,
                  HipDies, ReadFails
    <3>2. ASSUME NEW q \in Runs, NEW f \in Funs PROVE Reported(q, f)'
      <4>1. Verdict(q, f)' = Verdict(q, f)
        BY <3>1 DEF Verdict, FailedLoops
      <4> QED BY <3>1, <4>1 DEF ReportInv, Reported
    <3> QED BY <3>2 DEF ReportInv
  <2> QED BY <1>1, <2>1, <2>2, <2>3 DEF Step
<1>2. CASE UNCHANGED vars
  <2>1. ASSUME NEW q \in Runs, NEW f \in Funs PROVE Reported(q, f)'
    <3>1. Verdict(q, f)' = Verdict(q, f)
      BY <1>2 DEF vars, Verdict, FailedLoops
    <3> QED BY <1>2, <3>1 DEF vars, ReportInv, Reported
  <2> QED BY <2>1 DEF ReportInv
<1> QED BY <1>1, <1>2 DEF Next

LEMMA RunAlways == Spec => []RunInv
<1>1. Init => RunInv
  BY TypeInit, RunInit DEF RunInv
<1>2. RunInv /\ [Next]_vars => RunInv'
  BY TypeNext, FileNext, HipNext, ReportNext DEF RunInv
<1> QED BY <1>1, <1>2, PTL DEF Spec

LEMMA VerdictHasProgram ==
    ASSUME RunInv, NEW r \in Runs, NEW f \in Funs, status[r][f] # None
    PROVE  /\ pc[r] = "done" /\ f \in Annotated
           /\ status[r][f] = Status(Verdict(r, f))
           /\ printed[r][f] # None
           /\ <<r, "ss">> \notin crossed => loaded[r] = r
<1>1. pc[r] = "done" /\ f \in Annotated /\ status[r][f] = Status(Verdict(r, f))
  BY DEF RunInv, ReportInv, Reported
<1>2. printed[r][f] # None
  BY <1>1 DEF Verdict, Status, None
<1> QED BY <1>1, <1>2 DEF RunInv, HipInv, HasProgram, FileInv, OwnFile

\* The status of a function (attach_function) comes from a check of the
\* program that the same run wrote (run), if no other run opened or wrote that
\* file between the run's opening it and hip's reading it.
THEOREM OwnVerdicts == Spec => []VerdictsAreOwn
<1>1. RunInv => VerdictsAreOwn
  BY VerdictHasProgram DEF VerdictsAreOwn
<1> QED BY <1>1, RunAlways, PTL

\* Status True (status_of_verdict) means that hip proved the function and, if
\* no other run got between, every loop it rests on, even if hip stopped
\* half-way.
THEOREM NothingIsAssumed == Spec => []NothingAssumed
<1>1. ASSUME RunInv PROVE NothingAssumed
  <2> SUFFICES ASSUME NEW r \in Runs, NEW f \in Funs, status[r][f] = "True"
               PROVE  /\ printed[r][f] = "SUCCESS"
                      /\ <<r, "ss">> \notin crossed =>
                            \A l \in LoopsOf(r, f) : printed[r][l] = "SUCCESS"
    BY DEF NothingAssumed
  <2>1. <<r, "ss">> \notin crossed => loaded[r] = r
    BY <1>1, VerdictHasProgram DEF None
  <2>a. status[r][f] # None
    BY DEF None
  <2>b. status[r][f] = Status(Verdict(r, f)) /\ printed[r][f] # None
    BY <1>1, <2>a, VerdictHasProgram
  <2>2. Verdict(r, f) = "SUCCESS" /\ printed[r][f] # None
    BY <2>b, VerdictType
  <2>3. printed[r][f] = "SUCCESS" /\ FailedLoops(r, f) = {}
    BY <1>1, <2>2 DEF Verdict, RunInv, TypeOK, Verdicts
  <2>4. ASSUME <<r, "ss">> \notin crossed, NEW l \in LoopsOf(r, f)
        PROVE  printed[r][l] = "SUCCESS"
    <3>1. l \in loops[r] /\ l \in Lines /\ Span[r][l] = f
      BY <1>1, <2>4 DEF LoopsOf, RunInv, TypeOK
    <3>2. printed[r][l] # None /\ printed[r][l] # "FAIL"
      BY <1>1, <2>1, <2>2, <2>3, <2>4, <3>1 DEF RunInv, HipInv, CalleesFirst, FailedLoops
    <3> QED BY <1>1, <3>1, <3>2 DEF RunInv, TypeOK, Verdicts
  <2> QED BY <2>3, <2>4
<1> QED BY <1>1, RunAlways, PTL

\* Two copies of verdict_of (hipsleek_acsl.ml, hipsleek_register.ml) agree, in
\* any use of the directories.
THEOREM PanelAndStatus == Spec => []PanelAgrees
<1>1. Init => TypeOK /\ ReportInv
  BY TypeInit, RunInit
<1>2. (TypeOK /\ ReportInv) /\ [Next]_vars => (TypeOK /\ ReportInv)'
  BY TypeNext, ReportNext
<1>3. TypeOK /\ ReportInv => PanelAgrees
  BY VerdictType, RunAssumption DEF TypeOK, ReportInv, Reported, PanelAgrees
<1> QED BY <1>1, <1>2, <1>3, PTL DEF Spec

-----------------------------------------------------------------------------
\* The log holds what hip writes from its opening it to the run's reading it,
\* unless another run has been there.
OwnLog(r) ==
    /\ pc[r] = "logging" => r \in proof_log /\ log[Dir[r]] = LogBy(r, FALSE)
    /\ pc[r] = "exited" /\ r \in ended /\ r \in proof_log => log[Dir[r]] = LogBy(r, TRUE)
    /\ pc[r] = "done" /\ r \in ended /\ r \in proof_log => info[r] = LogBy(r, TRUE)

\* A log with an author is in the directory of its author.
InPlace(lg, d) == lg.by \in Runs => lg.by \in proof_log /\ Dir[lg.by] = d

LogInv ==
    /\ \A r \in Runs : <<r, "log">> \notin crossed => OwnLog(r)
    /\ \A r \in Runs : r \in ended => pc[r] \in {"exited", "failed", "done"}
    /\ \A r \in Runs : pc[r] = "logging" => r \in proof_log
    /\ \A d \in Dirs : InPlace(log[d], d)
    /\ \A r \in Runs : InPlace(info[r], Dir[r])
    /\ \A r \in Runs : r \notin proof_log => info[r] = NoLog

\* Another run that touches the log is seen by the runs that rely on it.
LEMMA LogTouched ==
    ASSUME TypeOK, LogInv, NEW r \in Runs, CrossLog(r), NEW q \in Runs \ {r},
           NEW lg, log' = [log EXCEPT ![Dir[r]] = lg] \/ log' = log,
           pc'[q] = pc[q], UNCHANGED <<loaded, info, proof_log>>,
           q \in ended' <=> q \in ended,
           <<q, "log">> \notin crossed'
    PROVE  OwnLog(q)'
<1> USE RunAssumption DEF TypeOK
<1>1. <<q, "log">> \notin crossed /\ q \notin Others(r, {"logging", "exited"})
  BY DEF CrossLog
<1>2. OwnLog(q)
  BY <1>1 DEF LogInv
<1>3. Dir[q] # Dir[r] \/ pc[q] \notin {"logging", "exited"}
  BY <1>1 DEF Others
<1>4. Dir[q] # Dir[r] => log'[Dir[q]] = log[Dir[q]]
  OBVIOUS
<1>5. \A whole : LogBy(q, whole)' = LogBy(q, whole)
  BY DEF LogBy
<1> QED BY <1>2, <1>3, <1>4, <1>5 DEF OwnLog

LEMMA LogNext ==
    ASSUME TypeOK, LogInv, [Next]_vars PROVE LogInv'
<1> USE RunAssumption DEF TypeOK
<1>1. ASSUME NEW r \in Runs, Step(r) PROVE LogInv'
  <2>a. \A whole : LogBy(r, whole).by = r
    BY DEF LogBy
  <2>b. MixedLog.by \notin Runs /\ NoLog.by \notin Runs
    BY DEF MixedLog, NoLog, Mixed, None
  <2>1. CASE HipOpensLog(r) \/ HipClosesLog(r)
    <3>. DEFINE lg == IF HipOpensLog(r) THEN LogBy(r, FALSE)
                      ELSE IF log[Dir[r]] = LogBy(r, FALSE) THEN LogBy(r, TRUE) ELSE MixedLog
    <3>1. /\ CrossLog(r) /\ log' = [log EXCEPT ![Dir[r]] = lg]
          /\ UNCHANGED <<loaded, info, proof_log>>
          /\ \A q \in Runs \ {r} : pc'[q] = pc[q] /\ (q \in ended' <=> q \in ended)
          /\ r \in proof_log
          /\ pc'[r] = IF HipOpensLog(r) THEN "logging" ELSE "exited"
          /\ ended' = IF HipOpensLog(r) THEN ended ELSE ended \cup {r}
          /\ pc[r] \in {"hip", "logging"}
      BY <2>1 DEF HipOpensLog, HipClosesLog, LogInv
    <3>2. \A whole : LogBy(r, whole)' = LogBy(r, whole)
      BY <3>1 DEF LogBy
    <3>a. InPlace(lg, Dir[r])
      BY <2>a, <2>b, <3>1 DEF InPlace
    <3>3. log'[Dir[r]] = lg /\ Dir[r] \in Dirs
      BY <3>1
    <3>4. ASSUME <<r, "log">> \notin crossed' PROVE OwnLog(r)'
      <4>1. <<r, "log">> \notin crossed
        BY <3>1, <3>4 DEF CrossLog
      <4>2. CASE HipOpensLog(r)
        BY <3>1, <3>2, <3>3, <4>2 DEF OwnLog
      <4>3. CASE ~HipOpensLog(r)
        <5>1. log[Dir[r]] = LogBy(r, FALSE)
          BY <2>1, <4>1, <4>3 DEF LogInv, OwnLog, HipClosesLog
        <5> QED BY <3>1, <3>2, <3>3, <4>3, <5>1 DEF OwnLog
      <4> QED BY <4>2, <4>3
    <3>. HIDE DEF lg
    <3>5. \A q \in Runs \ {r} : <<q, "log">> \notin crossed' => OwnLog(q)'
      BY <3>1, LogTouched
    <3>6. \A d \in Dirs : InPlace(log[d], d)'
      <4>1. \A d \in Dirs \ {Dir[r]} : log'[d] = log[d]
        BY <3>1
      <4> QED BY <3>1, <3>a, <3>3, <4>1 DEF LogInv, InPlace
    <3>7. \A q \in Runs : q \in ended' => pc'[q] \in {"exited", "failed", "done"}
      BY <3>1 DEF LogInv
    <3>8. \A q \in Runs : InPlace(info[q], Dir[q])'
      BY <3>1 DEF LogInv, InPlace
    <3>9. \A q \in Runs : pc'[q] = "logging" => q \in proof_log'
      BY <3>1 DEF LogInv
    <3> QED BY <3>1, <3>4, <3>5, <3>6, <3>7, <3>8, <3>9 DEF LogInv
  <2>2. CASE HipDies(r)
    <3>1. /\ UNCHANGED <<loaded, info, proof_log, ended>>
          /\ \A q \in Runs \ {r} : pc'[q] = pc[q]
          /\ pc'[r] = "exited" /\ pc[r] \in {"hip", "logging"}
          /\ log' = [log EXCEPT ![Dir[r]] = MixedLog] \/ log' = log
          /\ CrossLog(r) \/ UNCHANGED <<log, crossed>>
      BY <2>2 DEF HipDies
    <3>2. r \notin ended'
      BY <3>1 DEF LogInv
    <3>3. \A q \in Runs : <<q, "log">> \notin crossed' => OwnLog(q)'
      <4>1. OwnLog(r)'
        BY <3>1, <3>2 DEF OwnLog
      <4>2. ASSUME NEW q \in Runs \ {r}, <<q, "log">> \notin crossed', UNCHANGED <<log, crossed>>
            PROVE  OwnLog(q)'
        BY <3>1, <4>2 DEF LogInv, OwnLog, LogBy
      <4> QED BY <3>1, <4>1, <4>2, LogTouched
    <3>4. \A d \in Dirs : InPlace(log[d], d)'
      <4>1. \A d \in Dirs : log'[d] = log[d] \/ log'[d] = MixedLog
        BY <3>1
      <4> QED BY <2>b, <3>1, <4>1 DEF LogInv, InPlace
    <3>5. \A q \in Runs : q \in ended' => pc'[q] \in {"exited", "failed", "done"}
      BY <3>1 DEF LogInv
    <3>6. \A q \in Runs : InPlace(info[q], Dir[q])'
      BY <3>1 DEF LogInv, InPlace
    <3>7. \A q \in Runs : pc'[q] = "logging" => q \in proof_log'
      BY <3>1 DEF LogInv
    <3> QED BY <3>1, <3>3, <3>4, <3>5, <3>6, <3>7 DEF LogInv
  <2>3. CASE Report(r)
    <3>1. /\ UNCHANGED <<loaded, log, proof_log, crossed, ended>>
          /\ \A q \in Runs \ {r} : pc'[q] = pc[q] /\ info'[q] = info[q]
          /\ pc[r] = "exited" /\ pc'[r] = "done"
          /\ info'[r] = IF r \in proof_log THEN log[Dir[r]] ELSE NoLog
      BY <2>3 DEF Report, ReadLog
    <3>2. \A q \in Runs : \A whole : LogBy(q, whole)' = LogBy(q, whole)
      BY <3>1 DEF LogBy
    <3>3. ASSUME NEW q \in Runs, <<q, "log">> \notin crossed' PROVE OwnLog(q)'
      <4>1. OwnLog(q)
        BY <3>1, <3>3 DEF LogInv
      <4>2. CASE q = r
        BY <3>1, <3>2, <4>1, <4>2 DEF OwnLog
      <4>3. CASE q # r
        BY <3>1, <3>2, <4>1, <4>3 DEF OwnLog
      <4> QED BY <4>2, <4>3
    <3>4. \A q \in Runs : InPlace(info[q], Dir[q])'
      BY <2>b, <3>1 DEF LogInv, InPlace
    <3>5. \A d \in Dirs : InPlace(log[d], d)'
      BY <3>1 DEF LogInv, InPlace
    <3> QED BY <3>1, <3>3, <3>4, <3>5 DEF LogInv
  <2>4. CASE InvokeHip(r)
    <3>1. /\ UNCHANGED <<log, info, proof_log, ended>>
          /\ \A q \in Runs \ {r} : pc'[q] = pc[q] /\ loaded'[q] = loaded[q]
          /\ pc[r] = "written" /\ pc'[r] = "hip"
          /\ crossed \subseteq crossed'
      BY <2>4 DEF InvokeHip
    <3>2. \A q \in Runs : <<q, "log">> \notin crossed' => OwnLog(q)'
      BY <3>1 DEF LogInv, OwnLog, LogBy
    <3> QED BY <3>1, <3>2 DEF LogInv, InPlace
  <2>5. CASE \/ OpenSs(r) \/ WriteSs(r) \/ NoHip(r) \/ HipChecks(r) \/ HipExits(r) \/ ReadFails(r)
    <3>1. /\ UNCHANGED <<loaded, log, info, proof_log>>
          /\ \A q \in Runs \ {r} : pc'[q] = pc[q]
          /\ pc'[r] \in {"logging", "done"} => pc'[r] = pc[r]
          /\ pc'[r] = pc[r] \/ pc[r] \in {"idle", "opened", "written", "hip", "exited"}
          /\ ended' = ended \/ (ended' = ended \cup {r} /\ pc'[r] = "exited" /\ r \notin proof_log)
      BY <2>5 DEF OpenSs, WriteSs, NoHip, HipChecks, HipExits, ReadFails
    <3>2. crossed \subseteq crossed'
      BY <2>5 DEF OpenSs, WriteSs, NoHip, HipChecks, HipExits, ReadFails, CrossSs
    <3>3. pc'[r] \in {"exited", "failed"} \/ r \notin ended'
      BY <2>5 DEF OpenSs, WriteSs, NoHip, HipChecks, HipExits, ReadFails, LogInv
    <3>4. pc'[r] = "exited" => pc[r] # "exited" /\ (r \in proof_log => r \notin ended')
      BY <2>5 DEF OpenSs, WriteSs, NoHip, HipChecks, HipExits, ReadFails, LogInv
    <3>5. \A q \in Runs : <<q, "log">> \notin crossed' => OwnLog(q)'
      BY <3>1, <3>2, <3>4 DEF LogInv, OwnLog, LogBy
    <3> QED BY <3>1, <3>3, <3>5 DEF LogInv, InPlace
  <2> QED BY <1>1, <2>1, <2>2, <2>3, <2>4, <2>5 DEF Step
<1>2. CASE UNCHANGED vars
  BY <1>2 DEF vars, LogInv, OwnLog, InPlace, LogBy
<1> QED BY <1>1, <1>2 DEF Next

\* The obligations shown by a run with -hipsleek-proof-log (read_sleek_log) are
\* its own and all there if hip came to its end (sleek_log_to_text_file) and no
\* other run opened or wrote the log until it was read.
THEOREM OwnLogs == Spec => []LogsAreOwn
<1>1. Init => TypeOK /\ LogInv
  <2>1. NoLog.by \notin Runs
    BY RunAssumption DEF NoLog, None
  <2>2. ASSUME Init PROVE LogInv
    <3>1. \A d \in Dirs : log[d] = NoLog
      BY <2>2 DEF Init
    <3>2. \A r \in Runs : info[r] = NoLog /\ pc[r] = "idle" /\ r \notin ended
      BY <2>2 DEF Init
    <3> QED BY <2>1, <3>1, <3>2 DEF LogInv, OwnLog, InPlace
  <2> QED BY <2>2, TypeInit
<1>2. (TypeOK /\ LogInv) /\ [Next]_vars => (TypeOK /\ LogInv)'
  BY TypeNext, LogNext
<1>3. TypeOK /\ LogInv => LogsAreOwn
  BY DEF LogInv, OwnLog, InPlace, LogsAreOwn
<1> QED BY <1>1, <1>2, <1>3, PTL DEF Spec

\* Every variable of the plug-in keeps its type, in any use of the directories.
THEOREM TypeCorrect == Spec => []TypeOK
BY TypeInit, TypeNext, PTL DEF Spec
=============================================================================
