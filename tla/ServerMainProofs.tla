---------------------------- MODULE ServerMainProofs ----------------------------
(***************************************************************************)
(* Proofs about ServerMain, for every set of requests, jobs and signals    *)
(* and every interleaving of the client with the code that runs: the type  *)
(* invariant, each safety invariant that the runs check, and that every    *)
(* step is one in the life of the requests (RequestLife).                  *)
(***************************************************************************)
EXTENDS ServerMain, FiniteSetTheorems, TLAPS

-------------------------------------------------------------------------------
(* The kinds of requests, and sequences.                                   *)

LEMMA Kinds ==
  /\ Sets \cap Execs = {} /\ Jobs \cap Ids = {} /\ Signals \cap Ids = {}
  /\ Gets \cap (Sets \cup Execs) = {} /\ Unknown \cap (Sets \cup Execs) = {}
  /\ {Idle, CmdLine, NoOne} \cap (Ids \cup Jobs) = {}
  /\ Idle # CmdLine /\ Idle # NoOne /\ CmdLine # NoOne
<1> DEFINE kinds == <<Gets, Sets, Execs, Unknown, Jobs, Signals, {Idle, CmdLine, NoOne}>>
<1>1. \A i, j \in 1 .. 7 : i # j => kinds[i] \cap kinds[j] = {}
  BY KindsAssumption
<1>2. /\ kinds[1] = Gets /\ kinds[2] = Sets /\ kinds[3] = Execs /\ kinds[4] = Unknown
      /\ kinds[5] = Jobs /\ kinds[6] = Signals /\ kinds[7] = {Idle, CmdLine, NoOne}
  OBVIOUS
<1>3. Idle # CmdLine /\ Idle # NoOne /\ CmdLine # NoOne
  BY KindsAssumption
<1> HIDE DEF kinds
<1>4. /\ Sets \cap Execs = {} /\ Jobs \cap Gets = {} /\ Jobs \cap Sets = {}
      /\ Jobs \cap Execs = {} /\ Jobs \cap Unknown = {} /\ Gets \cap Sets = {}
      /\ Gets \cap Execs = {} /\ Unknown \cap Sets = {} /\ Unknown \cap Execs = {}
  BY <1>1, <1>2
<1>5. /\ Signals \cap Gets = {} /\ Signals \cap Sets = {} /\ Signals \cap Execs = {}
      /\ Signals \cap Unknown = {}
  BY <1>1, <1>2
<1>6. \A i \in 1 .. 5 : {Idle, CmdLine, NoOne} \cap kinds[i] = {}
  BY <1>1, <1>2
<1>. QED
  BY <1>2, <1>3, <1>4, <1>5, <1>6 DEF Ids

LEMMA ToSetAppend ==
  ASSUME NEW S, NEW s \in Seq(S), NEW x
  PROVE  ToSet(Append(s, x)) = ToSet(s) \cup {x}
<1>1. \A i \in 1 .. Len(s) : Append(s, x)[i] = s[i]
  OBVIOUS
<1>2. DOMAIN Append(s, x) = 1 .. Len(s) + 1 /\ Append(s, x)[Len(s) + 1] = x
  OBVIOUS
<1>3. DOMAIN s = 1 .. Len(s) /\ Len(s) \in Nat
  OBVIOUS
<1>4. \A y : y \in ToSet(Append(s, x)) <=> y \in ToSet(s) \cup {x}
  BY <1>1, <1>2, <1>3 DEF ToSet
<1>. QED
  BY <1>4

LEMMA ToSetEmpty == ToSet(<<>>) = {}
  BY DEF ToSet

LEMMA ToSetHead ==
  ASSUME NEW S, NEW s \in Seq(S), s # <<>>
  PROVE  /\ ToSet(s) = ToSet(Tail(s)) \cup {Head(s)}
         /\ Head(s) \in S /\ Tail(s) \in Seq(S)
<1>1. /\ Len(s) \in Nat \ {0} /\ DOMAIN s = 1 .. Len(s)
      /\ DOMAIN Tail(s) = 1 .. Len(s) - 1
      /\ Head(s) = s[1]
  OBVIOUS
<1>2. \A i \in 1 .. Len(s) - 1 : Tail(s)[i] = s[i + 1] /\ i + 1 \in 1 .. Len(s)
  OBVIOUS
<1>3. \A i \in 2 .. Len(s) : s[i] = Tail(s)[i - 1] /\ i - 1 \in 1 .. Len(s) - 1
  BY <1>1, <1>2
<1>4. \A y \in ToSet(s) : y \in ToSet(Tail(s)) \cup {Head(s)}
  <2>. SUFFICES ASSUME NEW i \in 1 .. Len(s) PROVE s[i] \in ToSet(Tail(s)) \cup {Head(s)}
    BY <1>1 DEF ToSet
  <2>1. CASE i = 1
    BY <1>1, <2>1
  <2>2. CASE i # 1
    <3>1. i \in 2 .. Len(s) /\ i - 1 \in DOMAIN Tail(s)
      BY <1>1, <2>2
    <3>2. s[i] = Tail(s)[i - 1]
      BY <1>3, <3>1
    <3>. QED
      BY <3>1, <3>2 DEF ToSet
  <2>. QED
    BY <2>1, <2>2
<1>5. \A y \in ToSet(Tail(s)) : y \in ToSet(s)
  BY <1>1, <1>2 DEF ToSet
<1>6. Head(s) \in ToSet(s)
  BY <1>1 DEF ToSet
<1>7. Head(s) \in S /\ Tail(s) \in Seq(S)
  OBVIOUS
<1>. QED
  BY <1>4, <1>5, <1>6, <1>7

LEMMA ToSetType ==
  ASSUME NEW S, NEW s \in Seq(S)
  PROVE  ToSet(s) \subseteq S
  BY DEF ToSet

LEMMA ResponseType ==
  /\ \A tag \in {"Data", "Error", "Killed", "Rejected"}, id \in Ids :
       Response(tag, id) \in Responses
  /\ \A s \in Signals : Response("Signal", s) \in Responses
  BY DEF Response, Responses

\* What a signal adds to the queue of the responses.
LEMMA SignalOnly ==
  ASSUME NEW s \in Signals, q_out \in Seq(Responses), do_signal(s, <<>>)
  PROVE  IF s \in s_listen \ s_emitted THEN q_out' = Append(q_out, Response("Signal", s))
         ELSE q_out' = q_out
<1>1. Response("Signal", s) \in Responses
  BY ResponseType
<1>. QED
  BY <1>1 DEF do_signal

LEMMA SignalThen ==
  ASSUME NEW s \in Signals, NEW r \in Responses, q_out \in Seq(Responses),
         do_signal(s, <<r>>)
  PROVE  IF s \in s_listen \ s_emitted
         THEN q_out' = Append(Append(q_out, Response("Signal", s)), r)
         ELSE q_out' = Append(q_out, r)
<1>1. Response("Signal", s) \in Responses
  BY ResponseType
<1>2. \A x, y \in Responses : (q_out \o <<x>>) \o <<y>> = Append(Append(q_out, x), y)
  OBVIOUS
<1>3. (q_out \o <<>>) \o <<r>> = Append(q_out, r)
  OBVIOUS
<1>4. CASE s \in s_listen \ s_emitted
  <2>1. q_out' = (q_out \o <<Response("Signal", s)>>) \o <<r>>
    BY <1>4 DEF do_signal
  <2>. QED
    BY <1>1, <1>2, <1>4, <2>1
<1>5. CASE ~ (s \in s_listen \ s_emitted)
  <2>1. q_out' = (q_out \o <<>>) \o <<r>>
    BY <1>5 DEF do_signal
  <2>. QED
    BY <1>3, <1>5, <2>1
<1>. QED
  BY <1>4, <1>5

-------------------------------------------------------------------------------
(* Type correctness.                                                       *)

\* Which code runs: the pending job that was popped, the daemon, or nothing.
ControlInv ==
  /\ pc = "handler" <=> current # NoOne
  /\ comm # "none" =>
       \/ pc \in {"loop", "cmdline"}
       \/ pc = "handler" /\ current \in Execs \cup Jobs

TypeInv == TypeOK /\ ControlInv

LEMMA TypeInit == Init => TypeInv
<1>. SUFFICES ASSUME Init PROVE TypeInv
  OBVIOUS
<1>1. q_in \in Seq(Queueable) /\ q_out \in Seq(Responses)
  BY DEF Init
<1>2. running = Idle /\ current = NoOne /\ pc = "off" /\ comm = "none" /\ NoOne \notin Jobs
  BY Kinds DEF Init
<1>3. breaks \in 0 .. MaxBreaks
  BY BreaksAssumption DEF Init
<1>. QED
  BY <1>1, <1>2, <1>3 DEF Init, TypeInv, TypeOK, ControlInv

LEMMA SignalType ==
  ASSUME TypeOK, NEW s \in Signals,
         do_signal(s, <<>>) \/ \E r \in Responses : do_signal(s, <<r>>)
  PROVE  /\ q_out' \in Seq(Responses)
         /\ s_emitted' \subseteq Signals /\ s_pending' \subseteq Signals
         /\ owed' \subseteq Signals
<1>1. Append(q_out, Response("Signal", s)) \in Seq(Responses)
  BY ResponseType DEF TypeOK
<1>2. q_out' \in Seq(Responses)
  <2>1. CASE do_signal(s, <<>>)
    BY <1>1, <2>1, SignalOnly DEF TypeOK
  <2>2. ASSUME NEW r \in Responses, do_signal(s, <<r>>) PROVE q_out' \in Seq(Responses)
    <3>1. Append(q_out, r) \in Seq(Responses)
      BY DEF TypeOK
    <3>2. Append(Append(q_out, Response("Signal", s)), r) \in Seq(Responses)
      BY <1>1
    <3>. QED
      BY <2>2, <3>1, <3>2, SignalThen DEF TypeOK
  <2>. QED
    BY <2>1, <2>2
<1>3. ASSUME NEW x, do_signal(s, x)
      PROVE  s_emitted' \subseteq Signals /\ s_pending' \subseteq Signals /\ owed' \subseteq Signals
  BY <1>3 DEF do_signal, TypeOK
<1>. QED
  BY <1>2, <1>3

LEMMA ReplyType ==
  ASSUME TypeOK, NEW out \in Seq(Responses), Reply(out)
  PROVE  /\ q_out' \in Seq(Responses) /\ delivered' \subseteq Responses
         /\ owed' \subseteq Signals /\ shown' \in {"none", "on", "off"}
         /\ cmdline' = "none" /\ s_emitted' = {} /\ comm' = "none"
         /\ UNCHANGED <<q_in, s_listen, s_pending, shutdown, killed, received, asked,
                        aborted, breaks>>
  BY ToSetType DEF TypeOK, Reply

LEMMA TypeNext == TypeInv /\ [Next]_vars => TypeInv'
<1>. SUFFICES ASSUME TypeOK, ControlInv, [Next]_vars PROVE TypeInv'
  BY DEF TypeInv
<1>. USE DEF TypeInv, TypeOK, ControlInv
<1>1. CASE start
  BY <1>1, Kinds DEF start, queues, signals, history, Queueable
<1>2. CASE foreground
  BY <1>2, Kinds DEF foreground, queues, signals, history, Queueable
<1>3. CASE stop
  BY <1>3, Kinds DEF stop, queues, signals, history, Queueable
<1>4. CASE Finish
  BY <1>4, Kinds DEF Finish, Over, queues, signals, history, Queueable
<1>5. ASSUME NEW s \in Signals, emit(s) PROVE TypeInv'
  BY <1>5, SignalType DEF emit, control, history
<1>6. CASE Fetch
  BY <1>6 DEF Fetch, Sleeping, Yields, Running, queues, signals, control, history
<1>7. ASSUME NEW id \in Ids, Get(id) PROVE TypeInv'
  <2>1. \A tag \in {"Data", "Error", "Killed"} : Response(tag, id) \in Responses
    BY ResponseType
  <2>2. /\ q_out' \in Seq(Responses) /\ s_emitted' \subseteq Signals
        /\ s_pending' \subseteq Signals /\ owed' \subseteq Signals
    <3>1. PICK tag \in {"Data", "Error", "Killed"} :
            \/ /\ q_out' = Append(q_out, Response(tag, id))
               /\ UNCHANGED <<s_emitted, s_pending, owed>>
            \/ \E s \in Signals : do_signal(s, <<Response(tag, id)>>)
      BY <1>7 DEF Get
    <3>2. CASE q_out' = Append(q_out, Response(tag, id)) /\ UNCHANGED <<s_emitted, s_pending, owed>>
      BY <2>1, <3>2
    <3>3. ASSUME NEW s \in Signals, do_signal(s, <<Response(tag, id)>>) PROVE <2>2
      <4>1. \E r \in Responses : do_signal(s, <<r>>)
        BY <2>1, <3>3
      <4>. QED
        BY <4>1, SignalType
    <3>. QED
      BY <3>1, <3>2, <3>3
  <2>. QED
    BY <1>7, <2>2 DEF Get, Receive, control
<1>8. ASSUME NEW id \in Ids, Enqueue(id) PROVE TypeInv'
  <2>1. q_in' \in Seq(Queueable)
    BY <1>8 DEF Enqueue, Queueable
  <2>. QED
    BY <1>8, <2>1 DEF Enqueue, Receive, signals, control
<1>9. ASSUME NEW id \in Ids, Reject(id) PROVE TypeInv'
  <2>1. q_out' \in Seq(Responses)
    BY <1>9, ResponseType DEF Reject
  <2>. QED
    BY <1>9, <2>1 DEF Reject, Receive, signals, control
<1>10. ASSUME NEW id \in Ids, Kill(id) PROVE TypeInv'
  <2>1. ToSet(q_in) \subseteq Queueable
    BY ToSetType
  <2>2. Victims(id) \subseteq Sets \cup Execs
    BY <2>1, Kinds DEF Victims, Queueable
  <2>. QED
    BY <1>10, <2>2 DEF Kill, queues, signals, control
<1>11. ASSUME NEW s \in Signals, SigOn(s) \/ SigOff(s) PROVE TypeInv'
  <2>1. q_out' \in Seq(Responses)
    BY <1>11, ResponseType DEF SigOn, SigOff, queues
  <2>. QED
    BY <1>11, <2>1 DEF SigOn, SigOff, queues, control, history
<1>12. CASE Shutdown
  <2>1. {running} \cap Ids \subseteq Sets \cup Execs
    BY Kinds DEF Queueable
  <2>2. q_in' \in Seq(Queueable) /\ q_out' \in Seq(Responses)
    BY <1>12 DEF Shutdown
  <2>. QED
    BY <1>12, <2>1, <2>2 DEF Shutdown, signals, control, history
<1>13. CASE GetBreak
  BY <1>13, BreaksAssumption DEF GetBreak, queues, signals, control
<1>14. CASE Callback
  <2>1. <<>> \in Seq(Responses)
    OBVIOUS
  <2>. QED
    BY <1>14, <2>1, ReplyType DEF Callback, control
<1>15. CASE CallbackCancel
  <2>1. <<>> \in Seq(Responses)
    OBVIOUS
  <2>. QED
    BY <1>15, <2>1, ReplyType, Kinds DEF CallbackCancel, control, Done, Queueable
<1>16. CASE CallbackFails
  <2>1. <<>> \in Seq(Responses)
    OBVIOUS
  <2>2. current \in Execs => <<Response("Error", current)>> \in Seq(Responses)
    BY ResponseType DEF Ids
  <2>. QED
    BY <1>16, <2>1, <2>2, ReplyType, Kinds DEF CallbackFails, Done, Over, control, Queueable
<1>17. CASE Drop
  BY <1>17 DEF Drop, InLoop, signals, control, history
<1>18. CASE process
  <2>1. Head(q_in) \in Queueable /\ Tail(q_in) \in Seq(Queueable)
    BY <1>18 DEF process, InLoop
  <2>. QED
    BY <1>18, <2>1, Kinds DEF process, InLoop, signals, history, Queueable, Ids
<1>19. CASE Return
  <2>1. q_out' \in Seq(Responses)
    BY <1>19, ResponseType DEF Return
  <2>. QED
    BY <1>19, <2>1, Kinds DEF Return, Done, signals, history, Queueable
<1>20. CASE YieldKilled
  <2>1. running \in Execs /\ running = current
    BY <1>20, Kinds DEF YieldKilled, Yields, Ids
  <2>2. q_out' \in Seq(Responses)
    BY <1>20, <2>1, ResponseType DEF YieldKilled, Ids
  <2>. QED
    BY <1>20, <2>1, <2>2, Kinds DEF YieldKilled, Done, signals, Queueable
<1>21. CASE JobReturn
  BY <1>21, Kinds DEF JobReturn, Done, queues, signals, history, Queueable
<1>22. CASE Break
  <2>1. breaks' \in 0 .. MaxBreaks
    BY <1>22, BreaksAssumption DEF Break
  <2>. QED
    BY <1>22, <2>1, Kinds DEF Break, Over, queues, signals, Queueable
<1>23. ASSUME NEW j \in Jobs, schedule(j) PROVE TypeInv'
  BY <1>23 DEF schedule, signals, control, history, Queueable
<1>24. ASSUME NEW j \in Jobs, ping(j) PROVE TypeInv'
  BY <1>24 DEF ping, queues, signals, control, history
<1>25. CASE UNCHANGED vars
  BY <1>25 DEF vars, queues, signals, control, history
<1>. QED
  BY <1>1, <1>2, <1>3, <1>4, <1>5, <1>6, <1>7, <1>8, <1>9, <1>10, <1>11, <1>12, <1>13,
     <1>14, <1>15, <1>16, <1>17, <1>18, <1>19, <1>20, <1>21, <1>22, <1>23, <1>24, <1>25
     DEF Next, process_request, Callbacks, HandlerEnds

\* Every reachable state of the server has its type, and server.running is
\* always the code that runs.
THEOREM TypeCorrect == Spec => []TypeOK
<1>1. TypeInv => TypeOK
  BY DEF TypeInv
<1>. QED
  BY TypeInit, TypeNext, <1>1, PTL DEF Spec

-------------------------------------------------------------------------------
(* Signals.                                                                *)

\* s_emitted only holds signals that wait in q_out.
SigInv ==
  /\ NoLostSignal
  /\ ~shutdown => \A s \in s_emitted : Response("Signal", s) \in ToSet(q_out)

LEMMA SigKept ==
  ASSUME SigInv, ToSet(q_out) \subseteq ToSet(q_out'),
         UNCHANGED <<s_emitted, s_pending, owed, shutdown>>
  PROVE  SigInv'
  BY DEF SigInv, NoLostSignal

LEMMA SigAppend ==
  ASSUME TypeOK, SigInv, NEW r, q_out' = Append(q_out, r),
         UNCHANGED <<s_emitted, s_pending, owed, shutdown>>
  PROVE  SigInv'
<1>1. ToSet(q_out') = ToSet(q_out) \cup {r}
  BY ToSetAppend DEF TypeOK
<1>. QED
  BY <1>1, SigKept

LEMMA SigSignal ==
  ASSUME TypeOK, SigInv, NEW s \in Signals, UNCHANGED shutdown,
         do_signal(s, <<>>) \/ \E r \in Responses : do_signal(s, <<r>>)
  PROVE  SigInv'
<1>. DEFINE note == Response("Signal", s)
<1>1. ToSet(q_out) \subseteq ToSet(q_out') /\ (s \in s_listen \ s_emitted => note \in ToSet(q_out'))
  <2>0. q_out \in Seq(Responses) /\ Append(q_out, note) \in Seq(Responses)
    BY ResponseType DEF TypeOK
  <2>1. ToSet(Append(q_out, note)) = ToSet(q_out) \cup {note}
    BY <2>0, ToSetAppend
  <2>2. CASE do_signal(s, <<>>)
    BY <2>0, <2>1, <2>2, SignalOnly
  <2>3. ASSUME NEW r \in Responses, do_signal(s, <<r>>) PROVE <1>1
    <3>1. ToSet(Append(Append(q_out, note), r)) = ToSet(Append(q_out, note)) \cup {r}
      BY <2>0, ToSetAppend
    <3>2. ToSet(Append(q_out, r)) = ToSet(q_out) \cup {r}
      BY <2>0, ToSetAppend
    <3>. QED
      BY <2>0, <2>1, <2>3, <3>1, <3>2, SignalThen
  <2>. QED
    BY <2>2, <2>3
<1>2. /\ s_emitted' = IF s \in s_listen THEN s_emitted \cup {s} ELSE s_emitted
      /\ s_pending' = IF s \in s_listen THEN s_pending ELSE s_pending \cup {s}
      /\ owed' = owed \cup {s}
  BY DEF do_signal
<1>. QED
  BY <1>1, <1>2 DEF SigInv, NoLostSignal

LEMMA SigReply ==
  ASSUME TypeOK, SigInv, NEW out, Reply(out)
  PROVE  SigInv'
  BY DEF Reply, TypeOK, SigInv, NoLostSignal

LEMMA SigNext == TypeOK /\ SigInv /\ [Next]_vars => SigInv'
<1>. SUFFICES ASSUME TypeOK, SigInv, [Next]_vars PROVE SigInv'
  OBVIOUS
<1>1. CASE start \/ foreground \/ stop \/ Finish
  BY <1>1, SigKept DEF start, foreground, stop, Finish, queues, signals
<1>2. ASSUME NEW s \in Signals, emit(s) PROVE SigInv'
  BY <1>2, SigSignal DEF emit
<1>3. CASE Fetch
  BY <1>3, SigKept DEF Fetch, queues, signals
<1>4. ASSUME NEW id \in Ids, Get(id) PROVE SigInv'
  <2>1. PICK tag \in {"Data", "Error", "Killed"} :
          \/ /\ q_out' = Append(q_out, Response(tag, id))
             /\ UNCHANGED <<s_emitted, s_pending, owed>>
          \/ \E s \in Signals : do_signal(s, <<Response(tag, id)>>)
    BY <1>4 DEF Get
  <2>2. Response(tag, id) \in Responses /\ UNCHANGED shutdown
    BY <1>4, ResponseType DEF Get
  <2>3. ASSUME NEW s \in Signals, do_signal(s, <<Response(tag, id)>>) PROVE SigInv'
    <3>1. \E r \in Responses : do_signal(s, <<r>>)
      BY <2>2, <2>3
    <3>. QED
      BY <2>2, <3>1, SigSignal
  <2>. QED
    BY <2>1, <2>2, <2>3, SigAppend
<1>5. ASSUME NEW id \in Ids, Enqueue(id) \/ Kill(id) PROVE SigInv'
  BY <1>5, SigKept DEF Enqueue, Kill, queues, signals
<1>6. ASSUME NEW id \in Ids, Reject(id) PROVE SigInv'
  BY <1>6, SigAppend DEF Reject, signals
<1>7. ASSUME NEW s \in Signals, SigOn(s) PROVE SigInv'
  <2>1. CASE s \in s_pending
    <3>1. q_out' = Append(q_out, Response("Signal", s))
      BY <1>7, <2>1 DEF SigOn
    <3>2. ToSet(q_out') = ToSet(q_out) \cup {Response("Signal", s)}
      BY <3>1, ToSetAppend DEF TypeOK
    <3>. QED
      BY <1>7, <2>1, <3>2 DEF SigOn, SigInv, NoLostSignal
  <2>2. CASE s \notin s_pending
    BY <1>7, <2>2, SigKept DEF SigOn
  <2>. QED
    BY <2>1, <2>2
<1>8. ASSUME NEW s \in Signals, SigOff(s) PROVE SigInv'
  BY <1>8, SigKept DEF SigOff, queues
<1>9. CASE Shutdown
  BY <1>9 DEF Shutdown, SigInv, NoLostSignal
<1>10. CASE GetBreak \/ Drop \/ process \/ JobReturn \/ Break
  BY <1>10, SigKept DEF GetBreak, Drop, process, JobReturn, Break, queues, signals
<1>11. CASE Callbacks
  BY <1>11, SigReply DEF Callbacks, Callback, CallbackCancel, CallbackFails
<1>12. CASE Return \/ YieldKilled
  BY <1>12, SigAppend DEF Return, YieldKilled, signals
<1>13. ASSUME NEW j \in Jobs, schedule(j) \/ ping(j) PROVE SigInv'
  BY <1>13, SigKept DEF schedule, ping, queues, signals
<1>14. CASE UNCHANGED vars
  BY <1>14, SigKept DEF vars, queues, signals
<1>. QED
  BY <1>1, <1>2, <1>3, <1>4, <1>5, <1>6, <1>7, <1>8, <1>9, <1>10, <1>11, <1>12, <1>13,
     <1>14 DEF Next, process_request, HandlerEnds

\* do_signal and SigOn never lose an emission: s_emitted only filters a signal
\* that is already in q_out.
THEOREM SignalsKept == Spec => []NoLostSignal
<1>1. Init => SigInv
  BY DEF Init, SigInv, NoLostSignal
<1>2. SigInv => NoLostSignal
  BY DEF SigInv
<1>. QED
  BY TypeCorrect, SigNext, <1>1, <1>2, PTL DEF Spec

-------------------------------------------------------------------------------
(* The command line signal.                                                *)

\* A signal that waits in server.cmdline says what the server does now.
CmdInv ==
  /\ CmdLineTold
  /\ pc = "cmdline" => cmdline \in {"none", "on"}
  /\ pc \in {"loop", "handler"} => cmdline \in {"none", "off"}

LEMMA CmdKept ==
  ASSUME CmdInv, UNCHANGED <<cmdline, shown>>,
         \/ pc' = pc
         \/ pc' = "over"
         \/ pc \in {"loop", "handler"} /\ pc' \in {"loop", "handler"}
  PROVE  CmdInv'
  BY DEF CmdInv, CmdLineTold

LEMMA CmdReply ==
  ASSUME TypeOK, CmdInv, NEW out, Reply(out),
         \/ pc' = pc
         \/ pc' = "over"
         \/ pc \in {"loop", "handler"} /\ pc' \in {"loop", "handler"}
  PROVE  CmdInv'
  BY DEF TypeOK, CmdInv, CmdLineTold, Reply

LEMMA CmdNext == TypeOK /\ CmdInv /\ [Next]_vars => CmdInv'
<1>. SUFFICES ASSUME TypeOK, CmdInv, [Next]_vars PROVE CmdInv'
  OBVIOUS
<1>1. CASE start \/ foreground \/ stop
  BY <1>1 DEF start, foreground, stop, CmdInv, CmdLineTold
<1>2. CASE Finish \/ Fetch \/ Shutdown \/ GetBreak \/ Drop \/ process \/ Break
  BY <1>2, CmdKept DEF Finish, Over, Fetch, Shutdown, GetBreak, Drop, InLoop, process, Break,
       control, history
<1>3. CASE HandlerEnds
  <2>1. pc = "handler" /\ pc' = "loop" /\ UNCHANGED <<cmdline, shown>>
    BY <1>3, Kinds DEF HandlerEnds, Return, YieldKilled, JobReturn, Yields, Running, Done,
         history, TypeOK, Ids
  <2>. QED
    BY <2>1, CmdKept
<1>4. ASSUME NEW s \in Signals, emit(s) \/ SigOn(s) \/ SigOff(s) PROVE CmdInv'
  BY <1>4, CmdKept DEF emit, SigOn, SigOff, control, history
<1>5. ASSUME NEW id \in Ids, Get(id) \/ Enqueue(id) \/ Reject(id) \/ Kill(id) PROVE CmdInv'
  BY <1>5, CmdKept DEF Get, Enqueue, Reject, Kill, Receive, control
<1>6. CASE Callbacks
  BY <1>6, CmdReply DEF Callbacks, Callback, CallbackCancel, CallbackFails, Done, Over, control
<1>7. ASSUME NEW j \in Jobs, schedule(j) \/ ping(j) PROVE CmdInv'
  BY <1>7, CmdKept DEF schedule, ping, control, history
<1>8. CASE UNCHANGED vars
  BY <1>8, CmdKept DEF vars, control, history
<1>. QED
  BY <1>1, <1>2, <1>3, <1>4, <1>5, <1>6, <1>7, <1>8 DEF Next, process_request

\* When no command line signal is waiting, the last one the client received
\* says whether the command line is running.
THEOREM CommandLineKnown == Spec => []CmdLineTold
<1>1. Init => CmdInv
  BY DEF Init, CmdInv, CmdLineTold
<1>2. CmdInv => CmdLineTold
  BY DEF CmdInv
<1>. QED
  BY TypeCorrect, CmdNext, <1>1, <1>2, PTL DEF Spec

-------------------------------------------------------------------------------
(* Kills.                                                                  *)

\* What waits was received, and what is killed was asked for.
KillInv ==
  /\ \A id \in Ids : Waits(id) => id \in received
  /\ ~shutdown => killed \subseteq asked
  /\ OnlyTheKilled

LEMMA KillKept ==
  ASSUME KillInv, \A id \in Ids : Waits(id)' => Waits(id) \/ id \in received',
         received \subseteq received', UNCHANGED <<shutdown, killed, asked, aborted>>
  PROVE  KillInv'
  BY DEF KillInv, OnlyTheKilled

LEMMA KillNext == TypeOK /\ KillInv /\ [Next]_vars => KillInv'
<1>. SUFFICES ASSUME TypeOK, KillInv, [Next]_vars PROVE KillInv'
  OBVIOUS
<1>0. q_in \in Seq(Queueable)
  BY DEF TypeOK
<1>1. CASE start \/ foreground \/ stop \/ Fetch \/ GetBreak
  BY <1>1, KillKept DEF start, foreground, stop, Fetch, GetBreak, queues, control, history, Waits
<1>2. CASE Finish \/ Break
  <2>1. \A id \in Ids : Waits(id)' => Waits(id)
    BY <1>2, Kinds DEF Finish, Break, Over, queues, Waits
  <2>. QED
    BY <1>2, <2>1, KillKept DEF Finish, Break, history
<1>3. ASSUME NEW s \in Signals, emit(s) \/ SigOn(s) \/ SigOff(s) PROVE KillInv'
  BY <1>3, KillKept DEF emit, SigOn, SigOff, queues, control, history, Waits
<1>4. ASSUME NEW id \in Ids, Get(id) \/ Reject(id) PROVE KillInv'
  BY <1>4, KillKept DEF Get, Reject, Receive, control, Waits
<1>5. ASSUME NEW id \in Ids, Enqueue(id) PROVE KillInv'
  <2>1. ToSet(q_in') = ToSet(q_in) \cup {id}
    BY <1>0, <1>5, ToSetAppend DEF Enqueue
  <2>. QED
    BY <1>5, <2>1, KillKept DEF Enqueue, Receive, control, Waits
<1>6. ASSUME NEW id \in Ids, Kill(id) PROVE KillInv'
  <2>1. Victims(id) \subseteq {id} \cap received
    <3>1. running \in Ids => running = current
      BY Kinds DEF TypeOK
    <3>. QED
      BY <3>1 DEF Victims, KillInv, Waits
  <2>. QED
    BY <1>6, <2>1 DEF Kill, queues, control, KillInv, OnlyTheKilled, Waits
<1>7. CASE Shutdown
  BY <1>7, ToSetEmpty DEF Shutdown, control, history, KillInv, OnlyTheKilled, Waits
<1>8. CASE Callbacks
  <2>1. /\ \E out : Reply(out)
        /\ current' \in {current, NoOne}
    BY <1>8 DEF Callbacks, Callback, CallbackCancel, CallbackFails, Done, Over, control
  <2>2. \A id \in Ids : Waits(id)' => Waits(id)
    BY <2>1, Kinds DEF Reply, Waits
  <2>. QED
    BY <2>1, <2>2, KillKept DEF Reply
<1>9. CASE Drop \/ process
  <2>1. /\ ToSet(q_in) = ToSet(q_in') \cup {Head(q_in)}
        /\ current' \in {current, Head(q_in)}
    BY <1>0, <1>9, ToSetHead DEF Drop, process, InLoop, control
  <2>2. \A id \in Ids : Waits(id)' => Waits(id)
    BY <2>1 DEF Waits
  <2>. QED
    BY <1>9, <2>2, KillKept DEF Drop, process, history
<1>10. CASE Return \/ JobReturn
  <2>1. \A id \in Ids : Waits(id)' => Waits(id)
    BY <1>10, Kinds DEF Return, JobReturn, Done, queues, Waits
  <2>. QED
    BY <1>10, <2>1, KillKept DEF Return, JobReturn, history
<1>11. CASE YieldKilled
  <2>1. \A id \in Ids : Waits(id)' => Waits(id)
    BY <1>11, Kinds DEF YieldKilled, Done, Waits
  <2>. QED
    BY <1>11, <2>1 DEF YieldKilled, KillInv, OnlyTheKilled
<1>12. ASSUME NEW j \in Jobs, schedule(j) \/ ping(j) PROVE KillInv'
  <2>1. ToSet(q_in') \subseteq ToSet(q_in) \cup {j}
    BY <1>0, <1>12, ToSetAppend DEF schedule, ping, queues
  <2>2. \A id \in Ids : Waits(id)' => Waits(id)
    BY <1>12, <2>1, Kinds DEF schedule, ping, control, Waits
  <2>. QED
    BY <1>12, <2>2, KillKept DEF schedule, ping, history
<1>13. CASE UNCHANGED vars
  BY <1>13, KillKept DEF vars, queues, control, history, Waits
<1>. QED
  BY <1>1, <1>2, <1>3, <1>4, <1>5, <1>6, <1>7, <1>8, <1>9, <1>10, <1>11, <1>12, <1>13
     DEF Next, process_request, HandlerEnds

LEMMA KillInit == Init => KillInv
<1>. SUFFICES ASSUME Init PROVE KillInv
  OBVIOUS
<1>1. \A id \in Ids : ~Waits(id)
  BY Kinds, ToSetEmpty DEF Init, Waits
<1>. QED
  BY <1>1 DEF Init, KillInv, OnlyTheKilled

\* A kill that arrives late never interrupts another request: raise_if_killed
\* only stops what the client asked to kill, or what a shutdown stops.
THEOREM KillsTheAsked == Spec => []OnlyTheKilled
<1>1. KillInv => OnlyTheKilled
  BY DEF KillInv
<1>. QED
  BY TypeCorrect, KillInit, KillNext, <1>1, PTL DEF Spec

-------------------------------------------------------------------------------
(* Answers.                                                                *)

NoneIn(q, id) == \A i \in DOMAIN q : q[i].of # id
OnceIn(q, id) == \A i, j \in DOMAIN q : q[i].of = id /\ q[j].of = id => i = j

Distinct(q) == \A i, j \in DOMAIN q : q[i] = q[j] /\ q[i] \in Ids => i = j

NoAnswer(id) == NoneIn(q_out, id) /\ \A r \in delivered : r.of # id
OneAnswer(id) ==
  \/ NoneIn(q_out, id) /\ \A r1, r2 \in delivered : r1.of = id /\ r2.of = id => r1 = r2
  \/ OnceIn(q_out, id) /\ \A r \in delivered : r.of # id

\* A request waits at one place, and has no answer before it leaves it.
QueueInv == Distinct(q_in) /\ (current \in Ids => current \notin ToSet(q_in))
AnswerInv ==
  /\ QueueInv
  /\ \A id \in Ids :
       /\ OneAnswer(id)
       /\ id \notin received \/ Waits(id) => NoAnswer(id)

LEMMA DistinctAppend ==
  ASSUME NEW S, NEW q \in Seq(S), NEW x, Distinct(q), x \in Ids => x \notin ToSet(q)
  PROVE  Distinct(Append(q, x))
<1>1. /\ Len(q) \in Nat /\ DOMAIN q = 1 .. Len(q) /\ DOMAIN Append(q, x) = 1 .. Len(q) + 1
      /\ \A i \in 1 .. Len(q) : Append(q, x)[i] = q[i]
      /\ Append(q, x)[Len(q) + 1] = x
  OBVIOUS
<1>. QED
  BY <1>1 DEF Distinct, ToSet

LEMMA DistinctTail ==
  ASSUME NEW S, NEW q \in Seq(S), q # <<>>, Distinct(q)
  PROVE  Distinct(Tail(q)) /\ (Head(q) \in Ids => Head(q) \notin ToSet(Tail(q)))
<1>1. /\ Len(q) \in Nat \ {0} /\ DOMAIN q = 1 .. Len(q)
      /\ DOMAIN Tail(q) = 1 .. Len(q) - 1 /\ Head(q) = q[1]
      /\ \A i \in 1 .. Len(q) - 1 : Tail(q)[i] = q[i + 1]
  OBVIOUS
<1>2. \A i \in 1 .. Len(q) - 1 : i + 1 \in 1 .. Len(q) /\ i + 1 # 1
  BY <1>1
<1>3. Distinct(Tail(q))
  <2>. SUFFICES ASSUME NEW i \in 1 .. Len(q) - 1, NEW j \in 1 .. Len(q) - 1,
                       q[i + 1] = q[j + 1], q[i + 1] \in Ids
                PROVE  i = j
    BY <1>1 DEF Distinct
  <2>1. i + 1 = j + 1
    BY <1>1, <1>2 DEF Distinct
  <2>. QED
    BY <2>1
<1>4. ASSUME q[1] \in Ids, NEW i \in 1 .. Len(q) - 1, q[i + 1] = q[1] PROVE FALSE
  BY <1>1, <1>2, <1>4 DEF Distinct
<1>. QED
  BY <1>1, <1>3, <1>4 DEF ToSet

LEMMA InAppend ==
  ASSUME NEW q \in Seq(Responses), NEW r, NEW id
  PROVE  /\ NoneIn(q, id) /\ r.of # id => NoneIn(Append(q, r), id)
         /\ NoneIn(q, id) => OnceIn(Append(q, r), id)
         /\ OnceIn(q, id) /\ r.of # id => OnceIn(Append(q, r), id)
<1>1. /\ Len(q) \in Nat /\ DOMAIN q = 1 .. Len(q) /\ DOMAIN Append(q, r) = 1 .. Len(q) + 1
      /\ \A i \in 1 .. Len(q) : Append(q, r)[i] = q[i]
      /\ Append(q, r)[Len(q) + 1] = r
  OBVIOUS
<1>. QED
  BY <1>1 DEF NoneIn, OnceIn

\* The queue of the responses keeps, or gets, the answer of a request.
OutKeeps(id) ==
  /\ NoneIn(q_out, id) => NoneIn(q_out', id)
  /\ OnceIn(q_out, id) => OnceIn(q_out', id)

OutGets(id) ==
  /\ \A x \in Ids \ {id} : OutKeeps(x)
  /\ NoneIn(q_out, id) => OnceIn(q_out', id)

LEMMA OutSignal ==
  ASSUME TypeOK, NEW s \in Signals, do_signal(s, <<>>), NEW id \in Ids
  PROVE  OutKeeps(id)
<1>1. Response("Signal", s).of # id
  BY Kinds DEF Response
<1>. QED
  BY <1>1, SignalOnly, InAppend DEF OutKeeps, TypeOK

LEMMA OutAppend ==
  ASSUME TypeOK, NEW r, q_out' = Append(q_out, r)
  PROVE  OutGets(r.of)
  BY InAppend DEF OutGets, OutKeeps, TypeOK

LEMMA OutSignalThen ==
  ASSUME TypeOK, NEW s \in Signals, NEW r \in Responses, r.of \in Ids,
         do_signal(s, <<r>>)
  PROVE  OutGets(r.of)
<1>. DEFINE note == Response("Signal", s)
<1>1. \A id \in Ids : note.of # id
  BY Kinds DEF Response
<1>2. q_out \in Seq(Responses) /\ Append(q_out, note) \in Seq(Responses)
  BY ResponseType DEF TypeOK
<1>3. CASE q_out' = Append(q_out, r)
  BY <1>3, OutAppend
<1>4. CASE q_out' = Append(Append(q_out, note), r)
  <2>1. \A id \in Ids \ {r.of} : OutKeeps(id)
    <3>. SUFFICES ASSUME NEW id \in Ids \ {r.of} PROVE OutKeeps(id)
      OBVIOUS
    <3>. HIDE DEF note
    <3>. QED
      BY <1>1, <1>2, <1>4, InAppend DEF OutKeeps
  <2>2. NoneIn(q_out, r.of) => OnceIn(q_out', r.of)
    <3>. HIDE DEF note
    <3>. QED
      BY <1>1, <1>2, <1>4, InAppend
  <2>. QED
    BY <2>1, <2>2 DEF OutGets
<1>. QED
  BY <1>2, <1>3, <1>4, SignalThen

\* A step that answers no request, one that answers `id', and a reply.
LEMMA AnswerKept ==
  ASSUME AnswerInv, QueueInv', received \subseteq received', UNCHANGED delivered,
         \A id \in Ids : /\ Waits(id)' => Waits(id) \/ id \notin received
                        /\ OutKeeps(id)
  PROVE  AnswerInv'
  BY DEF AnswerInv, OutKeeps, OneAnswer, NoAnswer

LEMMA AnswerGiven ==
  ASSUME AnswerInv, QueueInv', received \subseteq received', UNCHANGED delivered,
         \A x \in Ids : Waits(x)' => Waits(x) \/ x \notin received,
         NEW id \in Ids, OutGets(id),
         Waits(id) \/ id \notin received, ~Waits(id)', id \in received'
  PROVE  AnswerInv'
<1>1. NoAnswer(id) /\ OneAnswer(id)'
  BY DEF AnswerInv, OutGets, OneAnswer, NoAnswer
<1>2. \A x \in Ids \ {id} : OneAnswer(x)' /\ (x \notin received' \/ Waits(x)' => NoAnswer(x)')
  BY DEF AnswerInv, OutGets, OutKeeps, OneAnswer, NoAnswer
<1>. QED
  BY <1>1, <1>2 DEF AnswerInv

LEMMA AnswerReplied ==
  ASSUME TypeOK, AnswerInv, QueueInv', Reply(<<>>),
         \A x \in Ids : Waits(x)' => Waits(x) \/ x \notin received
  PROVE  AnswerInv'
<1>1. q_out' = <<>> /\ delivered' = delivered \cup ToSet(q_out) /\ received' = received
  BY DEF Reply
<1>2. \A id \in Ids : NoneIn(q_out', id)
  BY <1>1 DEF NoneIn
<1>3. ASSUME NEW id \in Ids, NoAnswer(id) PROVE NoAnswer(id)'
  BY <1>1, <1>2, <1>3 DEF NoAnswer, NoneIn, ToSet
<1>4. ASSUME NEW id \in Ids PROVE OneAnswer(id)'
  <2>1. CASE NoneIn(q_out, id)
    BY <1>1, <1>2, <2>1 DEF AnswerInv, OneAnswer, NoneIn, ToSet
  <2>2. CASE OnceIn(q_out, id) /\ \A r \in delivered : r.of # id
    BY <1>1, <1>2, <2>2 DEF OneAnswer, OnceIn, ToSet
  <2>. QED
    BY <2>1, <2>2 DEF AnswerInv, OneAnswer
<1>. QED
  BY <1>1, <1>3, <1>4 DEF AnswerInv

LEMMA AnswerNext == TypeInv /\ KillInv /\ AnswerInv /\ [Next]_vars => AnswerInv'
<1>. SUFFICES ASSUME TypeInv, KillInv, AnswerInv, [Next]_vars PROVE AnswerInv'
  OBVIOUS
<1>0. TypeOK /\ q_in \in Seq(Queueable) /\ QueueInv
  BY DEF TypeInv, TypeOK, AnswerInv
<1>. USE <1>0
<1>1. CASE start \/ foreground \/ stop \/ Fetch \/ GetBreak
  BY <1>1, AnswerKept DEF start, foreground, stop, Fetch, GetBreak, queues, control, history,
       Waits, QueueInv, OutKeeps
<1>2. CASE Finish \/ Break \/ JobReturn
  <2>1. current' = NoOne /\ UNCHANGED <<q_in, q_out, received, delivered>>
    BY <1>2 DEF Finish, Break, JobReturn, Over, Done, queues, history
  <2>. QED
    BY <2>1, Kinds, AnswerKept DEF Waits, QueueInv, OutKeeps
<1>3. ASSUME NEW s \in Signals, emit(s) PROVE AnswerInv'
  BY <1>3, AnswerKept, OutSignal DEF emit, control, history, Waits, QueueInv
<1>4. ASSUME NEW s \in Signals, SigOn(s) \/ SigOff(s) PROVE AnswerInv'
  <2>1. \A id \in Ids : OutKeeps(id)
    <3>1. Response("Signal", s).of \notin Ids
      BY Kinds DEF Response
    <3>2. CASE q_out' = Append(q_out, Response("Signal", s))
      BY <3>1, <3>2, OutAppend DEF OutGets
    <3>3. CASE q_out' = q_out
      BY <3>3 DEF OutKeeps
    <3>. QED
      BY <1>4, <3>2, <3>3 DEF SigOn, SigOff, queues
  <2>. QED
    BY <1>4, <2>1, AnswerKept DEF SigOn, SigOff, queues, control, history, Waits, QueueInv
<1>5. ASSUME NEW id \in Ids, Get(id) \/ Reject(id) PROVE AnswerInv'
  <2>1. OutGets(id)
    <3>0. \A tag : Response(tag, id).of = id
      BY DEF Response
    <3>1. CASE Reject(id)
      BY <3>0, <3>1, OutAppend DEF Reject
    <3>2. ASSUME NEW tag \in {"Data", "Error", "Killed"}, q_out' = Append(q_out, Response(tag, id))
          PROVE  OutGets(id)
      BY <3>0, <3>2, OutAppend
    <3>3. ASSUME NEW tag \in {"Data", "Error", "Killed"}, NEW s \in Signals,
                 do_signal(s, <<Response(tag, id)>>)
          PROVE  OutGets(id)
      BY <3>0, <3>3, ResponseType, OutSignalThen
    <3>. QED
      BY <1>5, <3>1, <3>2, <3>3 DEF Get
  <2>2. /\ id \notin received /\ received' = received \cup {id}
        /\ UNCHANGED <<q_in, current, delivered>>
    BY <1>5 DEF Get, Reject, Receive, control
  <2>3. ~Waits(id)
    BY <2>2 DEF KillInv
  <2>. QED
    BY <2>1, <2>2, <2>3, AnswerGiven DEF Waits, QueueInv
<1>6. ASSUME NEW id \in Ids, Enqueue(id) PROVE AnswerInv'
  <2>1. /\ id \notin received /\ received' = received \cup {id}
        /\ UNCHANGED <<q_out, current, delivered>> /\ q_in' = Append(q_in, id)
    BY <1>6 DEF Enqueue, Receive, control
  <2>2. ~Waits(id)
    BY <2>1 DEF KillInv
  <2>3. ToSet(q_in') = ToSet(q_in) \cup {id}
    BY <2>1, ToSetAppend
  <2>4. QueueInv'
    BY <2>1, <2>2, <2>3, DistinctAppend DEF QueueInv, Waits
  <2>. QED
    BY <2>1, <2>3, <2>4, AnswerKept DEF Waits, OutKeeps
<1>7. ASSUME NEW id \in Ids, Kill(id) PROVE AnswerInv'
  BY <1>7, AnswerKept DEF Kill, queues, control, Waits, QueueInv, OutKeeps
<1>8. CASE Shutdown
  <2>1. q_in' = <<>> /\ q_out' = <<>> /\ UNCHANGED <<current, received, delivered>>
    BY <1>8 DEF Shutdown, control, history
  <2>2. QueueInv' /\ \A id \in Ids : OutKeeps(id)
    BY <2>1, ToSetEmpty DEF QueueInv, Distinct, OutKeeps, NoneIn, OnceIn
  <2>. QED
    BY <2>1, <2>2, ToSetEmpty, AnswerKept DEF Waits
<1>9. CASE Callback \/ CallbackCancel
  <2>1. Reply(<<>>) /\ q_in' = q_in /\ current' \in {current, NoOne}
    BY <1>9 DEF Callback, CallbackCancel, Reply, Done, control
  <2>. QED
    BY <2>1, Kinds, AnswerReplied DEF Waits, QueueInv
<1>10. CASE CallbackFails
  <2>1. q_in' = q_in /\ current' = NoOne
    BY <1>10 DEF CallbackFails, Reply, Done, Over
  <2>2. CASE Reply(<<>>)
    BY <2>1, <2>2, Kinds, AnswerReplied DEF Waits, QueueInv
  <2>3. ASSUME NEW id \in Execs, id = current, Reply(<<Response("Error", id)>>) PROVE AnswerInv'
    <3>1. id \in Ids /\ NoAnswer(id) /\ ~Waits(id)'
      BY <2>1, <2>3, Kinds DEF Ids, AnswerInv, Waits, QueueInv
    <3>2. /\ q_out' = <<Response("Error", id)>> /\ received' = received
          /\ delivered' = delivered \cup ToSet(q_out)
      BY <2>3 DEF Reply
    <3>3. QueueInv' /\ \A x \in Ids : Waits(x)' => Waits(x) /\ x # id
      BY <2>1, <2>3, Kinds DEF Waits, QueueInv
    <3>4. \A x \in Ids \ {id} : NoneIn(q_out', x)
      BY <3>2 DEF NoneIn, Response
    <3>5. OneAnswer(id)' /\ id \in received'
      BY <2>3, <3>1, <3>2 DEF OneAnswer, NoAnswer, NoneIn, OnceIn, ToSet, KillInv, Waits
    <3>6. ASSUME NEW x \in Ids \ {id} PROVE OneAnswer(x)'
      <4>1. CASE NoneIn(q_out, x)
        BY <3>2, <3>4, <4>1 DEF AnswerInv, OneAnswer, NoneIn, ToSet
      <4>2. CASE OnceIn(q_out, x) /\ \A r \in delivered : r.of # x
        BY <3>2, <3>4, <4>2 DEF OneAnswer, OnceIn, ToSet
      <4>. QED
        BY <4>1, <4>2 DEF AnswerInv, OneAnswer
    <3>7. ASSUME NEW x \in Ids \ {id}, x \notin received' \/ Waits(x)' PROVE NoAnswer(x)'
      <4>1. NoAnswer(x)
        BY <3>2, <3>3, <3>7 DEF AnswerInv
      <4>. QED
        BY <3>2, <3>4, <4>1 DEF NoAnswer, NoneIn, ToSet
    <3>. QED
      BY <3>1, <3>3, <3>5, <3>6, <3>7 DEF AnswerInv
  <2>. QED
    BY <1>10, <2>2, <2>3 DEF CallbackFails
<1>11. CASE Drop \/ process
  <2>1. /\ q_in # <<>> /\ q_in' = Tail(q_in) /\ current' \in {current, Head(q_in)}
        /\ UNCHANGED <<q_out, received, delivered>>
    BY <1>11 DEF Drop, process, InLoop, control, history
  <2>2. ToSet(q_in) = ToSet(q_in') \cup {Head(q_in)}
    BY <2>1, ToSetHead
  <2>3. QueueInv'
    BY <2>1, <2>2, DistinctTail DEF QueueInv
  <2>. QED
    BY <2>1, <2>2, <2>3, AnswerKept DEF Waits, OutKeeps
<1>12. CASE Return \/ YieldKilled
  <2>1. PICK id \in Ids :
          /\ id = current /\ current' = NoOne /\ UNCHANGED <<q_in, received, delivered>>
          /\ \E tag : q_out' = Append(q_out, Response(tag, id))
    BY <1>12, Kinds DEF Return, YieldKilled, Yields, Running, Done, history, TypeOK, Ids
  <2>2. OutGets(id)
    BY <2>1, OutAppend DEF Response
  <2>3. ~Waits(id)' /\ Waits(id) /\ id \in received'
    BY <2>1, Kinds DEF Waits, QueueInv, KillInv
  <2>4. QueueInv' /\ \A x \in Ids : Waits(x)' => Waits(x)
    BY <2>1, Kinds DEF Waits, QueueInv
  <2>. QED
    BY <2>1, <2>2, <2>3, <2>4, AnswerGiven
<1>13. ASSUME NEW j \in Jobs, schedule(j) \/ ping(j) PROVE AnswerInv'
  <2>1. /\ UNCHANGED <<q_out, current, received, delivered>>
        /\ q_in' = q_in \/ q_in' = Append(q_in, j)
    BY <1>13 DEF schedule, ping, queues, control, history
  <2>2. j \notin Ids /\ \A id \in Ids : id \in ToSet(q_in') <=> id \in ToSet(q_in)
    <3>1. ToSet(Append(q_in, j)) = ToSet(q_in) \cup {j}
      BY ToSetAppend
    <3>2. j \notin Ids
      BY Kinds
    <3>3. CASE q_in' = q_in
      BY <3>2, <3>3
    <3>4. CASE q_in' = Append(q_in, j)
      BY <3>1, <3>2, <3>4
    <3>. QED
      BY <2>1, <3>3, <3>4
  <2>3. Distinct(q_in')
    BY <2>1, <2>2, DistinctAppend DEF QueueInv
  <2>4. QueueInv'
    BY <2>1, <2>2, <2>3 DEF QueueInv
  <2>. QED
    BY <2>1, <2>2, <2>4, AnswerKept DEF Waits, OutKeeps
<1>14. CASE UNCHANGED vars
  BY <1>14, AnswerKept DEF vars, queues, control, history, Waits, QueueInv, OutKeeps
<1>. QED
  BY <1>1, <1>2, <1>3, <1>4, <1>5, <1>6, <1>7, <1>8, <1>9, <1>10, <1>11, <1>12, <1>13,
     <1>14 DEF Next, process_request, Callbacks, HandlerEnds

LEMMA AnswerInit == Init => AnswerInv
<1>. SUFFICES ASSUME Init PROVE AnswerInv
  OBVIOUS
<1>1. \A id : NoAnswer(id) /\ OneAnswer(id)
  BY DEF Init, NoAnswer, OneAnswer, NoneIn
<1>2. QueueInv
  BY ToSetEmpty DEF Init, QueueInv, Distinct
<1>. QED
  BY <1>1, <1>2 DEF AnswerInv

\* A set whose elements are all the same has at most one.
LEMMA AtMostOne ==
  ASSUME NEW S, NEW x, S \subseteq {x}
  PROVE  Cardinality(S) \in Nat /\ Cardinality(S) <= 1 /\ (S = {} => Cardinality(S) = 0)
<1>1. Cardinality({x}) = 1 /\ IsFiniteSet({x})
  BY FS_Singleton
<1>. QED
  BY <1>1, FS_Subset, FS_EmptySet, FS_CardinalityType

LEMMA AnswerOnce == TypeOK /\ AnswerInv => AnsweredOnce
<1>. SUFFICES ASSUME TypeOK, AnswerInv, NEW id \in received
              PROVE  /\ Cardinality(Answers(id)) <= 1
                     /\ Waits(id) => Answers(id) = {}
                     /\ Cardinality({i \in DOMAIN q_out : q_out[i].of = id})
                          + Cardinality({r \in delivered : r.of = id}) <= 1
  BY DEF AnsweredOnce
<1>. DEFINE At == {i \in DOMAIN q_out : q_out[i].of = id}
            Given == {r \in delivered : r.of = id}
<1>0. id \in Ids
  BY DEF TypeOK
<1>1. Waits(id) => Answers(id) = {}
  BY <1>0 DEF AnswerInv, NoAnswer, NoneIn, Answers, ToSet
<1>2. CASE NoneIn(q_out, id) /\ \A r1, r2 \in delivered : r1.of = id /\ r2.of = id => r1 = r2
  <2>1. At = {}
    BY <1>2 DEF NoneIn
  <2>2. Answers(id) \subseteq Given
    BY <1>2 DEF Answers, NoneIn, ToSet
  <2>3. \E x : Given \subseteq {x}
    BY <1>2
  <2>4. /\ Cardinality(At) = 0 /\ Cardinality(Answers(id)) <= 1
        /\ Cardinality(Given) \in Nat /\ Cardinality(Given) <= 1
    BY <2>1, <2>2, <2>3, AtMostOne, FS_EmptySet
  <2>. QED
    BY <1>1, <2>4
<1>3. CASE OnceIn(q_out, id) /\ \A r \in delivered : r.of # id
  <2>1. Given = {}
    BY <1>3
  <2>2. \E x : At \subseteq {x}
    BY <1>3 DEF OnceIn
  <2>3. \E x : Answers(id) \subseteq {x}
    BY <1>3 DEF Answers, OnceIn, ToSet
  <2>4. /\ Cardinality(Given) = 0 /\ Cardinality(Answers(id)) <= 1
        /\ Cardinality(At) \in Nat /\ Cardinality(At) <= 1
    BY <2>1, <2>2, <2>3, AtMostOne, FS_EmptySet
  <2>. QED
    BY <1>1, <2>4
<1>. QED
  BY <1>0, <1>2, <1>3 DEF AnswerInv, OneAnswer

\* No interleaving of the end of a request, its kill and the exchanges answers
\* it twice, or answers it while it is still queued or running.
THEOREM NeverAnsweredTwice == Spec => []AnsweredOnce
  BY TypeInit, TypeNext, KillInit, KillNext, AnswerInit, AnswerNext, AnswerOnce, PTL
     DEF Spec, TypeInv

-------------------------------------------------------------------------------
(* Requests and jobs that must not be forgotten.                           *)

\* Async.canceled is set by a shutdown, or when the server stops; a daemon
\* fails only after Ctrl+C.
ForgetInv ==
  /\ NothingForgotten
  /\ canceled => shutdown \/ pc = "over"
  /\ comm = "failed" => breaks > 0

LEMMA ForgetKept ==
  ASSUME NothingForgotten, UNCHANGED <<shutdown, breaks, received>>, killed \subseteq killed',
         delivered \cup ToSet(q_out) \subseteq delivered' \cup ToSet(q_out'),
         \A id \in received : Waits(id) => Waits(id)' \/ Answers(id)' # {} \/ id \in killed,
         \A j \in Jobs : status'[j] = "yield" /\ (status[j] = "yield" => Waits(j)) => Waits(j)'
  PROVE  NothingForgotten'
<1>1. \A id : Answers(id) \subseteq Answers(id)'
  BY DEF Answers
<1>. QED
  BY <1>1 DEF NothingForgotten

LEMMA ForgetNext == TypeInv /\ KillInv /\ ForgetInv /\ [Next]_vars => ForgetInv'
<1>. SUFFICES ASSUME TypeInv, KillInv, ForgetInv, [Next]_vars PROVE ForgetInv'
  OBVIOUS
<1>0. TypeOK /\ NothingForgotten /\ q_in \in Seq(Queueable) /\ q_out \in Seq(Responses)
  BY DEF TypeInv, TypeOK, ForgetInv
<1>. USE <1>0
<1>a. breaks \in Nat
  BY BreaksAssumption DEF TypeOK
<1>1. CASE start \/ foreground \/ stop \/ Fetch
  BY <1>1, ForgetKept DEF start, foreground, stop, Fetch, queues, control, history, Waits, ForgetInv
<1>2. CASE Finish \/ GetBreak \/ Break
  <2>1. CASE Finish
    BY <2>1 DEF Finish, Over, ForgetInv, NothingForgotten, history
  <2>2. CASE GetBreak
    BY <2>2, <1>a DEF GetBreak, ForgetInv, NothingForgotten, control
  <2>3. CASE Break
    BY <2>3, <1>a DEF Break, Over, ForgetInv, NothingForgotten
  <2>. QED
    BY <1>2, <2>1, <2>2, <2>3
<1>3. ASSUME NEW s \in Signals, emit(s) \/ SigOn(s) \/ SigOff(s) PROVE ForgetInv'
  <2>1. /\ UNCHANGED <<shutdown, breaks, received, killed, status, delivered, q_in, current,
                       canceled, pc, comm>>
        /\ \/ q_out' = q_out
           \/ q_out' = Append(q_out, Response("Signal", s))
    BY <1>3, SignalOnly DEF emit, SigOn, SigOff, queues, control, history
  <2>2. ToSet(q_out) \subseteq ToSet(q_out')
    BY <2>1, ToSetAppend
  <2>. QED
    BY <2>1, <2>2, ForgetKept DEF Waits, ForgetInv
<1>4. ASSUME NEW id \in Ids, Get(id) \/ Reject(id) PROVE ForgetInv'
  <2>1. PICK tag \in {"Data", "Error", "Killed", "Rejected"} :
          \/ q_out' = Append(q_out, Response(tag, id))
          \/ \E s \in Signals : do_signal(s, <<Response(tag, id)>>)
    BY <1>4 DEF Get, Reject
  <2>2. ToSet(q_out) \cup {Response(tag, id)} \subseteq ToSet(q_out')
    <3>1. CASE q_out' = Append(q_out, Response(tag, id))
      BY <3>1, ToSetAppend
    <3>2. ASSUME NEW s \in Signals, do_signal(s, <<Response(tag, id)>>) PROVE <2>2
      <4>1. Response(tag, id) \in Responses /\ Append(q_out, Response("Signal", s)) \in Seq(Responses)
        BY ResponseType
      <4>2. ToSet(Append(q_out, Response("Signal", s))) = ToSet(q_out) \cup {Response("Signal", s)}
        BY ToSetAppend
      <4>3. \A q \in Seq(Responses) : ToSet(Append(q, Response(tag, id))) = ToSet(q) \cup {Response(tag, id)}
        BY ToSetAppend
      <4>. QED
        BY <3>2, <4>1, <4>2, <4>3, SignalThen
    <3>. QED
      BY <2>1, <3>1, <3>2
  <2>3. /\ received' = received \cup {id}
        /\ UNCHANGED <<shutdown, breaks, killed, status, delivered, q_in, current, canceled, pc, comm>>
    BY <1>4 DEF Get, Reject, Receive, control
  <2>4. Answers(id)' # {} /\ \A x : Answers(x) \subseteq Answers(x)'
    <3>1. Response(tag, id).tag # "Signal" /\ Response(tag, id).of = id
      BY DEF Response
    <3>2. Response(tag, id) \in Answers(id)'
      BY <2>2, <3>1 DEF Answers
    <3>. QED
      BY <2>2, <2>3, <3>2 DEF Answers
  <2>. QED
    BY <2>3, <2>4 DEF ForgetInv, NothingForgotten, Waits
<1>5. ASSUME NEW id \in Ids, Enqueue(id) PROVE ForgetInv'
  <2>1. ToSet(q_in') = ToSet(q_in) \cup {id}
    BY <1>5, ToSetAppend DEF Enqueue
  <2>. QED
    BY <1>5, <2>1 DEF Enqueue, Receive, control, ForgetInv, NothingForgotten, Waits, Answers
<1>6. ASSUME NEW id \in Ids, Kill(id) PROVE ForgetInv'
  BY <1>6, ForgetKept DEF Kill, queues, control, Waits, ForgetInv
<1>7. CASE Shutdown
  BY <1>7 DEF Shutdown, control, history, ForgetInv, NothingForgotten
<1>8. CASE Callback
  <2>1. /\ UNCHANGED <<shutdown, breaks, received, killed, status, q_in, current, canceled, pc>>
        /\ delivered' = delivered \cup ToSet(q_out) /\ comm' = "none"
    BY <1>8 DEF Callback, Reply, control
  <2>. QED
    BY <2>1, ForgetKept DEF Waits, ForgetInv
<1>9. CASE CallbackCancel
  <2>1. shutdown \/ pc = "over"
    BY <1>9 DEF CallbackCancel, ForgetInv
  <2>2. pc # "over" /\ shutdown' = shutdown /\ canceled' = FALSE /\ comm' = "none"
    BY <1>9 DEF CallbackCancel, Reply
  <2>. QED
    BY <2>1, <2>2 DEF ForgetInv, NothingForgotten
<1>10. CASE CallbackFails
  <2>1. /\ breaks > 0 /\ UNCHANGED <<breaks, shutdown, canceled>> /\ comm' = "none"
        /\ pc # "over"
    BY <1>10 DEF CallbackFails, Reply, ForgetInv
  <2>. QED
    BY <2>1, <1>a DEF ForgetInv, NothingForgotten
<1>11. CASE Drop
  <2>1. /\ ToSet(q_in) = ToSet(q_in') \cup {Head(q_in)} /\ Dropped(Head(q_in))
        /\ UNCHANGED <<shutdown, breaks, received, killed, status, delivered, q_out, current,
                       canceled, pc, comm>>
    BY <1>11, ToSetHead DEF Drop, InLoop, control, history
  <2>2. \A j \in Jobs : j \notin killed
    BY Kinds DEF TypeOK, Ids
  <2>3. \A id \in received : id \notin Jobs
    BY Kinds DEF TypeOK
  <2>. QED
    BY <2>1, <2>2, <2>3, ForgetKept DEF Dropped, Waits, ForgetInv
<1>12. CASE process
  <2>1. /\ ToSet(q_in) = ToSet(q_in') \cup {Head(q_in)} /\ current' = Head(q_in)
        /\ UNCHANGED <<shutdown, breaks, received, killed, status, delivered, q_out, canceled, comm>>
        /\ pc = "loop" /\ pc' = "handler"
    BY <1>12, ToSetHead DEF process, InLoop, history
  <2>2. current = NoOne
    BY <2>1 DEF TypeInv, ControlInv
  <2>3. \A x \in Ids \cup Jobs : Waits(x) => Waits(x)'
    BY <2>1, <2>2, Kinds DEF Waits
  <2>4. received \subseteq Ids
    BY DEF TypeOK
  <2>. QED
    BY <2>1, <2>3, <2>4, ForgetKept DEF ForgetInv
<1>13. CASE Return \/ YieldKilled
  <2>1. PICK id \in Ids, tag \in {"Data", "Error", "Killed"} :
          /\ id = current /\ current' = NoOne /\ q_out' = Append(q_out, Response(tag, id))
          /\ UNCHANGED <<shutdown, breaks, received, killed, status, delivered, q_in, canceled, comm>>
          /\ pc = "handler" /\ pc' = "loop"
    BY <1>13, Kinds DEF Return, YieldKilled, Yields, Running, Done, history, TypeOK, Ids
  <2>2. ToSet(q_out') = ToSet(q_out) \cup {Response(tag, id)}
    BY <2>1, ToSetAppend
  <2>3. Answers(id)' # {}
    <3>1. Response(tag, id).tag # "Signal" /\ Response(tag, id).of = id
      BY DEF Response
    <3>2. Response(tag, id) \in Answers(id)'
      BY <2>2, <3>1 DEF Answers
    <3>. QED
      BY <3>2
  <2>4. \A x : Waits(x) => x = id \/ Waits(x)'
    BY <2>1 DEF Waits
  <2>5. \A j \in Jobs : j # id
    BY Kinds
  <2>. QED
    BY <2>1, <2>2, <2>3, <2>4, <2>5, ForgetKept DEF ForgetInv
<1>14. CASE JobReturn
  <2>1. /\ current \in Jobs /\ status'[current] # "yield"
        /\ \A j \in Jobs \ {current} : status'[j] = status[j]
        /\ UNCHANGED <<shutdown, breaks, received, killed, delivered, q_out, q_in, canceled, comm>>
        /\ pc = "handler" /\ pc' = "loop"
    BY <1>14 DEF JobReturn, Done, queues, history, TypeOK
  <2>2. \A x : Waits(x) => x = current \/ Waits(x)'
    BY <2>1 DEF Waits
  <2>3. \A id \in received : id # current
    BY <2>1, Kinds DEF TypeOK
  <2>. QED
    BY <2>1, <2>2, <2>3, ForgetKept DEF ForgetInv
<1>15. ASSUME NEW j \in Jobs, schedule(j) PROVE ForgetInv'
  <2>1. ToSet(q_in') = ToSet(q_in) \cup {j}
    BY <1>15, ToSetAppend DEF schedule
  <2>2. \A k \in Jobs \ {j} : status'[k] = status[k]
    BY <1>15 DEF schedule, TypeOK
  <2>. QED
    BY <1>15, <2>1, <2>2, ForgetKept DEF schedule, control, history, Waits, ForgetInv
<1>16. ASSUME NEW j \in Jobs, ping(j) PROVE ForgetInv'
  <2>1. status'[j] # "yield" /\ \A k \in Jobs \ {j} : status'[k] = status[k]
    BY <1>16 DEF ping, TypeOK
  <2>. QED
    BY <1>16, <2>1, ForgetKept DEF ping, queues, control, history, Waits, ForgetInv
<1>17. CASE UNCHANGED vars
  BY <1>17, ForgetKept DEF vars, queues, control, history, Waits, ForgetInv
<1>. QED
  BY <1>1, <1>2, <1>3, <1>4, <1>5, <1>6, <1>7, <1>8, <1>9, <1>10, <1>11, <1>12, <1>13,
     <1>14, <1>15, <1>16, <1>17 DEF Next, process_request, Callbacks, HandlerEnds

\* Until a shutdown or Ctrl+C, a request that was received is queued, running,
\* answered or killed, and a job whose task is not finished is queued or running.
THEOREM RequestsKept == Spec => []NothingForgotten
<1>1. Init => ForgetInv
  BY DEF Init, ForgetInv, NothingForgotten
<1>2. ForgetInv => NothingForgotten
  BY DEF ForgetInv
<1>. QED
  BY TypeInit, TypeNext, KillInit, KillNext, ForgetNext, <1>1, <1>2, PTL DEF Spec, TypeInv

-------------------------------------------------------------------------------
(* ServerMain implements RequestLife.                                      *)

Given(id) == \E r \in delivered : r.of = id
Ready(id) == \E r \in ToSet(q_out) : r.of = id

\* The life of a request, and the part of the state it is read from.
LEMMA LifeKept ==
  ASSUME NEW id, id \in received' <=> id \in received, Given(id)' <=> Given(id),
         Ready(id)' <=> Ready(id), id = current' <=> id = current,
         id \in ToSet(q_in') <=> id \in ToSet(q_in)
  PROVE  LifeOf(id)' = LifeOf(id)
  BY DEF LifeOf, Given, Ready

\* Async.canceled only interrupts a command, never a request.
CancelInv == canceled => pc = "over" \/ (shutdown /\ (pc = "handler" => current \in Jobs))

LEMMA CancelNext == TypeInv /\ CancelInv /\ [Next]_vars => CancelInv'
<1>. SUFFICES ASSUME TypeOK, ControlInv, CancelInv, [Next]_vars PROVE CancelInv'
  BY DEF TypeInv
<1>. USE DEF CancelInv
<1>1. CASE start \/ foreground \/ stop \/ Finish \/ Fetch \/ Break
  BY <1>1 DEF start, foreground, stop, Finish, Fetch, Break, Over, control
<1>2. ASSUME NEW s \in Signals, emit(s) \/ SigOn(s) \/ SigOff(s) PROVE CancelInv'
  BY <1>2 DEF emit, SigOn, SigOff, control
<1>3. ASSUME NEW id \in Ids, Get(id) \/ Enqueue(id) \/ Reject(id) \/ Kill(id) PROVE CancelInv'
  BY <1>3 DEF Get, Enqueue, Reject, Kill, control
<1>4. CASE Shutdown
  <2>1. running = CmdLine /\ pc = "handler" => current \in Jobs
    BY Kinds DEF TypeOK, ControlInv, Queueable, Ids
  <2>. QED
    BY <1>4, <2>1 DEF Shutdown, control
<1>5. CASE GetBreak
  BY <1>5 DEF GetBreak, control
<1>6. CASE Callbacks
  BY <1>6 DEF Callbacks, Callback, CallbackCancel, CallbackFails, Reply, Done, Over, control
<1>7. CASE Drop \/ process
  BY <1>7 DEF Drop, process, InLoop, control
<1>8. CASE HandlerEnds
  BY <1>8, Kinds DEF HandlerEnds, Return, YieldKilled, JobReturn, Yields, Running, Done, TypeOK, Ids
<1>9. ASSUME NEW j \in Jobs, schedule(j) \/ ping(j) PROVE CancelInv'
  BY <1>9 DEF schedule, ping, control
<1>10. CASE UNCHANGED vars
  BY <1>10 DEF vars, control
<1>. QED
  BY <1>1, <1>2, <1>3, <1>4, <1>5, <1>6, <1>7, <1>8, <1>9, <1>10 DEF Next, process_request

Inv == TypeInv /\ KillInv /\ AnswerInv /\ CancelInv

LifeRead ==
  \A id \in Ids :
    /\ LifeOf(id) = "new" <=> id \notin received
    /\ LifeOf(id) = "running" <=> id = current
    /\ LifeOf(id) = "queued" <=> id \in ToSet(q_in)
    /\ LifeOf(id) = "ready" <=> Ready(id)
    /\ LifeOf(id) = "given" <=> Given(id)

LEMMA LifeIs == Inv => LifeRead
<1>. SUFFICES ASSUME Inv, NEW id \in Ids
              PROVE  /\ LifeOf(id) = "new" <=> id \notin received
                     /\ LifeOf(id) = "running" <=> id = current
                     /\ LifeOf(id) = "queued" <=> id \in ToSet(q_in)
                     /\ LifeOf(id) = "ready" <=> Ready(id)
                     /\ LifeOf(id) = "given" <=> Given(id)
  BY DEF LifeRead
<1>1. id \notin received \/ Waits(id) => ~Given(id) /\ ~Ready(id)
  BY DEF Inv, AnswerInv, NoAnswer, NoneIn, Given, Ready, ToSet
<1>2. Waits(id) => id \in received
  BY DEF Inv, KillInv
<1>3. ~ (Given(id) /\ Ready(id))
  BY DEF Inv, AnswerInv, OneAnswer, NoneIn, Given, Ready, ToSet
<1>4. ~ (id = current /\ id \in ToSet(q_in))
  BY DEF Inv, AnswerInv, QueueInv
<1>. QED
  BY <1>1, <1>2, <1>3, <1>4 DEF LifeOf, Given, Ready, Waits

Closed == shutdown \/ pc = "over"

LEMMA LifeStutters ==
  ASSUME \A id \in Ids : LifeOf(id)' = LifeOf(id), UNCHANGED killed, Closed' <=> Closed
  PROVE  UNCHANGED Life!vars
  BY DEF Life!vars, Closed

\* The queue of the responses, seen from one request.
LEMMA ReadySignal ==
  ASSUME TypeOK, NEW s \in Signals, NEW id \in Ids,
         q_out' = q_out \/ q_out' = Append(q_out, Response("Signal", s))
  PROVE  Ready(id)' <=> Ready(id)
<1>1. Response("Signal", s).of # id
  BY Kinds DEF Response
<1>2. ToSet(Append(q_out, Response("Signal", s))) = ToSet(q_out) \cup {Response("Signal", s)}
  BY ToSetAppend DEF TypeOK
<1>. QED
  BY <1>1, <1>2 DEF Ready

LEMMA ReadyAppend ==
  ASSUME TypeOK, NEW tag, NEW id \in Ids,
         \/ q_out' = Append(q_out, Response(tag, id))
         \/ /\ tag \in {"Data", "Error", "Killed"}
            /\ \E s \in Signals : do_signal(s, <<Response(tag, id)>>)
  PROVE  /\ Ready(id)'
         /\ \A x \in Ids \ {id} : Ready(x)' <=> Ready(x)
<1>1. Response(tag, id).of = id /\ \A s \in Signals : Response("Signal", s).of \notin Ids
  BY Kinds DEF Response
<1>2. CASE q_out' = Append(q_out, Response(tag, id))
  <2>1. ToSet(q_out') = ToSet(q_out) \cup {Response(tag, id)}
    BY <1>2, ToSetAppend DEF TypeOK
  <2>. QED
    BY <1>1, <2>1 DEF Ready
<1>3. ASSUME NEW s \in Signals, tag \in {"Data", "Error", "Killed"},
             q_out' = Append(Append(q_out, Response("Signal", s)), Response(tag, id))
      PROVE  Ready(id)' /\ \A x \in Ids \ {id} : Ready(x)' <=> Ready(x)
  <2>1. Append(q_out, Response("Signal", s)) \in Seq(Responses)
    BY ResponseType DEF TypeOK
  <2>2. ToSet(q_out') = ToSet(Append(q_out, Response("Signal", s))) \cup {Response(tag, id)}
    BY <1>3, <2>1, ToSetAppend
  <2>3. ToSet(Append(q_out, Response("Signal", s))) = ToSet(q_out) \cup {Response("Signal", s)}
    BY ToSetAppend DEF TypeOK
  <2>. QED
    BY <1>1, <2>2, <2>3 DEF Ready
<1>4. ASSUME NEW s \in Signals, tag \in {"Data", "Error", "Killed"},
             do_signal(s, <<Response(tag, id)>>)
      PROVE  Ready(id)' /\ \A x \in Ids \ {id} : Ready(x)' <=> Ready(x)
  <2>1. Response(tag, id) \in Responses /\ q_out \in Seq(Responses)
    BY <1>4, ResponseType DEF TypeOK
  <2>. QED
    BY <1>2, <1>3, <1>4, <2>1, SignalThen
<1>. QED
  BY <1>2, <1>4

LEMMA LifeInit == Init => Life!Init
<1>. SUFFICES ASSUME Init PROVE Life!Init
  OBVIOUS
<1>1. \A id \in Ids : LifeOf(id) = "new"
  BY DEF Init, LifeOf
<1>. QED
  BY <1>1 DEF Init, Life!Init

LEMMA LifeSteps == Inv /\ Inv' /\ [Next]_vars => [Life!Next]_(Life!vars)
<1>. SUFFICES ASSUME Inv, Inv', [Next]_vars PROVE [Life!Next]_(Life!vars)
  OBVIOUS
<1>0. TypeOK /\ TypeOK' /\ q_in \in Seq(Queueable) /\ QueueInv /\ ControlInv
  BY DEF Inv, TypeInv, TypeOK, AnswerInv
<1>. USE <1>0
<1>a. LifeRead
  BY LifeIs
<1>b. LifeRead'
  BY LifeIs, PTL
<1>1. CASE start \/ foreground \/ Finish \/ Fetch \/ GetBreak
  BY <1>1, Kinds, LifeKept, LifeStutters DEF start, foreground, Finish, Fetch, GetBreak, Over,
       queues, control, history, Given, Ready, Closed, Sleeping, ControlInv
<1>2. CASE stop \/ Break
  <2>1. /\ UNCHANGED <<q_in, q_out, received, delivered, killed>> /\ pc' = "over"
        /\ current' = NoOne
    BY <1>2 DEF stop, Break, Over, queues, history, ControlInv
  <2>2. \A id \in Ids : LifeOf(id)' = IF id = current THEN "lost" ELSE LifeOf(id)
    <3>. SUFFICES ASSUME NEW id \in Ids
                  PROVE  LifeOf(id)' = IF id = current THEN "lost" ELSE LifeOf(id)
      OBVIOUS
    <3>1. id # NoOne
      BY Kinds
    <3>2. CASE id = current
      BY <1>a, <1>b, <2>1, <3>1, <3>2 DEF LifeRead, LifeOf, Given, Ready
    <3>3. CASE id # current
      BY <2>1, <3>1, <3>3, LifeKept DEF Given, Ready
    <3>. QED
      BY <3>2, <3>3
  <2>3. Life!Leave
    BY <1>a, <2>1, <2>2 DEF Life!Leave, LifeRead
  <2>. QED
    BY <2>3 DEF Life!Next
<1>3. ASSUME NEW s \in Signals, emit(s) \/ SigOn(s) \/ SigOff(s) PROVE UNCHANGED Life!vars
  <2>1. /\ UNCHANGED <<shutdown, received, killed, delivered, q_in, current, pc>>
        /\ \/ q_out' = q_out
           \/ q_out' = Append(q_out, Response("Signal", s))
    BY <1>3, SignalOnly DEF emit, SigOn, SigOff, queues, control, history, TypeOK
  <2>. QED
    BY <2>1, ReadySignal, LifeKept, LifeStutters DEF Given, Closed
<1>4. ASSUME NEW id \in Ids, Get(id) \/ Reject(id) \/ Enqueue(id) PROVE Life!Accept(id)
  <2>1. /\ id \notin received /\ received' = received \cup {id}
        /\ UNCHANGED <<shutdown, killed, delivered, current, pc>>
    BY <1>4 DEF Get, Reject, Enqueue, Receive, control
  <2>2. CASE Enqueue(id)
    <3>1. ToSet(q_in') = ToSet(q_in) \cup {id} /\ q_out' = q_out
      BY <2>2, ToSetAppend DEF Enqueue
    <3>2. LifeOf(id) = "new" /\ LifeOf(id)' = "queued"
      BY <1>a, <1>b, <2>1, <3>1 DEF LifeRead
    <3>3. \A x \in Ids \ {id} : LifeOf(x)' = LifeOf(x)
      BY <2>1, <3>1, LifeKept DEF Given, Ready
    <3>. QED
      BY <2>1, <3>2, <3>3 DEF Life!Accept
  <2>3. CASE Get(id) \/ Reject(id)
    <3>1. q_in' = q_in /\ Ready(id)' /\ \A x \in Ids \ {id} : Ready(x)' <=> Ready(x)
      BY <2>3, ReadyAppend DEF Get, Reject
    <3>2. LifeOf(id) = "new" /\ LifeOf(id)' = "ready"
      BY <1>a, <1>b, <2>1, <3>1 DEF LifeRead
    <3>3. \A x \in Ids \ {id} : LifeOf(x)' = LifeOf(x)
      BY <2>1, <3>1, LifeKept DEF Given
    <3>. QED
      BY <2>1, <3>2, <3>3 DEF Life!Accept
  <2>. QED
    BY <1>4, <2>2, <2>3
<1>5. ASSUME NEW id \in Ids, Kill(id) PROVE [Life!Next]_(Life!vars)
  <2>1. /\ UNCHANGED <<shutdown, received, delivered, q_in, q_out, current, pc>>
        /\ killed' = killed \cup Victims(id)
    BY <1>5 DEF Kill, queues, control
  <2>2. \A x \in Ids : LifeOf(x)' = LifeOf(x)
    BY <2>1, LifeKept DEF Given, Ready
  <2>3. CASE id \in Victims(id)
    <3>1. LifeOf(id) \in {"queued", "running"}
      BY <1>a, <2>3, Kinds DEF LifeRead, Victims, TypeOK
    <3>2. killed' = killed \cup {id}
      BY <2>1, <2>3 DEF Victims
    <3>3. Life!Kill(id)
      BY <2>1, <2>2, <3>1, <3>2 DEF Life!Kill
    <3>. QED
      BY <3>3 DEF Life!Next
  <2>4. CASE id \notin Victims(id)
    <3>1. killed' = killed
      BY <2>1, <2>4 DEF Victims
    <3>. QED
      BY <2>1, <2>2, <3>1, LifeStutters DEF Closed
  <2>. QED
    BY <2>3, <2>4
<1>6. CASE Shutdown
  <2>1. /\ q_in' = <<>> /\ q_out' = <<>> /\ shutdown' = TRUE
        /\ killed' = killed \cup ({running} \cap Ids)
        /\ UNCHANGED <<received, delivered, current>>
    BY <1>6 DEF Shutdown, control, history
  <2>2. \A id \in Ids : ~Ready(id)' /\ id \notin ToSet(q_in')
    BY <2>1, ToSetEmpty DEF Ready
  <2>3. ASSUME NEW id \in Ids
        PROVE  LifeOf(id)' = IF LifeOf(id) \in {"queued", "ready"} THEN "lost" ELSE LifeOf(id)
    <3>1. CASE LifeOf(id) \in {"queued", "ready"}
      BY <1>a, <1>b, <2>1, <2>2, <3>1 DEF LifeRead, LifeOf, Given, Ready
    <3>2. CASE LifeOf(id) \notin {"queued", "ready"}
      BY <1>a, <2>1, <2>2, <3>2, LifeKept DEF LifeRead, Given
    <3>. QED
      BY <3>1, <3>2
  <2>4. {running} \cap Ids = {id \in Ids : LifeOf(id) = "running"}
    <3>1. \A id \in Ids : id = running <=> id = current
      BY Kinds DEF TypeOK, ControlInv
    <3>2. \A id \in Ids : LifeOf(id) = "running" <=> id = running
      BY <1>a, <3>1 DEF LifeRead
    <3>. QED
      BY <3>2
  <2>5. Life!Shutdown
    BY <2>1, <2>3, <2>4 DEF Life!Shutdown, Life!In
  <2>. QED
    BY <2>5 DEF Life!Next
<1>7. CASE Callbacks
  <2>1. PICK out \in {<<>>, <<Response("Error", current)>>} :
          /\ Reply(out)
          /\ out # <<>> => current \in Ids /\ current' = NoOne /\ pc = "handler"
          /\ current' # current => current' = NoOne /\ (current \in Ids => out # <<>>)
          /\ pc # "over"
    <3>1. CASE Callback
      BY <3>1 DEF Callback, control, ControlInv
    <3>2. CASE CallbackCancel
      <4>1. pc = "handler" => current \notin Ids
        BY <3>2, Kinds DEF CallbackCancel, Inv, CancelInv
      <4>. QED
        BY <3>2, <4>1 DEF CallbackCancel, Done, control
    <3>3. CASE CallbackFails
      <4>1. pc \in {"loop", "cmdline"} => current = NoOne
        BY DEF ControlInv
      <4>. QED
        BY <3>3, <4>1, Kinds DEF CallbackFails, Done, Over, Ids
    <3>. QED
      BY <1>7, <3>1, <3>2, <3>3 DEF Callbacks
  <2>2. /\ UNCHANGED <<q_in, received, killed, shutdown>> /\ q_out' = out
        /\ delivered' = delivered \cup ToSet(q_out)
    BY <2>1 DEF Reply
  <2>3. \A id \in Ids : Given(id)' <=> Given(id) \/ Ready(id)
    BY <2>2 DEF Given, Ready
  <2>4. \A id \in Ids : Ready(id)' <=> out # <<>> /\ id = current
    <3>1. CASE out = <<>>
      BY <2>2, <3>1, ToSetEmpty DEF Ready
    <3>2. CASE out = <<Response("Error", current)>>
      <4>1. ToSet(q_out') = {Response("Error", current)}
        BY <2>2, <3>2 DEF ToSet
      <4>. QED
        BY <3>2, <4>1 DEF Ready, Response
    <3>. QED
      BY <2>1, <3>1, <3>2
  <2>. DEFINE ended == IF out = <<>> THEN {} ELSE {current}
  <2>5. ASSUME NEW id \in Ids
        PROVE  LifeOf(id)' = IF LifeOf(id) = "ready" THEN "given"
                             ELSE IF id \in ended THEN "ready" ELSE LifeOf(id)
    <3>1. CASE LifeOf(id) = "ready"
      BY <1>a, <1>b, <2>3, <3>1 DEF LifeRead
    <3>2. CASE LifeOf(id) # "ready" /\ id \in ended
      BY <1>b, <2>4, <3>2 DEF LifeRead
    <3>3. CASE LifeOf(id) # "ready" /\ id \notin ended
      <4>1. ~Ready(id) /\ ~Ready(id)' /\ (Given(id)' <=> Given(id))
        BY <1>a, <2>3, <2>4, <3>3 DEF LifeRead
      <4>2. id = current' <=> id = current
        <5>1. id # NoOne
          BY Kinds
        <5>2. CASE out = <<>>
          BY <2>1, <5>1, <5>2
        <5>3. CASE out # <<>>
          BY <2>1, <3>3, <5>1, <5>3
        <5>. QED
          BY <5>2, <5>3
      <4>. QED
        BY <2>2, <3>3, <4>1, <4>2, LifeKept
    <3>. QED
      BY <3>1, <3>2, <3>3
  <2>6. ended \in SUBSET {id \in Ids : LifeOf(id) = "running"}
    BY <1>a, <2>1 DEF LifeRead
  <2>7. Life!Exchange
    <3>. HIDE DEF ended
    <3>. QED
      BY <2>2, <2>5, <2>6, <2>1 DEF Life!Exchange, Life!In
  <2>. QED
    BY <2>7 DEF Life!Next
<1>8. CASE Drop \/ process
  <2>1. /\ q_in # <<>> /\ q_in' = Tail(q_in)
        /\ UNCHANGED <<q_out, received, delivered, killed, shutdown>>
        /\ ~shutdown /\ pc = "loop" /\ pc' # "over"
    BY <1>8 DEF Drop, process, InLoop, control, history
  <2>2. PICK x \in Queueable : x = Head(q_in)
    BY <2>1, ToSetHead
  <2>3. ToSet(q_in) = ToSet(q_in') \cup {x} /\ (x \in Ids => x \notin ToSet(q_in'))
    BY <2>1, <2>2, ToSetHead, DistinctTail DEF QueueInv
  <2>4. current = NoOne /\ current' \in {NoOne, x} /\ (current' = NoOne <=> ~process)
    BY <1>8, <2>1, <2>2, Kinds DEF Drop, process, control, ControlInv, Queueable, Ids
  <2>5. \A id \in Ids \ {x} : LifeOf(id)' = LifeOf(id)
    BY <2>1, <2>3, <2>4, Kinds, LifeKept DEF Given, Ready
  <2>6. CASE x \notin Ids
    BY <2>1, <2>5, <2>6, LifeStutters DEF Closed
  <2>7. CASE x \in Ids /\ process
    <3>1. LifeOf(x) = "queued" /\ LifeOf(x)' = "running" /\ x \notin killed
      BY <1>a, <1>b, <2>2, <2>3, <2>4, <2>7, Kinds DEF LifeRead, process, Dropped
    <3>2. \A id \in Ids : LifeOf(id) # "running"
      BY <1>a, <2>4, Kinds DEF LifeRead
    <3>3. Life!Start(x)
      BY <2>1, <2>5, <2>7, <3>1, <3>2 DEF Life!Start, Life!In
    <3>. QED
      BY <2>7, <3>3 DEF Life!Next
  <2>8. CASE x \in Ids /\ ~process
    <3>1. x \in killed
      BY <1>8, <2>2, <2>8, Kinds DEF Drop, Dropped
    <3>2. LifeOf(x) = "queued" /\ LifeOf(x)' = "lost"
      <4>1. x # current' /\ x \notin ToSet(q_in')
        BY <2>3, <2>4, <2>8, Kinds
      <4>2. LifeOf(x) = "queued"
        BY <1>a, <2>3, <2>8 DEF LifeRead
      <4>. QED
        BY <1>a, <2>1, <2>8, <4>1, <4>2 DEF LifeRead, LifeOf, Given, Ready
    <3>3. Life!Skip(x)
      BY <2>1, <2>5, <2>8, <3>1, <3>2 DEF Life!Skip
    <3>. QED
      BY <2>8, <3>3 DEF Life!Next
  <2>. QED
    BY <2>6, <2>7, <2>8
<1>9. CASE Return \/ YieldKilled
  <2>1. PICK id \in Ids, tag \in {"Data", "Error", "Killed"} :
          /\ id = current /\ current' = NoOne /\ q_out' = Append(q_out, Response(tag, id))
          /\ UNCHANGED <<shutdown, received, killed, delivered, q_in>>
          /\ pc = "handler" /\ pc' = "loop"
    BY <1>9, Kinds DEF Return, YieldKilled, Yields, Running, Done, history, TypeOK, Ids
  <2>2. Ready(id)' /\ \A x \in Ids \ {id} : Ready(x)' <=> Ready(x)
    BY <2>1, ReadyAppend
  <2>3. LifeOf(id) = "running" /\ LifeOf(id)' = "ready"
    BY <1>a, <1>b, <2>1, <2>2 DEF LifeRead
  <2>4. \A x \in Ids \ {id} : LifeOf(x)' = LifeOf(x)
    BY <2>1, <2>2, Kinds, LifeKept DEF Given
  <2>5. Life!Finish(id)
    BY <2>1, <2>3, <2>4 DEF Life!Finish
  <2>. QED
    BY <2>5 DEF Life!Next
<1>10. CASE JobReturn
  <2>1. /\ UNCHANGED <<shutdown, received, killed, delivered, q_in, q_out>>
        /\ pc = "handler" /\ pc' = "loop" /\ current \in Jobs /\ current' = NoOne
    BY <1>10 DEF JobReturn, Done, queues, history
  <2>2. \A id \in Ids : LifeOf(id)' = LifeOf(id)
    BY <2>1, Kinds, LifeKept DEF Given, Ready
  <2>. QED
    BY <2>1, <2>2, LifeStutters DEF Closed
<1>11. ASSUME NEW j \in Jobs, schedule(j) \/ ping(j) PROVE UNCHANGED Life!vars
  <2>1. /\ UNCHANGED <<shutdown, received, killed, delivered, q_out, current, pc>>
        /\ q_in' = q_in \/ q_in' = Append(q_in, j)
    BY <1>11 DEF schedule, ping, queues, control, history
  <2>2. \A id \in Ids : id # j
    BY Kinds
  <2>3. ToSet(Append(q_in, j)) = ToSet(q_in) \cup {j}
    BY ToSetAppend
  <2>4. \A id \in Ids : id \in ToSet(q_in') <=> id \in ToSet(q_in)
    BY <2>1, <2>2, <2>3
  <2>5. \A id \in Ids : LifeOf(id)' = LifeOf(id)
    BY <2>1, <2>4, LifeKept DEF Given, Ready
  <2>. QED
    BY <2>1, <2>5, LifeStutters DEF Closed
<1>12. CASE UNCHANGED vars
  BY <1>12, LifeKept, LifeStutters DEF vars, queues, control, history, Given, Ready, Closed
<1>. QED
  BY <1>1, <1>2, <1>3, <1>4, <1>5, <1>6, <1>7, <1>8, <1>9, <1>10, <1>11, <1>12
     DEF Next, process_request, HandlerEnds, Life!Next

\* The queues, the daemon, the kills and the exceptions of the server implement
\* the life of a request that RequestLife states.
THEOREM ImplementsLife == Spec => LivesAsPromised
<1>1. Init => CancelInv
  BY DEF Init, CancelInv
<1>2. Spec => []Inv
  BY TypeInit, TypeNext, KillInit, KillNext, AnswerInit, AnswerNext, CancelNext, <1>1, PTL
     DEF Spec, Inv, TypeInv
<1>. QED
  BY <1>2, LifeInit, LifeSteps, PTL DEF Spec, LivesAsPromised, Life!Spec

===============================================================================
