----------------------------- MODULE SyncArrays -----------------------------
(***************************************************************************)
(* A synchronized array: a table of the server (server/states.ml) and its  *)
(* copy in the client (ivette/src/frama-c/states.ts).  The server keeps,   *)
(* for each project, the changes that the client has not fetched, or that  *)
(* it must fetch everything; a signal tells the client to fetch, a page at *)
(* a time.  The table changes, and the project too, while requests of the  *)
(* client run; GET requests (FETCH, RELOAD) are served inside an exchange. *)
(*                                                                         *)
(* Requests and answers on their way are sets: the client has at most one  *)
(* FETCH and one RELOAD to wait for, and treats each message of a reply    *)
(* on its own.  Signals are counted.                                       *)
(***************************************************************************)
EXTENDS Naturals, FiniteSets

CONSTANTS Projects, Keys, Values,
          Page,          \* rows of an answer to FETCH
          Shared,        \* one table for all projects, not a projectified one
          MaxChanges,    \* bound: changes of tables and projects
          MaxReloads,    \* bound: calls of reloadArray
          None,          \* no row of a key; the update Remove
          Same,          \* no update of a key
          NoProject,     \* array.current = None
          Detached       \* a content that is only in array.current

ASSUME SyncAssumption ==
  /\ Page \in Nat \ {0} /\ Shared \in BOOLEAN
  /\ MaxChanges \in Nat /\ MaxReloads \in Nat
  /\ Same \notin Values \cup {None} /\ None \notin Values
  /\ NoProject \notin Projects \cup {Detached} /\ Detached \notin Projects

VARIABLES
  table,        \* the rows of each project
  current,      \* the current project
  live,         \* the projects that exist
  contents,     \* array.projects, and the content that is in no project
  cached,       \* array.current: which content it is
  listening,    \* after SIGON, which also installs the hooks of the table
  s_pending,    \* the signal was emitted before SIGON
  exchange,     \* communicate has begun
  others,       \* other requests of the client: idle, running, answered
  up,           \* on the way to the server
  q_out,        \* answers and signal of the next reply
  down,         \* answers on their way to the client
  signals,      \* signals on their way to the client
  data,         \* the answer to FETCH, from the server to its use
  active, fetching, signaled, model,    \* SyncArray of the client
  changes, reloads                      \* counters of the bounds

tables == <<table, current, live>>
array == <<contents, cached>>
server == <<listening, s_pending, exchange, others>>
network == <<up, q_out, down, signals, data>>
client == <<active, fetching, signaled, model>>
vars == <<tables, array, server, network, client, changes, reloads>>

Rows == [Keys -> Values \cup {None}]
Updates == [Keys -> Values \cup {None, Same}]
NoRows == [k \in Keys |-> None]
NoUpdates == [k \in Keys |-> Same]
Apply(updates, rows) == [k \in Keys |-> IF updates[k] = Same THEN rows[k] ELSE updates[k]]

NoContent == [cleared |-> TRUE, updates |-> NoUpdates, exists |-> FALSE]
Cleared == [cleared |-> TRUE, updates |-> NoUpdates, exists |-> TRUE]
Pending(updates) == [cleared |-> FALSE, updates |-> updates, exists |-> TRUE]
Contents == [cleared : BOOLEAN, updates : Updates, exists : BOOLEAN]
NoData == [kind |-> "none", reload |-> FALSE, updates |-> NoUpdates, pending |-> FALSE]
Answers == [kind : {"none", "data"}, reload : BOOLEAN, updates : Updates, pending : BOOLEAN]

Init ==
  /\ current \in Projects
  /\ table \in [Projects -> Rows]
  /\ Shared => \A p, q \in Projects : table[p] = table[q]
  /\ live = Projects
  /\ contents = [p \in Projects \cup {Detached} |-> NoContent]
  /\ cached = NoProject
  /\ listening = FALSE /\ s_pending = FALSE /\ exchange = FALSE /\ others = "idle"
  /\ up = {} /\ q_out = {} /\ down = {} /\ signals = 0 /\ data = NoData
  /\ active = FALSE /\ fetching = FALSE /\ signaled = FALSE /\ model = NoRows
  /\ changes = 0 /\ reloads = 0

-----------------------------------------------------------------------------
(* Server: the array *)

(* Request.emit of the signal, with answers of the same exchange. *)
Emits(answers) ==
  /\ q_out' = q_out \cup answers \cup (IF listening THEN {"SIGNAL"} ELSE {})
  /\ s_pending' = (s_pending \/ ~listening)

(* The content that [content array] returns, made if there is none. *)
Slot == IF cached = NoProject THEN current ELSE cached
Content == IF contents[Slot].exists THEN contents[Slot] ELSE Cleared
Sets(content) == /\ cached' = Slot
                 /\ contents' = [contents EXCEPT ![Slot] = content]

reload == Sets(Cleared) /\ Emits({})

(* update and remove_key: a change u of the row k, after the table. *)
Noted(k, u) == IF Content.cleared THEN Content
               ELSE Pending([Content.updates EXCEPT ![k] = u])
update(k, u) == Sets(Noted(k, u)) /\ Emits({})

(* fetch, which answers the rows, or the updates, of the keys in [sent];   *)
(* the order of the table and of the keys is left out.                     *)
ToSend == {k \in Keys : IF Content.cleared THEN table[current][k] # None
                                           ELSE Content.updates[k] # Same}
Pages == {sent \in SUBSET ToSend :
            Cardinality(sent) = IF Cardinality(ToSend) <= Page THEN Cardinality(ToSend)
                                                               ELSE Page}
Entry(k) == IF Content.cleared THEN table[current][k] ELSE Content.updates[k]
Rest_Forgotten(sent) == NoUpdates                                         \* mutant
Rest(sent) == [k \in Keys |-> IF k \in ToSend \ sent THEN Entry(k)
                              ELSE IF Content.cleared THEN Content.updates[k]
                              ELSE Same]
PageOf(sent) == [kind |-> "data", reload |-> Content.cleared, pending |-> sent # ToSend,
                 updates |-> [k \in Keys |-> IF k \in sent THEN Entry(k) ELSE Same]]

fetch(sent) ==
  /\ Sets(Pending(Rest(sent)))
  /\ data' = PageOf(sent)
  /\ IF cached = NoProject THEN Emits({"FETCH"})
     ELSE q_out' = q_out \cup {"FETCH"} /\ UNCHANGED s_pending

(* The hooks of synchronize: [cleanup p] for a project removed or cleared. *)
Cleaned(p) == [contents EXCEPT ![p] = NoContent,
                               ![Detached] = IF cached = p THEN contents[p] ELSE @]
CleanedCache(p) == IF cached = p THEN Detached ELSE cached

(* The hook of the table when the state of the current project is set.     *)
(* The hook of a table that projects share is never called for this.       *)
Updated(cs, slot) == IF listening /\ ~Shared THEN [cs EXCEPT ![slot] = Cleared] ELSE cs

-----------------------------------------------------------------------------
(* Server: what requests that run do to the table and the projects *)

Change == /\ others = "running" /\ ~exchange /\ changes < MaxChanges
          /\ changes' = changes + 1
          /\ UNCHANGED <<listening, exchange, others, up, down, signals, data,
                         client, reloads>>

Written(rows) ==
  table' = [p \in Projects |-> IF Shared \/ p = current THEN rows ELSE table[p]]

(* The table is told to set or remove (u = None) a row. *)
Put(k, u) ==
  /\ Change
  /\ Written([table[current] EXCEPT ![k] = u])
  /\ IF listening THEN update(k, u) ELSE UNCHANGED <<array, q_out, s_pending>>
  /\ UNCHANGED <<current, live>>

(* All rows are removed at once: the event Clear. *)
ClearTable ==
  /\ Change
  /\ Written(NoRows)
  /\ IF listening THEN reload ELSE UNCHANGED <<array, q_out, s_pending>>
  /\ UNCHANGED <<current, live>>

(* Project.set_current: states are updated first, when array.current is    *)
(* still the content of the old project, then forgotten.                   *)
set_current_CacheFirst(p) ==                                              \* mutant
  /\ Change
  /\ p \in live \ {current}
  /\ current' = p
  /\ cached' = NoProject
  /\ contents' = [Updated(contents, p) EXCEPT ![Detached] = NoContent]
  /\ IF listening /\ ~Shared THEN Emits({}) ELSE UNCHANGED <<q_out, s_pending>>
  /\ UNCHANGED <<table, live>>
set_current(p) ==
  /\ Change
  /\ p \in live \ {current}
  /\ current' = p
  /\ cached' = NoProject
  /\ contents' = [Updated(contents, IF cached = NoProject THEN p ELSE cached)
                    EXCEPT ![Detached] = NoContent]
  /\ IF listening /\ ~Shared THEN Emits({}) ELSE UNCHANGED <<q_out, s_pending>>
  /\ UNCHANGED <<table, live>>

(* Project.remove; of the current project: another one takes its place,    *)
(* and array.current is kept, since only hooks for the user are called.    *)
remove(p) ==
  /\ Change
  /\ p \in live /\ live # {p}
  /\ live' = live \ {p}
  /\ table' = IF Shared THEN table ELSE [table EXCEPT ![p] = NoRows]
  /\ IF p # current
     THEN /\ contents' = Cleaned(p) /\ cached' = CleanedCache(p)
          /\ UNCHANGED <<current, q_out, s_pending>>
     ELSE \E q \in live \ {p} :
            LET slot == IF cached = NoProject THEN q ELSE CleanedCache(p)
            IN  /\ current' = q
                /\ contents' = Updated(Cleaned(p), slot)
                /\ cached' = IF listening /\ ~Shared THEN slot ELSE CleanedCache(p)
                /\ IF listening /\ ~Shared THEN Emits({}) ELSE UNCHANGED <<q_out, s_pending>>

(* Project.clear *)
clear(p) ==
  /\ Change
  /\ p \in live
  /\ table' = IF Shared THEN table ELSE [table EXCEPT ![p] = NoRows]
  /\ LET slot == IF cached = NoProject THEN current ELSE CleanedCache(p)
         told == listening /\ ~Shared /\ p = current
     IN  /\ contents' = IF told THEN Updated(Cleaned(p), slot) ELSE Cleaned(p)
         /\ cached' = IF told THEN slot ELSE CleanedCache(p)
         /\ IF told THEN Emits({}) ELSE UNCHANGED <<q_out, s_pending>>
  /\ UNCHANGED <<current, live>>

(* The last of these requests ends, and is answered. *)
End ==
  /\ others = "running" /\ ~exchange
  /\ others' = "answered"
  /\ q_out' = q_out \cup {"DONE"}
  /\ UNCHANGED <<tables, array, listening, s_pending, exchange, up, down, signals, data,
                 client, changes, reloads>>

-----------------------------------------------------------------------------
(* Server: exchanges *)

(* The client polls as long as it waits for an answer.  An exchange where  *)
(* there is nothing to send on either side is left out.                    *)
Polls == \/ others # "idle"
         \/ {"FETCH", "RELOAD"} \cap (up \cup q_out \cup down) # {}

Open ==
  /\ ~exchange
  /\ up # {} \/ (Polls /\ q_out # {})
  /\ exchange' = TRUE
  /\ UNCHANGED <<tables, array, listening, s_pending, others, network, client, changes,
                 reloads>>

Served(request) ==
  /\ exchange /\ request \in up
  /\ up' = up \ {request}
  /\ UNCHANGED <<tables, exchange, others, down, signals, client, changes, reloads>>

(* The callback of synchronize forgets all contents, and those of          *)
(* install_hook, the first time, add the hooks of the table and emit.      *)
ServeSigOn ==
  /\ Served("SIGON")
  /\ listening' = TRUE
  /\ contents' = [p \in Projects \cup {Detached} |-> NoContent]
  /\ cached' = NoProject
  /\ q_out' = q_out \cup {"SIGNAL"}
  /\ s_pending' = FALSE
  /\ UNCHANGED data

ServeFetch == \E sent \in Pages : Served("FETCH") /\ fetch(sent) /\ UNCHANGED listening

ServeReload ==
  /\ Served("RELOAD")
  /\ Sets(Cleared) /\ Emits({"RELOAD"})
  /\ UNCHANGED <<listening, data>>

(* The reply of the exchange leaves. *)
Close ==
  /\ exchange
  /\ exchange' = FALSE
  /\ down' = down \cup (q_out \ {"SIGNAL"})
  /\ signals' = IF "SIGNAL" \in q_out THEN signals + 1 ELSE signals
  /\ q_out' = {}
  /\ UNCHANGED <<tables, array, listening, s_pending, others, up, data, client,
                 changes, reloads>>

-----------------------------------------------------------------------------
(* Client *)

(* SyncArray.fetch, called by a signal, by online and after a reload. *)
Fetch_Unnoted(requests) ==                                                \* mutant
  /\ up' = up \cup requests \cup (IF fetching THEN {} ELSE {"FETCH"})
  /\ fetching' = TRUE /\ UNCHANGED signaled
Fetch(requests) ==
  IF fetching THEN signaled' = TRUE /\ up' = up \cup requests /\ UNCHANGED fetching
  ELSE signaled' = FALSE /\ fetching' = TRUE /\ up' = up \cup requests \cup {"FETCH"}

online ==
  /\ ~active
  /\ active' = TRUE
  /\ Fetch({"SIGON"})
  /\ UNCHANGED <<tables, array, server, q_out, down, signals, data, model,
                 changes, reloads>>

(* reloadArray.  A second call before the answer to the first sends the    *)
(* same request again, and is left out.                                    *)
reloadArray ==
  /\ "RELOAD" \notin up \cup q_out \cup down
  /\ reloads < MaxReloads /\ reloads' = reloads + 1
  /\ model' = NoRows
  /\ signaled' = FALSE
  /\ up' = up \cup {"RELOAD"}
  /\ UNCHANGED <<tables, array, server, q_out, down, signals, data, active,
                 fetching, changes>>

(* Another request of the client, or the command line, starts. *)
Start ==
  /\ others = "idle" /\ changes < MaxChanges
  /\ others' = "running"
  /\ UNCHANGED <<tables, array, listening, s_pending, exchange, network, client, changes,
                 reloads>>

ReceiveSignal ==
  /\ signals > 0
  /\ signals' = signals - 1
  /\ Fetch({})
  /\ UNCHANGED <<tables, array, server, q_out, down, data, active, model, changes,
                 reloads>>

ReceiveDone ==
  /\ "DONE" \in down
  /\ down' = down \ {"DONE"}
  /\ others' = "idle"
  /\ UNCHANGED <<tables, array, listening, s_pending, exchange, up, q_out, signals, data,
                 client, changes, reloads>>

(* The loop of fetch goes on after its await.  A signal that comes with    *)
(* the answer is noted first in the code, and taken after this step here:  *)
(* both send FETCH.                                                        *)
ReceiveFetch_Once ==                                                      \* mutant
  /\ "FETCH" \in down
  /\ down' = down \ {"FETCH"}
  /\ model' = Apply(data.updates, IF data.reload THEN NoRows ELSE model)
  /\ data' = NoData
  /\ signaled' = FALSE
  /\ IF data.pending THEN up' = up \cup {"FETCH"} /\ UNCHANGED fetching
     ELSE fetching' = FALSE /\ UNCHANGED up
  /\ UNCHANGED <<tables, array, server, q_out, signals, active, changes, reloads>>
ReceiveFetch ==
  /\ "FETCH" \in down
  /\ down' = down \ {"FETCH"}
  /\ model' = Apply(data.updates, IF data.reload THEN NoRows ELSE model)
  /\ data' = NoData
  /\ signaled' = FALSE
  /\ IF signaled \/ data.pending THEN up' = up \cup {"FETCH"} /\ UNCHANGED fetching
     ELSE fetching' = FALSE /\ UNCHANGED up
  /\ UNCHANGED <<tables, array, server, q_out, signals, active, changes, reloads>>

ReceiveReload ==
  /\ "RELOAD" \in down
  /\ down' = down \ {"RELOAD"}
  /\ Fetch({})
  /\ UNCHANGED <<tables, array, server, q_out, signals, data, active, model, changes, reloads>>

-----------------------------------------------------------------------------
Serve == ServeSigOn \/ ServeFetch \/ ServeReload
Receives == ReceiveSignal \/ ReceiveDone \/ ReceiveFetch \/ ReceiveReload

Next == \/ \E k \in Keys, u \in Values \cup {None} : Put(k, u)
        \/ ClearTable
        \/ \E p \in Projects : set_current(p) \/ remove(p) \/ clear(p)
        \/ End \/ Start \/ online \/ reloadArray
        \/ Open \/ Serve \/ Close \/ Receives

(* The polling timer, both processes and the socket go on; an exchange may *)
(* end before a request has come, but not for ever.  Nothing is assumed of *)
(* the requests that run and change the table.                             *)
Fairness == /\ WF_vars(Open) /\ SF_vars(Serve) /\ WF_vars(Close)
            /\ WF_vars(ReceiveSignal) /\ WF_vars(ReceiveFetch) /\ WF_vars(ReceiveReload)

Spec == Init /\ [][Next]_vars /\ Fairness
-----------------------------------------------------------------------------
TypeOK ==
  /\ table \in [Projects -> Rows] /\ live \subseteq Projects /\ current \in live
  /\ contents \in [Projects \cup {Detached} -> Contents]
  /\ cached \in Projects \cup {Detached, NoProject}
  /\ listening \in BOOLEAN /\ s_pending \in BOOLEAN /\ exchange \in BOOLEAN
  /\ others \in {"idle", "running", "answered"}
  /\ up \subseteq {"SIGON", "FETCH", "RELOAD"}
  /\ q_out \subseteq {"SIGNAL", "FETCH", "RELOAD", "DONE"}
  /\ down \subseteq {"FETCH", "RELOAD", "DONE"}
  /\ signals \in Nat /\ data \in Answers
  /\ active \in BOOLEAN /\ fetching \in BOOLEAN /\ signaled \in BOOLEAN /\ model \in Rows
  /\ changes \in Nat /\ reloads \in Nat

(* The client waits for nothing and nothing is on its way to it. *)
Quiet == /\ ~exchange /\ others = "idle" /\ ~fetching
         /\ up = {} /\ down = {} /\ signals = 0

(* When the client has nothing to wait for, so that it polls no more, its  *)
(* rows are those of the table of the current project: no update is left   *)
(* in a content of the server, none was applied too late, whatever project *)
(* was cleared, removed or made current between the pages.                 *)
InSync == Quiet /\ listening => model = table[current]

(* Nothing the client misses is forgotten: its rows, then the answer on    *)
(* its way, then the updates that the server keeps, give the table.        *)
Arrived == IF data = NoData THEN model
           ELSE Apply(data.updates, IF data.reload THEN NoRows ELSE model)
Covered == listening /\ ~Content.cleared /\ "RELOAD" \notin up
             => Apply(Content.updates, Arrived) = table[current]

(* What was kept for a project is never given after another one was        *)
(* current: all contents but the one in use are to be fetched again.       *)
OthersCleared == listening => \A p \in Projects \ {cached} : contents[p].cleared

(* As soon as it listens, and each time the rows differ from the table,    *)
(* the client gets them: a signal lost between two pages or a reload in    *)
(* the middle of a fetch would leave it behind for ever.                   *)
Converges == listening ~> (model = table[current])
=============================================================================
