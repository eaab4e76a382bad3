-------------------------- MODULE SyncArraysProofs --------------------------
(* Theorems about SyncArrays, for any projects, keys and size of a page.   *)
EXTENDS SyncArrays, TLAPS

Slots == Projects \cup {Detached}

(* What an action may do to the state is typed by the operators it uses. *)
LEMMA SlotType == TypeOK => Slot \in Slots /\ Content \in Contents
BY SyncAssumption DEF TypeOK, Slots, Slot, Content, Contents, Cleared, NoUpdates, Updates

LEMMA Constants == /\ NoRows \in Rows /\ NoUpdates \in Updates
                   /\ NoContent \in Contents /\ Cleared \in Contents /\ NoData \in Answers
BY DEF NoRows, Rows, NoUpdates, Updates, NoContent, Cleared, Contents, NoData, Answers

(* A content set in a slot leaves the others as they are. *)
LEMMA SetsType ==
  ASSUME TypeOK, NEW c \in Contents, Sets(c)
  PROVE  /\ contents' \in [Slots -> Contents] /\ cached' = Slot /\ cached' \in Slots
         /\ contents'[Slot] = c
         /\ \A s \in Slots \ {Slot} : contents'[s] = contents[s]
<1>1. Slot \in Slots /\ contents \in [Slots -> Contents]
  BY SlotType DEF TypeOK, Slots
<1>2. QED BY <1>1 DEF Sets

LEMMA EmitsType ==
  ASSUME TypeOK, NEW answers \in SUBSET {"FETCH", "RELOAD", "DONE"}, Emits(answers)
  PROVE  /\ q_out' \subseteq {"SIGNAL", "FETCH", "RELOAD", "DONE"} /\ s_pending' \in BOOLEAN
         /\ listening => "SIGNAL" \in q_out'
         /\ q_out' \ {"SIGNAL"} = (q_out \ {"SIGNAL"}) \cup answers
BY DEF TypeOK, Emits

(* The content after an update of a row. *)
LEMMA NotedType == ASSUME TypeOK, NEW k \in Keys, NEW u \in Values \cup {None}
                   PROVE  Noted(k, u) \in Contents
<1>1. Content \in Contents BY SlotType
<1>2. [Content.updates EXCEPT ![k] = u] \in Updates
  BY <1>1 DEF Contents, Updates
<1>3. QED BY <1>1, <1>2 DEF Noted, Pending, Contents

(* The content and the answer after a page. *)
LEMMA PageType == ASSUME TypeOK, NEW sent
                  PROVE  /\ Pending(Rest(sent)) \in Contents /\ PageOf(sent) \in Answers
                         /\ PageOf(sent) # NoData
<1>1. Content \in Contents /\ table[current] \in Rows
  BY SlotType DEF TypeOK
<1>2. \A k \in Keys : Entry(k) \in Values \cup {None, Same}
  BY <1>1 DEF Entry, Rows, Contents, Updates
<1>3. Rest(sent) \in Updates
  BY <1>1, <1>2 DEF Rest, Contents, Updates
<1>4. [k \in Keys |-> IF k \in sent THEN Entry(k) ELSE Same] \in Updates
  BY <1>2 DEF Updates
<1>5. Pending(Rest(sent)) \in Contents BY <1>3 DEF Pending, Contents
<1>6. PageOf(sent) \in Answers BY <1>1, <1>4 DEF PageOf, Answers, Contents
<1>7. PageOf(sent) # NoData BY DEF PageOf, NoData
<1>8. QED BY <1>5, <1>6, <1>7

(* The hooks of projects keep the types of the contents. *)
LEMMA HookTypes ==
  ASSUME TypeOK, NEW cs \in [Slots -> Contents], NEW s \in Slots, NEW p \in Projects
  PROVE  /\ Updated(cs, s) \in [Slots -> Contents]
         /\ [cs EXCEPT ![Detached] = NoContent] \in [Slots -> Contents]
         /\ Cleaned(p) \in [Slots -> Contents] /\ CleanedCache(p) \in Slots \cup {NoProject}
BY Constants DEF TypeOK, Slots, Updated, Cleaned, CleanedCache

LEMMA ApplyType == ASSUME NEW updates \in Updates, NEW rows \in Rows
                   PROVE  Apply(updates, rows) \in Rows
BY SyncAssumption DEF Apply, Updates, Rows

-----------------------------------------------------------------------------
(* Types *)

LEMMA InitType == Init => TypeOK
<1> SUFFICES ASSUME Init PROVE TypeOK
  OBVIOUS
<1>1. /\ table \in [Projects -> Rows] /\ live \subseteq Projects /\ current \in live
      /\ cached \in Projects \cup {Detached, NoProject}
  BY DEF Init
<1>2. contents \in [Projects \cup {Detached} -> Contents]
  BY Constants DEF Init
<1>3. /\ listening \in BOOLEAN /\ s_pending \in BOOLEAN /\ exchange \in BOOLEAN
      /\ active \in BOOLEAN /\ fetching \in BOOLEAN /\ signaled \in BOOLEAN
  BY DEF Init
<1>4. /\ others \in {"idle", "running", "answered"}
      /\ up = {} /\ q_out = {} /\ down = {} /\ signals = 0 /\ changes = 0 /\ reloads = 0
  BY DEF Init
<1>5. data \in Answers /\ model \in Rows
  BY Constants DEF Init
<1>6. QED BY <1>1, <1>2, <1>3, <1>4, <1>5 DEF TypeOK

LEMMA ChangeType == TypeOK /\ Change => /\ changes' \in Nat
                                       /\ UNCHANGED <<listening, exchange, others, up, down,
                                                      signals, data, client, reloads>>
BY DEF TypeOK, Change

LEMMA PutType == ASSUME TypeOK, NEW k \in Keys, NEW u \in Values \cup {None}, Put(k, u)
                 PROVE  TypeOK'
<1>1. table' \in [Projects -> Rows]
  BY DEF Put, Written, TypeOK, Rows
<1>2. /\ contents' \in [Slots -> Contents] /\ cached' \in Slots \cup {NoProject}
      /\ q_out' \subseteq {"SIGNAL", "FETCH", "RELOAD", "DONE"} /\ s_pending' \in BOOLEAN
  <2>1. CASE listening
    BY <2>1, NotedType, SetsType, EmitsType DEF Put, update
  <2>2. CASE ~listening
    BY <2>2 DEF Put, TypeOK, array, Slots
  <2>3. QED BY <2>1, <2>2
<1>3. QED BY <1>1, <1>2, ChangeType DEF Put, TypeOK, client, Slots

LEMMA ClearTableType == ASSUME TypeOK, ClearTable PROVE TypeOK'
<1>1. table' \in [Projects -> Rows]
  BY Constants DEF ClearTable, Written, TypeOK
<1>2. /\ contents' \in [Slots -> Contents] /\ cached' \in Slots \cup {NoProject}
      /\ q_out' \subseteq {"SIGNAL", "FETCH", "RELOAD", "DONE"} /\ s_pending' \in BOOLEAN
  <2>1. CASE listening
    BY <2>1, Constants, SetsType, EmitsType DEF ClearTable, reload
  <2>2. CASE ~listening
    BY <2>2 DEF ClearTable, TypeOK, array, Slots
  <2>3. QED BY <2>1, <2>2
<1>3. QED BY <1>1, <1>2, ChangeType DEF ClearTable, TypeOK, client, Slots

(* The signal of the array, emitted or not. *)
LEMMA MayEmitType ==
  ASSUME TypeOK, NEW told \in BOOLEAN, IF told THEN Emits({}) ELSE UNCHANGED <<q_out, s_pending>>
  PROVE  /\ q_out' \subseteq {"SIGNAL", "FETCH", "RELOAD", "DONE"} /\ s_pending' \in BOOLEAN
         /\ q_out \subseteq q_out' /\ q_out' \subseteq q_out \cup {"SIGNAL"}
         /\ told /\ listening => "SIGNAL" \in q_out'
BY DEF TypeOK, Emits

LEMMA SetCurrentType == ASSUME TypeOK, NEW p \in Projects, set_current(p) PROVE TypeOK'
<1>1. contents' \in [Slots -> Contents]
  <2>1. (IF cached = NoProject THEN p ELSE cached) \in Slots
    BY DEF TypeOK, Slots
  <2>2. Updated(contents, IF cached = NoProject THEN p ELSE cached) \in [Slots -> Contents]
    BY <2>1, HookTypes DEF TypeOK, Slots
  <2>3. QED BY <2>2, HookTypes DEF set_current
<1>2. current' \in live /\ live' = live /\ table' = table /\ cached' = NoProject
  BY DEF set_current
<1>3. q_out' \subseteq {"SIGNAL", "FETCH", "RELOAD", "DONE"} /\ s_pending' \in BOOLEAN
  BY MayEmitType DEF set_current, TypeOK
<1>4. QED BY <1>1, <1>2, <1>3, ChangeType DEF set_current, TypeOK, client, Slots

LEMMA RemoveType == ASSUME TypeOK, NEW p \in Projects, remove(p) PROVE TypeOK'
<1>1. /\ table' \in [Projects -> Rows] /\ live' \subseteq Projects /\ current' \in live'
  BY Constants DEF remove, TypeOK
<1>2. /\ contents' \in [Slots -> Contents] /\ cached' \in Slots \cup {NoProject}
      /\ q_out' \subseteq {"SIGNAL", "FETCH", "RELOAD", "DONE"} /\ s_pending' \in BOOLEAN
  <2>1. CASE p # current
    BY <2>1, HookTypes DEF remove, TypeOK, Slots
  <2>2. CASE p = current
    <3>1. PICK q \in live \ {p} :
            LET slot == IF cached = NoProject THEN q ELSE CleanedCache(p)
            IN  /\ contents' = Updated(Cleaned(p), slot)
                /\ cached' = IF listening /\ ~Shared THEN slot ELSE CleanedCache(p)
                /\ IF listening /\ ~Shared THEN Emits({}) ELSE UNCHANGED <<q_out, s_pending>>
      BY <2>2 DEF remove
    <3>2. (IF cached = NoProject THEN q ELSE CleanedCache(p)) \in Slots
      BY DEF TypeOK, Slots, CleanedCache
    <3>3. Cleaned(p) \in [Slots -> Contents] /\ CleanedCache(p) \in Slots \cup {NoProject}
      BY HookTypes DEF TypeOK, Slots
    <3>4. Updated(Cleaned(p), IF cached = NoProject THEN q ELSE CleanedCache(p))
            \in [Slots -> Contents]
      BY <3>2, <3>3, HookTypes
    <3>5. q_out' \subseteq {"SIGNAL", "FETCH", "RELOAD", "DONE"} /\ s_pending' \in BOOLEAN
      BY <3>1, MayEmitType, SyncAssumption DEF TypeOK
    <3>6. QED BY <3>1, <3>2, <3>3, <3>4, <3>5
  <2>3. QED BY <2>1, <2>2
<1>3. QED BY <1>1, <1>2, ChangeType DEF remove, TypeOK, client, Slots

LEMMA ClearType == ASSUME TypeOK, NEW p \in Projects, clear(p) PROVE TypeOK'
<1>1. table' \in [Projects -> Rows] /\ UNCHANGED <<current, live>>
  BY Constants DEF clear, TypeOK
<1> DEFINE slot == IF cached = NoProject THEN current ELSE CleanedCache(p)
           told == listening /\ ~Shared /\ p = current
<1>2. /\ contents' = IF told THEN Updated(Cleaned(p), slot) ELSE Cleaned(p)
      /\ cached' = IF told THEN slot ELSE CleanedCache(p)
      /\ IF told THEN Emits({}) ELSE UNCHANGED <<q_out, s_pending>>
  BY DEF clear
<1>3. slot \in Slots
  BY DEF TypeOK, Slots, CleanedCache
<1>4. Cleaned(p) \in [Slots -> Contents] /\ CleanedCache(p) \in Slots \cup {NoProject}
  BY HookTypes DEF TypeOK, Slots
<1>5. Updated(Cleaned(p), slot) \in [Slots -> Contents]
  BY <1>3, <1>4, HookTypes
<1>6. q_out' \subseteq {"SIGNAL", "FETCH", "RELOAD", "DONE"} /\ s_pending' \in BOOLEAN
  BY <1>2, MayEmitType, SyncAssumption DEF TypeOK
<1>7. /\ contents' \in [Slots -> Contents] /\ cached' \in Slots \cup {NoProject}
  BY <1>2, <1>3, <1>4, <1>5
<1>8. QED BY <1>1, <1>6, <1>7, ChangeType DEF clear, TypeOK, client, Slots

(* The client's fetch: FETCH is sent, or the signal is noted. *)
LEMMA FetchType ==
  ASSUME TypeOK, NEW requests \in SUBSET {"SIGON", "FETCH", "RELOAD"}, Fetch(requests)
  PROVE  /\ up' \subseteq {"SIGON", "FETCH", "RELOAD"} /\ fetching' = TRUE
         /\ signaled' \in BOOLEAN /\ signaled' = fetching
         /\ up' = up \cup requests \cup (IF fetching THEN {} ELSE {"FETCH"})
BY DEF TypeOK, Fetch

LEMMA TypeStep == TypeOK /\ [Next]_vars => TypeOK'
<1> SUFFICES ASSUME TypeOK, [Next]_vars PROVE TypeOK'
  OBVIOUS
<1> USE DEF tables, array, server, network, client
<1>1. ASSUME NEW k \in Keys, NEW u \in Values \cup {None}, Put(k, u) PROVE TypeOK'
  BY <1>1, PutType
<1>2. CASE ClearTable
  BY <1>2, ClearTableType
<1>3. ASSUME NEW p \in Projects, set_current(p) \/ remove(p) \/ clear(p) PROVE TypeOK'
  BY <1>3, SetCurrentType, RemoveType, ClearType
<1>4. CASE End \/ Start \/ Open
  BY <1>4 DEF TypeOK, End, Start, Open
<1>5. CASE online
  BY <1>5, FetchType DEF TypeOK, online
<1>6. CASE reloadArray
  <2>1. /\ model' \in Rows /\ signaled' = FALSE /\ reloads' = reloads + 1
        /\ up' = up \cup {"RELOAD"}
    BY <1>6, Constants DEF reloadArray
  <2>2. up' \subseteq {"SIGON", "FETCH", "RELOAD"} /\ reloads' \in Nat
    BY <2>1 DEF TypeOK
  <2>3. UNCHANGED <<table, current, live, contents, cached, listening, s_pending, exchange,
                    others, q_out, down, signals, data, active, fetching, changes>>
    BY <1>6 DEF reloadArray
  <2>4. QED BY <2>1, <2>2, <2>3 DEF TypeOK
<1>7. CASE ServeSigOn
  <2>1. contents' \in [Slots -> Contents]
    BY <1>7, Constants DEF ServeSigOn, Slots
  <2>2. QED BY <1>7, <2>1 DEF TypeOK, ServeSigOn, Served, Slots
<1>8. CASE ServeFetch
  <2>1. PICK sent \in Pages : Served("FETCH") /\ fetch(sent) /\ UNCHANGED listening
    BY <1>8 DEF ServeFetch
  <2>2. contents' \in [Slots -> Contents] /\ cached' \in Slots /\ data' \in Answers
    BY <2>1, PageType, SetsType DEF fetch
  <2>3. q_out' \subseteq {"SIGNAL", "FETCH", "RELOAD", "DONE"} /\ s_pending' \in BOOLEAN
    BY <2>1, EmitsType DEF fetch, TypeOK
  <2>4. QED BY <2>1, <2>2, <2>3 DEF TypeOK, Served, Slots
<1>9. CASE ServeReload
  <2>1. contents' \in [Slots -> Contents] /\ cached' \in Slots
    BY <1>9, Constants, SetsType DEF ServeReload
  <2>2. q_out' \subseteq {"SIGNAL", "FETCH", "RELOAD", "DONE"} /\ s_pending' \in BOOLEAN
    BY <1>9, EmitsType DEF ServeReload
  <2>3. QED BY <1>9, <2>1, <2>2 DEF TypeOK, ServeReload, Served, Slots
<1>10. CASE Close
  <2>1. /\ exchange' = FALSE /\ q_out' = {} /\ signals' \in Nat
        /\ down' \subseteq {"FETCH", "RELOAD", "DONE"}
    BY <1>10 DEF TypeOK, Close
  <2>2. UNCHANGED <<table, current, live, contents, cached, listening, s_pending, others, up,
                    data, active, fetching, signaled, model, changes, reloads>>
    BY <1>10 DEF Close
  <2>3. QED BY <2>1, <2>2 DEF TypeOK
<1>11. CASE ReceiveSignal
  <2>1. /\ up' \subseteq {"SIGON", "FETCH", "RELOAD"} /\ fetching' = TRUE
        /\ signaled' \in BOOLEAN
    BY <1>11, FetchType DEF ReceiveSignal
  <2>2. signals' \in Nat
    BY <1>11 DEF TypeOK, ReceiveSignal
  <2>3. UNCHANGED <<table, current, live, contents, cached, listening, s_pending, exchange,
                    others, q_out, down, data, active, model, changes, reloads>>
    BY <1>11 DEF ReceiveSignal
  <2>4. QED BY <2>1, <2>2, <2>3 DEF TypeOK
<1>12. CASE ReceiveDone
  BY <1>12 DEF TypeOK, ReceiveDone
<1>13. CASE ReceiveFetch
  <2>1. model' \in Rows
    BY <1>13, Constants, ApplyType DEF ReceiveFetch, TypeOK, Answers
  <2>2. QED BY <1>13, <2>1, Constants DEF TypeOK, ReceiveFetch
<1>14. CASE ReceiveReload
  BY <1>14, FetchType DEF TypeOK, ReceiveReload
<1>15. CASE UNCHANGED vars
  <2>1. UNCHANGED <<table, current, live, contents, cached, listening, s_pending, exchange,
                    others, up, q_out, down, signals, data, active, fetching, signaled, model,
                    changes, reloads>>
    BY <1>15 DEF vars
  <2>2. QED BY <2>1 DEF TypeOK
<1>16. QED
  BY <1>1, <1>2, <1>3, <1>4, <1>5, <1>6, <1>7, <1>8, <1>9, <1>10, <1>11, <1>12, <1>13, <1>14,
     <1>15 DEF Next, Serve, Receives

(* Every variable keeps its type; in particular the current project is one *)
(* that exists.                                                            *)
THEOREM TypeCorrect == Spec => []TypeOK
BY InitType, TypeStep, PTL DEF Spec

-----------------------------------------------------------------------------
(* The contents: array.current is the content of the current project, or   *)
(* one that is in no project; what is cleared has no updates.              *)
Proper(c) == /\ c.cleared => c.updates = NoUpdates
             /\ ~c.exists => c.cleared
CacheInv == /\ cached \in {NoProject, current, Detached}
            /\ cached # NoProject => contents[cached].exists
            /\ \A s \in Slots : Proper(contents[s])
ArrayInv == TypeOK /\ CacheInv /\ OthersCleared

LEMMA ProperOnes == Proper(NoContent) /\ Proper(Cleared) /\ \A u : Proper(Pending(u))
BY DEF Proper, NoContent, Cleared, Pending

LEMMA ContentIs ==
  ASSUME ArrayInv
  PROVE  /\ Content.cleared = contents[Slot].cleared /\ Content.updates = contents[Slot].updates
         /\ Proper(Content) /\ Content.exists
<1>1. Slot \in Slots /\ Proper(contents[Slot]) /\ contents[Slot] \in Contents
  BY SlotType DEF ArrayInv, CacheInv, TypeOK, Slots
<1>2. QED BY <1>1 DEF Content, Proper, Cleared, Contents

(* Setting a content in use keeps the invariant. *)
LEMMA SetsInv ==
  ASSUME ArrayInv, NEW c \in Contents, Proper(c), c.exists, Sets(c),
         UNCHANGED <<current, listening>>
  PROVE  CacheInv' /\ OthersCleared'
<1>1. /\ contents' \in [Slots -> Contents] /\ cached' = Slot /\ contents'[Slot] = c
      /\ \A s \in Slots \ {Slot} : contents'[s] = contents[s]
  BY SetsType DEF ArrayInv
<1>2. Slot \in {current, Detached}
  BY DEF ArrayInv, CacheInv, Slot
<1>3. CacheInv'
  BY <1>1, <1>2 DEF ArrayInv, CacheInv, Proper
<1>4. OthersCleared'
  <2> SUFFICES ASSUME listening, NEW p \in Projects \ {Slot} PROVE contents'[p].cleared
    BY <1>1 DEF OthersCleared
  <2>1. p # cached
    BY SyncAssumption DEF Slot
  <2>2. contents[p].cleared
    BY <2>1 DEF ArrayInv, OthersCleared
  <2>3. QED BY <1>1, <2>2 DEF Slots
<1>5. QED BY <1>3, <1>4

LEMMA CleanedInv ==
  ASSUME ArrayInv, NEW p \in Projects
  PROVE  /\ Cleaned(p) \in [Slots -> Contents] /\ \A s \in Slots : Proper(Cleaned(p)[s])
         /\ Cleaned(p)[p] = NoContent
         /\ cached # NoProject => Cleaned(p)[CleanedCache(p)].exists
         /\ \A q \in Projects \ {p} : Cleaned(p)[q] = contents[q]
         /\ cached # p => Cleaned(p)[Detached] = contents[Detached]
         /\ CleanedCache(p) = IF cached = p THEN Detached ELSE cached
<1>1. Cleaned(p) \in [Slots -> Contents]
  BY HookTypes DEF ArrayInv, TypeOK, Slots
<1>2. contents \in [Slots -> Contents] /\ Detached \in Slots /\ p \in Slots /\ p # Detached
  BY SyncAssumption DEF ArrayInv, TypeOK, Slots
<1>3. /\ Cleaned(p)[p] = NoContent
      /\ \A q \in Projects \ {p} : Cleaned(p)[q] = contents[q]
      /\ Cleaned(p)[Detached] = IF cached = p THEN contents[p] ELSE contents[Detached]
  BY <1>2, SyncAssumption DEF Cleaned, Slots
<1>4. \A s \in Slots : Proper(Cleaned(p)[s])
  BY <1>2, <1>3, ProperOnes DEF ArrayInv, CacheInv, Slots
<1>5. cached # NoProject => Cleaned(p)[CleanedCache(p)].exists
  <2> SUFFICES ASSUME cached # NoProject PROVE Cleaned(p)[CleanedCache(p)].exists
    OBVIOUS
  <2>1. contents[cached].exists /\ cached \in Slots
    BY DEF ArrayInv, CacheInv, TypeOK, Slots
  <2>2. CASE cached = p BY <2>1, <2>2, <1>3 DEF CleanedCache
  <2>3. CASE cached # p
    <3>1. CleanedCache(p) = cached BY <2>3 DEF CleanedCache
    <3>2. Cleaned(p)[cached] = contents[cached]
      BY <1>3, <2>1, <2>3 DEF Slots
    <3>3. QED BY <3>1, <3>2, <2>1
  <2>4. QED BY <2>2, <2>3
<1>6. QED BY <1>1, <1>3, <1>4, <1>5 DEF CleanedCache

(* The table tells, or not, that the state of the current project is set. *)
LEMMA UpdatedInv ==
  ASSUME ~Shared, NEW cs \in [Slots -> Contents], NEW s \in Slots,
         \A t \in Slots : Proper(cs[t])
  PROVE  /\ Updated(cs, s) \in [Slots -> Contents]
         /\ \A t \in Slots : Proper(Updated(cs, s)[t])
         /\ listening => Updated(cs, s)[s] = Cleared
         /\ \A t \in Slots \ {s} : Updated(cs, s)[t] = cs[t]
         /\ ~listening => Updated(cs, s) = cs
BY Constants, ProperOnes DEF Updated

LEMMA NotedIs ==
  ASSUME ArrayInv, NEW k \in Keys, NEW u \in Values \cup {None}
  PROVE  Noted(k, u) \in Contents /\ Proper(Noted(k, u)) /\ Noted(k, u).exists
<1>1. Noted(k, u) \in Contents BY NotedType DEF ArrayInv
<1>2. QED BY <1>1, ContentIs, ProperOnes DEF Noted, Pending

LEMMA SetCurrentArray ==
  ASSUME ArrayInv, ~Shared, NEW p \in Projects, set_current(p)
  PROVE  /\ CacheInv' /\ OthersCleared'
         /\ listening => contents'[p].cleared /\ cached' = NoProject /\ current' = p
<1> DEFINE s == IF cached = NoProject THEN p ELSE cached
           cs == Updated(contents, s)
<1>1. /\ current' = p /\ p # current /\ cached' = NoProject
      /\ contents' = [cs EXCEPT ![Detached] = NoContent] /\ listening' = listening
  BY DEF set_current, Change
<1>2. /\ contents \in [Slots -> Contents] /\ s \in Slots
      /\ \A t \in Slots : Proper(contents[t])
  BY DEF ArrayInv, TypeOK, CacheInv, Slots
<1>3. /\ cs \in [Slots -> Contents] /\ \A t \in Slots : Proper(cs[t])
      /\ listening => cs[s] = Cleared /\ \A t \in Slots \ {s} : cs[t] = contents[t]
  BY <1>2, UpdatedInv
<1>4. \A q \in Projects : contents'[q] = cs[q] /\ q # Detached
  BY <1>1, <1>3, SyncAssumption DEF Slots
<1>5. CacheInv'
  BY <1>1, <1>3, ProperOnes DEF CacheInv, Slots
<1>6. ASSUME listening, NEW q \in Projects PROVE contents'[q].cleared
  <2>1. CASE q = s
    BY <1>3, <1>4, <1>6, <2>1 DEF Cleared
  <2>2. CASE q # s
    <3>1. contents'[q] = contents[q]
      BY <1>3, <1>4, <1>6, <2>2 DEF Slots
    <3>2. q # cached
      BY <2>2, SyncAssumption
    <3>3. QED BY <1>6, <3>1, <3>2 DEF ArrayInv, OthersCleared
  <2>3. QED BY <2>1, <2>2
<1>7. QED BY <1>1, <1>5, <1>6 DEF OthersCleared

LEMMA RemoveArray ==
  ASSUME ArrayInv, ~Shared, NEW p \in Projects, remove(p)
  PROVE  /\ CacheInv' /\ OthersCleared'
         /\ p = current => (listening => contents'[Slot'].cleared)
         /\ p # current => /\ current' = current /\ Slot' = Slot
                            /\ contents'[Slot] = contents[Slot]
<1>1. /\ CleanedCache(p) = (IF cached = p THEN Detached ELSE cached)
      /\ Cleaned(p) \in [Slots -> Contents] /\ \A s \in Slots : Proper(Cleaned(p)[s])
      /\ Cleaned(p)[p] = NoContent
      /\ cached # NoProject => Cleaned(p)[CleanedCache(p)].exists
      /\ \A q \in Projects \ {p} : Cleaned(p)[q] = contents[q]
      /\ cached # p => Cleaned(p)[Detached] = contents[Detached]
  BY CleanedInv
<1>2. listening' = listening
  BY DEF remove, Change
<1>3. current \in Projects /\ cached \in {NoProject, current, Detached}
  BY DEF ArrayInv, TypeOK, CacheInv
<1>4. ASSUME listening, NEW q \in Projects, q # cached PROVE Cleaned(p)[q].cleared
  <2>1. CASE q = p BY <2>1, <1>1 DEF NoContent
  <2>2. CASE q # p
    BY <2>2, <1>1, <1>4 DEF ArrayInv, OthersCleared
  <2>3. QED BY <2>1, <2>2
<1>5. CASE p # current
  <2>1. cached # p
    BY <1>3, <1>5, SyncAssumption
  <2>2. contents' = Cleaned(p) /\ cached' = cached /\ current' = current
    BY <1>5, <2>1, <1>1 DEF remove
  <2>3. CacheInv'
    BY <1>1, <1>3, <2>1, <2>2 DEF CacheInv
  <2>4. OthersCleared'
    BY <1>2, <1>4, <2>2 DEF OthersCleared
  <2>5. Slot' = Slot /\ contents'[Slot] = contents[Slot]
    BY <1>1, <1>3, <1>5, <2>1, <2>2 DEF Slot
  <2>6. QED BY <1>5, <2>2, <2>3, <2>4, <2>5
<1>6. CASE p = current
  <2>1. PICK q \in live \ {p} :
          LET slot == IF cached = NoProject THEN q ELSE CleanedCache(p)
          IN  /\ current' = q
              /\ contents' = Updated(Cleaned(p), slot)
              /\ cached' = IF listening /\ ~Shared THEN slot ELSE CleanedCache(p)
    BY <1>6 DEF remove
  <2> DEFINE slot == IF cached = NoProject THEN q ELSE CleanedCache(p)
  <2>2. q \in Projects /\ slot \in {q, Detached} /\ slot \in Slots
        /\ CleanedCache(p) \in {NoProject, Detached}
    BY <1>1, <1>3, <1>6 DEF ArrayInv, TypeOK, Slots
  <2>3. /\ contents' \in [Slots -> Contents] /\ \A t \in Slots : Proper(contents'[t])
        /\ listening => contents'[slot] = Cleared
        /\ \A t \in Slots \ {slot} : contents'[t] = Cleaned(p)[t]
        /\ ~listening => contents' = Cleaned(p)
    BY <1>1, <2>1, <2>2, UpdatedInv
  <2>4. CASE listening
    <3>1. cached' = slot /\ current' = q
      BY <2>1, <2>4
    <3>2. contents'[slot] = Cleared /\ Cleared.exists /\ Cleared.cleared
      BY <2>3, <2>4 DEF Cleared
    <3>3. CacheInv'
      BY <2>2, <2>3, <3>1, <3>2 DEF CacheInv
    <3>4. ASSUME NEW t \in Projects \ {slot} PROVE contents'[t].cleared
      <4>1. contents'[t] = Cleaned(p)[t]
        BY <2>3 DEF Slots
      <4>2. CASE t = p BY <4>1, <4>2, <1>1 DEF NoContent
      <4>3. CASE t # p
        <5>1. t # cached
          BY <1>3, <1>6, <4>3, SyncAssumption
        <5>2. QED BY <4>1, <5>1, <1>4, <2>4
      <4>4. QED BY <4>2, <4>3
    <3>5. OthersCleared'
      BY <3>1, <3>4 DEF OthersCleared
    <3>6. Slot' = slot
      BY <2>2, <3>1, SyncAssumption DEF Slot
    <3>7. QED BY <1>6, <3>2, <3>3, <3>5, <3>6
  <2>5. CASE ~listening
    <3>1. cached' = CleanedCache(p) /\ contents' = Cleaned(p) /\ current' = q
      BY <2>1, <2>3, <2>5
    <3>2. cached' # NoProject => cached # NoProject
      BY <3>1, <1>1, SyncAssumption
    <3>3. CacheInv'
      BY <1>1, <2>2, <2>3, <3>1, <3>2 DEF CacheInv
    <3>4. QED BY <1>2, <1>6, <2>5, <3>3 DEF OthersCleared
  <2>6. QED BY <2>4, <2>5
<1>7. QED BY <1>5, <1>6

LEMMA ClearArray ==
  ASSUME ArrayInv, ~Shared, NEW p \in Projects, clear(p)
  PROVE  /\ CacheInv' /\ OthersCleared' /\ current' = current
         /\ p = current => (listening => contents'[Slot'].cleared)
         /\ p # current => Slot' = Slot /\ contents'[Slot] = contents[Slot]
<1> DEFINE slot == IF cached = NoProject THEN current ELSE CleanedCache(p)
           told == listening /\ p = current
<1>1. /\ CleanedCache(p) = (IF cached = p THEN Detached ELSE cached)
      /\ Cleaned(p) \in [Slots -> Contents] /\ \A s \in Slots : Proper(Cleaned(p)[s])
      /\ Cleaned(p)[p] = NoContent
      /\ cached # NoProject => Cleaned(p)[CleanedCache(p)].exists
      /\ \A q \in Projects \ {p} : Cleaned(p)[q] = contents[q]
      /\ cached # p => Cleaned(p)[Detached] = contents[Detached]
  BY CleanedInv
<1>2. /\ listening' = listening /\ current' = current
      /\ contents' = IF told THEN Updated(Cleaned(p), slot) ELSE Cleaned(p)
      /\ cached' = IF told THEN slot ELSE CleanedCache(p)
  BY DEF clear, Change
<1>3. /\ current \in Projects /\ cached \in {NoProject, current, Detached}
      /\ slot \in {current, Detached} /\ slot \in Slots
  BY <1>1 DEF ArrayInv, TypeOK, CacheInv, Slots
<1>4. ASSUME listening, NEW q \in Projects, q # cached PROVE Cleaned(p)[q].cleared
  <2>1. CASE q = p BY <2>1, <1>1 DEF NoContent
  <2>2. CASE q # p
    BY <2>2, <1>1, <1>4 DEF ArrayInv, OthersCleared
  <2>3. QED BY <2>1, <2>2
<1>5. CASE told
  <2>1. /\ contents' \in [Slots -> Contents] /\ \A t \in Slots : Proper(contents'[t])
        /\ contents'[slot] = Cleared /\ cached' = slot
        /\ \A t \in Slots \ {slot} : contents'[t] = Cleaned(p)[t]
    BY <1>1, <1>2, <1>3, <1>5, UpdatedInv
  <2>2. Cleared.exists /\ Cleared.cleared
    BY DEF Cleared
  <2>3. CacheInv'
    BY <1>2, <1>3, <2>1, <2>2 DEF CacheInv
  <2>4. ASSUME NEW t \in Projects \ {slot} PROVE contents'[t].cleared
    <3>1. contents'[t] = Cleaned(p)[t]
      BY <2>1 DEF Slots
    <3>2. CASE t = p BY <3>1, <3>2, <1>1 DEF NoContent
    <3>3. CASE t # p
      <4>1. t # cached
        BY <1>3, <1>5, <3>3, SyncAssumption
      <4>2. QED BY <3>1, <4>1, <1>4, <1>5
    <3>4. QED BY <3>2, <3>3
  <2>5. OthersCleared'
    BY <2>1, <2>4 DEF OthersCleared
  <2>6. Slot' = slot
    BY <1>3, <2>1, SyncAssumption DEF Slot
  <2>7. QED BY <1>2, <1>5, <2>1, <2>2, <2>3, <2>5, <2>6
<1>6. CASE ~told
  <2>1. contents' = Cleaned(p) /\ cached' = CleanedCache(p)
    BY <1>2, <1>6
  <2>2. cached' \in {NoProject, current, Detached}
    BY <1>1, <1>3, <2>1
  <2>3. cached' # NoProject => cached # NoProject
    BY <1>1, <2>1, SyncAssumption
  <2>4. CacheInv'
    BY <1>1, <1>2, <2>1, <2>2, <2>3 DEF CacheInv
  <2>5. ASSUME p # current
        PROVE  OthersCleared' /\ Slot' = Slot /\ contents'[Slot] = contents[Slot]
    <3>1. cached # p /\ cached' = cached
      BY <1>1, <1>3, <2>1, <2>5, SyncAssumption
    <3>2. OthersCleared'
      BY <1>2, <1>4, <2>1, <3>1 DEF OthersCleared
    <3>3. QED BY <1>1, <1>2, <1>3, <2>1, <2>5, <3>1, <3>2 DEF Slot
  <2>6. p = current => ~listening /\ OthersCleared'
    BY <1>2, <1>6 DEF OthersCleared
  <2>7. QED BY <1>2, <2>4, <2>5, <2>6
<1>7. QED BY <1>5, <1>6

LEMMA ArrayStep ==
  ASSUME ArrayInv, ~Shared, [Next]_vars
  PROVE  CacheInv' /\ OthersCleared'
<1> USE DEF tables, array, server, network, client
<1> DEFINE Same4 == UNCHANGED <<contents, cached, current, listening>>
<1>1. Same4 => CacheInv' /\ OthersCleared'
  BY DEF ArrayInv, CacheInv, OthersCleared
<1>2. ASSUME NEW k \in Keys, NEW u \in Values \cup {None}, Put(k, u)
      PROVE  CacheInv' /\ OthersCleared'
  <2>1. UNCHANGED <<current, listening>>
    BY <1>2 DEF Put, Change
  <2>2. CASE listening
    BY <1>2, <2>1, <2>2, NotedIs, SetsInv DEF Put, update
  <2>3. CASE ~listening
    BY <1>1, <1>2, <2>1, <2>3 DEF Put
  <2>4. QED BY <2>2, <2>3
<1>3. CASE ClearTable
  <2>1. UNCHANGED <<current, listening>>
    BY <1>3 DEF ClearTable, Change
  <2>2. CASE listening
    <3>1. Cleared.exists BY DEF Cleared
    <3>2. QED BY <1>3, <2>1, <2>2, <3>1, Constants, ProperOnes, SetsInv DEF ClearTable, reload
  <2>3. CASE ~listening
    BY <1>1, <1>3, <2>1, <2>3 DEF ClearTable
  <2>4. QED BY <2>2, <2>3
<1>4. ASSUME NEW p \in Projects, set_current(p) \/ remove(p) \/ clear(p)
      PROVE  CacheInv' /\ OthersCleared'
  BY <1>4, SetCurrentArray, RemoveArray, ClearArray
<1>5. CASE ServeSigOn
  <2>1. /\ contents' = [p \in Slots |-> NoContent] /\ cached' = NoProject
    BY <1>5 DEF ServeSigOn, Slots
  <2>2. NoContent.cleared BY DEF NoContent
  <2>3. QED BY <2>1, <2>2, ProperOnes DEF CacheInv, OthersCleared, Slots
<1>6. CASE ServeFetch
  <2>1. PICK sent \in Pages : Served("FETCH") /\ fetch(sent) /\ UNCHANGED listening
    BY <1>6 DEF ServeFetch
  <2>2. Pending(Rest(sent)).exists BY DEF Pending
  <2>3. QED BY <2>1, <2>2, PageType, ProperOnes, SetsInv DEF ArrayInv, fetch, Served
<1>7. CASE ServeReload
  <2>1. Cleared.exists BY DEF Cleared
  <2>2. QED BY <1>7, <2>1, Constants, ProperOnes, SetsInv DEF ServeReload, Served
<1>8. CASE End \/ Start \/ Open \/ online \/ reloadArray
  BY <1>1, <1>8 DEF End, Start, Open, online, reloadArray
<1>9. CASE Close \/ Receives
  BY <1>1, <1>9 DEF Close, Receives, ReceiveSignal, ReceiveDone, ReceiveFetch, ReceiveReload
<1>10. CASE UNCHANGED vars
  BY <1>1, <1>10 DEF vars
<1>11. QED
  BY <1>2, <1>3, <1>4, <1>5, <1>6, <1>7, <1>8, <1>9, <1>10 DEF Next, Serve

-----------------------------------------------------------------------------
(* Messages: one FETCH at a time, from the client to the server and back,  *)
(* and its data with it; the server has something to send only in an       *)
(* exchange or while the client polls for another request.                 *)
FetchInv ==
  /\ fetching <=> "FETCH" \in up \cup q_out \cup down
  /\ "FETCH" \in up => "FETCH" \notin q_out \cup down
  /\ "FETCH" \in q_out => "FETCH" \notin down
  /\ data = NoData <=> "FETCH" \notin q_out \cup down
DoneInv ==
  /\ "DONE" \in q_out \cup down => others = "answered"
  /\ "DONE" \in q_out => "DONE" \notin down
  /\ q_out # {} => exchange \/ others = "running" \/ "DONE" \in q_out
NetInv == FetchInv /\ DoneInv

(* A request that runs adds at most the signal to the next reply. *)
LEMMA QuietChange ==
  ASSUME TypeOK, NetInv, others = "running",
         UNCHANGED <<up, down, data, fetching, others, exchange>>,
         q_out \subseteq q_out', q_out' \subseteq q_out \cup {"SIGNAL"}
  PROVE  NetInv'
BY DEF NetInv, FetchInv, DoneInv

LEMMA NetStep ==
  ASSUME TypeOK, NetInv, [Next]_vars
  PROVE  NetInv'
<1> USE DEF tables, array, server, network, client
<1>1. ASSUME Change, q_out \subseteq q_out', q_out' \subseteq q_out \cup {"SIGNAL"}
      PROVE  NetInv'
  BY <1>1, QuietChange DEF Change
<1>2. ASSUME NEW told \in BOOLEAN, Change,
             IF told THEN Emits({}) ELSE UNCHANGED <<q_out, s_pending>>
      PROVE  NetInv'
  BY <1>1, <1>2, MayEmitType
<1>3. ASSUME NEW k \in Keys, NEW u \in Values \cup {None}, Put(k, u) PROVE NetInv'
  BY <1>2, <1>3 DEF Put, update, TypeOK
<1>4. CASE ClearTable
  BY <1>2, <1>4 DEF ClearTable, reload, TypeOK
<1>5. ASSUME NEW p \in Projects, set_current(p) PROVE NetInv'
  BY <1>2, <1>5 DEF set_current
<1>6. ASSUME NEW p \in Projects, remove(p) PROVE NetInv'
  <2>1. PICK told \in BOOLEAN : IF told THEN Emits({}) ELSE UNCHANGED <<q_out, s_pending>>
    BY <1>6 DEF remove
  <2>2. QED BY <1>2, <1>6, <2>1 DEF remove
<1>7. ASSUME NEW p \in Projects, clear(p) PROVE NetInv'
  <2>1. PICK told \in BOOLEAN : IF told THEN Emits({}) ELSE UNCHANGED <<q_out, s_pending>>
    BY <1>7 DEF clear
  <2>2. QED BY <1>2, <1>7, <2>1 DEF clear
<1>8. CASE End
  BY <1>8 DEF TypeOK, NetInv, FetchInv, DoneInv, End
<1>9. CASE Start \/ Open
  BY <1>9 DEF TypeOK, NetInv, FetchInv, DoneInv, Start, Open
<1>10. CASE online
  BY <1>10 DEF TypeOK, NetInv, FetchInv, DoneInv, online, Fetch
<1>11. CASE reloadArray
  BY <1>11 DEF TypeOK, NetInv, FetchInv, DoneInv, reloadArray
<1>12. CASE ServeSigOn
  BY <1>12 DEF TypeOK, NetInv, FetchInv, DoneInv, ServeSigOn, Served
<1>13. CASE ServeFetch
  <2>1. PICK sent \in Pages : Served("FETCH") /\ fetch(sent) /\ UNCHANGED listening
    BY <1>13 DEF ServeFetch
  <2>2. data' # NoData
    BY <2>1, PageType DEF fetch
  <2>3. "FETCH" \in q_out' /\ q_out' \ {"SIGNAL"} = (q_out \ {"SIGNAL"}) \cup {"FETCH"}
    BY <2>1, EmitsType DEF fetch
  <2>4. "DONE" \in q_out' <=> "DONE" \in q_out
    BY <2>3
  <2>5. /\ exchange /\ exchange' /\ "FETCH" \in up /\ "FETCH" \notin up'
        /\ UNCHANGED <<others, down, fetching>>
    BY <2>1 DEF Served
  <2>6. QED BY <2>2, <2>3, <2>4, <2>5 DEF NetInv, FetchInv, DoneInv
<1>14. CASE ServeReload
  <2>1. q_out' \ {"SIGNAL"} = (q_out \ {"SIGNAL"}) \cup {"RELOAD"}
    BY <1>14, EmitsType DEF ServeReload
  <2>2. /\ "DONE" \in q_out' <=> "DONE" \in q_out
        /\ "FETCH" \in q_out' <=> "FETCH" \in q_out
    BY <2>1
  <2>3. /\ exchange /\ exchange' /\ up' = up \ {"RELOAD"}
        /\ UNCHANGED <<others, down, fetching, data>>
    BY <1>14 DEF ServeReload, Served
  <2>4. QED BY <2>2, <2>3 DEF NetInv, FetchInv, DoneInv
<1>15. CASE Close
  BY <1>15 DEF TypeOK, NetInv, FetchInv, DoneInv, Close
<1>16. CASE ReceiveSignal
  BY <1>16 DEF TypeOK, NetInv, FetchInv, DoneInv, ReceiveSignal, Fetch
<1>17. CASE ReceiveDone
  BY <1>17 DEF TypeOK, NetInv, FetchInv, DoneInv, ReceiveDone
<1>18. CASE ReceiveFetch
  BY <1>18 DEF TypeOK, NetInv, FetchInv, DoneInv, ReceiveFetch
<1>19. CASE ReceiveReload
  BY <1>19 DEF TypeOK, NetInv, FetchInv, DoneInv, ReceiveReload, Fetch
<1>20. CASE UNCHANGED vars
  BY <1>20 DEF NetInv, FetchInv, DoneInv, vars
<1>21. QED
  BY <1>3, <1>4, <1>5, <1>6, <1>7, <1>8, <1>9, <1>10, <1>11, <1>12, <1>13, <1>14, <1>15, <1>16,
     <1>17, <1>18, <1>19, <1>20 DEF Next, Serve, Receives

-----------------------------------------------------------------------------
(* The client is woken: while the server keeps something to fetch, a       *)
(* signal, a request or the next turn of its loop will make it fetch.      *)
Dirty == Content.cleared \/ Content.updates # NoUpdates
Wakes == \/ "SIGNAL" \in q_out \/ signals > 0 \/ "FETCH" \in up \/ "RELOAD" \in up
         \/ (fetching /\ signaled) \/ data.pending
WakeInv == listening /\ Dirty => Wakes

(* An answer wakes the client when the server keeps the rest of the rows. *)
LEMMA RestIs ==
  ASSUME ArrayInv, NEW sent \in Pages
  PROVE  Rest(sent) # NoUpdates => PageOf(sent).pending
<1> SUFFICES ASSUME sent = ToSend PROVE Rest(sent) = NoUpdates
  BY DEF PageOf
<1>1. Rest(sent) = [k \in Keys |-> IF Content.cleared THEN Content.updates[k] ELSE Same]
  BY DEF Rest
<1>2. Content.cleared => Content.updates = NoUpdates
  BY ContentIs DEF Proper
<1>3. QED BY <1>1, <1>2 DEF NoUpdates

LEMMA WakeStep ==
  ASSUME ArrayInv, NetInv, WakeInv, ~Shared, [Next]_vars
  PROVE  WakeInv'
<1> USE DEF tables, array, server, network, client
<1> DEFINE SameArray == UNCHANGED <<contents, cached, current, listening>>
<1>1. TypeOK
  BY DEF ArrayInv
<1>2. SameArray => Dirty' = Dirty
  BY DEF Dirty, Content, Slot
<1>3. ASSUME Change, NEW told \in BOOLEAN, ~listening \/ told,
             IF told THEN Emits({}) ELSE UNCHANGED <<q_out, s_pending>>
      PROVE  WakeInv'
  BY <1>1, <1>3, MayEmitType DEF WakeInv, Wakes, Change
<1>4. ASSUME Change, q_out \subseteq q_out', Slot' = Slot, contents'[Slot] = contents[Slot]
      PROVE  WakeInv'
  BY <1>4 DEF WakeInv, Wakes, Dirty, Content, Change
<1>5. ASSUME NEW k \in Keys, NEW u \in Values \cup {None}, Put(k, u) PROVE WakeInv'
  <2>1. CASE listening BY <1>3, <1>5, <2>1 DEF Put, update
  <2>2. CASE ~listening BY <1>3, <1>5, <2>2 DEF Put
  <2>3. QED BY <2>1, <2>2
<1>6. CASE ClearTable
  <2>1. CASE listening BY <1>3, <1>6, <2>1 DEF ClearTable, reload
  <2>2. CASE ~listening BY <1>3, <1>6, <2>2 DEF ClearTable
  <2>3. QED BY <2>1, <2>2
<1>7. ASSUME NEW p \in Projects, set_current(p) PROVE WakeInv'
  <2>1. CASE listening BY <1>3, <1>7, <2>1 DEF set_current
  <2>2. CASE ~listening BY <1>3, <1>7, <2>2 DEF set_current
  <2>3. QED BY <2>1, <2>2
<1>8. ASSUME NEW p \in Projects, remove(p) PROVE WakeInv'
  <2>1. CASE p # current
    <3>1. q_out' = q_out BY <1>8, <2>1 DEF remove
    <3>2. QED BY <1>4, <1>8, <2>1, <3>1, RemoveArray DEF remove
  <2>2. CASE p = current /\ listening BY <1>3, <1>8, <2>2 DEF remove
  <2>3. CASE p = current /\ ~listening BY <1>3, <1>8, <2>3 DEF remove
  <2>4. QED BY <2>1, <2>2, <2>3
<1>9. ASSUME NEW p \in Projects, clear(p) PROVE WakeInv'
  <2>1. CASE p # current
    <3>1. q_out' = q_out BY <1>9, <2>1 DEF clear
    <3>2. QED BY <1>4, <1>9, <2>1, <3>1, ClearArray DEF clear
  <2>2. CASE p = current /\ listening BY <1>3, <1>9, <2>2 DEF clear
  <2>3. CASE p = current /\ ~listening BY <1>3, <1>9, <2>3 DEF clear
  <2>4. QED BY <2>1, <2>2, <2>3
<1>10. CASE End
  BY <1>2, <1>10 DEF End, WakeInv, Wakes
<1>11. CASE Start \/ Open
  BY <1>2, <1>11 DEF Start, Open, WakeInv, Wakes
<1>12. CASE online
  BY <1>2, <1>12 DEF online, Fetch, WakeInv, Wakes
<1>13. CASE reloadArray
  BY <1>13 DEF reloadArray, WakeInv, Wakes
<1>14. CASE ServeSigOn
  BY <1>14 DEF ServeSigOn, WakeInv, Wakes
<1>15. CASE ServeFetch
  <2>1. PICK sent \in Pages : Served("FETCH") /\ fetch(sent) /\ UNCHANGED listening
    BY <1>15 DEF ServeFetch
  <2>2. cached' = Slot /\ contents'[Slot] = Pending(Rest(sent)) /\ Slot # NoProject
    BY <1>1, <2>1, PageType, SetsType, SyncAssumption, SlotType DEF fetch, Slots
  <2>3. Content' = Pending(Rest(sent))
    BY <2>2 DEF Content, Slot, Pending
  <2>4. Dirty' => Rest(sent) # NoUpdates
    BY <2>3 DEF Dirty, Pending
  <2>5. data' = PageOf(sent)
    BY <2>1 DEF fetch
  <2>6. QED BY <2>4, <2>5, RestIs DEF WakeInv, Wakes
<1>16. CASE ServeReload
  <2>1. listening' = listening /\ (listening => "SIGNAL" \in q_out')
    BY <1>1, <1>16, EmitsType DEF ServeReload
  <2>2. QED BY <2>1 DEF WakeInv, Wakes
<1>17. CASE Close
  <2>1. /\ Dirty' = Dirty /\ UNCHANGED <<listening, up, fetching, signaled, data>>
        /\ signals' = IF "SIGNAL" \in q_out THEN signals + 1 ELSE signals
    BY <1>2, <1>17 DEF Close
  <2>2. "SIGNAL" \in q_out \/ signals > 0 => signals' > 0
    <3>1. signals \in Nat BY <1>1 DEF TypeOK
    <3>2. CASE "SIGNAL" \in q_out BY <2>1, <3>1, <3>2
    <3>3. CASE "SIGNAL" \notin q_out BY <2>1, <3>3
    <3>4. QED BY <3>2, <3>3
  <2>3. QED BY <2>1, <2>2 DEF WakeInv, Wakes
<1>18. CASE ReceiveSignal
  BY <1>18 DEF ReceiveSignal, Fetch, WakeInv, Wakes
<1>19. CASE ReceiveDone
  BY <1>2, <1>19 DEF ReceiveDone, WakeInv, Wakes
<1>20. CASE ReceiveFetch
  <2>1. /\ Dirty' = Dirty /\ listening' = listening
        /\ UNCHANGED <<q_out, signals>> /\ up \subseteq up'
        /\ signaled \/ data.pending => "FETCH" \in up'
    BY <1>2, <1>20 DEF ReceiveFetch
  <2>2. CASE signaled \/ data.pending
    BY <2>1, <2>2 DEF WakeInv, Wakes
  <2>3. CASE ~(signaled \/ data.pending)
    BY <2>1, <2>3 DEF WakeInv, Wakes
  <2>4. QED BY <2>2, <2>3
<1>21. CASE ReceiveReload
  BY <1>21 DEF ReceiveReload, Fetch, WakeInv, Wakes
<1>22. CASE UNCHANGED vars
  BY <1>2, <1>22 DEF vars, WakeInv, Wakes
<1>23. QED
  BY <1>5, <1>6, <1>7, <1>8, <1>9, <1>10, <1>11, <1>12, <1>13, <1>14, <1>15, <1>16, <1>17,
     <1>18, <1>19, <1>20, <1>21, <1>22 DEF Next, Serve, Receives

-----------------------------------------------------------------------------
(* What the client has, what is on its way and what the server keeps give  *)
(* the table.                                                              *)
LEMMA ApplyIs ==
  /\ \A rows \in Rows : Apply(NoUpdates, rows) = rows
  /\ \A updates, rows : \A k \in Keys :
       Apply(updates, rows)[k] = IF updates[k] = Same THEN rows[k] ELSE updates[k]
BY DEF Apply, NoUpdates, Rows

LEMMA ArrivedType == TypeOK => Arrived \in Rows
BY Constants, ApplyType DEF Arrived, TypeOK, Answers

(* After a page: it and the rest are the rows, or the updates. *)
LEMMA PageCovers ==
  ASSUME ArrayInv, NEW sent \in Pages,
         ~Content.cleared => Apply(Content.updates, model) = table[current]
  PROVE  Apply(Rest(sent),
               Apply(PageOf(sent).updates, IF PageOf(sent).reload THEN NoRows ELSE model))
           = table[current]
<1> DEFINE rows == IF PageOf(sent).reload THEN NoRows ELSE model
           given == Apply(PageOf(sent).updates, rows)
<1>1. table[current] \in Rows /\ model \in Rows /\ Content \in Contents
  BY SlotType DEF ArrayInv, TypeOK
<1>2. sent \subseteq ToSend /\ ToSend \subseteq Keys
  BY DEF Pages, ToSend
<1>3. ASSUME NEW k \in Keys PROVE Apply(Rest(sent), given)[k] = table[current][k]
  <2>1. /\ Apply(Rest(sent), given)[k]
             = IF Rest(sent)[k] = Same THEN given[k] ELSE Rest(sent)[k]
        /\ given[k] = IF PageOf(sent).updates[k] = Same THEN rows[k]
                      ELSE PageOf(sent).updates[k]
    BY ApplyIs
  <2>2. /\ PageOf(sent).updates[k] = IF k \in sent THEN Entry(k) ELSE Same
        /\ PageOf(sent).reload = Content.cleared
        /\ Rest(sent)[k] = IF k \in ToSend \ sent THEN Entry(k)
                           ELSE IF Content.cleared THEN Content.updates[k] ELSE Same
    BY DEF PageOf, Rest
  <2>3. CASE Content.cleared
    <3>1. Content.updates[k] = Same
      BY <2>3, ContentIs DEF Proper, NoUpdates
    <3>2. Entry(k) = table[current][k] /\ Entry(k) # Same
      BY <1>1, <2>3, SyncAssumption DEF Entry, Rows
    <3>3. k \notin ToSend => table[current][k] = None
      BY <2>3 DEF ToSend
    <3>4. rows[k] = None
      BY <2>2, <2>3 DEF NoRows
    <3>5. QED BY <1>2, <2>1, <2>2, <2>3, <3>1, <3>2, <3>3, <3>4
  <2>4. CASE ~Content.cleared
    <3>1. Entry(k) = Content.updates[k] /\ (k \in ToSend <=> Content.updates[k] # Same)
      BY <2>4 DEF Entry, ToSend
    <3>2. rows[k] = model[k]
      BY <2>2, <2>4
    <3>3. table[current][k] = IF Content.updates[k] = Same THEN model[k]
                              ELSE Content.updates[k]
      BY <2>4, ApplyIs
    <3>4. QED BY <1>2, <2>1, <2>2, <2>4, <3>1, <3>2, <3>3
  <2>5. QED BY <2>3, <2>4
<1>4. Apply(Rest(sent), given) = [k \in Keys |-> Apply(Rest(sent), given)[k]]
  BY DEF Apply
<1>5. table[current] = [k \in Keys |-> table[current][k]]
  BY <1>1 DEF Rows
<1>6. QED BY <1>3, <1>4, <1>5

(* After an update of a row. *)
LEMMA UpdateCovers ==
  ASSUME ArrayInv, ~Content.cleared, NEW rows \in Rows,
         Apply(Content.updates, rows) = table[current],
         NEW k \in Keys, NEW u \in Values \cup {None}
  PROVE  Apply([Content.updates EXCEPT ![k] = u], rows) = [table[current] EXCEPT ![k] = u]
<1>1. Content.updates \in Updates /\ table[current] \in Rows
  BY SlotType DEF ArrayInv, TypeOK, Contents
<1>2. \A j \in Keys : table[current][j] = IF Content.updates[j] = Same THEN rows[j]
                                           ELSE Content.updates[j]
  BY ApplyIs
<1>3. u # Same
  BY SyncAssumption
<1>4. QED BY <1>1, <1>2, <1>3 DEF Apply, Updates, Rows

LEMMA CoverStep ==
  ASSUME ArrayInv, NetInv, Covered, ~Shared, [Next]_vars
  PROVE  Covered'
<1> USE DEF tables, array, server, network, client
<1> DEFINE SameArray == UNCHANGED <<contents, cached, current, listening, table>>
<1>1. TypeOK
  BY DEF ArrayInv
<1>2. SameArray => Content' = Content
  BY DEF Content, Slot
<1>3. SameArray /\ Arrived' = Arrived /\ ("RELOAD" \in up => "RELOAD" \in up') => Covered'
  BY <1>2 DEF Covered
<1>4. UNCHANGED <<data, model>> => Arrived' = Arrived
  BY DEF Arrived
<1>5. ~listening' \/ contents'[Slot'].cleared => Covered'
  BY DEF Covered, Content, Cleared
<1>6. ASSUME NEW k \in Keys, NEW u \in Values \cup {None}, Put(k, u) PROVE Covered'
  <2>1. /\ UNCHANGED <<data, model, up, current, listening>>
    BY <1>6 DEF Put, Change
  <2>2. CASE listening
    <3>1. cached' = Slot /\ contents'[Slot] = Noted(k, u) /\ Slot \in Slots
      BY <1>1, <1>6, <2>2, NotedType, SetsType DEF Put, update
    <3>2. Slot' = Slot /\ Noted(k, u).exists
      BY <3>1, SyncAssumption, NotedIs DEF Slot, Slots
    <3>3. Content' = Noted(k, u)
      BY <3>1, <3>2 DEF Content
    <3>4. CASE Content.cleared
      BY <3>3, <3>4 DEF Noted, Covered
    <3>5. CASE ~Content.cleared
      <4>1. Content'.updates = [Content.updates EXCEPT ![k] = u]
        BY <3>3, <3>5 DEF Noted, Pending
      <4>2. table'[current] = [table[current] EXCEPT ![k] = u]
        BY <1>1, <1>6 DEF Put, Written, TypeOK
      <4>3. SUFFICES ASSUME "RELOAD" \notin up
                     PROVE  Apply(Content'.updates, Arrived) = table'[current]
        BY <1>4, <2>1 DEF Covered
      <4>4. Apply(Content.updates, Arrived) = table[current]
        BY <2>2, <3>5, <4>3 DEF Covered
      <4>5. QED BY <1>1, <3>5, <4>1, <4>2, <4>4, ArrivedType, UpdateCovers
    <3>6. QED BY <3>4, <3>5
  <2>3. CASE ~listening
    BY <1>5, <2>1, <2>3
  <2>4. QED BY <2>2, <2>3
<1>7. CASE ClearTable
  <2>1. CASE listening
    <3>1. cached' = Slot /\ contents'[Slot] = Cleared /\ Slot \in Slots
      BY <1>1, <1>7, <2>1, Constants, SetsType, SlotType DEF ClearTable, reload
    <3>2. Slot' = Slot
      BY <3>1, SyncAssumption DEF Slot, Slots
    <3>3. QED BY <1>5, <3>1, <3>2 DEF Cleared
  <2>2. CASE ~listening
    BY <1>5, <1>7, <2>2 DEF ClearTable, Change
  <2>3. QED BY <2>1, <2>2
<1>8. ASSUME NEW p \in Projects, set_current(p) PROVE Covered'
  <2>1. listening' = listening BY <1>8 DEF set_current, Change
  <2>2. CASE listening
    <3>1. contents'[p].cleared /\ cached' = NoProject /\ current' = p
      BY <1>8, <2>2, SetCurrentArray
    <3>2. Slot' = p BY <3>1 DEF Slot
    <3>3. QED BY <1>5, <3>1, <3>2
  <2>3. CASE ~listening BY <1>5, <2>1, <2>3
  <2>4. QED BY <2>2, <2>3
<1>9. ASSUME Change, NEW p \in Projects, p # current, current' = current, Slot' = Slot,
             contents'[Slot] = contents[Slot],
             table' = [table EXCEPT ![p] = NoRows]
      PROVE  Covered'
  <2>1. Content' = Content
    BY <1>9 DEF Content
  <2>2. table'[current'] = table[current]
    BY <1>1, <1>9 DEF TypeOK
  <2>3. UNCHANGED <<data, model, up, listening>>
    BY <1>9 DEF Change
  <2>4. QED BY <1>4, <2>1, <2>2, <2>3 DEF Covered
<1>10. ASSUME NEW p \in Projects, remove(p) PROVE Covered'
  <2>1. CASE p # current
    BY <1>9, <1>10, <2>1, RemoveArray DEF remove
  <2>2. CASE p = current
    BY <1>5, <1>10, <2>2, RemoveArray DEF remove, Change
  <2>3. QED BY <2>1, <2>2
<1>11. ASSUME NEW p \in Projects, clear(p) PROVE Covered'
  <2>1. CASE p # current
    BY <1>9, <1>11, <2>1, ClearArray DEF clear
  <2>2. CASE p = current
    BY <1>5, <1>11, <2>2, ClearArray DEF clear, Change
  <2>3. QED BY <2>1, <2>2
<1>12. CASE End \/ Start \/ Open
  BY <1>3, <1>4, <1>12 DEF End, Start, Open
<1>13. CASE online
  BY <1>3, <1>4, <1>13 DEF online, Fetch
<1>14. CASE reloadArray
  BY <1>14 DEF reloadArray, Covered
<1>15. CASE ServeSigOn
  <2>1. contents' = [p \in Slots |-> NoContent] /\ Slot' \in Slots
    BY <1>1, <1>15 DEF ServeSigOn, Slots, Slot, Served, TypeOK
  <2>2. QED BY <1>5, <2>1 DEF NoContent
<1>16. CASE ServeFetch
  <2>1. PICK sent \in Pages : Served("FETCH") /\ fetch(sent) /\ UNCHANGED listening
    BY <1>16 DEF ServeFetch
  <2>2. cached' = Slot /\ contents'[Slot] = Pending(Rest(sent)) /\ Slot # NoProject
    BY <1>1, <2>1, PageType, SetsType, SyncAssumption, SlotType DEF fetch, Slots
  <2>3. Content' = Pending(Rest(sent))
    BY <2>2 DEF Content, Slot, Pending
  <2>4. /\ data' = PageOf(sent) /\ data' # NoData
        /\ UNCHANGED <<table, current, model, listening>>
        /\ up' = up \ {"FETCH"} /\ "FETCH" \in up
    BY <1>1, <2>1, PageType DEF fetch, Served
  <2>5. Arrived = model
    BY <2>4 DEF NetInv, FetchInv, Arrived
  <2>6. Arrived' = Apply(PageOf(sent).updates, IF PageOf(sent).reload THEN NoRows ELSE model)
    BY <2>4 DEF Arrived
  <2>7. SUFFICES ASSUME listening, "RELOAD" \notin up
                 PROVE  Apply(Rest(sent), Arrived') = table[current]
    BY <2>3, <2>4 DEF Covered, Pending
  <2>8. ~Content.cleared => Apply(Content.updates, model) = table[current]
    BY <2>5, <2>7 DEF Covered
  <2>9. QED BY <2>6, <2>8, PageCovers
<1>17. CASE ServeReload
  <2>1. cached' = Slot /\ contents'[Slot] = Cleared /\ Slot \in Slots
    BY <1>1, <1>17, Constants, SetsType, SlotType DEF ServeReload
  <2>2. Slot' = Slot
    BY <2>1, SyncAssumption DEF Slot, Slots
  <2>3. QED BY <1>5, <2>1, <2>2 DEF Cleared
<1>18. CASE Close
  BY <1>3, <1>4, <1>18 DEF Close
<1>19. CASE ReceiveSignal \/ ReceiveReload
  BY <1>3, <1>4, <1>19 DEF ReceiveSignal, ReceiveReload, Fetch
<1>20. CASE ReceiveDone
  BY <1>3, <1>4, <1>20 DEF ReceiveDone
<1>21. CASE ReceiveFetch
  <2>1. data # NoData
    BY <1>21 DEF ReceiveFetch, NetInv, FetchInv
  <2>2. Arrived' = Arrived
    BY <1>21, <2>1 DEF ReceiveFetch, Arrived
  <2>3. QED BY <1>3, <1>21, <2>2 DEF ReceiveFetch
<1>22. CASE UNCHANGED vars
  BY <1>3, <1>4, <1>22 DEF vars
<1>23. QED
  BY <1>6, <1>7, <1>8, <1>10, <1>11, <1>12, <1>13, <1>14, <1>15, <1>16, <1>17, <1>18, <1>19,
     <1>20, <1>21, <1>22 DEF Next, Serve, Receives

-----------------------------------------------------------------------------
SyncInv == ArrayInv /\ NetInv /\ WakeInv /\ Covered

LEMMA InitSync == Init => SyncInv
<1> SUFFICES ASSUME Init PROVE SyncInv
  OBVIOUS
<1>1. TypeOK BY InitType
<1>2. CacheInv /\ OthersCleared
  <2>1. contents = [s \in Slots |-> NoContent] /\ cached = NoProject /\ ~listening
    BY DEF Init, Slots
  <2>2. QED BY <2>1, ProperOnes DEF CacheInv, OthersCleared
<1>3. NetInv
  BY DEF Init, NetInv, FetchInv, DoneInv
<1>4. WakeInv /\ Covered
  BY DEF Init, WakeInv, Covered
<1>5. QED BY <1>1, <1>2, <1>3, <1>4 DEF SyncInv, ArrayInv

LEMMA SyncStep == ~Shared /\ SyncInv /\ [Next]_vars => SyncInv'
<1> SUFFICES ASSUME ~Shared, SyncInv, [Next]_vars PROVE SyncInv'
  OBVIOUS
<1>1. ArrayInv'
  BY TypeStep, ArrayStep DEF SyncInv, ArrayInv
<1>2. NetInv'
  BY NetStep DEF SyncInv, ArrayInv
<1>3. WakeInv' /\ Covered'
  BY WakeStep, CoverStep DEF SyncInv
<1>4. QED BY <1>1, <1>2, <1>3 DEF SyncInv

LEMMA SyncQuiet == SyncInv => InSync
<1> SUFFICES ASSUME SyncInv, Quiet, listening PROVE model = table[current]
  BY DEF InSync
<1>1. q_out = {} /\ data = NoData
  BY DEF SyncInv, ArrayInv, NetInv, FetchInv, DoneInv, Quiet, TypeOK
<1>2. ~Wakes
  BY <1>1 DEF Wakes, Quiet, NoData
<1>3. ~Content.cleared /\ Content.updates = NoUpdates
  BY <1>2 DEF SyncInv, WakeInv, Dirty
<1>4. Apply(NoUpdates, model) = table[current]
  BY <1>1, <1>3 DEF SyncInv, Covered, Arrived, Quiet
<1>5. model \in Rows
  BY DEF SyncInv, ArrayInv, TypeOK
<1>6. QED BY <1>4, <1>5, ApplyIs

(* A client that waits for nothing has the rows of the current project,    *)
(* for any projects, keys, pages, changes and reloads.                     *)
THEOREM ClientInSync == ASSUME ~Shared PROVE Spec => []InSync
<1>1. Init => SyncInv
  BY InitSync
<1>2. SyncInv /\ [Next]_vars => SyncInv'
  BY SyncStep
<1>3. SyncInv => InSync
  BY SyncQuiet
<1>4. QED BY <1>1, <1>2, <1>3, PTL DEF Spec

(* The client's rows, the answer on its way and what the server keeps give *)
(* the table.                                                              *)
THEOREM NothingForgotten == ASSUME ~Shared PROVE Spec => []Covered
<1>1. Init => SyncInv
  BY InitSync
<1>2. SyncInv /\ [Next]_vars => SyncInv'
  BY SyncStep
<1>3. SyncInv => Covered
  BY DEF SyncInv
<1>4. QED BY <1>1, <1>2, <1>3, PTL DEF Spec

(* What is kept of the projects that are not in use is never given.        *)
THEOREM ProjectsApart == ASSUME ~Shared PROVE Spec => []OthersCleared
<1>1. Init => SyncInv
  BY InitSync
<1>2. SyncInv /\ [Next]_vars => SyncInv'
  BY SyncStep
<1>3. SyncInv => OthersCleared
  BY DEF SyncInv, ArrayInv
<1>4. QED BY <1>1, <1>2, <1>3, PTL DEF Spec
=============================================================================
