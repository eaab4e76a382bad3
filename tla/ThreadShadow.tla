---------------------------- MODULE ThreadShadow ----------------------------
(***************************************************************************)
(* The memory of the threads of an instrumented program                    *)
(* (segment_model/e_acsl_shadow_concurrency.c): a thread adds two          *)
(* partitions, its stack and its thread-local storage, to a Patricia trie  *)
(* when it starts and removes them when it ends.  Every access to a shadow *)
(* asks the trie twice, first whether the address is of a thread, then for *)
(* its shadow, and uses what it got after the lock of the trie is released.*)
(* Starting and ending take no other lock.  The C library puts a new       *)
(* thread where an ended one was as soon as it can, and there it has the   *)
(* id of that one, since an id is an address in the area of the thread.    *)
(***************************************************************************)
EXTENDS PatriciaTrie

CONSTANTS MaxThreads,      \* number of threads the program creates
          Areas,           \* areas of threads: their first addresses
          STACK_SIZE,      \* length of an area, the partition of the stack
          TLS_OFFSET,      \* where the thread-local storage is in the area
          TLS_SIZE         \* its length

Threads == 1 .. MaxThreads
Main == 0                  \* the main thread has partitions of its own

VARIABLES thread_partitions,  \* the trie
          partition,          \* the leaves: thread, start and end
          phase,              \* of each thread
          area,               \* of each thread that was created
          access,             \* what a thread is doing in the runtime
          fault               \* the thread, if any, whose memory was looked at
                              \* when a null or freed partition was read

vars == <<thread_partitions, partition, phase, area, access, fault>>

(* The constants are those of a program (an assumption of RuntimeThreads). *)
ThreadAssumption ==
  /\ MaxThreads \in Nat /\ Areas \subseteq Nat \ {0}
  /\ STACK_SIZE \in Nat /\ TLS_OFFSET \in Nat \ {0} /\ TLS_SIZE \in Nat \ {0}
  /\ TLS_OFFSET + TLS_SIZE <= STACK_SIZE
  /\ \A a, b \in Areas : a < b => a + STACK_SIZE <= b      \* areas lie apart,
  /\ \A a \in Areas : a + STACK_SIZE - 1 \in Word           \* in the memory

Idle == [step |-> "idle"]

(* The leaves, allocated by init_thread_shadow_layout. *)
StackLeaf(t) == 2 * t - 1
TlsLeaf(t) == 2 * t
tp_is_same_thread_Older(t) ==                              \* mutant
  {l \in DOMAIN partition : partition[l].id <= area[t]}
tp_is_same_thread(t) == {l \in DOMAIN partition : partition[l].id = area[t]}
tp_contains_ptr_Before(l, p) ==                                            \* mutant
  partition[l].start <= p /\ p < partition[l].end
tp_contains_ptr(l, p) == partition[l].start <= p /\ p <= partition[l].end

Partition(id, from, size) == [id |-> id, start |-> from, end |-> from + size - 1]

StackOf(t) == area[t] .. area[t] + STACK_SIZE - 1
TlsOf(t) == area[t] + TLS_OFFSET .. area[t] + TLS_OFFSET + TLS_SIZE - 1

Created == {t \in Threads : phase[t] # "none"}
Running == {t \in Threads : phase[t] = "running"}
Gone == {t \in Threads : phase[t] \in {"ended", "canceled"}}

Init ==
  /\ thread_partitions = EmptyTrie
  /\ partition = <<>>
  /\ phase = [t \in Threads |-> "none"]
  /\ area = [t \in Threads |-> NULL]
  /\ access = [t \in Threads \cup {Main} |-> Idle]
  /\ fault = NULL

-----------------------------------------------------------------------------
Free(a) == \A t \in Created \ Gone : area[t] # a

(* Threads are numbered in the order of their creation. *)
eacsl_pthread_create(t, a) ==
  /\ phase[t] = "none" /\ \A u \in 1 .. t - 1 : u \in Created
  /\ Free(a)
  /\ phase' = [phase EXCEPT ![t] = "created"]
  /\ area' = [area EXCEPT ![t] = a]
  /\ UNCHANGED <<thread_partitions, partition, access, fault>>

(* init_thread_shadow_layout, in the new thread. *)
insert_stack(t) ==
  /\ phase[t] = "created"
  /\ thread_partitions' = pt_insert(thread_partitions, StackLeaf(t), area[t])
  /\ partition' = With(partition, StackLeaf(t), Partition(area[t], area[t], STACK_SIZE))
  /\ phase' = [phase EXCEPT ![t] = "on_stack"]
  /\ UNCHANGED <<area, access, fault>>

insert_tls(t) ==
  /\ phase[t] = "on_stack"
  /\ thread_partitions' = pt_insert(thread_partitions, TlsLeaf(t), area[t] + TLS_OFFSET)
  /\ partition' = With(partition, TlsLeaf(t), Partition(area[t], area[t] + TLS_OFFSET, TLS_SIZE))
  /\ phase' = [phase EXCEPT ![t] = "running"]
  /\ UNCHANGED <<area, access, fault>>

(* A thread that is canceled in init_thread_shadow_layout, where fopen and *)
(* fgets are cancellation points and the locks of the trie may be, has not *)
(* pushed eacsl_pthread_cleanup: what it has inserted stays.               *)
canceled(t) ==
  /\ phase[t] \in {"created", "on_stack"}
  /\ phase' = [phase EXCEPT ![t] = "canceled"]
  /\ UNCHANGED <<thread_partitions, partition, area, access, fault>>

(* eacsl_pthread_cleanup: the routine of the thread has returned, or it    *)
(* was canceled.  The partitions that are removed are freed.               *)
clean_thread_shadow_layout(t) ==
  LET after == pt_remove_if(thread_partitions, tp_is_same_thread(t)) IN
  /\ phase[t] = "running" /\ access[t] = Idle
  /\ thread_partitions' = after
  /\ partition' = [l \in DOMAIN partition \cap Leaves(after) |-> partition[l]]
  /\ phase' = [phase EXCEPT ![t] = "ended"]
  /\ UNCHANGED <<area, access, fault>>

-----------------------------------------------------------------------------
find_thread_partition(p) ==
  pt_find(thread_partitions, {l \in DOMAIN partition : tp_contains_ptr(l, p)}, p)

(* IS_ON_THREAD(p), where p is of the memory of t, which may have ended:   *)
(* \valid is asked of such addresses too.                                  *)
is_on_thread(u, t, p) ==
  /\ u = Main \/ u \in Running
  /\ access[u] = Idle
  /\ phase[t] \in {"running", "ended"} /\ p \in StackOf(t)
  /\ access' = IF find_thread_partition(p) = NULL THEN access
               ELSE [access EXCEPT ![u] = [step |-> "shadow", of |-> t, addr |-> p]]
  /\ UNCHANGED <<thread_partitions, partition, phase, area, fault>>

(* PRIMARY_SHADOW(p): the second search ... *)
primary_thread_shadow(u) ==
  /\ access[u].step = "shadow"
  /\ access' = [access EXCEPT ![u] = [step |-> "offset", of |-> access[u].of,
                                      leaf |-> find_thread_partition(access[u].addr)]]
  /\ UNCHANGED <<thread_partitions, partition, phase, area, fault>>

(* ... and the field of the partition it has found. *)
SHADOW_ACCESS(u) ==
  /\ access[u].step = "offset"
  /\ access' = [access EXCEPT ![u] = Idle]
  /\ fault' = IF access[u].leaf \in DOMAIN partition THEN fault ELSE access[u].of
  /\ UNCHANGED <<thread_partitions, partition, phase, area>>

Next ==
  /\ fault = NULL
  /\ \/ \E t \in Threads : \/ \E a \in Areas : eacsl_pthread_create(t, a)
                           \/ insert_stack(t) \/ insert_tls(t)
                           \/ canceled(t) \/ clean_thread_shadow_layout(t)
     \/ \E u \in Threads \cup {Main} :
          \/ \E t \in Threads : \E p \in {area[t], area[t] + TLS_OFFSET + TLS_SIZE - 1} :
               is_on_thread(u, t, p)
          \/ primary_thread_shadow(u) \/ SHADOW_ACCESS(u)

Spec == Init /\ [][Next]_vars

-----------------------------------------------------------------------------
StartsAt(a) == {l \in DOMAIN partition : partition[l].start = a}
Oldest(leaves) == CHOOSE l \in leaves : \A k \in leaves : l <= k

(* No two partitions are at one place: none was left where a thread starts. *)
EachPlaceOnce ==
  \A k, l \in DOMAIN partition : partition[k].start = partition[l].start => k = l

(* The leaves of the trie are the partitions that were not freed, while    *)
(* threads start, are canceled and end in any order, and the trie is well  *)
(* formed but where a thread starts at a partition that an ended one left. *)
TrieOfPartitions ==
  /\ Leaves(thread_partitions) = DOMAIN partition
  /\ EachPlaceOnce => WellFormed(thread_partitions)

(* An address of a thread that runs is found in the partition of that      *)
(* thread which is nearest, the thread-local storage being inside of the   *)
(* stack; if ended threads have left partitions at its place, in the       *)
(* oldest of these; past the thread-local storage, in none.                *)
FindsItsOwn ==
  \A t \in Running : \A p \in StackOf(t) :
    find_thread_partition(p) =
      CASE p < area[t] + TLS_OFFSET -> Oldest(StartsAt(area[t]))
        [] p \in TlsOf(t) -> Oldest(StartsAt(area[t] + TLS_OFFSET))
        [] OTHER -> NULL

(* An access reads a null or freed partition only if the thread at whose   *)
(* memory it looks ends during the access: what any other thread does to   *)
(* the trie meanwhile, starting at a place used before included, does not  *)
(* take away a partition between the searches or before the read.          *)
NoFault == fault # NULL => phase[fault] = "ended"

(* No partition of a thread outlives it ("Remove all leaves that satisfy   *)
(* the given predicate", e_acsl_patricia_trie.h:84).                       *)
NothingLeft ==
  \A t \in Threads : phase[t] = "ended" => {StackLeaf(t), TlsLeaf(t)} \cap DOMAIN partition = {}
=============================================================================
