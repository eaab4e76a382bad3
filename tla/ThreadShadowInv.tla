-------------------------- MODULE ThreadShadowInv --------------------------
(***************************************************************************)
(* The inductive invariants of ThreadShadow, with the theorems on the trie *)
(* that they rest on.  RuntimeProofs, which instantiates this module, has  *)
(* the proofs.                                                             *)
(***************************************************************************)
EXTENDS ThreadShadow, PatriciaTrieProofs

Phases == {"none", "created", "on_stack", "running", "ended", "canceled"}

(* Threads that are not gone have areas of their own.                      *)
AreasInv ==
  /\ phase \in [Threads -> Phases]
  /\ area \in [Threads -> Areas \cup {NULL}]
  /\ \A t \in Created : area[t] \in Areas
  /\ \A t, u \in Created \ Gone : area[t] = area[u] => t = u

StackPartition(t) == Partition(area[t], area[t], STACK_SIZE)
TlsPartition(t) == Partition(area[t], area[t] + TLS_OFFSET, TLS_SIZE)

(* The partitions there are: those of a thread that runs, what is left of  *)
(* one that is gone, and nothing of one that has not started.              *)
PartitionsInv ==
  /\ \A l \in DOMAIN partition :
       \E t \in Created :
         \/ l = StackLeaf(t) /\ partition[l] = StackPartition(t) /\ phase[t] # "created"
         \/ l = TlsLeaf(t) /\ partition[l] = TlsPartition(t) /\ phase[t] \in {"running", "ended"}
  /\ \A t \in Threads :
       /\ phase[t] \in {"on_stack", "running"} => StackLeaf(t) \in DOMAIN partition
       /\ phase[t] = "running" => TlsLeaf(t) \in DOMAIN partition

(* The trie has an entry for each partition, at its start.                 *)
TrieKeepsInv ==
  /\ TrieInv(thread_partitions) /\ Counted(thread_partitions) /\ LeafEnds(thread_partitions)
  /\ Entries(thread_partitions) = {<<partition[l].start, l>> : l \in DOMAIN partition}

ThreadInv == AreasInv /\ PartitionsInv /\ TrieKeepsInv

(* An access: unless the thread has ended whose memory it is about, its    *)
(* searches find a partition, which is there.                              *)
AccessOf(u) ==
  \E t \in Threads :
    /\ phase[t] \in {"running", "ended"}
    /\ \/ \E p \in StackOf(t) :
            /\ access[u] = [step |-> "shadow", of |-> t, addr |-> p]
            /\ phase[t] = "running" => p < area[t] + TLS_OFFSET + TLS_SIZE
       \/ /\ access[u] = [step |-> "offset", of |-> t, leaf |-> access[u].leaf]
          /\ phase[t] = "running" => access[u].leaf \in {StackLeaf(t), TlsLeaf(t)}

AccessInv ==
  /\ access = [u \in Threads \cup {Main} |-> access[u]]
  /\ \A u \in Threads \cup {Main} : access[u] = Idle \/ AccessOf(u)
============================================================================
