-------------------------- MODULE MCRuntimeThreads --------------------------
(* An instance of RuntimeThreads for TLC. *)
EXTENDS RuntimeThreads, Integers

(* Two tries that differ only in where their nodes were allocated are one. *)
(* (The comparison at the end makes TLC compute the trie it then stores.)  *)
Node(n) == <<thread_partitions.node[n].addr, thread_partitions.node[n].mask,
             thread_partitions.node[n].leaf>>
Links(n) == {Node(m) : m \in {thread_partitions.node[n].left, thread_partitions.node[n].right}
                               \cap DOMAIN thread_partitions.node}
MCView == <<{<<Node(n), Links(n), n = thread_partitions.root>> :
               n \in DOMAIN thread_partitions.node},
            partition, phase, area, access, fault,
            thread_partitions = thread_partitions>>
=============================================================================
