---------------------------- MODULE PatriciaTrie ----------------------------
(***************************************************************************)
(* The Patricia trie of the E-ACSL runtime (e_acsl_patricia_trie.c), which *)
(* maps an address to the memory region that contains it.  The bittree     *)
(* observation model keeps its blocks in one, the shadow model the memory  *)
(* of the threads.                                                         *)
(*                                                                         *)
(* A trie is a record: its root and the table of its nodes, allocated and  *)
(* freed as the code does.  A node is a leaf iff its field leaf is set; a  *)
(* mask is the number of leading bits it keeps.  A leaf of the table that  *)
(* is read after it was freed is an error of the evaluation.               *)
(***************************************************************************)
EXTENDS WordBits, Integers, Sequences, FiniteSets

NULL == 0                               \* no node, no leaf, the null pointer

PT_EQ ==
  CASE WORDBITS = 16 ->
         <<0, -1, 3, -3, 6, -5, 7, -7, 12, -9, 11, -11, 14, -13, 15, 16, -16>>
    [] WORDBITS = 32 ->
         <<0, -1, 3, -3, 6, -5, 7, -7, 12, -9, 11, -11, 14, -13, 15, -15, 24,
           -17, 19, -19, 22, -21, 23, -23, 28, -25, 27, -27, 30, -29, 31, 32, -32>>
    [] WORDBITS = 64 ->
         <<0, -1, 3, -3, 6, -5, 7, -7, 12, -9, 11, -11, 14, -13, 15, -15, 24,
           -17, 19, -19, 22, -21, 23, -23, 28, -25, 27, -27, 30, -29, 31, -31, 48,
           -33, 35, -35, 38, -37, 39, -39, 44, -41, 43, -43, 46, -45, 47, -47, 56,
           -49, 51, -51, 54, -53, 55, -55, 60, -57, 59, -59, 62, -61, 63, 64, -64>>

PT_NEQ ==
  CASE WORDBITS = 16 ->
         <<0, 0, 1, -2, 2, -4, 5, -6, 4, -8, 9, -10, 10, -12, 13, -14, -15>>
    [] WORDBITS = 32 ->
         <<0, 0, 1, -2, 2, -4, 5, -6, 4, -8, 9, -10, 10, -12, 13, -14, 8, -16,
           17, -18, 18, -20, 21, -22, 20, -24, 25, -26, 26, -28, 29, -30, -31>>
    [] WORDBITS = 64 ->
         <<0, 0, 1, -2, 2, -4, 5, -6, 4, -8, 9, -10, 10, -12, 13, -14, 8, -16,
           17, -18, 18, -20, 21, -22, 20, -24, 25, -26, 26, -28, 29, -30, 16, -32,
           33, -34, 34, -36, 37, -38, 36, -40, 41, -42, 42, -44, 45, -46, 40, -48,
           49, -50, 50, -52, 53, -54, 52, -56, 57, -58, 58, -60, 61, -62, -63>>

POWERS ==
  <<1, 2, 4, 8, 16, 32, 64, 128, 256, 512, 1024, 2048, 4096, 8192, 16384, 32768, 65536,
    131072, 262144, 524288, 1048576, 2097152, 4194304, 8388608, 16777216, 33554432,
    67108864, 134217728, 268435456, 536870912, 1073741824>>

(* The addresses of the model have 30 bits, or 16 if words do: the masks   *)
(* that keep bits above them are one.                                      *)
Unit(m) == POWERS[1 + IF WORDBITS - m > 30 THEN 30 ELSE WORDBITS - m]

Word == 0 .. (Unit(0) - 1)

Prefix(a, m) == a - (a % Unit(m))        \* PT_MASKS[m] & a

(* a & b, bit by bit. *)
Bit(a, m) == Prefix(a, m) - Prefix(a, m - 1)

And(a, b) ==
  LET both[m \in 0 .. WORDBITS] ==
        IF m = 0 THEN 0
        ELSE both[m - 1] + IF Bit(a, m) <= Bit(b, m) THEN Bit(a, m) ELSE Bit(b, m)
  IN  both[WORDBITS]

(* A loop that goes from n to next[n] until it stays. *)
Descend(from, next) ==
  LET walk[n \in DOMAIN next] ==
        LET m == next[n] IN IF m = n THEN n ELSE walk[m]
  IN  walk[from]

(* The dichotomic search of pt_mask: agree[i] when the first i bits do. *)
MaskSearch(agree) ==
  -Descend(WORDBITS \div 2,
           [i \in -WORDBITS .. WORDBITS |->
              IF i <= 0 THEN i ELSE IF agree[i] THEN PT_EQ[i + 1] ELSE PT_NEQ[i + 1]])

(* The table returns the length of the common prefix, whatever it is. *)
MasksAreExact ==
  \A common \in 0 .. WORDBITS : MaskSearch([i \in 0 .. WORDBITS |-> i <= common]) = common

pt_mask(a, b) == MaskSearch([i \in 0 .. WORDBITS |-> Prefix(a, i) = Prefix(b, i)])

-----------------------------------------------------------------------------
EmptyTrie == [root |-> NULL, node |-> <<>>]

Fresh(used) == CHOOSE i \in 1 .. Cardinality(used) + 1 : i \notin used

Without(node, freed) == [i \in DOMAIN node \ freed |-> node[i]]
With(node, i, nd) == [j \in DOMAIN node \cup {i} |-> IF j = i THEN nd ELSE node[j]]

NodePrefix(node, n) == Prefix(node[n].addr, node[n].mask)

ChildrenMask(node, n) ==
  pt_mask(NodePrefix(node, node[n].left), NodePrefix(node, node[n].right))

(* The node that becomes the sibling of a new leaf for ptr. *)
pt_most_similar_node(t, ptr) ==
  LET common(child) == pt_mask(NodePrefix(t.node, child), ptr)
      next == [n \in DOMAIN t.node |->
                 LET nd == t.node[n] IN
                 CASE nd.leaf # NULL -> n
                   [] nd.leaf = NULL /\ common(nd.left) > common(nd.right) -> nd.left
                   [] nd.leaf = NULL /\ common(nd.left) < common(nd.right) -> nd.right
                   [] OTHER -> n]
  IN  Descend(t.root, next)

(* The link from parent to old now goes to new. *)
Redirect(node, parent, old, new) ==
  IF parent = NULL THEN node
  ELSE IF node[parent].left = old THEN [node EXCEPT ![parent].left = new]
  ELSE [node EXCEPT ![parent].right = new]

(* Mutant: the root is not replaced when a node is put above it. *)
pt_insert_UnderRoot(t, leaf, ptr) ==
  LET new == Fresh(DOMAIN t.node)
      leafNode(up) == [addr |-> ptr, mask |-> WORDBITS, leaf |-> leaf,
                       left |-> NULL, right |-> NULL, parent |-> up]
      s == pt_most_similar_node(t, ptr)
      sib == t.node[s]
      p == Fresh(DOMAIN t.node \cup {new})
      first == ptr <= sib.addr
      parent == [addr |-> And(sib.addr, ptr), leaf |-> NULL,
                 mask |-> pt_mask(NodePrefix(t.node, s), ptr),
                 left |-> IF first THEN new ELSE s,
                 right |-> IF first THEN s ELSE new,
                 parent |-> sib.parent]
      sibling == [sib EXCEPT !.parent = p,
                             !.mask = IF sib.leaf # NULL THEN @
                                      ELSE ChildrenMask(t.node, s)]
  IN  IF t.root = NULL
      THEN [root |-> new, node |-> With(<<>>, new, leafNode(NULL))]
      ELSE [root |-> t.root,
            node |-> With(With([Redirect(t.node, sib.parent, s, p) EXCEPT ![s] = sibling],
                               new, leafNode(p)), p, parent)]

pt_insert(t, leaf, ptr) ==
  LET new == Fresh(DOMAIN t.node)
      leafNode(up) == [addr |-> ptr, mask |-> WORDBITS, leaf |-> leaf,
                       left |-> NULL, right |-> NULL, parent |-> up]
      s == pt_most_similar_node(t, ptr)
      sib == t.node[s]
      p == Fresh(DOMAIN t.node \cup {new})
      first == ptr <= sib.addr
      parent == [addr |-> And(sib.addr, ptr), leaf |-> NULL,
                 mask |-> pt_mask(NodePrefix(t.node, s), ptr),
                 left |-> IF first THEN new ELSE s,
                 right |-> IF first THEN s ELSE new,
                 parent |-> sib.parent]
      sibling == [sib EXCEPT !.parent = p,
                             !.mask = IF sib.leaf # NULL THEN @
                                      ELSE ChildrenMask(t.node, s)]
  IN  IF t.root = NULL
      THEN [root |-> new, node |-> With(<<>>, new, leafNode(NULL))]
      ELSE [root |-> IF s = t.root THEN p ELSE t.root,
            node |-> With(With([Redirect(t.node, sib.parent, s, p) EXCEPT ![s] = sibling],
                               new, leafNode(p)), p, parent)]

(* Where the code aborts with "Unreachable" the result is NULL. *)
pt_get_leaf_node_from_leaf(t, ptr) ==
  LET follows(child) ==
        NodePrefix(t.node, child) = Prefix(ptr, t.node[child].mask)
      next == [n \in DOMAIN t.node |->
                 LET nd == t.node[n] IN
                 CASE nd.leaf # NULL -> n
                   [] nd.leaf = NULL /\ follows(nd.right) -> nd.right
                   [] nd.leaf = NULL /\ ~follows(nd.right) /\ follows(nd.left) -> nd.left
                   [] OTHER -> n]
      end == Descend(t.root, next)
  IN  IF t.node[end].leaf # NULL THEN end ELSE NULL

(* Mutant: the children of the sibling keep their parent, which is freed. *)
pt_remove_leaf_node_OldParent(t, n) ==
  LET p == t.node[n].parent
      s == IF t.node[p].left = n THEN t.node[p].right ELSE t.node[p].left
      up == t.node[p].parent
      moved == [t.node EXCEPT ![p] = [t.node[s] EXCEPT !.parent = up]]
      masked == IF up = NULL THEN moved
                ELSE [moved EXCEPT ![up].mask = ChildrenMask(moved, up)]
  IN  IF p = NULL THEN EmptyTrie
      ELSE [t EXCEPT !.node = Without(masked, {n, s})]

(* The sibling of the removed leaf is copied over their parent and freed. *)
pt_remove_leaf_node(t, n) ==
  LET p == t.node[n].parent
      s == IF t.node[p].left = n THEN t.node[p].right ELSE t.node[p].left
      sib == t.node[s]
      up == t.node[p].parent
      moved == [i \in DOMAIN t.node |->
                  IF i = p THEN [sib EXCEPT !.parent = up]
                  ELSE IF sib.leaf = NULL /\ i \in {sib.left, sib.right}
                       THEN [t.node[i] EXCEPT !.parent = p]
                       ELSE t.node[i]]
      masked == IF up = NULL THEN moved
                ELSE [moved EXCEPT ![up].mask = ChildrenMask(moved, up)]
  IN  IF p = NULL THEN EmptyTrie
      ELSE [t EXCEPT !.node = Without(masked, {n, s})]

pt_remove(t, ptr) == pt_remove_leaf_node(t, pt_get_leaf_node_from_leaf(t, ptr))

(* A step of pt_remove_node_if, of the leaves of a set.  The calls that are *)
(* still to do are sides of nodes, the next one first; the loop calls the  *)
(* left side again when it has removed a leaf there, then the right one.   *)
RemoveStep(w, chosen) ==
  LET n == Head(w.todo)[1]
      side == Head(w.todo)[2]
      child == IF side = "left" THEN w.trie.node[n].left ELSE w.trie.node[n].right
      then == IF side = "left" THEN <<<<n, "right">>>> \o Tail(w.todo) ELSE Tail(w.todo)
  IN  CASE child = NULL -> [w EXCEPT !.todo = then]
        [] child # NULL /\ w.trie.node[child].leaf = NULL ->
             [w EXCEPT !.todo = <<<<child, "left">>>> \o then]
        [] child # NULL /\ w.trie.node[child].leaf \in chosen \ {NULL} ->
             [trie |-> pt_remove_leaf_node(w.trie, child),
              todo |-> IF side = "left" THEN w.todo ELSE Tail(w.todo)]
        [] OTHER -> [w EXCEPT !.todo = then]

(* An inner node is visited twice, once a side, and once more for a leaf   *)
(* removed on its left: less than twice the number of nodes.               *)
pt_remove_node_if(t, n, chosen) ==
  LET walk[k \in Nat] ==
        IF k = 0 THEN [trie |-> t, todo |-> <<<<n, "left">>>>]
        ELSE LET w == walk[k - 1]
             IN  IF w.todo = <<>> THEN w ELSE RemoveStep(w, chosen)
  IN  walk[2 * Cardinality(DOMAIN t.node)].trie

pt_remove_if(t, chosen) ==
  IF t.root = NULL THEN t
  ELSE IF t.node[t.root].leaf = NULL THEN pt_remove_node_if(t, t.root, chosen)
  ELSE IF t.node[t.root].leaf \in chosen THEN pt_remove_leaf_node(t, t.root)
  ELSE t

(* The leaf that starts at ptr, for the tests the code makes on the way.   *)
(* The caller accounts for what the code returns then: see BittreeModel.   *)
pt_lookup(t, ptr) ==
  LET follows(n) == NodePrefix(t.node, n) = Prefix(ptr, t.node[n].mask)
      next == [n \in DOMAIN t.node |->
                 LET nd == t.node[n] IN
                 CASE nd.leaf # NULL -> n
                   [] nd.leaf = NULL /\ follows(n) /\ follows(nd.right) -> nd.right
                   [] nd.leaf = NULL /\ follows(n) /\ ~follows(nd.right) /\ follows(nd.left) ->
                        nd.left
                   [] OTHER -> n]
      end == t.node[Descend(t.root, next)]
  IN  IF end.leaf # NULL /\ end.addr = ptr THEN end.leaf ELSE NULL

(* Mutant: the child passed over is not looked at. *)
pt_find_NoWayBack(t, holders, ptr) ==
  LET below(n) == NodePrefix(t.node, n) <= Prefix(ptr, t.node[n].mask)
      next == [n \in DOMAIN t.node |->
                 LET nd == t.node[n] IN
                 CASE nd.leaf # NULL -> n
                   [] nd.leaf = NULL /\ below(nd.right) -> nd.right
                   [] nd.leaf = NULL /\ ~below(nd.right) /\ below(nd.left) -> nd.left
                   [] OTHER -> n]
      end == t.node[Descend(t.root, next)]
  IN  IF t.root = NULL \/ ptr = NULL THEN NULL
      ELSE IF end.leaf # NULL /\ end.addr <= ptr /\ end.leaf \in holders THEN end.leaf
      ELSE NULL

(* The leaf that contains ptr, one of holders: the walk keeps the last     *)
(* left child passed over, and comes back to it once.                      *)
pt_find(t, holders, ptr) ==
  LET below(n) == NodePrefix(t.node, n) <= Prefix(ptr, t.node[n].mask)
      next == [w \in (DOMAIN t.node) \X (DOMAIN t.node \cup {NULL}) |->
                 LET nd == t.node[w[1]]
                     other == w[2]
                 IN  CASE nd.leaf # NULL -> w
                       [] nd.leaf = NULL /\ below(nd.right) -> <<nd.right, nd.left>>
                       [] nd.leaf = NULL /\ ~below(nd.right) /\ below(nd.left) ->
                            <<nd.left, other>>
                       [] OTHER -> IF other = NULL THEN w ELSE <<other, NULL>>]
      end == t.node[Descend(<<t.root, NULL>>, next)[1]]
  IN  IF t.root = NULL \/ ptr = NULL THEN NULL
      ELSE IF end.leaf # NULL /\ end.addr <= ptr /\ end.leaf \in holders THEN end.leaf
      ELSE NULL

-----------------------------------------------------------------------------
Leaves(t) == {t.node[n].leaf : n \in {m \in DOMAIN t.node : t.node[m].leaf # NULL}}

(* Links go both ways, every node hangs from the root, and the prefix of   *)
(* an inner node is the one its children have in common.                   *)
WellFormed(t) ==
  LET inner == {n \in DOMAIN t.node : t.node[n].leaf = NULL}
      kids(n) == {t.node[n].left, t.node[n].right}
  IN  /\ t.root = NULL <=> DOMAIN t.node = {}
      /\ \A n \in inner :
           /\ \A k \in kids(n) : k \in DOMAIN t.node /\ t.node[k].parent = n
           /\ t.node[n].mask = ChildrenMask(t.node, n)
           /\ \A k \in kids(n) : /\ t.node[n].mask < t.node[k].mask
                                 /\ NodePrefix(t.node, n) = Prefix(t.node[k].addr, t.node[n].mask)
           /\ NodePrefix(t.node, t.node[n].left) < NodePrefix(t.node, t.node[n].right)
      /\ \A n \in DOMAIN t.node :
           IF t.node[n].parent = NULL THEN n = t.root
           ELSE t.node[n].parent \in inner /\ n \in kids(t.node[n].parent)
=============================================================================
