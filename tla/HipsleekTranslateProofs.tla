---------------------- MODULE HipsleekTranslateProofs ----------------------
(****************************************************************************)
(* For any set of lines: the pairing is well typed, no block serves two     *)
(* functions or loops, in a well placed source the only blocks taken by a   *)
(* neighbour are those of loops that are not translated, and blocks and     *)
(* their takers pair off like brackets.                                     *)
(****************************************************************************)
EXTENDS HipsleekTranslate, FiniteSetTheorems, WellFoundedInduction, TLAPS

\* What find_annotation relies on: spec has a value at each line, and a block
\* that was attached is in used_blocks.  OneOwner is not inductive without it.
UsedInv ==
    /\ DOMAIN spec = Items
    /\ spec = [i \in Items |-> spec[i]]
    /\ \A i \in Items : spec[i] # NoBlock => spec[i] \in used_blocks

OwnerInv == TypeOK /\ UsedInv /\ OneOwner

\* What one search does, whatever item of the right kind it is for.
LEMMA SearchKeeps ==
    ASSUME OwnerInv, UNCHANGED layout,
           NEW i \in Items, NEW kind \in {"SL", "SL_loop"},
           layout[i] = (IF kind = "SL" THEN "fundef" ELSE "loop"),
           NEW after, find_annotation(Blocks(kind), after, i)
    PROVE  /\ UsedInv' /\ OneOwner'
           /\ used_blocks' \subseteq All("SL") \cup All("SL_loop")
           /\ \A j \in Items :
                 spec'[j] # NoBlock =>
                    \/ layout[j] = "fundef" /\ spec'[j] \in All("SL")
                    \/ layout[j] = "loop" /\ spec'[j] \in All("SL_loop")
<1>1. CASE UNCHANGED <<used_blocks, spec>>
  BY <1>1 DEF OwnerInv, TypeOK, UsedInv, OneOwner
<1>2. CASE \E b \in Candidates(Blocks(kind), after, i) :
              /\ used_blocks' = used_blocks \cup {b}
              /\ spec' = [spec EXCEPT ![i] = b]
  <2>1. PICK b \in Candidates(Blocks(kind), after, i) :
           /\ used_blocks' = used_blocks \cup {b}
           /\ spec' = [spec EXCEPT ![i] = b]
    BY <1>2
  <2>2. b \in All(kind) /\ b \notin used_blocks
    BY DEF Candidates, Blocks
  <2>3. /\ DOMAIN spec' = Items
        /\ spec'[i] = b
        /\ \A j \in Items \ {i} : spec'[j] = spec[j]
    BY <2>1 DEF OwnerInv, UsedInv
  <2>4. UsedInv'
    BY <2>1, <2>3 DEF OwnerInv, UsedInv
  <2>5. OneOwner'
    BY <2>2, <2>3 DEF OwnerInv, UsedInv, OneOwner
  <2>6. used_blocks' \subseteq All("SL") \cup All("SL_loop")
    BY <2>1, <2>2 DEF OwnerInv, TypeOK
  <2>7. \A j \in Items :
           spec'[j] # NoBlock =>
              \/ layout[j] = "fundef" /\ spec'[j] \in All("SL")
              \/ layout[j] = "loop" /\ spec'[j] \in All("SL_loop")
    BY <2>2, <2>3 DEF OwnerInv, TypeOK
  <2> QED BY <2>4, <2>5, <2>6, <2>7
<1> QED BY <1>1, <1>2 DEF find_annotation

LEMMA OwnerInit == Init => OwnerInv
<1> SUFFICES ASSUME Init PROVE OwnerInv
  OBVIOUS
<1>1. TypeOK
  BY DEF Init, TypeOK, All
<1>2. UsedInv /\ OneOwner
  BY DEF Init, UsedInv, OneOwner
<1> QED BY <1>1, <1>2 DEF OwnerInv

LEMMA OwnerNext == OwnerInv /\ [Next]_vars => OwnerInv'
<1> SUFFICES ASSUME OwnerInv, [Next]_vars PROVE OwnerInv'
  OBVIOUS
<1>1. CASE PairFunction
  <2>1. PICK f \in fns :
           /\ fns' = fns \ {f}
           /\ find_annotation(Blocks("SL"), 0, f)
           /\ UNCHANGED <<layout, globals, cur_fn, loops>>
    BY <1>1 DEF PairFunction
  <2>2. f \in Items /\ layout[f] = "fundef"
    BY DEF OwnerInv, TypeOK, All
  <2>3. /\ UsedInv' /\ OneOwner'
        /\ used_blocks' \subseteq All("SL") \cup All("SL_loop")
        /\ \A j \in Items :
              spec'[j] # NoBlock =>
                 \/ layout[j] = "fundef" /\ spec'[j] \in All("SL")
                 \/ layout[j] = "loop" /\ spec'[j] \in All("SL_loop")
    BY <2>1, <2>2, SearchKeeps
  <2>4. TypeOK'
    BY <2>1, <2>3 DEF OwnerInv, TypeOK, All
  <2> QED BY <2>3, <2>4 DEF OwnerInv
<1>2. CASE TranslateFunction
  BY <1>2 DEF TranslateFunction, OwnerInv, TypeOK, UsedInv, OneOwner, All
<1>3. CASE TranslateLoop
  <2>1. PICK l \in loops :
           /\ loops' = loops \ {l}
           /\ find_annotation(Blocks("SL_loop"), Line(cur_fn), l)
           /\ UNCHANGED <<layout, fns, globals, cur_fn>>
    BY <1>3 DEF TranslateLoop
  <2>2. l \in Items /\ layout[l] = "loop"
    BY DEF OwnerInv, TypeOK, All
  <2>3. /\ UsedInv' /\ OneOwner'
        /\ used_blocks' \subseteq All("SL") \cup All("SL_loop")
        /\ \A j \in Items :
              spec'[j] # NoBlock =>
                 \/ layout[j] = "fundef" /\ spec'[j] \in All("SL")
                 \/ layout[j] = "loop" /\ spec'[j] \in All("SL_loop")
    BY <2>1, <2>2, SearchKeeps
  <2>4. TypeOK'
    BY <2>1, <2>3 DEF OwnerInv, TypeOK, All
  <2> QED BY <2>3, <2>4 DEF OwnerInv
<1>4. CASE UNCHANGED vars
  BY <1>4 DEF vars, OwnerInv, TypeOK, UsedInv, OneOwner, All
<1> QED BY <1>1, <1>2, <1>3, <1>4 DEF Next

\* The types of the pairing (translate, lines 635 to 661), for any sources.
THEOREM PairingTypes == Spec => []TypeOK
<1>1. OwnerInv => TypeOK
  BY DEF OwnerInv
<1> QED BY <1>1, OwnerInit, OwnerNext, PTL DEF Spec

\* No block is attached twice (used_blocks, lines 106 to 110), for any sources
\* and any order of the AST.
THEOREM BlocksServeOnce == Spec => []OneOwner
<1>1. OwnerInv => OneOwner
  BY DEF OwnerInv
<1> QED BY <1>1, OwnerInit, OwnerNext, PTL DEF Spec

-----------------------------------------------------------------------------
(* Well placed sources *)

LEMMA ItemFacts ==
    /\ \A i \in Items : File(i) \in Nat /\ Line(i) \in Nat /\ Line(i) > 0
    /\ \A i, j \in Items : File(i) = File(j) /\ Line(i) = Line(j) => i = j
    /\ NoBlock \notin Items
<1>1. \A i \in Items : File(i) \in Nat /\ Line(i) \in Nat /\ Line(i) > 0
  BY ItemsAssumption DEF File, Line
<1>2. \A i, j \in Items : File(i) = File(j) /\ Line(i) = Line(j) => i = j
  BY ItemsAssumption DEF File, Line
<1>3. NoBlock \notin Items
  <2>1. \A x \in Nat \X (Nat \ {0}) : DOMAIN x = 1 .. 2
    OBVIOUS
  <2>2. DOMAIN NoBlock = {}
    BY DEF NoBlock
  <2> QED BY <2>1, <2>2, ItemsAssumption
<1> QED BY <1>1, <1>2, <1>3

\* A line has one next line and one line before it, among those that hold
\* something, and one function around it.
LEMMA OneNext ==
    ASSUME NEW b \in Items, NEW i \in Items, NEW j \in Items,
           Follows(b, i), Follows(b, j), layout[i] # "blank", layout[j] # "blank"
    PROVE  i = j
<1>1. ~(Line(i) < Line(j)) /\ ~(Line(j) < Line(i))
  BY ItemFacts DEF Follows, Between
<1>2. File(i) = File(j) /\ Line(i) = Line(j)
  BY <1>1, ItemFacts DEF Follows
<1> QED BY <1>2, ItemFacts

LEMMA OneBefore ==
    ASSUME NEW b \in Items, NEW c \in Items, NEW i \in Items,
           Follows(b, i), Follows(c, i), layout[b] # "blank", layout[c] # "blank"
    PROVE  b = c
<1>1. ~(Line(b) < Line(c)) /\ ~(Line(c) < Line(b))
  BY ItemFacts DEF Follows, Between
<1> QED BY <1>1, ItemFacts DEF Follows

LEMMA OneAround ==
    ASSUME NEW d \in Items, NEW e \in Items, NEW i \in Items,
           InBody(layout, d, i), InBody(layout, e, i)
    PROVE  d = e
<1>1. ~(Line(d) < Line(e)) /\ ~(Line(e) < Line(d))
  BY ItemFacts DEF InBody
<1> QED BY <1>1, ItemFacts DEF InBody

\* What is next to a line is before any other line that holds something.
LEMMA NextIsFirst ==
    ASSUME NEW b \in Items, NEW i \in Items, NEW j \in Items,
           Follows(b, i), File(j) = File(b), Line(b) < Line(j), layout[j] # "blank"
    PROVE  File(i) = File(j) /\ Line(b) < Line(i) /\ Line(i) <= Line(j)
<1>1. ~(Line(j) < Line(i))
  BY ItemFacts DEF Follows, Between
<1> QED BY <1>1, ItemFacts DEF Follows

\* Item i has its block, or none is before it and the one it has, if any, was
\* written for a dropped loop.
Settled(i) ==
    \/ spec[i] # NoBlock /\ Follows(spec[i], i)
    \/ /\ \A b \in All("SL") \cup All("SL_loop") : ~Follows(b, i)
       /\ \/ spec[i] = NoBlock
          \/ layout[i] = "loop" /\ LeftOver(spec[i], i)

\* A block before an item was not left over by a dropped loop.
LEMMA LeftOverIsElsewhere ==
    ASSUME NEW b \in Items, NEW i \in Items, Follows(b, i),
           layout[i] \notin {"blank", "dropped"}
    PROVE  \A l : ~LeftOver(b, l)
<1>. SUFFICES ASSUME NEW d \in All("dropped"), Follows(b, d) PROVE FALSE
  BY DEF LeftOver
<1> QED BY OneNext DEF All

\* The loops of the bodies not printed yet.
Pending(l) == l \in loops \/ \E d \in globals : InBody(layout, d, l)

\* An item is settled once it has been searched for, and the blocks attached
\* so far are those of these items: a block that an item leaves behind it
\* would be taken by one of the next.
PlacedInv ==
    /\ \A f \in All("fundef") : IF f \in fns THEN spec[f] = NoBlock ELSE Settled(f)
    /\ \A l \in All("loop") : IF Pending(l) THEN spec[l] = NoBlock ELSE Settled(l)
    /\ \A b \in used_blocks : \E i \in Items : spec[i] = b
    /\ cur_fn \notin globals
    /\ loops # {} => cur_fn \in Items

\* A search among blocks that are next to i or left over, with all those next
\* to i: the last one is next to i if there is one there.
LEMMA SearchSettles ==
    ASSUME OwnerInv, PlacedInv, UNCHANGED layout, NEW i \in Items, spec[i] = NoBlock,
           NEW blocks, NEW after, find_annotation(blocks, after, i),
           \A c \in Candidates(blocks, after, i) :
              /\ c \in Items /\ layout[c] # "blank" /\ File(c) = File(i) /\ Line(c) < Line(i)
              /\ Follows(c, i) \/ (layout[i] = "loop" /\ LeftOver(c, i)),
           \A b \in All("SL") \cup All("SL_loop") :
              Follows(b, i) => b \in Candidates(blocks, after, i)
    PROVE  /\ Settled(i)'
           /\ \A j \in Items \ {i} : spec'[j] = spec[j] /\ (Settled(j) => Settled(j)')
           /\ \A b \in used_blocks' : \E j \in Items : spec'[j] = b
<1>. DEFINE cands == Candidates(blocks, after, i)
<1>1. spec = [j \in Items |-> spec[j]]
  BY DEF OwnerInv, UsedInv
<1>2. \A b, j : Follows(b, j)' <=> Follows(b, j)
  BY DEF Follows, Between
<1>3. \A kind : All(kind)' = All(kind)
  BY DEF All
<1>a. \A b, j : LeftOver(b, j)' <=> LeftOver(b, j)
  BY <1>2, <1>3 DEF LeftOver
<1>. HIDE DEF cands
<1>4. CASE cands = {} /\ UNCHANGED <<used_blocks, spec>>
  <2>1. Settled(i)'
    BY <1>2, <1>3, <1>4 DEF Settled, cands
  <2>2. \A j \in Items : Settled(j) => Settled(j)'
    BY <1>2, <1>3, <1>a, <1>4 DEF Settled
  <2> QED BY <1>4, <2>1, <2>2 DEF PlacedInv
<1>5. ASSUME NEW b \in cands, \A c \in cands : Line(c) <= Line(b),
             used_blocks' = used_blocks \cup {b}, spec' = [spec EXCEPT ![i] = b]
      PROVE  /\ Settled(i)'
             /\ \A j \in Items \ {i} : spec'[j] = spec[j] /\ (Settled(j) => Settled(j)')
             /\ \A c \in used_blocks' : \E j \in Items : spec'[j] = c
  <2>1. /\ b \in Items /\ layout[b] # "blank" /\ File(b) = File(i) /\ Line(b) < Line(i)
        /\ Follows(b, i) \/ (layout[i] = "loop" /\ LeftOver(b, i))
        /\ b # NoBlock
    BY <1>5, ItemFacts DEF cands
  <2>2. spec'[i] = b /\ \A j \in Items \ {i} : spec'[j] = spec[j]
    BY <1>1, <1>5
  <2>a. ASSUME NEW c \in All("SL") \cup All("SL_loop"), Follows(c, i) PROVE Follows(b, i)
    <3>1. c \in Items /\ layout[c] # "blank" /\ Line(c) <= Line(b)
      BY <1>5, <2>a DEF cands, All
    <3>2. ~(Line(c) < Line(b))
      BY <2>1, <2>a DEF Follows, Between
    <3>3. b = c
      BY <2>1, <2>a, <3>1, <3>2, ItemFacts DEF Follows
    <3> QED BY <2>a, <3>3
  <2>3. Settled(i)'
    <3>1. CASE Follows(b, i)
      BY <1>2, <2>1, <2>2, <3>1 DEF Settled
    <3>2. CASE ~Follows(b, i)
      <4>1. \A c \in All("SL") \cup All("SL_loop") : ~Follows(c, i)
        BY <2>a, <3>2
      <4>2. layout[i] = "loop" /\ LeftOver(b, i)
        BY <2>1, <3>2
      <4> QED BY <1>2, <1>3, <1>a, <2>2, <4>1, <4>2 DEF Settled
    <3> QED BY <3>1, <3>2
  <2>4. \A j \in Items \ {i} : Settled(j) => Settled(j)'
    BY <1>2, <1>3, <1>a, <2>2 DEF Settled
  <2>5. ASSUME NEW c \in used_blocks PROVE \E j \in Items : spec'[j] = c
    <3>1. PICK j \in Items : spec[j] = c
      BY DEF PlacedInv
    <3>2. c # NoBlock
      BY ItemFacts DEF OwnerInv, TypeOK, All
    <3> QED BY <2>2, <3>1, <3>2
  <2> QED BY <1>5, <2>2, <2>3, <2>4, <2>5
<1> QED BY <1>4, <1>5 DEF find_annotation, cands

\* The blocks that the search for a function finds: the functions before it
\* are settled, and have taken theirs.
LEMMA FunctionSearch ==
    ASSUME OwnerInv, PlacedInv, WellPlaced, NEW f \in fns, IsFirst(f, fns)
    PROVE  /\ f \in Items /\ layout[f] = "fundef" /\ spec[f] = NoBlock
           /\ \A c \in Candidates(Blocks("SL"), 0, f) :
                 /\ c \in Items /\ layout[c] # "blank" /\ File(c) = File(f) /\ Line(c) < Line(f)
                 /\ Follows(c, f)
           /\ \A b \in All("SL") \cup All("SL_loop") :
                 Follows(b, f) => b \in Candidates(Blocks("SL"), 0, f)
<1>1. f \in Items /\ layout[f] = "fundef" /\ spec[f] = NoBlock
  BY DEF OwnerInv, TypeOK, PlacedInv, All
<1>2. ASSUME NEW c \in Candidates(Blocks("SL"), 0, f)
      PROVE  /\ c \in Items /\ layout[c] # "blank" /\ File(c) = File(f) /\ Line(c) < Line(f)
             /\ Follows(c, f)
  <2>1. /\ c \in Items /\ c \in All("SL") /\ layout[c] = "SL" /\ c \notin used_blocks
        /\ File(c) = File(f) /\ Line(c) < Line(f)
    BY DEF Candidates, Blocks, All
  <2>2. PICK g \in All("fundef") : Follows(c, g)
    BY <2>1 DEF WellPlaced
  <2>3. g \in Items /\ layout[g] = "fundef"
    BY DEF All
  <2>4. File(g) = File(f) /\ Line(g) <= Line(f)
    BY <1>1, <2>1, <2>2, <2>3, NextIsFirst
  <2>5. g = f
    <3>1. ASSUME g # f PROVE FALSE
      <4>1. Line(g) < Line(f)
        BY <1>1, <2>3, <2>4, <3>1, ItemFacts
      <4>2. g \notin fns
        BY <1>1, <2>3, <2>4, <3>1, <4>1, ItemFacts DEF IsFirst, Precedes
      <4>3. Settled(g)
        BY <4>2 DEF PlacedInv
      <4>4. spec[g] # NoBlock /\ Follows(spec[g], g)
        BY <2>1, <2>2, <4>3 DEF Settled, All
      <4>5. spec[g] \in Items /\ layout[spec[g]] # "blank"
        BY <2>3, <4>4 DEF OwnerInv, TypeOK, All
      <4>6. spec[g] = c
        BY <2>1, <2>2, <2>3, <4>4, <4>5, OneBefore
      <4> QED BY <2>1, <2>3, <4>4, <4>6 DEF OwnerInv, UsedInv
    <3> QED BY <3>1
  <2> QED BY <2>1, <2>2, <2>5
<1>3. ASSUME NEW b \in All("SL") \cup All("SL_loop"), Follows(b, f)
      PROVE  b \in Candidates(Blocks("SL"), 0, f)
  <2>1. b \in Items /\ layout[b] # "blank"
    BY DEF All
  <2>2. b \in All("SL")
    <3>1. ASSUME b \in All("SL_loop") PROVE FALSE
      <4>1. PICK l \in All("loop") \cup All("dropped") : Follows(b, l)
        BY <3>1 DEF WellPlaced
      <4>2. l \in Items /\ layout[l] \in {"loop", "dropped"}
        BY DEF All
      <4> QED BY <1>1, <1>3, <2>1, <4>1, <4>2, OneNext
    <3> QED BY <3>1
  <2>3. b \notin used_blocks
    <3>1. ASSUME b \in used_blocks PROVE FALSE
      <4>1. PICK i \in Items : spec[i] = b
        BY <3>1 DEF PlacedInv
      <4>2. b # NoBlock /\ layout[i] # "blank"
        BY <2>1, <4>1, ItemFacts DEF OwnerInv, TypeOK
      <4>a. Settled(i)
        BY <4>1, <4>2 DEF PlacedInv, OwnerInv, TypeOK, All
      <4>b. ~LeftOver(b, i)
        BY <1>1, <1>3, <2>1, LeftOverIsElsewhere
      <4>3. Follows(b, i)
        BY <4>1, <4>2, <4>a, <4>b DEF Settled
      <4>4. i = f
        BY <1>1, <1>3, <2>1, <4>2, <4>3, OneNext
      <4> QED BY <1>1, <4>1, <4>2, <4>4
    <3> QED BY <3>1
  <2> QED BY <1>3, <2>1, <2>2, <2>3, ItemFacts DEF Candidates, Blocks, Follows
<1> QED BY <1>1, <1>2, <1>3

\* And those that the search for a loop finds, in the body being printed.
LEMMA LoopSearch ==
    ASSUME OwnerInv, PlacedInv, WellPlaced, NEW l \in loops, IsFirst(l, loops)
    PROVE  /\ l \in Items /\ layout[l] = "loop" /\ spec[l] = NoBlock
           /\ \A c \in Candidates(Blocks("SL_loop"), Line(cur_fn), l) :
                 /\ c \in Items /\ layout[c] # "blank" /\ File(c) = File(l) /\ Line(c) < Line(l)
                 /\ Follows(c, l) \/ LeftOver(c, l)
           /\ \A b \in All("SL") \cup All("SL_loop") :
                 Follows(b, l) => b \in Candidates(Blocks("SL_loop"), Line(cur_fn), l)
<1>1. l \in Items /\ layout[l] = "loop" /\ spec[l] = NoBlock /\ InBody(layout, cur_fn, l)
  BY DEF OwnerInv, TypeOK, PlacedInv, Pending, All
<1>2. cur_fn \in Items /\ layout[cur_fn] = "fundef" /\ cur_fn \notin globals
  BY <1>1 DEF PlacedInv, InBody
<1>a. ASSUME NEW g \in Items, File(g) = File(l), Line(cur_fn) < Line(g), Line(g) < Line(l)
      PROVE  InBody(layout, cur_fn, g)
  BY <1>1, <1>2, <1>a, ItemFacts DEF InBody
<1>3. ASSUME NEW c \in Candidates(Blocks("SL_loop"), Line(cur_fn), l)
      PROVE  /\ c \in Items /\ layout[c] # "blank" /\ File(c) = File(l) /\ Line(c) < Line(l)
             /\ Follows(c, l) \/ LeftOver(c, l)
  <2>1. /\ c \in Items /\ c \in All("SL_loop") /\ layout[c] = "SL_loop" /\ c \notin used_blocks
        /\ File(c) = File(l) /\ Line(c) < Line(l) /\ Line(c) > Line(cur_fn)
    BY DEF Candidates, Blocks, All
  <2>a. CASE \E d \in All("dropped") : Follows(c, d)
    <3>1. InBody(layout, cur_fn, c) /\ cur_fn \in All("fundef")
     BY <1>2, <1>a, <2>1, ItemFacts DEF All
    <3> QED BY <1>1, <2>1, <2>a, <3>1 DEF LeftOver
  <2>b. SUFFICES ASSUME \A d \in All("dropped") : ~Follows(c, d)
                 PROVE  Follows(c, l)
    BY <2>1, <2>a
  <2>2. PICK g \in All("loop") : Follows(c, g)
    BY <2>1, <2>b DEF WellPlaced
  <2>3. g \in Items /\ layout[g] = "loop"
    BY DEF All
  <2>4. File(g) = File(l) /\ Line(c) < Line(g) /\ Line(g) <= Line(l)
    BY <1>1, <2>1, <2>2, <2>3, NextIsFirst
  <2>5. g = l
    <3>1. ASSUME g # l PROVE FALSE
      <4>1. Line(g) < Line(l)
        BY <1>1, <2>3, <2>4, <3>1, ItemFacts
      <4>2. g \notin loops
        BY <1>1, <2>3, <2>4, <3>1, <4>1, ItemFacts DEF IsFirst, Precedes
      <4>3. InBody(layout, cur_fn, g)
        BY <1>1, <1>2, <1>a, <2>1, <2>3, <2>4, <4>1, ItemFacts
      <4>4. ~Pending(g)
        <5>1. ASSUME NEW d \in globals, InBody(layout, d, g) PROVE FALSE
          <6>1. d \in Items
            BY DEF OwnerInv, TypeOK, All
          <6> QED BY <1>2, <2>3, <4>3, <5>1, <6>1, OneAround
        <5> QED BY <4>2, <5>1 DEF Pending
      <4>5. Settled(g)
        BY <4>4 DEF PlacedInv
      <4>6. spec[g] # NoBlock /\ Follows(spec[g], g)
        BY <2>1, <2>2, <4>5 DEF Settled
      <4>7. spec[g] \in Items /\ layout[spec[g]] # "blank"
        BY <2>3, <4>6 DEF OwnerInv, TypeOK, All
      <4>8. spec[g] = c
        BY <2>1, <2>2, <2>3, <4>6, <4>7, OneBefore
      <4> QED BY <2>1, <2>3, <4>6, <4>8 DEF OwnerInv, UsedInv
    <3> QED BY <3>1
  <2> QED BY <2>1, <2>2, <2>5
<1>4. ASSUME NEW b \in All("SL") \cup All("SL_loop"), Follows(b, l)
      PROVE  b \in Candidates(Blocks("SL_loop"), Line(cur_fn), l)
  <2>1. b \in Items /\ layout[b] # "blank" /\ layout[b] # "fundef"
    BY DEF All
  <2>2. b \in All("SL_loop")
    <3>1. ASSUME b \in All("SL") PROVE FALSE
      <4>1. PICK f \in All("fundef") : Follows(b, f)
        BY <3>1 DEF WellPlaced
      <4>2. f \in Items /\ layout[f] = "fundef"
        BY DEF All
      <4> QED BY <1>1, <1>4, <2>1, <4>1, <4>2, OneNext
    <3> QED BY <3>1
  <2>3. b \notin used_blocks
    <3>1. ASSUME b \in used_blocks PROVE FALSE
      <4>1. PICK i \in Items : spec[i] = b
        BY <3>1 DEF PlacedInv
      <4>2. b # NoBlock /\ layout[i] # "blank"
        BY <2>1, <4>1, ItemFacts DEF OwnerInv, TypeOK
      <4>a. Settled(i)
        BY <4>1, <4>2 DEF PlacedInv, OwnerInv, TypeOK, All
      <4>b. ~LeftOver(b, i)
        BY <1>1, <1>4, <2>1, LeftOverIsElsewhere
      <4>3. Follows(b, i)
        BY <4>1, <4>2, <4>a, <4>b DEF Settled
      <4>4. i = l
        BY <1>1, <1>4, <2>1, <4>2, <4>3, OneNext
      <4> QED BY <1>1, <4>1, <4>2, <4>4
    <3> QED BY <3>1
  <2>4. Line(b) > Line(cur_fn)
    <3>1. File(b) = File(l) /\ File(cur_fn) = File(l) /\ Line(cur_fn) < Line(l)
      BY <1>1, <1>4 DEF Follows, InBody
    <3>2. ~(Line(b) < Line(cur_fn))
      BY <1>2, <1>4, <3>1 DEF Follows, Between
    <3>3. Line(b) # Line(cur_fn)
      BY <1>2, <2>1, <3>1, ItemFacts
    <3> QED BY <1>2, <2>1, <3>2, <3>3, ItemFacts
  <2> QED BY <1>4, <2>1, <2>2, <2>3, <2>4 DEF Candidates, Blocks, Follows
<1> QED BY <1>1, <1>3, <1>4

LEMMA PlacedStep ==
    ASSUME OwnerInv, PlacedInv, WellPlaced, [Next]_vars
    PROVE  PlacedInv' /\ WellPlaced'
<1>1. UNCHANGED layout
  BY DEF Next, PairFunction, TranslateFunction, TranslateLoop, vars
<1>2. WellPlaced' /\ \A kind : All(kind)' = All(kind)
  BY <1>1 DEF WellPlaced, Follows, Between, All
<1>3. CASE PairFunction
  <2>1. PICK f \in fns :
           /\ IsFirst(f, fns)
           /\ fns' = fns \ {f}
           /\ find_annotation(Blocks("SL"), 0, f)
           /\ UNCHANGED <<layout, globals, cur_fn, loops>>
    BY <1>3 DEF PairFunction
  <2>2. /\ f \in Items /\ layout[f] = "fundef" /\ spec[f] = NoBlock
        /\ \A c \in Candidates(Blocks("SL"), 0, f) :
              /\ c \in Items /\ layout[c] # "blank" /\ File(c) = File(f) /\ Line(c) < Line(f)
              /\ Follows(c, f)
        /\ \A b \in All("SL") \cup All("SL_loop") :
              Follows(b, f) => b \in Candidates(Blocks("SL"), 0, f)
    BY <2>1, FunctionSearch
  <2>3. /\ Settled(f)'
        /\ \A j \in Items \ {f} : spec'[j] = spec[j] /\ (Settled(j) => Settled(j)')
        /\ \A b \in used_blocks' : \E j \in Items : spec'[j] = b
    BY <2>1, <2>2, SearchSettles
  <2>4. \A x : Pending(x)' <=> Pending(x)
    BY <2>1 DEF Pending
  <2>5. \A g \in All("fundef") : IF g \in fns' THEN spec'[g] = NoBlock ELSE Settled(g)'
    BY <2>1, <2>3 DEF PlacedInv, All
  <2>6. \A l \in All("loop") : IF Pending(l)' THEN spec'[l] = NoBlock ELSE Settled(l)'
    BY <2>2, <2>3, <2>4 DEF PlacedInv, All
  <2> QED BY <1>2, <2>1, <2>3, <2>5, <2>6 DEF PlacedInv
<1>4. CASE TranslateFunction
  <2>1. PICK f \in globals :
           /\ globals' = globals \ {f} /\ cur_fn' = f
           /\ loops' = {i \in All("loop") : InBody(layout, f, i)}
           /\ loops = {} /\ UNCHANGED <<layout, used_blocks, spec, fns>>
    BY <1>4 DEF TranslateFunction
  <2>2. \A l \in All("loop") : Pending(l)' <=> Pending(l)
    BY <2>1 DEF Pending
  <2>3. \A i : Settled(i)' <=> Settled(i)
    BY <1>2, <2>1 DEF Settled, LeftOver, Follows, InBody, Between
  <2>4. cur_fn' \in Items
    BY <2>1 DEF OwnerInv, TypeOK, All
  <2> QED BY <1>2, <2>1, <2>2, <2>3, <2>4 DEF PlacedInv
<1>5. CASE TranslateLoop
  <2>1. PICK l \in loops :
           /\ IsFirst(l, loops)
           /\ loops' = loops \ {l}
           /\ find_annotation(Blocks("SL_loop"), Line(cur_fn), l)
           /\ UNCHANGED <<layout, fns, globals, cur_fn>>
    BY <1>5 DEF TranslateLoop
  <2>2. /\ l \in Items /\ layout[l] = "loop" /\ spec[l] = NoBlock
        /\ \A c \in Candidates(Blocks("SL_loop"), Line(cur_fn), l) :
              /\ c \in Items /\ layout[c] # "blank" /\ File(c) = File(l) /\ Line(c) < Line(l)
              /\ Follows(c, l) \/ LeftOver(c, l)
        /\ \A b \in All("SL") \cup All("SL_loop") :
              Follows(b, l) => b \in Candidates(Blocks("SL_loop"), Line(cur_fn), l)
    BY <2>1, LoopSearch
  <2>3. /\ Settled(l)'
        /\ \A j \in Items \ {l} : spec'[j] = spec[j] /\ (Settled(j) => Settled(j)')
        /\ \A b \in used_blocks' : \E j \in Items : spec'[j] = b
    BY <2>1, <2>2, SearchSettles
  <2>4. ~Pending(l)'
    <3>1. ASSUME NEW d \in globals, InBody(layout, d, l) PROVE FALSE
      <4>1. InBody(layout, cur_fn, l) /\ d \in Items
        BY DEF OwnerInv, TypeOK, All
      <4>2. cur_fn \in Items
        BY DEF PlacedInv
      <4> QED BY <2>2, <3>1, <4>1, <4>2, OneAround DEF PlacedInv
    <3> QED BY <2>1, <3>1 DEF Pending
  <2>5. \A x \in All("loop") : x # l => (Pending(x)' <=> Pending(x))
    BY <2>1 DEF Pending
  <2>6. \A x \in All("loop") : IF Pending(x)' THEN spec'[x] = NoBlock ELSE Settled(x)'
    BY <2>3, <2>4, <2>5 DEF PlacedInv, All
  <2>7. \A g \in All("fundef") : IF g \in fns' THEN spec'[g] = NoBlock ELSE Settled(g)'
    BY <2>1, <2>2, <2>3 DEF PlacedInv, All
  <2> QED BY <1>2, <2>1, <2>3, <2>6, <2>7 DEF PlacedInv
<1>6. CASE UNCHANGED vars
  <2>1. \A i : (Settled(i)' <=> Settled(i)) /\ (Pending(i)' <=> Pending(i))
    BY <1>2, <1>6 DEF vars, Settled, LeftOver, Pending, Follows, InBody, Between
  <2> QED BY <1>2, <1>6, <2>1 DEF vars, PlacedInv
<1> QED BY <1>2, <1>3, <1>4, <1>5, <1>6 DEF Next

\* In sources where each block stands just before what it is for, each function
\* and each loop gets that block, and one without a block takes none of its
\* neighbours', but for the blocks of dropped loops that a later loop of the
\* body takes, whatever the order of the AST (find_annotation, lines 116-127,
\* the bounds its callers give it and the statements that translate_stmt drops).
THEOREM OnlyLeftOversAreTaken == Spec => []OnlyLeftOversAdopted
<1>. DEFINE I == OwnerInv /\ (WellPlaced => PlacedInv)
<1>1. Init => I
  <2>. SUFFICES ASSUME Init PROVE PlacedInv
    BY OwnerInit
  <2>1. \A l \in All("loop") : Pending(l) /\ spec[l] = NoBlock
    BY DEF Init, IsProgram, InBody, Pending, All
  <2>2. cur_fn \notin globals
    BY ItemFacts DEF Init, All
  <2> QED BY <2>1, <2>2 DEF Init, PlacedInv, All
<1>2. I /\ [Next]_vars => I'
  <2>. SUFFICES ASSUME I, [Next]_vars PROVE I'
    OBVIOUS
  <2>1. OwnerInv'
    BY OwnerNext
  <2>2. UNCHANGED layout
    BY DEF Next, PairFunction, TranslateFunction, TranslateLoop, vars
  <2>3. WellPlaced' => WellPlaced
    BY <2>2 DEF WellPlaced, Follows, Between, All
  <2> QED BY <2>1, <2>3, PlacedStep
<1>3. I => OnlyLeftOversAdopted
  <2>. SUFFICES ASSUME I, WellPlaced, Finished,
                       NEW i \in All("fundef") \cup All("loop")
                PROVE  Settled(i)
    BY DEF OnlyLeftOversAdopted, Settled
  <2> QED BY DEF PlacedInv, Finished, Pending
<1> QED BY <1>1, <1>2, <1>3, PTL DEF Spec

-----------------------------------------------------------------------------
(* Brackets *)

\* Lines between two lines are finitely many.
LEMMA BetweenIsFinite ==
    ASSUME NEW S \in SUBSET Items, NEW b \in Items, NEW i \in Items
    PROVE  IsFiniteSet(Between(S, b, i)) /\ Cardinality(Between(S, b, i)) \in Nat
<1>. DEFINE lines == {File(b)} \X (Line(b) .. Line(i))
<1>1. IsFiniteSet(lines)
  <2>1. IsFiniteSet({File(b)})
    BY FS_Singleton
  <2>2. Line(b) \in Int /\ Line(i) \in Int
    BY ItemFacts
  <2>3. IsFiniteSet(Line(b) .. Line(i))
    BY <2>2, FS_Interval
  <2> QED BY <2>1, <2>3, FS_Product
<1>2. Between(S, b, i) \subseteq lines
  BY ItemFacts, ItemsAssumption DEF Between, File, Line
<1>3. IsFiniteSet(Between(S, b, i))
  BY <1>1, <1>2, FS_Subset
<1> QED BY <1>3, FS_CardinalityType

\* A set of lines that is not empty has a last one before a line.
LEMMA LastBefore ==
    ASSUME NEW i \in Items, NEW S \in SUBSET Items, S # {},
           \A k \in S : Line(k) < Line(i)
    PROVE  \E k \in S : \A j \in S : Line(j) <= Line(k)
<1>. DEFINE Less == {ss \in Nat \X Nat : ss[1] < ss[2]}
            gaps == {Line(i) - Line(k) : k \in S}
<1>1. OpToRel(<, Nat) = Less
  BY Zenon DEF OpToRel
<1>2. gaps \subseteq Nat /\ gaps # {}
  BY ItemFacts
<1>3. \E x \in gaps : \A y \in gaps : ~(<<y, x>> \in OpToRel(<, Nat))
  BY <1>2, WFMin, NatLessThanWellFounded, Zenon
<1>4. \A x, y \in Nat : <<y, x>> \in Less <=> y < x
  OBVIOUS
<1>5. PICK x \in gaps : \A y \in gaps : ~(y < x)
  <2>1. \E x \in gaps : \A y \in gaps : ~(<<y, x>> \in Less)
    BY <1>1, <1>3
  <2> HIDE DEF gaps, Less
  <2> QED BY <1>2, <1>4, <2>1
<1>6. PICK k \in S : x = Line(i) - Line(k)
  OBVIOUS
<1>7. \A j \in S : ~(Line(i) - Line(j) < Line(i) - Line(k))
  BY <1>5, <1>6
<1> QED BY <1>7, ItemFacts

\* What two passes that search from each taker for the last block before it
\* compute, when the takers of a region are all searched for.  sp is the block
\* that each got: it is before the taker, another taker has another block, and
\* the blocks between the two were taken by takers that are before it.
Paired(sp, blocks, takers) ==
    /\ \A t \in takers :
          sp[t] # NoBlock =>
             sp[t] \in blocks /\ File(sp[t]) = File(t) /\ Line(sp[t]) < Line(t)
    /\ \A t \in takers, c \in blocks :
          File(c) = File(t) /\ Line(c) < Line(t) =>
             \/ sp[t] # NoBlock /\ Line(c) <= Line(sp[t])
             \/ \E j \in takers : sp[j] = c /\ Line(j) < Line(t)
    /\ \A i, j \in takers : i # j /\ sp[i] # NoBlock => sp[i] # sp[j]

\* The takers between a block and the one that got it have the blocks between
\* the two, each one.
LEMMA NestedPairs ==
    ASSUME NEW sp, NEW blocks \in SUBSET Items, NEW takers \in SUBSET Items,
           Paired(sp, blocks, takers), NEW t \in takers, NEW b \in blocks, sp[t] = b
    PROVE  /\ \A u \in Between(takers, b, t) : sp[u] # NoBlock /\ sp[u] \in Between(blocks, b, u)
           /\ \A c \in Between(blocks, b, t) : \E u \in Between(takers, b, t) : sp[u] = c
           /\ \A u, v \in Between(takers, b, t) : u # v => sp[u] # sp[v]
<1>1. /\ b # NoBlock /\ b \in Items /\ t \in Items /\ File(b) = File(t) /\ Line(b) < Line(t)
      /\ \A j \in takers : sp[j] = b => j = t
  BY ItemFacts DEF Paired
<1>2. ASSUME NEW u \in Between(takers, b, t)
      PROVE  sp[u] # NoBlock /\ sp[u] \in Between(blocks, b, u)
  <2>1. u \in takers /\ u \in Items /\ File(u) = File(b) /\ Line(b) < Line(u) /\ Line(u) < Line(t)
    BY <1>1 DEF Between
  <2>2. ~(\E j \in takers : sp[j] = b /\ Line(j) < Line(u))
    BY <1>1, <2>1, ItemFacts
  <2>3. sp[u] # NoBlock /\ Line(b) <= Line(sp[u])
    BY <2>1, <2>2 DEF Paired
  <2>4. sp[u] \in blocks /\ File(sp[u]) = File(u) /\ Line(sp[u]) < Line(u) /\ sp[u] # b
    BY <1>1, <2>1, <2>3, ItemFacts DEF Paired
  <2>5. sp[u] \in Items
    BY <2>4
  <2>6. Line(b) < Line(sp[u])
    BY <1>1, <2>1, <2>3, <2>4, <2>5, ItemFacts
  <2> QED BY <2>1, <2>3, <2>4, <2>6 DEF Between
<1>3. ASSUME NEW c \in Between(blocks, b, t)
      PROVE  \E u \in Between(takers, b, t) : sp[u] = c
  <2>1. c \in blocks /\ c \in Items /\ File(c) = File(b) /\ Line(b) < Line(c) /\ Line(c) < Line(t)
    BY DEF Between
  <2>2. ~(Line(c) <= Line(sp[t]))
    BY <1>1, <2>1, ItemFacts
  <2>3. PICK j \in takers : sp[j] = c /\ Line(j) < Line(t)
    BY <1>1, <2>1, <2>2 DEF Paired
  <2>4. c # NoBlock
    BY <2>1, ItemFacts
  <2>5. File(c) = File(j) /\ Line(c) < Line(j) /\ j \in Items
    BY <2>3, <2>4 DEF Paired
  <2>6. j \in Between(takers, b, t)
    BY <2>1, <2>3, <2>5, ItemFacts DEF Between
  <2> QED BY <2>3, <2>6
<1>4. \A u, v \in Between(takers, b, t) : u # v => sp[u] # sp[v]
  BY <1>2 DEF Paired, Between
<1> QED BY <1>2, <1>3, <1>4

\* A block and the taker that got it are like two brackets.
LEMMA PairsAreBrackets ==
    ASSUME NEW sp, NEW blocks \in SUBSET Items, NEW takers \in SUBSET Items,
           Paired(sp, blocks, takers), NEW t \in takers, NEW b \in blocks, sp[t] = b
    PROVE  Brackets(b, t, blocks, takers)
<1>1. b # NoBlock /\ b \in Items /\ t \in Items /\ File(b) = File(t) /\ Line(b) < Line(t)
  BY ItemFacts DEF Paired
<1>2. /\ \A u \in Between(takers, b, t) : sp[u] # NoBlock /\ sp[u] \in Between(blocks, b, u)
      /\ \A c \in Between(blocks, b, t) : \E u \in Between(takers, b, t) : sp[u] = c
      /\ \A u, v \in Between(takers, b, t) : u # v => sp[u] # sp[v]
  BY NestedPairs
<1>3. \A u \in Between(takers, b, t) : u \in Items /\ File(u) = File(b) /\ Line(u) < Line(t)
  BY DEF Between
<1>4. \A u \in Between(takers, b, t) : \A c \in Between(blocks, b, u) :
         c \in Items /\ File(c) = File(b) /\ Line(b) < Line(c) /\ Line(c) < Line(u) /\ c \in blocks
  BY DEF Between
<1>5. Cardinality(Between(blocks, b, t)) = Cardinality(Between(takers, b, t))
  <2>. DEFINE T == Between(takers, b, t)
              B == Between(blocks, b, t)
              f == [u \in T |-> sp[u]]
  <2>1. \A u \in T : sp[u] \in B
    BY <1>1, <1>2, <1>3, <1>4, ItemFacts DEF Between
  <2>2. f \in [T -> B] /\ \A u \in T : f[u] = sp[u]
    BY <2>1
  <2>3. (\A u, v \in T : f[u] = f[v] => u = v) /\ \A c \in B : \E u \in T : f[u] = c
    BY <1>2, <2>2
  <2>4. IsFiniteSet(T)
    BY <1>1, BetweenIsFinite
  <2>. HIDE DEF T, B, f
  <2>5. f \in Bijection(T, B)
    BY <2>2, <2>3 DEF Bijection, Injection, Surjection, IsInjective
  <2>6. ExistsBijection(T, B)
    BY <2>5 DEF ExistsBijection
  <2>7. Cardinality(B) = Cardinality(T)
    BY <2>4, <2>6, FS_Bijection
  <2> QED BY <2>7 DEF B, T
<1>6. ASSUME NEW v \in Between(takers, b, t)
      PROVE  Cardinality(Between(takers, b, v)) < Cardinality(Between(blocks, b, v))
  <2>. DEFINE T == Between(takers, b, v)
              B == Between(blocks, b, v)
              f == [u \in T |-> sp[u]]
  <2>1. \A u \in T : u \in Between(takers, b, t) /\ u # v /\ Line(u) < Line(v)
    BY <1>1, <1>3, ItemFacts DEF Between
  <2>2. sp[v] \in B
    BY <1>2
  <2>3. \A u \in T : sp[u] \in B \ {sp[v]}
    <3>1. SUFFICES ASSUME NEW u \in T PROVE sp[u] \in B \ {sp[v]}
      OBVIOUS
    <3>2. u \in Between(takers, b, t) /\ u # v /\ Line(u) < Line(v)
      BY <2>1
    <3>3. sp[u] \in Between(blocks, b, u) /\ sp[u] # sp[v]
      BY <1>2, <3>2
    <3>4. /\ sp[u] \in Items /\ sp[u] \in blocks /\ File(sp[u]) = File(b)
          /\ Line(b) < Line(sp[u]) /\ Line(sp[u]) < Line(u)
      BY <1>4, <3>2, <3>3
    <3>5. u \in Items /\ v \in Items
      BY <1>3, <3>2
    <3>6. Line(sp[u]) < Line(v)
      BY <3>2, <3>4, <3>5, ItemFacts
    <3> QED BY <3>3, <3>4, <3>6 DEF Between
  <2>4. f \in [T -> B \ {sp[v]}] /\ \A u \in T : f[u] = sp[u]
    BY <2>3
  <2>5. \A u, w \in T : f[u] = f[w] => u = w
    BY <1>2, <2>1, <2>4
  <2>6. IsFiniteSet(B) /\ Cardinality(B) \in Nat /\ Cardinality(T) \in Nat
    BY <1>1, <1>3, BetweenIsFinite
  <2>. HIDE DEF T, B, f
  <2>7. f \in Injection(T, B \ {sp[v]})
    BY <2>4, <2>5 DEF Injection, IsInjective
  <2>8. IsFiniteSet(B \ {sp[v]}) /\ Cardinality(B \ {sp[v]}) = Cardinality(B) - 1
    BY <2>2, <2>6, FS_RemoveElement
  <2>9. Cardinality(T) <= Cardinality(B \ {sp[v]})
    BY <2>7, <2>8, FS_Injection
  <2>10. Cardinality(T) < Cardinality(B)
    BY <2>6, <2>8, <2>9
  <2> QED BY <2>10 DEF B, T
<1> QED BY <1>1, <1>5, <1>6 DEF Brackets

\* A taker closes one block only.
LEMMA BracketsAreOne ==
    ASSUME NEW blocks \in SUBSET Items, NEW takers \in SUBSET Items, blocks \cap takers = {},
           NEW t \in takers, NEW b \in blocks, NEW c \in blocks, Line(b) < Line(c),
           Brackets(b, t, blocks, takers), Brackets(c, t, blocks, takers)
    PROVE  FALSE
<1>. DEFINE B == Between(blocks, b, t)   B1 == Between(blocks, b, c)   B2 == Between(blocks, c, t)
            T == Between(takers, b, t)   T1 == Between(takers, b, c)   T2 == Between(takers, c, t)
<1>1. /\ b \in Items /\ c \in Items /\ t \in Items
      /\ File(b) = File(t) /\ File(c) = File(t) /\ Line(b) < Line(t) /\ Line(c) < Line(t)
  BY DEF Brackets
<1>2. /\ IsFiniteSet(B1) /\ IsFiniteSet(B2) /\ IsFiniteSet(T1) /\ IsFiniteSet(T2)
      /\ Cardinality(B) \in Nat /\ Cardinality(B1) \in Nat /\ Cardinality(B2) \in Nat
      /\ Cardinality(T) \in Nat /\ Cardinality(T1) \in Nat /\ Cardinality(T2) \in Nat
  BY <1>1, BetweenIsFinite
<1>3. Cardinality(B) = Cardinality(T) /\ Cardinality(B2) = Cardinality(T2)
  BY DEF Brackets
<1>4. /\ \A k \in Items : File(k) = File(t) /\ Line(b) < Line(k) /\ Line(k) < Line(t) =>
           \/ k = c \/ Line(k) < Line(c) \/ Line(c) < Line(k)
      /\ \A k \in Items : Line(k) < Line(c) => Line(k) < Line(t)
      /\ \A k \in Items : Line(c) < Line(k) => Line(b) < Line(k)
  BY <1>1, ItemFacts
<1>5. T = T1 \cup T2 /\ T1 \cap T2 = {}
  BY <1>1, <1>4, ItemFacts DEF Between
<1>6. B = (B1 \cup {c}) \cup B2 /\ c \notin B1 /\ (B1 \cup {c}) \cap B2 = {}
  BY <1>1, <1>4, ItemFacts DEF Between
<1>7. Cardinality(T) = Cardinality(T1) + Cardinality(T2)
  <2>. HIDE DEF T, T1, T2
  <2>1. Cardinality(T1 \cup T2) = Cardinality(T1) + Cardinality(T2) - Cardinality(T1 \cap T2)
    BY <1>2, FS_Union
  <2>2. Cardinality(T) = Cardinality(T1 \cup T2) /\ Cardinality(T1 \cap T2) = 0
    BY <1>5, FS_EmptySet
  <2> QED BY <1>2, <2>1, <2>2
<1>8. Cardinality(B) = Cardinality(B1) + 1 + Cardinality(B2)
  <2>. HIDE DEF B, B1, B2
  <2>1. IsFiniteSet(B1 \cup {c}) /\ Cardinality(B1 \cup {c}) = Cardinality(B1) + 1
    BY <1>2, <1>6, FS_AddElement
  <2>2. Cardinality((B1 \cup {c}) \cup B2)
          = Cardinality(B1 \cup {c}) + Cardinality(B2) - Cardinality((B1 \cup {c}) \cap B2)
    BY <1>2, <2>1, FS_Union
  <2>3. /\ Cardinality(B) = Cardinality((B1 \cup {c}) \cup B2)
        /\ Cardinality((B1 \cup {c}) \cap B2) = 0
    BY <1>6, FS_EmptySet
  <2> QED BY <1>2, <2>1, <2>2, <2>3
<1>9. Cardinality(T1) = Cardinality(B1) + 1
  BY <1>2, <1>3, <1>7, <1>8
<1>10. T1 # {}
  BY <1>2, <1>9, FS_EmptySet
<1>11. PICK v \in T1 : \A u \in T1 : Line(u) <= Line(v)
  <2>1. T1 \in SUBSET Items /\ \A k \in T1 : Line(k) < Line(c)
    BY DEF Between
  <2>. HIDE DEF T1
  <2> QED BY <1>1, <1>10, <2>1, LastBefore
<1>12. v \in Items /\ v \in T /\ Line(v) < Line(c) /\ v \in takers /\ File(v) = File(b)
  BY <1>5 DEF Between
<1>13. Between(takers, b, v) = T1 \ {v}
  BY <1>1, <1>11, <1>12, ItemFacts DEF Between
<1>14. Between(blocks, b, v) \subseteq B1
  BY <1>1, <1>12, ItemFacts DEF Between
<1>15. Cardinality(Between(takers, b, v)) = Cardinality(B1)
  <2>. HIDE DEF T1
  <2>1. Cardinality(T1 \ {v}) = Cardinality(T1) - 1
    BY <1>2, <1>11, FS_RemoveElement
  <2> QED BY <1>2, <1>9, <1>13, <2>1
<1>16. Cardinality(Between(blocks, b, v)) <= Cardinality(B1)
  BY <1>2, <1>14, FS_Subset
<1>17. Cardinality(Between(takers, b, v)) < Cardinality(Between(blocks, b, v))
  BY <1>12 DEF Brackets
<1>18. Cardinality(Between(blocks, b, v)) \in Nat
  BY <1>1, <1>12, BetweenIsFinite
<1> QED BY <1>2, <1>15, <1>16, <1>17, <1>18

\* The pairing is that of brackets, and nothing else.
LEMMA Matching ==
    ASSUME NEW sp, NEW blocks \in SUBSET Items, NEW takers \in SUBSET Items, blocks \cap takers = {},
           Paired(sp, blocks, takers), NEW t \in takers, NEW b \in blocks
    PROVE  sp[t] = b <=> Brackets(b, t, blocks, takers)
<1>1. sp[t] = b => Brackets(b, t, blocks, takers)
  BY PairsAreBrackets
<1>2. ASSUME Brackets(b, t, blocks, takers), sp[t] # b PROVE FALSE
  <2>1. /\ b \in Items /\ t \in Items /\ File(b) = File(t) /\ Line(b) < Line(t)
        /\ \A v \in Between(takers, b, t) :
              Cardinality(Between(takers, b, v)) < Cardinality(Between(blocks, b, v))
    BY <1>2 DEF Brackets
  <2>2. CASE sp[t] # NoBlock /\ Line(b) <= Line(sp[t])
    <3>1. sp[t] \in blocks /\ sp[t] \in Items /\ File(sp[t]) = File(t)
      BY <2>2 DEF Paired
    <3>2. Line(b) < Line(sp[t])
      BY <1>2, <2>1, <2>2, <3>1, ItemFacts
    <3>3. Brackets(sp[t], t, blocks, takers)
      BY <3>1, PairsAreBrackets
    <3> QED BY <1>2, <3>1, <3>2, <3>3, BracketsAreOne
  <2>3. ASSUME NEW j \in takers, sp[j] = b, Line(j) < Line(t) PROVE FALSE
    <3>1. Brackets(b, j, blocks, takers)
      BY <2>3, PairsAreBrackets
    <3>2. /\ File(b) = File(j) /\ Line(b) < Line(j) /\ j \in Items
          /\ Cardinality(Between(blocks, b, j)) = Cardinality(Between(takers, b, j))
      BY <3>1 DEF Brackets
    <3>3. j \in Between(takers, b, t)
      BY <2>3, <3>2 DEF Between
    <3>4. Cardinality(Between(takers, b, j)) \in Nat
      BY <2>1, <3>2, BetweenIsFinite
    <3> QED BY <2>1, <3>2, <3>3, <3>4
  <2> QED BY <2>1, <2>2, <2>3 DEF Paired
<1> QED BY <1>1, <1>2

\* Item i may take block c: c is of its kind and before it, in its file and,
\* for a loop, in the same body.
MayTake(c, i) ==
    /\ File(c) = File(i) /\ Line(c) < Line(i)
    /\ \/ layout[i] = "fundef" /\ c \in All("SL")
       \/ /\ layout[i] = "loop" /\ c \in All("SL_loop")
          /\ \E d \in All("fundef") : InBody(layout, d, c) /\ InBody(layout, d, i)

\* Item i has the last of these blocks that no item before it has.
Chosen(i) ==
    /\ spec[i] # NoBlock => MayTake(spec[i], i)
    /\ \A c \in Items :
          MayTake(c, i) =>
             \/ spec[i] # NoBlock /\ Line(c) <= Line(spec[i])
             \/ \E j \in Items : spec[j] = c /\ Line(j) < Line(i)

\* Functions, and loops of the body being printed, are searched for in the
\* order of the source: a block that is used when an item is searched for was
\* taken by one before it.
ChosenInv ==
    /\ \A f \in All("fundef") : IF f \in fns THEN spec[f] = NoBlock ELSE Chosen(f)
    /\ \A l \in All("loop") : IF Pending(l) THEN spec[l] = NoBlock ELSE Chosen(l)
    /\ \A b \in used_blocks : \E i \in Items : spec[i] = b
    /\ \A f \in All("fundef") \ fns, g \in fns : Precedes(f, g)
    /\ \A l \in All("loop"), k \in loops :
          InBody(layout, cur_fn, l) /\ l \notin loops => Precedes(l, k)
    /\ cur_fn \notin globals
    /\ loops # {} => cur_fn \in Items

\* A search among the blocks that i may take, when no item after i has one.
LEMMA SearchChooses ==
    ASSUME OwnerInv, ChosenInv, UNCHANGED layout, NEW i \in Items, spec[i] = NoBlock,
           NEW blocks \in SUBSET Items, NEW after, find_annotation(blocks, after, i),
           \A c \in Items :
              MayTake(c, i) <=> /\ c \in blocks /\ File(c) = File(i)
                                /\ Line(c) < Line(i) /\ Line(c) > after,
           \A c \in Items, j \in Items : MayTake(c, i) /\ spec[j] = c => Line(j) < Line(i)
    PROVE  /\ Chosen(i)'
           /\ \A j \in Items \ {i} : spec'[j] = spec[j] /\ (Chosen(j) => Chosen(j)')
           /\ \A b \in used_blocks' : \E j \in Items : spec'[j] = b
<1>. DEFINE cands == Candidates(blocks, after, i)
<1>1. spec = [j \in Items |-> spec[j]]
  BY DEF OwnerInv, UsedInv
<1>2. \A c, j : MayTake(c, j)' <=> MayTake(c, j)
  BY DEF MayTake, All
<1>3. \A c \in Items : c \in cands <=> MayTake(c, i) /\ c \notin used_blocks
  BY DEF Candidates
<1>4. cands \subseteq Items
  BY DEF Candidates
<1>5. NoBlock \notin Items /\ NoBlock \notin used_blocks
  BY ItemFacts DEF OwnerInv, TypeOK, All
<1>6. \A c \in Items : MayTake(c, i) /\ c \notin cands =>
         \E j \in Items : spec[j] = c /\ Line(j) < Line(i)
  BY <1>3 DEF ChosenInv
<1>. HIDE DEF cands
<1>7. CASE cands = {} /\ UNCHANGED <<used_blocks, spec>>
  <2>1. Chosen(i)'
    BY <1>2, <1>6, <1>7 DEF Chosen
  <2>2. \A j \in Items : Chosen(j) => Chosen(j)'
    BY <1>2, <1>7 DEF Chosen
  <2> QED BY <1>7, <2>1, <2>2 DEF ChosenInv
<1>8. ASSUME NEW b \in cands, \A c \in cands : Line(c) <= Line(b),
             used_blocks' = used_blocks \cup {b}, spec' = [spec EXCEPT ![i] = b]
      PROVE  /\ Chosen(i)'
             /\ \A j \in Items \ {i} : spec'[j] = spec[j] /\ (Chosen(j) => Chosen(j)')
             /\ \A c \in used_blocks' : \E j \in Items : spec'[j] = c
  <2>1. b \in Items /\ MayTake(b, i) /\ b # NoBlock
    BY <1>3, <1>4, <1>5
  <2>2. spec'[i] = b /\ \A j \in Items \ {i} : spec'[j] = spec[j]
    BY <1>1, <1>8
  <2>3. \A c \in Items, j \in Items : spec[j] = c => spec'[j] = c
    BY <1>5, <2>2
  <2>4. Chosen(i)'
    <3>1. MayTake(spec[i], i)'
      BY <1>2, <2>1, <2>2
    <3>2. ASSUME NEW c \in Items, MayTake(c, i)
          PROVE  \/ spec'[i] # NoBlock /\ Line(c) <= Line(spec'[i])
                 \/ \E j \in Items : spec'[j] = c /\ Line(j) < Line(i)
      <4>1. CASE c \in cands
        BY <1>8, <2>1, <2>2, <4>1
      <4>2. CASE c \notin cands
        BY <1>6, <2>3, <3>2, <4>2
      <4> QED BY <4>1, <4>2
    <3> QED BY <1>2, <3>1, <3>2 DEF Chosen
  <2>5. ASSUME NEW j \in Items \ {i}, Chosen(j) PROVE Chosen(j)'
    <3>1. spec'[j] = spec[j]
      BY <2>2
    <3>2. (spec[j] # NoBlock => MayTake(spec[j], j))'
      BY <1>2, <2>5, <3>1 DEF Chosen
    <3>3. ASSUME NEW c \in Items, MayTake(c, j)
          PROVE  \/ spec'[j] # NoBlock /\ Line(c) <= Line(spec'[j])
                 \/ \E k \in Items : spec'[k] = c /\ Line(k) < Line(j)
      BY <2>3, <2>5, <3>1, <3>3 DEF Chosen
    <3> QED BY <1>2, <3>2, <3>3 DEF Chosen
  <2>6. \A c \in used_blocks : \E j \in Items : spec'[j] = c
    BY <1>5, <2>2 DEF ChosenInv
  <2> QED BY <1>8, <2>2, <2>4, <2>5, <2>6
<1> QED BY <1>7, <1>8 DEF find_annotation, cands

\* A block of a function is one of [SL], and of a loop one of [SL_loop].
LEMMA OwnerKind ==
    ASSUME OwnerInv, NEW c \in Items, NEW j \in Items, spec[j] = c
    PROVE  /\ c \in All("SL") => layout[j] = "fundef"
           /\ c \in All("SL_loop") => layout[j] = "loop"
  BY ItemFacts DEF OwnerInv, TypeOK, All

\* What the search for a function relies on.
LEMMA FunctionTakes ==
    ASSUME OwnerInv, ChosenInv, NEW f \in fns, IsFirst(f, fns)
    PROVE  /\ f \in Items /\ layout[f] = "fundef" /\ spec[f] = NoBlock
           /\ Blocks("SL") \subseteq Items
           /\ \A c \in Items :
                 MayTake(c, f) <=> /\ c \in Blocks("SL") /\ File(c) = File(f)
                                   /\ Line(c) < Line(f) /\ Line(c) > 0
           /\ \A c \in Items, j \in Items : MayTake(c, f) /\ spec[j] = c => Line(j) < Line(f)
<1>1. f \in Items /\ layout[f] = "fundef" /\ spec[f] = NoBlock
  BY DEF OwnerInv, TypeOK, ChosenInv, All
<1>2. ASSUME NEW c \in Items, NEW j \in Items, MayTake(c, f), spec[j] = c
      PROVE  Line(j) < Line(f)
  <2>1. c \in All("SL") /\ File(c) = File(f) /\ c # NoBlock
    BY <1>1, <1>2, ItemFacts DEF MayTake
  <2>2. layout[j] = "fundef" /\ j \in All("fundef")
    BY <1>2, <2>1, OwnerKind DEF All
  <2>3. j \notin fns /\ Chosen(j)
    BY <1>2, <2>1, <2>2 DEF ChosenInv
  <2>4. File(j) = File(f)
    BY <1>2, <2>1, <2>3 DEF Chosen, MayTake
  <2>5. Precedes(j, f)
    BY <2>2, <2>3 DEF ChosenInv
  <2> QED BY <1>1, <2>4, <2>5, ItemFacts DEF Precedes
<1>3. \A c \in Items :
         MayTake(c, f) <=> /\ c \in Blocks("SL") /\ File(c) = File(f)
                           /\ Line(c) < Line(f) /\ Line(c) > 0
  BY <1>1, ItemFacts DEF MayTake, Blocks
<1> QED BY <1>1, <1>2, <1>3 DEF Blocks, All

\* And that for a loop, in the body being printed.
LEMMA LoopTakes ==
    ASSUME OwnerInv, ChosenInv, NEW l \in loops
    PROVE  /\ l \in Items /\ layout[l] = "loop" /\ spec[l] = NoBlock
           /\ Blocks("SL_loop") \subseteq Items
           /\ \A c \in Items :
                 MayTake(c, l) <=> /\ c \in Blocks("SL_loop") /\ File(c) = File(l)
                                   /\ Line(c) < Line(l) /\ Line(c) > Line(cur_fn)
           /\ \A c \in Items, j \in Items : MayTake(c, l) /\ spec[j] = c => Line(j) < Line(l)
<1>1. l \in Items /\ layout[l] = "loop" /\ spec[l] = NoBlock /\ InBody(layout, cur_fn, l)
  BY DEF OwnerInv, TypeOK, ChosenInv, Pending, All
<1>2. cur_fn \in Items /\ cur_fn \in All("fundef")
  BY <1>1 DEF ChosenInv, InBody, All
<1>3. ASSUME NEW c \in Items, MayTake(c, l)
      PROVE  c \in All("SL_loop") /\ InBody(layout, cur_fn, c) /\ File(c) = File(l) /\ Line(c) < Line(l)
  <2>1. PICK d \in All("fundef") : InBody(layout, d, c) /\ InBody(layout, d, l)
    BY <1>1, <1>3 DEF MayTake
  <2>2. d = cur_fn
    BY <1>1, <1>2, <2>1, OneAround DEF All
  <2> QED BY <1>1, <1>3, <2>1, <2>2 DEF MayTake
<1>4. ASSUME NEW c \in Items, c \in All("SL_loop"), File(c) = File(l),
             Line(c) < Line(l), Line(c) > Line(cur_fn)
      PROVE  MayTake(c, l)
  <2>1. InBody(layout, cur_fn, c)
    BY <1>1, <1>2, <1>4, ItemFacts DEF InBody
  <2> QED BY <1>1, <1>2, <1>4, <2>1 DEF MayTake
<1>5. \A c \in Items : InBody(layout, cur_fn, c) => Line(c) > Line(cur_fn)
  BY <1>2, ItemFacts DEF InBody
<1>6. ASSUME NEW c \in Items, NEW j \in Items, MayTake(c, l), spec[j] = c
      PROVE  Line(j) < Line(l)
  <2>1. c \in All("SL_loop") /\ InBody(layout, cur_fn, c) /\ c # NoBlock
    BY <1>3, <1>6, ItemFacts
  <2>2. layout[j] = "loop" /\ j \in All("loop")
    BY <1>6, <2>1, OwnerKind DEF All
  <2>3. ~Pending(j) /\ Chosen(j)
    BY <1>6, <2>1, <2>2 DEF ChosenInv
  <2>4. MayTake(c, j)
    BY <1>6, <2>1, <2>3 DEF Chosen
  <2>5. PICK d \in All("fundef") : InBody(layout, d, c) /\ InBody(layout, d, j)
    BY <2>2, <2>4 DEF MayTake
  <2>6. d = cur_fn
    BY <1>2, <2>1, <2>5, OneAround DEF All
  <2>7. InBody(layout, cur_fn, j) /\ j \notin loops
    BY <2>3, <2>5, <2>6 DEF Pending
  <2>8. Precedes(j, l)
    BY <2>2, <2>7 DEF ChosenInv
  <2>9. File(j) = File(l)
    BY <1>1, <2>7 DEF InBody
  <2> QED BY <1>1, <2>8, <2>9, ItemFacts DEF Precedes
<1>7. \A c \in Items :
         MayTake(c, l) <=> /\ c \in Blocks("SL_loop") /\ File(c) = File(l)
                           /\ Line(c) < Line(l) /\ Line(c) > Line(cur_fn)
  BY <1>3, <1>4, <1>5 DEF Blocks
<1> QED BY <1>1, <1>6, <1>7 DEF Blocks, All

LEMMA ChosenStep ==
    ASSUME OwnerInv, ChosenInv, [Next]_vars
    PROVE  ChosenInv'
<1>1. UNCHANGED layout
  BY DEF Next, PairFunction, TranslateFunction, TranslateLoop, vars
<1>2. \A kind : All(kind)' = All(kind)
  BY <1>1 DEF All
<1>3. CASE PairFunction
  <2>1. PICK f \in fns :
           /\ IsFirst(f, fns)
           /\ fns' = fns \ {f}
           /\ find_annotation(Blocks("SL"), 0, f)
           /\ UNCHANGED <<layout, globals, cur_fn, loops>>
    BY <1>3 DEF PairFunction
  <2>2. /\ f \in Items /\ layout[f] = "fundef" /\ spec[f] = NoBlock
        /\ Blocks("SL") \subseteq Items
        /\ \A c \in Items :
              MayTake(c, f) <=> /\ c \in Blocks("SL") /\ File(c) = File(f)
                                /\ Line(c) < Line(f) /\ Line(c) > 0
        /\ \A c \in Items, j \in Items : MayTake(c, f) /\ spec[j] = c => Line(j) < Line(f)
    BY <2>1, FunctionTakes
  <2>3. /\ Chosen(f)'
        /\ \A j \in Items \ {f} : spec'[j] = spec[j] /\ (Chosen(j) => Chosen(j)')
        /\ \A b \in used_blocks' : \E j \in Items : spec'[j] = b
    BY <2>1, <2>2, SearchChooses
  <2>4. \A x : Pending(x)' <=> Pending(x)
    BY <2>1 DEF Pending
  <2>5. \A g \in All("fundef") : IF g \in fns' THEN spec'[g] = NoBlock ELSE Chosen(g)'
    BY <2>1, <2>3 DEF ChosenInv, All
  <2>6. \A l \in All("loop") : IF Pending(l)' THEN spec'[l] = NoBlock ELSE Chosen(l)'
    BY <2>2, <2>3, <2>4 DEF ChosenInv, All
  <2>7. \A g \in All("fundef") \ fns', h \in fns' : Precedes(g, h)
    BY <2>1 DEF ChosenInv, IsFirst
  <2>8. \A l \in All("loop"), k \in loops' :
           InBody(layout, cur_fn, l)' /\ l \notin loops' => Precedes(l, k)
    BY <2>1 DEF ChosenInv, InBody
  <2> QED BY <1>2, <2>1, <2>3, <2>5, <2>6, <2>7, <2>8 DEF ChosenInv
<1>4. CASE TranslateFunction
  <2>1. PICK f \in globals :
           /\ globals' = globals \ {f} /\ cur_fn' = f
           /\ loops' = {i \in All("loop") : InBody(layout, f, i)}
           /\ loops = {} /\ UNCHANGED <<layout, used_blocks, spec, fns>>
    BY <1>4 DEF TranslateFunction
  <2>2. \A l \in All("loop") : Pending(l)' <=> Pending(l)
    BY <2>1 DEF Pending
  <2>3. \A i : Chosen(i)' <=> Chosen(i)
    BY <1>2, <2>1 DEF Chosen, MayTake
  <2>4. cur_fn' \in Items
    BY <2>1 DEF OwnerInv, TypeOK, All
  <2>5. \A l \in All("loop") : InBody(layout, cur_fn, l)' => l \in loops'
    BY <2>1 DEF InBody
  <2> QED BY <1>2, <2>1, <2>2, <2>3, <2>4, <2>5 DEF ChosenInv
<1>5. CASE TranslateLoop
  <2>1. PICK l \in loops :
           /\ IsFirst(l, loops)
           /\ loops' = loops \ {l}
           /\ find_annotation(Blocks("SL_loop"), Line(cur_fn), l)
           /\ UNCHANGED <<layout, fns, globals, cur_fn>>
    BY <1>5 DEF TranslateLoop
  <2>2. /\ l \in Items /\ layout[l] = "loop" /\ spec[l] = NoBlock
        /\ Blocks("SL_loop") \subseteq Items
        /\ \A c \in Items :
              MayTake(c, l) <=> /\ c \in Blocks("SL_loop") /\ File(c) = File(l)
                                /\ Line(c) < Line(l) /\ Line(c) > Line(cur_fn)
        /\ \A c \in Items, j \in Items : MayTake(c, l) /\ spec[j] = c => Line(j) < Line(l)
    BY <2>1, LoopTakes
  <2>3. /\ Chosen(l)'
        /\ \A j \in Items \ {l} : spec'[j] = spec[j] /\ (Chosen(j) => Chosen(j)')
        /\ \A b \in used_blocks' : \E j \in Items : spec'[j] = b
    BY <2>1, <2>2, SearchChooses
  <2>4. ~Pending(l)'
    <3>1. ASSUME NEW d \in globals, InBody(layout, d, l) PROVE FALSE
      <4>1. InBody(layout, cur_fn, l) /\ d \in Items /\ cur_fn \in Items
        BY DEF OwnerInv, TypeOK, ChosenInv, All
      <4> QED BY <2>2, <3>1, <4>1, OneAround DEF ChosenInv
    <3> QED BY <2>1, <3>1 DEF Pending
  <2>5. \A x \in All("loop") : x # l => (Pending(x)' <=> Pending(x))
    BY <2>1 DEF Pending
  <2>6. \A x \in All("loop") : IF Pending(x)' THEN spec'[x] = NoBlock ELSE Chosen(x)'
    BY <2>3, <2>4, <2>5 DEF ChosenInv, All
  <2>7. \A g \in All("fundef") : IF g \in fns' THEN spec'[g] = NoBlock ELSE Chosen(g)'
    BY <2>1, <2>2, <2>3 DEF ChosenInv, All
  <2>8. \A x \in All("loop"), k \in loops' :
           InBody(layout, cur_fn, x)' /\ x \notin loops' => Precedes(x, k)
    BY <2>1 DEF ChosenInv, InBody, IsFirst
  <2> QED BY <1>2, <2>1, <2>3, <2>6, <2>7, <2>8 DEF ChosenInv
<1>6. CASE UNCHANGED vars
  <2>1. \A i : (Chosen(i)' <=> Chosen(i)) /\ (Pending(i)' <=> Pending(i))
    BY <1>2, <1>6 DEF vars, Chosen, Pending, MayTake
  <2> QED BY <1>2, <1>6, <2>1 DEF vars, ChosenInv
<1> QED BY <1>3, <1>4, <1>5, <1>6 DEF Next

\* The blocks and the loops of the body of a function.
InBodyOf(S, d) == {k \in S : InBody(layout, d, k)}

\* What is between two lines of a body is in it.
LEMMA BetweenInBody ==
    ASSUME NEW S \in SUBSET Items, NEW d \in Items, NEW b \in Items, NEW i \in Items,
           InBody(layout, d, b), InBody(layout, d, i)
    PROVE  Between(S, b, i) = Between(InBodyOf(S, d), b, i)
<1>1. ASSUME NEW k \in Between(S, b, i) PROVE InBody(layout, d, k)
  <2>1. k \in Items /\ File(k) = File(b) /\ Line(b) < Line(k) /\ Line(k) < Line(i)
    BY DEF Between
  <2>a. /\ layout[d] = "fundef" /\ File(b) = File(d) /\ File(i) = File(d)
        /\ Line(d) < Line(b)
    BY DEF InBody
  <2>b. Line(d) \in Nat /\ Line(b) \in Nat /\ Line(k) \in Nat
    BY <2>1, ItemFacts
  <2>2. /\ layout[d] = "fundef" /\ File(k) = File(d) /\ File(i) = File(d)
        /\ Line(d) < Line(k)
    BY <2>1, <2>a, <2>b
  <2>3. ASSUME NEW j \in Items, File(j) = File(k), Line(d) < Line(j), Line(j) < Line(k)
        PROVE  layout[j] \notin {"fundef", "prototype"}
    <3>1. Line(j) < Line(i) /\ File(j) = File(i)
      BY <2>1, <2>2, <2>3, ItemFacts
    <3> QED BY <2>3, <3>1 DEF InBody
  <2> QED BY <2>1, <2>2, <2>3 DEF InBody
<1> QED BY <1>1 DEF Between, InBodyOf

LEMMA BracketsInBody ==
    ASSUME NEW S \in SUBSET Items, NEW T \in SUBSET Items, NEW d \in Items,
           NEW b \in InBodyOf(S, d), NEW i \in InBodyOf(T, d)
    PROVE  Brackets(b, i, S, T) <=> Brackets(b, i, InBodyOf(S, d), InBodyOf(T, d))
<1>1. b \in Items /\ i \in Items /\ InBody(layout, d, b) /\ InBody(layout, d, i)
  BY DEF InBodyOf
<1>2. /\ Between(S, b, i) = Between(InBodyOf(S, d), b, i)
      /\ Between(T, b, i) = Between(InBodyOf(T, d), b, i)
  BY <1>1, BetweenInBody
<1>3. ASSUME NEW t \in Between(T, b, i)
      PROVE  /\ Between(S, b, t) = Between(InBodyOf(S, d), b, t)
             /\ Between(T, b, t) = Between(InBodyOf(T, d), b, t)
  <2>1. t \in Items /\ InBody(layout, d, t)
    BY <1>2 DEF Between, InBodyOf
  <2> QED BY <1>1, <2>1, BetweenInBody
<1> QED BY <1>2, <1>3 DEF Brackets

\* When all is done the functions of the files, and the loops of each body,
\* are paired.
LEMMA FunctionsPaired ==
    ASSUME OwnerInv, ChosenInv, Finished
    PROVE  Paired(spec, All("SL"), All("fundef"))
<1>1. \A t \in All("fundef") : t \in Items /\ layout[t] = "fundef" /\ Chosen(t)
  BY DEF ChosenInv, Finished, All
<1>2. \A t \in All("fundef") :
         spec[t] # NoBlock =>
            spec[t] \in All("SL") /\ File(spec[t]) = File(t) /\ Line(spec[t]) < Line(t)
  BY <1>1 DEF Chosen, MayTake
<1>3. ASSUME NEW t \in All("fundef"), NEW c \in All("SL"), File(c) = File(t), Line(c) < Line(t)
      PROVE  \/ spec[t] # NoBlock /\ Line(c) <= Line(spec[t])
             \/ \E j \in All("fundef") : spec[j] = c /\ Line(j) < Line(t)
  <2>1. MayTake(c, t) /\ c \in Items
    BY <1>1, <1>3 DEF MayTake, All
  <2>2. \A j \in Items : spec[j] = c => j \in All("fundef")
    BY <2>1, OwnerKind DEF All
  <2> QED BY <1>1, <2>1, <2>2 DEF Chosen
<1> QED BY <1>1, <1>2, <1>3 DEF Paired, OwnerInv, OneOwner

LEMMA LoopsPaired ==
    ASSUME OwnerInv, ChosenInv, Finished, NEW d \in All("fundef")
    PROVE  Paired(spec, InBodyOf(All("SL_loop"), d), InBodyOf(All("loop"), d))
<1>1. \A t \in All("loop") : t \in Items /\ layout[t] = "loop" /\ Chosen(t)
  BY DEF ChosenInv, Finished, Pending, All
<1>2. ASSUME NEW t \in All("loop"), NEW c \in Items, MayTake(c, t)
      PROVE  /\ c \in All("SL_loop") /\ File(c) = File(t) /\ Line(c) < Line(t)
             /\ InBody(layout, d, c) <=> InBody(layout, d, t)
  <2>1. PICK e \in All("fundef") : InBody(layout, e, c) /\ InBody(layout, e, t)
    BY <1>1, <1>2 DEF MayTake
  <2>2. \/ InBody(layout, d, c)
        \/ InBody(layout, d, t) => d = e
    BY <1>1, <1>2, <2>1, OneAround DEF All
  <2>3. InBody(layout, d, c) => d = e
    BY <1>2, <2>1, OneAround DEF All
  <2> QED BY <1>1, <1>2, <2>1, <2>2, <2>3 DEF MayTake
<1>3. ASSUME NEW t \in InBodyOf(All("loop"), d), spec[t] # NoBlock
      PROVE  /\ spec[t] \in InBodyOf(All("SL_loop"), d)
             /\ File(spec[t]) = File(t) /\ Line(spec[t]) < Line(t)
  <2>1. t \in All("loop") /\ InBody(layout, d, t) /\ MayTake(spec[t], t)
    BY <1>1, <1>3 DEF InBodyOf, Chosen
  <2>2. spec[t] \in Items
    BY <1>1, <2>1 DEF MayTake, All
  <2> QED BY <1>2, <2>1, <2>2 DEF InBodyOf
<1>4. ASSUME NEW t \in InBodyOf(All("loop"), d), NEW c \in InBodyOf(All("SL_loop"), d),
             File(c) = File(t), Line(c) < Line(t)
      PROVE  \/ spec[t] # NoBlock /\ Line(c) <= Line(spec[t])
             \/ \E j \in InBodyOf(All("loop"), d) : spec[j] = c /\ Line(j) < Line(t)
  <2>1. /\ t \in All("loop") /\ InBody(layout, d, t)
        /\ c \in All("SL_loop") /\ c \in Items /\ InBody(layout, d, c)
    BY DEF InBodyOf, All
  <2>2. MayTake(c, t)
    BY <1>1, <1>4, <2>1 DEF MayTake
  <2>3. ASSUME NEW j \in Items, spec[j] = c PROVE j \in InBodyOf(All("loop"), d)
    <3>1. j \in All("loop") /\ c # NoBlock
      BY <2>1, <2>3, OwnerKind, ItemFacts DEF All
    <3>2. MayTake(c, j)
      BY <1>1, <2>3, <3>1 DEF Chosen
    <3> QED BY <1>2, <2>1, <3>1, <3>2 DEF InBodyOf
  <2> QED BY <1>1, <2>1, <2>2, <2>3 DEF Chosen
<1> QED BY <1>3, <1>4 DEF Paired, OwnerInv, OneOwner, InBodyOf, All

LEMMA BracketsAtTheEnd ==
    ASSUME OwnerInv, ChosenInv
    PROVE  PairsLikeBrackets
<1>. SUFFICES ASSUME Finished
              PROVE  /\ \A b \in All("SL"), f \in All("fundef") :
                           (spec[f] = b) <=> Brackets(b, f, All("SL"), All("fundef"))
                     /\ \A b \in All("SL_loop"), l \in All("loop") :
                           (spec[l] = b) <=>
                              \E f \in All("fundef") :
                                 /\ InBody(layout, f, b) /\ InBody(layout, f, l)
                                 /\ Brackets(b, l, All("SL_loop"), All("loop"))
  BY DEF PairsLikeBrackets
<1>1. \A kind : All(kind) \in SUBSET Items
  BY DEF All
<1>2. ASSUME NEW b \in All("SL"), NEW f \in All("fundef")
      PROVE  (spec[f] = b) <=> Brackets(b, f, All("SL"), All("fundef"))
  <2>1. All("SL") \cap All("fundef") = {}
    BY DEF All
  <2> QED BY <1>1, <2>1, FunctionsPaired, Matching
<1>3. ASSUME NEW b \in All("SL_loop"), NEW l \in All("loop"), NEW d \in All("fundef"),
             InBody(layout, d, b), InBody(layout, d, l)
      PROVE  spec[l] = b <=> Brackets(b, l, All("SL_loop"), All("loop"))
  <2>. DEFINE B == InBodyOf(All("SL_loop"), d)
              L == InBodyOf(All("loop"), d)
  <2>1. B \in SUBSET Items /\ L \in SUBSET Items /\ B \cap L = {} /\ b \in B /\ l \in L
    BY <1>3 DEF InBodyOf, All
  <2>2. Paired(spec, B, L)
    BY LoopsPaired
  <2>3. Brackets(b, l, All("SL_loop"), All("loop")) <=> Brackets(b, l, B, L)
    <3>1. d \in Items
      BY DEF All
    <3> QED BY <1>1, <2>1, <3>1, BracketsInBody
  <2>. HIDE DEF B, L
  <2>4. spec[l] = b <=> Brackets(b, l, B, L)
    BY <2>1, <2>2, Matching
  <2> QED BY <2>3, <2>4
<1>4. ASSUME NEW b \in All("SL_loop"), NEW l \in All("loop"), spec[l] = b
      PROVE  \E d \in All("fundef") : InBody(layout, d, b) /\ InBody(layout, d, l)
  <2>1. Chosen(l) /\ b # NoBlock /\ layout[l] = "loop"
    BY ItemFacts DEF ChosenInv, Finished, Pending, All
  <2> QED BY <1>4, <2>1 DEF Chosen, MayTake
<1> QED BY <1>2, <1>3, <1>4

\* The two passes compute, for any sources and any order of the AST, what a
\* reader of the source would: blocks and functions pair off like opening and
\* closing brackets, and blocks and loops do so in each body (translate, lines
\* 655 to 661, find_annotation, and the bounds its callers give it).
THEOREM BlocksPairLikeBrackets == Spec => []PairsLikeBrackets
<1>1. Init => ChosenInv
  <2>. SUFFICES ASSUME Init PROVE ChosenInv
    OBVIOUS
  <2>1. \A l \in All("loop") : Pending(l) /\ spec[l] = NoBlock
    BY DEF Init, IsProgram, InBody, Pending, All
  <2>2. cur_fn \notin globals
    BY ItemFacts DEF Init, All
  <2> QED BY <2>1, <2>2 DEF Init, ChosenInv, All
<1>2. OwnerInv /\ ChosenInv /\ [Next]_vars => ChosenInv'
  BY ChosenStep
<1> QED BY <1>1, <1>2, OwnerInit, OwnerNext, BracketsAtTheEnd, PTL DEF Spec

=============================================================================
