-------------------------- MODULE HipsleekTranslate --------------------------
(****************************************************************************)
(* Which spec block goes with which function or loop                        *)
(* (src/plugins/hipsleek/hipsleek_translate.ml: find_annotation, translate, *)
(* translate_stmt).                                                         *)
(*                                                                          *)
(* Specifications are comments: the parser does not keep them, so translate *)
(* scans the source files for blocks and pairs them with the functions and  *)
(* the loops of the AST by their line numbers alone.  Functions are paired  *)
(* first, in source order; loops are paired while the bodies are printed,   *)
(* one function after the other in the order of the AST, which is not that  *)
(* of the source.  A block serves once (used_blocks).  A switch, throw or   *)
(* try statement is dropped whole, and no block is searched for the loops   *)
(* inside it.                                                               *)
(*                                                                          *)
(* A source file is a column of items, one per line that matters; what is   *)
(* written in a block and what is printed are left out.                     *)
(****************************************************************************)
EXTENDS Naturals, FiniteSets

CONSTANTS Items     \* the lines of the files: pairs <<file, line>>

\* Lines are numbered from 1.
ASSUME ItemsAssumption == Items \subseteq Nat \X (Nat \ {0})

\* A "loop" is one that translate_stmt comes to, a "dropped" one is inside a
\* statement that it drops.
Kinds == {"SL", "SL_loop", "fundef", "prototype", "loop", "dropped", "blank"}

NoBlock == <<>>

VARIABLES
    layout,       \* what each line holds
    used_blocks,  \* the blocks already attached
    spec,         \* the block attached to each function and loop
    fns,          \* the functions not paired yet
    globals,      \* the functions whose body is not printed yet
    cur_fn,       \* the function being printed
    loops         \* the loops of cur_fn to come to

vars == <<layout, used_blocks, spec, fns, globals, cur_fn, loops>>

File(i) == i[1]
Line(i) == i[2]

All(kind) == {i \in Items : layout[i] = kind}

\* The order of List.sort in translate: by file, then by line.
Precedes(i, j) ==
    \/ File(i) < File(j)
    \/ File(i) = File(j) /\ Line(i) < Line(j)

IsFirst(i, S) == i \in S /\ \A j \in S \ {i} : Precedes(i, j)

\* Line i is in the body of the function defined at line d: the function is
\* the last one declared or defined before i.
InBody(y, d, i) ==
    /\ y[d] = "fundef"
    /\ File(d) = File(i) /\ Line(d) < Line(i)
    /\ \A j \in Items :
          File(j) = File(i) /\ Line(d) < Line(j) /\ Line(j) < Line(i)
             => y[j] \notin {"fundef", "prototype"}

\* C has loops in functions only.
IsProgram(y) ==
    \A i \in Items : y[i] \in {"loop", "dropped"} => \E d \in Items : InBody(y, d, i)

Init ==
    /\ layout \in {y \in [Items -> Kinds] : IsProgram(y)}
    /\ used_blocks = {}
    /\ spec = [i \in Items |-> NoBlock]
    /\ fns = All("fundef")
    /\ globals = All("fundef")
    /\ cur_fn = NoBlock
    /\ loops = {}

\* Mutant: the blocks of every kind are searched for any of them.
AnyBlocks(kind) == All("SL") \cup All("SL_loop")

Blocks(kind) == All(kind)

\* Mutant: a block serves any number of times.
ReusedCandidates(blocks, after, i) ==
    {b \in blocks : File(b) = File(i) /\ Line(b) < Line(i) /\ Line(b) > after}

\* Mutant: line numbers are compared across files.
AnyFileCandidates(blocks, after, i) ==
    {b \in blocks \ used_blocks : Line(b) < Line(i) /\ Line(b) > after}

\* The blocks that find_annotation may attach to the item at line i.
Candidates(blocks, after, i) ==
    {b \in blocks \ used_blocks :
        File(b) = File(i) /\ Line(b) < Line(i) /\ Line(b) > after}

\* find_annotation: the candidate that ends last is attached, if there is one.
find_annotation(blocks, after, i) ==
    LET cands == Candidates(blocks, after, i) IN
    \/ /\ cands = {}
       /\ UNCHANGED <<used_blocks, spec>>
    \/ \E b \in cands :
          /\ \A c \in cands : Line(c) <= Line(b)
          /\ used_blocks' = used_blocks \cup {b}
          /\ spec' = [spec EXCEPT ![i] = b]

\* Mutant: functions are paired in the order of the AST.
PairInAnyOrder ==
    \E f \in fns :
        /\ fns' = fns \ {f}
        /\ find_annotation(Blocks("SL"), 0, f)
        /\ UNCHANGED <<layout, globals, cur_fn, loops>>

\* translate: the functions are paired in source order, before any is printed.
PairFunction ==
    \E f \in fns :
        /\ IsFirst(f, fns)
        /\ fns' = fns \ {f}
        /\ find_annotation(Blocks("SL"), 0, f)
        /\ UNCHANGED <<layout, globals, cur_fn, loops>>

\* translate_fundec: the globals come in the order of the AST.
TranslateFunction ==
    /\ fns = {} /\ loops = {}
    /\ \E f \in globals :
          /\ globals' = globals \ {f}
          /\ cur_fn' = f
          /\ loops' = {i \in All("loop") : InBody(layout, f, i)}
    /\ UNCHANGED <<layout, used_blocks, spec, fns>>

\* translate_stmt, case Loop: statements come in the order of the source.  Its
\* cases Switch, Throw and Try do not look inside the statement.
TranslateLoop ==
    \E l \in loops :
        /\ IsFirst(l, loops)
        /\ loops' = loops \ {l}
        /\ find_annotation(Blocks("SL_loop"), Line(cur_fn), l)
        /\ UNCHANGED <<layout, fns, globals, cur_fn>>

Next == PairFunction \/ TranslateFunction \/ TranslateLoop

Spec == Init /\ [][Next]_vars

Finished == fns = {} /\ globals = {} /\ loops = {}

-----------------------------------------------------------------------------
(* Properties                                                               *)

\* A function only ever gets an [SL] block and a loop an [SL_loop] block, and
\* the pairing of functions is over before the first body is printed.
TypeOK ==
    /\ IsProgram(layout)
    /\ used_blocks \subseteq All("SL") \cup All("SL_loop")
    /\ fns \subseteq globals /\ globals \subseteq All("fundef")
    /\ cur_fn \in All("fundef") \cup {NoBlock}
    /\ loops \subseteq {l \in All("loop") : InBody(layout, cur_fn, l)}
    /\ \A i \in Items :
          spec[i] # NoBlock =>
             \/ layout[i] = "fundef" /\ spec[i] \in All("SL")
             \/ layout[i] = "loop" /\ spec[i] \in All("SL_loop")
    /\ fns # {} => globals = All("fundef") /\ loops = {}

\* A spec block describes exactly one thing (the comment of used_blocks): two
\* functions or loops are never verified against the same block.
OneOwner ==
    \A i, j \in Items : i # j /\ spec[i] # NoBlock => spec[i] # spec[j]

Between(S, i, j) ==
    {k \in S : File(k) = File(i) /\ Line(i) < Line(k) /\ Line(k) < Line(j)}

\* Block b opens and item i closes, like two brackets: between them as many
\* blocks as takers, and never more takers than blocks.
Brackets(b, i, blocks, takers) ==
    /\ File(b) = File(i) /\ Line(b) < Line(i)
    /\ Cardinality(Between(blocks, b, i)) = Cardinality(Between(takers, b, i))
    /\ \A t \in Between(takers, b, i) :
          Cardinality(Between(takers, b, t)) < Cardinality(Between(blocks, b, t))

\* What the two passes compute, over the whole source and whatever the order
\* of the AST: blocks and functions pair off like brackets in each file, and
\* in the body of each function so do loop blocks and the loops that
\* translate_stmt comes to.  A block written for a loop inside a switch is one
\* of these blocks, though that loop is not one of the takers.
PairsLikeBrackets ==
    Finished =>
       /\ \A b \in All("SL"), f \in All("fundef") :
             (spec[f] = b) <=> Brackets(b, f, All("SL"), All("fundef"))
       /\ \A b \in All("SL_loop"), l \in All("loop") :
             (spec[l] = b) <=>
                \E f \in All("fundef") :
                   /\ InBody(layout, f, b) /\ InBody(layout, f, l)
                   /\ Brackets(b, l, All("SL_loop"), All("loop"))

\* The next line of the file after i that holds something is j.
Follows(i, j) ==
    /\ File(i) = File(j) /\ Line(i) < Line(j)
    /\ \A k \in Between(Items, i, j) : layout[k] = "blank"

\* The source is written as the header of the file asks: a block stands just
\* before the definition or the loop it is for.
WellPlaced ==
    /\ \A b \in All("SL") : \E f \in All("fundef") : Follows(b, f)
    /\ \A b \in All("SL_loop") : \E l \in All("loop") \cup All("dropped") : Follows(b, l)

\* Block b was written for a dropped loop that is above loop l in its body.
LeftOver(b, l) ==
    /\ b \in All("SL_loop") /\ Line(b) < Line(l)
    /\ \E d \in All("dropped") : Follows(b, d)
    /\ \E f \in All("fundef") : InBody(layout, f, b) /\ InBody(layout, f, l)

\* Who adopts a neighbour's block, which the comment of used_blocks says nobody
\* does.  In a well placed source an item with a block just before it gets that
\* one, and an item without gets none; only a loop without a block of its own
\* may get one that was written for a dropped loop, above it in its body.
OnlyLeftOversAdopted ==
    WellPlaced /\ Finished =>
       \A i \in All("fundef") \cup All("loop") :
          \/ spec[i] # NoBlock /\ Follows(spec[i], i)
          \/ /\ \A b \in All("SL") \cup All("SL_loop") : ~Follows(b, i)
             /\ \/ spec[i] = NoBlock
                \/ layout[i] = "loop" /\ LeftOver(spec[i], i)
=============================================================================
