------------------------------ MODULE DepotPick ------------------------------
(***************************************************************************)
(* Which packs a geometric repack merges (maint.rs, pick).                 *)
(***************************************************************************)
EXTENDS Integers, Sequences, Functions

CONSTANT MinPacks   \* fewest packs worth merging (4)

ASSUME MinPacksAssumption == MinPacks \in Nat /\ MinPacks > 1

\* What is gathered before the i-th pack is looked at: all newer ones.
Gathered(lens, i) == SumFunctionOnSet(lens, (i + 1)..Len(lens))

\* Variant: an older pack joins only when it is smaller than what is gathered.
PickSmaller(lens) ==
    LET n == Len(lens)
        joins(i) == lens[i] < Gathered(lens, i)
        start == CHOOSE i \in 1..n : /\ \A j \in i..(n - 1) : joins(j)
                                     /\ i = 1 \/ ~joins(i - 1)
    IN IF n < MinPacks \/ start = n THEN 0 ELSE start

\* The newest packs to merge, as the position of the oldest of them: extend
\* while the next older pack is smaller than twice what is gathered so far.
\* 0: nothing to merge.
Pick(lens) ==
    LET n == Len(lens)
        joins(i) == lens[i] < 2 * Gathered(lens, i)
        start == CHOOSE i \in 1..n : /\ \A j \in i..(n - 1) : joins(j)
                                     /\ i = 1 \/ ~joins(i - 1)
    IN IF n < MinPacks \/ start = n THEN 0 ELSE start
=============================================================================
