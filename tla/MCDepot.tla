------------------------------- MODULE MCDepot -------------------------------
(***************************************************************************)
(* Small instances of Depot for TLC.                                       *)
(***************************************************************************)
EXTENDS Depot, TLC

CONSTANTS o1, o2, o3, o4, o5, o6, main, top, sub

\* Two branches of one root: o2 and o3 descend from o1.
ForkLinks == (o1 :> {}) @@ (o2 :> {o1}) @@ (o3 :> {o1})
\* One line of history.
LineLinks == (o1 :> {}) @@ (o2 :> {o1}) @@ (o3 :> {o2})
\* A commit with three objects of its own, and two children
TreeLinks == (o1 :> {o3, o5, o6}) @@ (o2 :> {o1}) @@ (o3 :> {}) @@ (o4 :> {o1}) @@ (o5 :> {}) @@ (o6 :> {})
\* A commit and its child
PairLinks == (o1 :> {}) @@ (o2 :> {o1})

\* top and sub stand for refs/heads/x and refs/heads/x/y.
NestedRefs == [r \in Refs |-> CASE r = top -> {sub} [] r = sub -> {top} [] OTHER -> {}]
PlainRefs == [r \in Refs |-> {}]

\* What earlier pushes brought.
PackOfA == <<{o1}>>
PackOfAB == <<{o1, o2}>>
PackEach == <<{o1}, {o2}>>
OldAndNew == <<{o1, o3, o5, o6}, {o2}, {o4}>>

\* How the repository starts: with main at o1, or with every ref there.
MainAtA == [r \in Refs |-> IF r = main THEN o1 ELSE Nil]
BothAtA == [r \in Refs |-> o1]

\* Servers are alike, and so are pushes.
Alike == Permutations(Servers) \cup Permutations(Pushes)
=============================================================================
