------------------------------ MODULE TokenBook ------------------------------
(***************************************************************************)
(* What the token book promises, whichever servers share it and whatever   *)
(* their requests to the bucket meet: one book, changed by one token at a  *)
(* time, each change counted.  No update is ever lost under another.       *)
(***************************************************************************)
EXTENDS Naturals

CONSTANT Tokens

VARIABLES live,     \* the tokens the book admits
          changes   \* how many changes were ever made to it

vars == <<live, changes>>

Init == live = {} /\ changes = 0

Mint(t) == t \notin live /\ live' = live \cup {t} /\ changes' = changes + 1

Revoke(t) == t \in live /\ live' = live \ {t} /\ changes' = changes + 1

Next == \E t \in Tokens : Mint(t) \/ Revoke(t)

Spec == Init /\ [][Next]_vars
=============================================================================
