------------------------------- MODULE RefBook -------------------------------
(***************************************************************************)
(* What depot promises of a repository's refs, whatever servers share it:  *)
(* one set of refs, that a push moves in one step, each from the value the *)
(* client named, and only while it has not been answered; an answer claims *)
(* only what was done.  Where writes may be late, a push that was answered *)
(* by an error may still take effect.                                      *)
(***************************************************************************)
EXTENDS FiniteSets

CONSTANTS Refs, Objs, Pushes, Nil,
          Late    \* may a write take effect after its push was given up

VARIABLES refs,     \* what each ref points at
          cmds,     \* what each push asks for; no command: not made yet
          atomic,   \* whether it wants all or nothing
          done,     \* the commands of a push that took effect
          claimed   \* the commands a push was told took effect; open while {Nil}

bookVars == <<refs, cmds, atomic, done, claimed>>

Pending(p) == cmds[p] # <<>> /\ claimed[p] = {Nil}

BookInit ==
    /\ refs \in [Refs -> Objs \cup {Nil}]
    /\ cmds = [p \in Pushes |-> <<>>]
    /\ atomic = [p \in Pushes |-> FALSE]
    /\ done = [p \in Pushes |-> {}]
    /\ claimed = [p \in Pushes |-> {Nil}]

Ask(p) ==
    /\ cmds[p] = <<>>
    /\ \E rs \in (SUBSET Refs) \ {{}}, all \in BOOLEAN :
          /\ cmds' \in {[cmds EXCEPT ![p] = f] :
                          f \in [rs -> [old : Objs \cup {Nil}, new : Objs \cup {Nil}]]}
          /\ atomic' = [atomic EXCEPT ![p] = all]
    /\ UNCHANGED <<refs, done, claimed>>

\* The commands of rs take effect together, and the client may be told at once.
Move(p) ==
    /\ Pending(p) \/ (Late /\ claimed[p] = {})
    /\ \E rs \in (SUBSET DOMAIN cmds[p]) \ {{}} :
          /\ atomic[p] => rs = DOMAIN cmds[p]
          /\ \A r \in rs : refs[r] \in {cmds[p][r].old, cmds[p][r].new}
          /\ refs' = [r \in Refs |-> IF r \in rs THEN cmds[p][r].new ELSE refs[r]]
          /\ done' = [done EXCEPT ![p] = @ \cup rs]
          /\ claimed' = claimed \/ (Pending(p) /\ claimed' = [claimed EXCEPT ![p] = rs])
    /\ UNCHANGED <<cmds, atomic>>

\* The client is told, or given an error (nothing is claimed).
Tell(p) ==
    /\ Pending(p)
    /\ \E rs \in SUBSET done[p] : claimed' = [claimed EXCEPT ![p] = rs]
    /\ UNCHANGED <<refs, cmds, atomic, done>>

\* A server dies: every push it was serving is answered by an error.
Die == /\ \E ps \in SUBSET {p \in Pushes : Pending(p)} :
             claimed' = [p \in Pushes |-> IF p \in ps THEN {} ELSE claimed[p]]
       /\ UNCHANGED <<refs, cmds, atomic, done>>

\* An admin points a ref that does not exist at an object.
Restored(r) ==
    /\ refs[r] = Nil
    /\ \E o \in Objs : refs' = [refs EXCEPT ![r] = o]
    /\ UNCHANGED <<cmds, atomic, done, claimed>>

BookNext == \/ \E p \in Pushes : Ask(p) \/ Move(p) \/ Tell(p)
            \/ Die
            \/ \E r \in Refs : Restored(r)

BookSpec == BookInit /\ [][BookNext]_bookVars
=============================================================================
