----------------------------- MODULE DepotIndex -----------------------------
(***************************************************************************)
(* Objects, packs and the in-memory index of a repository (git/repo.rs,    *)
(* git/walk.rs), and what receive-pack asks of them (git/receive.rs).      *)
(*                                                                         *)
(* An object is a name; Links gives the objects it names (a commit's tree  *)
(* and parents, a tree's entries, a tag's target).  A pack is a set of     *)
(* objects.  The index is built from the packs of the manifest in their    *)
(* order, so it is a function of that sequence: content, below, is the     *)
(* sequence of the sets of objects of those packs.                         *)
(***************************************************************************)
EXTENDS Integers, FiniteSets, Sequences, SequencesExt

CONSTANTS Objs,      \* object ids
          Links,     \* [Objs -> SUBSET Objs], acyclic: ids are hashes
          Commits,   \* the objects that are commits
          Refs,      \* ref names
          Clashes,   \* [Refs -> SUBSET Refs]: a directory and a file of one name
          Protected, \* refs that may neither be deleted nor rewritten
          Nil        \* the zero id: no such ref

\* Ids have twenty bytes, and names at most 1024.
ASSUME ObjsAssumption == IsFiniteSet(Objs)
ASSUME RefsAssumption == IsFiniteSet(Refs)
ASSUME LinksAssumption == Links \in [Objs -> SUBSET Objs]
ASSUME CommitsAssumption == Commits \subseteq Objs
ASSUME ClashesAssumption == Clashes \in [Refs -> SUBSET Refs]
ASSUME ProtectedAssumption == Protected \subseteq Refs
ASSUME NilAssumption == Nil \notin Objs

Values == Objs \cup {Nil}

\* The objects an index over these packs holds.
Held(content) == UNION {content[i] : i \in DOMAIN content}

\* The pack that serves an object: the first copy does (Index::add_pack).
First(content, o) ==
    CHOOSE i \in DOMAIN content : o \in content[i] /\ \A j \in 1..(i - 1) : o \notin content[j]

\* A link is resolved when its object's pack is indexed, to an object of that
\* pack or of an earlier one; what a later pack brings stays unresolved (NONE).
Kids(content, o) ==
    {k \in Links[o] \cap Held(content) : First(content, k) <= First(content, o)}

\* What the stored objects reach from tips along edges (walk.rs, closure).
Spread(tips, edges) ==
    LET hop[n \in 0..Cardinality(Objs)] ==
            IF n = 0 THEN tips ELSE hop[n - 1] \cup UNION {edges[o] : o \in hop[n - 1]}
    IN hop[Cardinality(Objs)]

Closure(content, tips) ==
    LET held == Held(content)
    IN Spread(tips \cap held, [o \in Objs |-> IF o \in held THEN Kids(content, o) ELSE {}])

\* Does one of these objects link to something the index does not name?
Dangling(content, objs) == \E o \in objs : Kids(content, o) # Links[o]

\* Everything an object needs, whatever is stored.
History(tips) == Spread(tips, Links)

------------------------------------------------------------------------------
\* Incoming: the objects a push brings, beside an index.

\* Every link of every incoming object is incoming or stored.
Connected(objs, content) == \A o \in objs : Links[o] \subseteq objs \cup Held(content)

\* Is old an ancestor of new, or new itself, across incoming and stored commits?
IsAncestor(objs, content, old, new) ==
    LET held == Held(content)
        parents == [o \in Objs |-> Commits \cap IF o \in objs THEN Links[o]
                                                ELSE IF o \in held THEN Kids(content, o) ELSE {}]
    IN old \in Spread({new}, parents)

\* Variant: a protected ref is only guarded against deletion.
CheckDeletesOnly(r, cmd, cur, objs, content) ==
    IF cur # cmd.old
    THEN cur = cmd.new
    ELSE IF cmd.new = Nil
    THEN cmd.old # Nil /\ r \notin Protected
    ELSE cmd.new \in (objs \cup Held(content)) \cap Commits

\* A command asks to move a ref from old to new.  cur is the ref's value.
Check(r, cmd, cur, objs, content) ==
    IF cur # cmd.old
    THEN cur = cmd.new
    ELSE IF cmd.new = Nil
    THEN cmd.old # Nil /\ r \notin Protected
    ELSE /\ cmd.new \in (objs \cup Held(content)) \cap Commits
         /\ r \in Protected /\ cmd.old # Nil => IsAncestor(objs, content, cmd.old, cmd.new)

\* Variant: refs are judged one by one only.
JudgeAlone(cmds, refs, objs, content) ==
    {r \in DOMAIN cmds : Check(r, cmds[r], refs[r], objs, content)}

\* The refs of a push's commands that may go ahead: each by its own check,
\* then against the refs as the survivors would leave them.
Judge(cmds, refs, objs, content) ==
    LET ok == {r \in DOMAIN cmds : Check(r, cmds[r], refs[r], objs, content)}
        after == [r \in Refs |-> IF r \in ok THEN cmds[r].new ELSE refs[r]]
    IN {r \in ok : cmds[r].new = Nil \/ \A x \in Clashes[r] : after[x] = Nil}

\* Does this update leave the old value behind?
Drops(cmd, objs, content) ==
    /\ cmd.old # Nil
    /\ cmd.new = Nil \/ ~IsAncestor(objs, content, cmd.old, cmd.new)
=============================================================================
