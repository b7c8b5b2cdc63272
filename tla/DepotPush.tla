------------------------------ MODULE DepotPush ------------------------------
(***************************************************************************)
(* Requests to one repository: pushes (push.rs), fetches (fetch.rs,        *)
(* git/upload.rs) and the restoring of dropped history (api.rs).           *)
(***************************************************************************)
EXTENDS DepotRepo

\* What a client sends: the history of the new values, less what it knows the
\* server to have (what some values it was advertised reach).
Sendable(cmds) ==
    LET news == {cmds[r].new : r \in DOMAIN cmds} \ {Nil}
    IN {History(news) \ History(adv) : adv \in SUBSET Objs}

\* The commands of a push: some refs, each to move from old to new.
CmdSets ==
    UNION {[rs -> {c \in [old : Values, new : Values] : c.old # c.new}] :
             rs \in {x \in SUBSET Refs : x # {} /\ Cardinality(x) <= MaxCmds}}

\* Variant: an atomic push is like any other.
GoesAheadInPart(cmds, atomic, ok) == ok # {}

\* May a push go ahead: does any of its commands pass, or all if it is atomic?
GoesAhead(cmds, atomic, ok) == ok # {} /\ (atomic => ok = DOMAIN cmds)

\* PushJob up to Stage::Check: the repository is opened, the pack is received,
\* the delta bases it lacks are appended from the index (thin), and everything is
\* checked against the copy, however long ago it was opened.  A push that does
\* not pass leaves no trace.
PushStart(p, s) ==
    /\ push[p] = NoPush
    /\ Free(s) /\ mem[s].up
    /\ \E cmds \in CmdSets, atomic \in BOOLEAN :
       \E sent \in Sendable(cmds), thin \in SUBSET (IF ThinBases THEN Held(Ix(mem[s].m)) ELSE {}) :
          LET ix == Ix(mem[s].m)
              objs == sent \cup thin
          IN /\ Cardinality(DOMAIN cmds) = 1 => ~atomic
             /\ sent = {} => thin = {}
             /\ Connected(objs, ix)
             /\ GoesAhead(cmds, atomic, Judge(cmds, mem[s].m.refs, objs, ix))
             /\ push' = [push EXCEPT ![p] = [NoPush EXCEPT !.st = "checked", !.s = s, !.cmds = cmds,
                                                 !.atomic = atomic, !.objs = objs, !.gen = mem[s].gen]]
    /\ UNCHANGED <<man, made, stored, late, nonces, clock, mem, fetch, held, job, want, failed,
                   call, applied, spent>>

\* Stage::Upload, unless the push brings no object.  When it fails, the pack is
\* removed unseen; if the removal fails too, it stays.
PushUpload(p) ==
    LET x == push[p] IN
    /\ x.st = "checked" /\ x.objs # {} /\ Free(x.s)
    /\ \/ /\ Upload(x.objs)
          /\ push' = [push EXCEPT ![p] = [@ EXCEPT !.st = "uploaded", !.pack = NewPack]]
          /\ UNCHANGED spent
       \/ /\ Fault
          /\ Upload(x.objs) \/ UNCHANGED <<made, stored>>
          /\ push' = Answer(p, {})
    /\ UNCHANGED <<man, late, nonces, clock, mem, fetch, held, job, want, failed, call, applied>>

\* Stage::Commit begins.  A repository that left memory was deleted, it says.
PushCommit(p) ==
    LET x == push[p]
        c == [Call("push") EXCEPT !.push = p, !.pack = x.pack, !.gen = x.gen]
    IN
    /\ x.st = "uploaded" \/ (x.st = "checked" /\ x.objs = {})
    /\ Free(x.s)
    /\ IF mem[x.s].up
       THEN /\ call' = [call EXCEPT ![x.s] = c]
            /\ push' = [push EXCEPT ![p].st = "commit"]
       ELSE /\ call' = IF x.pack = 0 THEN call
                       ELSE [call EXCEPT ![x.s] = [c EXCEPT !.st = "cleanup"]]
            /\ push' = Answer(p, {})
    /\ UNCHANGED <<man, made, stored, late, nonces, clock, mem, fetch, held, job, want, failed,
                   applied, spent>>

\* The manifest a push writes: the refs that still hold the old value move, what
\* they leave behind is recorded, and the pack is listed last.
Pushed(m, p, ok) ==
    LET x == push[p]
        moved == {r \in ok : m.refs[r] = x.cmds[r].old}
        left == {r \in moved : Drops(x.cmds[r], x.objs, Ix(m))}
        dropped == m.dropped \o SetToSeq({[id |-> x.cmds[r].old, at |-> clock] : r \in left})
        over == Len(dropped) - MaxDropped
    IN [m EXCEPT !.refs = [r \in Refs |-> IF r \in moved THEN x.cmds[r].new ELSE @[r]],
                 !.dropped = IF over > 0 THEN SubSeq(dropped, over + 1, Len(dropped)) ELSE dropped,
                 !.packs = IF x.pack = 0 THEN @ ELSE Append(@, x.pack)]

\* Variant: the commands of a push are judged once, when it is received.
TryPushUnjudged(s) ==
    LET c == call[s]
        x == push[c.push]
        ok == DOMAIN x.cmds
        m == Pushed(mem[s].m, c.push, ok)
    IN
    /\ c.kind = "push" /\ c.st = "try"
    /\ Save(s, [c EXCEPT !.ok = ok, !.moved = ok],
            [m EXCEPT !.refs = [r \in Refs |-> IF r \in ok THEN x.cmds[r].new ELSE @[r]]])

\* Variant: what an earlier round did is not looked for.
LandedNever(s) == FALSE

\* Did an earlier round land, and was then built upon?  Then the pack is listed.
LandedBefore(s) ==
    LET c == call[s] IN c.tried /\ c.pack # 0 /\ Lists(mem[s].m, c.pack)

\* Variant: the check made when the push was received is enough.
CutOffNever(s) == FALSE

\* Was the index rebuilt since the check, and lost what the push builds on?
CutOff(s) ==
    LET c == call[s] IN
    c.gen # mem[s].gen /\ ~Connected(push[c.push].objs, Ix(mem[s].m))

\* One round of commit: judge every command against the manifest it replaces
\* and swap that in.
TryPush(s) ==
    LET c == call[s]
        x == push[c.push]
        m == mem[s].m
        ix == Ix(m)
        ok == Judge(x.cmds, m.refs, x.objs, ix)
    IN
    /\ c.kind = "push" /\ c.st = "try"
    /\ \/ /\ LandedBefore(s)
          /\ push' = Answer(c.push, c.ok)
          /\ want' = AfterPush(s, m)
          /\ Done(s)
          /\ UNCHANGED <<man, made, stored, late, nonces, clock, mem, fetch, held, job, failed,
                         applied, spent>>
       \/ /\ ~LandedBefore(s)
          /\ CutOff(s) \/ ~GoesAhead(x.cmds, x.atomic, ok)
          /\ GiveUp(s)
          /\ UNCHANGED <<man, made, stored, late, nonces, clock, mem, fetch, held, want, applied,
                         spent>>
       \/ /\ ~LandedBefore(s) /\ ~CutOff(s)
          /\ GoesAhead(x.cmds, x.atomic, ok)
          /\ Save(s, [c EXCEPT !.gen = mem[s].gen, !.ok = ok,
                               !.moved = {r \in ok : m.refs[r] = x.cmds[r].old}],
                  Pushed(m, c.push, ok))

------------------------------------------------------------------------------
\* plan: what wants reach and haves do not.
Planned(ix, wants, haves) == Closure(ix, wants) \ Closure(ix, haves)

\* A fetch is planned against the copy: the client wants some of what the refs reach
\* and has some already.  It reads the packs that serve what is planned, and is
\* refused if a link on the way is not resolved.
FetchStart(s) ==
    LET m == mem[s].m
        ix == Ix(m)
        shown == Closure(ix, RefValues(m))
    IN
    /\ spent.fetches < MaxFetches
    /\ Open(s) /\ fetch[s] = NoFetch
    /\ \E wants, haves \in SUBSET shown :
          LET objs == Planned(ix, wants, haves) IN
          /\ objs # {} /\ ~Dangling(ix, objs)
          /\ fetch' = [fetch EXCEPT ![s] = [packs |-> {m.packs[First(ix, o)] : o \in objs}, at |-> clock,
                                                gen |-> mem[s].gen, load |-> mem[s].load]]
    /\ spent' = [spent EXCEPT !.fetches = @ + 1]
    /\ UNCHANGED <<man, made, stored, late, nonces, clock, mem, held, push, job, want, failed, call,
                   applied>>

FetchEnd(s) ==
    /\ Free(s) /\ fetch[s] # NoFetch
    /\ fetch' = [fetch EXCEPT ![s] = NoFetch]
    /\ held' = [held EXCEPT ![s] = {}]
    /\ UNCHANGED <<man, made, stored, late, nonces, clock, mem, push, job, want, failed, call,
                   applied, spent>>

------------------------------------------------------------------------------
\* restore: an admin points a ref at a stored object.
Restore(s, r, o) ==
    /\ spent.restores < MaxRestores
    /\ Open(s)
    /\ call' = [call EXCEPT ![s] = [Call("restore") EXCEPT !.ref = r, !.id = o]]
    /\ spent' = [spent EXCEPT !.restores = @ + 1]
    /\ UNCHANGED <<man, made, stored, late, nonces, clock, mem, fetch, held, push, job, want,
                   failed, applied>>

TryRestore(s) ==
    LET c == call[s]
        m == mem[s].m
        ix == Ix(m)
        fits == /\ c.id \in Held(ix)
                /\ ~Dangling(ix, Closure(ix, {c.id}))
                /\ Judge([r \in {c.ref} |-> [old |-> Nil, new |-> c.id]], m.refs, {}, ix) # {}
    IN
    /\ c.kind = "restore" /\ c.st = "try"
    /\ \/ /\ ~fits
          /\ Done(s)
          /\ UNCHANGED <<man, made, stored, late, nonces, clock, mem, fetch, held, push, job, want,
                         failed, applied, spent>>
       \/ /\ fits
          /\ Save(s, c, [m EXCEPT !.refs[c.ref] = c.id])
=============================================================================
