------------------------------ MODULE DepotRepo ------------------------------
(***************************************************************************)
(* One repository of depot: its manifest and packs in the bucket, and the  *)
(* servers that share the bucket, each with a copy of the manifest and an  *)
(* index in memory.  This module has the state and what every operation    *)
(* shares: the copy in memory (app.rs) and the loop that rewrites the      *)
(* manifest (store.rs).  DepotPush and DepotMaint add the operations.      *)
(*                                                                         *)
(* A server is one event loop.  Pushes, fetches and the background job     *)
(* advance in slices that interleave; a slice that rewrites the manifest   *)
(* blocks the server until the outcome is settled (call), while the other  *)
(* servers go on.                                                          *)
(***************************************************************************)
EXTENDS DepotIndex, DepotStore, DepotPick

CONSTANTS Servers,
          Pushes,       \* the pushes that may be made
          MaxCmds,      \* commands in a push
          ThinBases,    \* may a pack be thin (its delta bases are then appended to it)
          Purges,       \* may an admin purge dropped history
          LatePuts,     \* may a PUT take effect after its sender read the object back
          Keep,         \* keep_days: how long a dropped value is kept
          Grace,        \* how long a retired pack is kept (an hour)
          OrphanAge,    \* age at which an unlisted pack is deleted (a day)
          Backoff,      \* wait after a failed collection (an hour)
          Large,        \* garbage that is worth collecting by its size (16 MiB)
          MaxDropped,   \* dropped values a manifest remembers (20000)
          MaxAttempts,  \* rounds of every save loop (8)
          Seed,         \* what earlier pushes brought, pack by pack
          SeedRefs,     \* the refs as the behaviour starts
          SeedDrops,    \* values that refs were moved off before
          MaxClock,     \* bound: ticks of the clock
          MaxRequests,  \* bound: maintenance asked for by an admin
          MaxRounds,    \* bound: periodic rounds in a tick of the clock
          MaxFetches,   \* bound: fetches
          MaxResets,    \* bound: resets of a server's memory by an admin
          MaxRestores,  \* bound: restores by an admin
          MaxFaults     \* bound: lost requests and replies, failed reads, crashes

ASSUME ConstantsAssumption ==
    /\ {Keep, Grace, OrphanAge, Backoff, Large, MaxDropped, MaxAttempts} \subseteq Nat
    /\ {MaxCmds, MaxClock, MaxRequests, MaxRounds, MaxFetches, MaxResets, MaxRestores, MaxFaults} \subseteq Nat
    /\ {ThinBases, Purges, LatePuts} \subseteq BOOLEAN
    /\ MaxAttempts > 0
    /\ Seed \in Seq(SUBSET Objs) /\ ~\E i \in DOMAIN Seed : Dangling(SubSeq(Seed, 1, i), Seed[i])
    /\ SeedRefs \in [Refs -> Held(Seed) \cup {Nil}] /\ SeedDrops \subseteq Held(Seed)
\* The zero id names no server; a retired pack, and one nobody lists, is kept for a while.
ASSUME ServersAssumption == Nil \notin Servers
ASSUME GraceAssumption == Grace > 0 /\ OrphanAge > 0
\* Of two refs that clash, each clashes with the other; and none do as it starts.
ASSUME SeedAssumption ==
    /\ \A r \in Refs : \A x \in Clashes[r] : r \in Clashes[x]
    /\ \A r \in Refs : SeedRefs[r] # Nil => \A x \in Clashes[r] : SeedRefs[x] = Nil

VARIABLES
    man,      \* the manifest in the bucket
    made,     \* every pack ever uploaded, by id: its objects and when
    stored,   \* the packs that are in the bucket
    late,     \* manifest PUTs that nobody waits for and that may still arrive
    nonces,   \* how many writer nonces were drawn
    clock,
    mem,      \* each server's copy of the manifest and its index
    fetch,    \* the fetch a server is serving: the packs it reads, when it was planned
    held,     \* packs that left a server's index while a fetch here reads them
    push,     \* each push
    job,      \* each server's background job
    want,     \* what is queued on a server, of "collect", "purge" and "repack"
    failed,   \* when a server's last collection failed
    call,     \* the save loop or the periodic round a server is in
    applied,  \* the manifest writes of pushes that took effect
    spent     \* what was used of the bounds

vars == <<man, made, stored, late, nonces, clock, mem, fetch, held, push, job, want, failed,
          call, applied, spent>>

------------------------------------------------------------------------------
\* Manifests.

NoMan == [rev |-> 0, writer |-> None, packs |-> <<>>, refs |-> [r \in Refs |-> Nil],
          dropped |-> <<>>, retired |-> {}]

\* Is a pack listed, live or retired?
Lists(m, pack) == pack \in ToSet(m.packs) \/ \E x \in m.retired : x.id = pack

\* The contents of a manifest's packs, in order: what its index is built from.
Ix(m) == [i \in DOMAIN m.packs |-> made[m.packs[i]].objs]

RefValues(m) == {m.refs[r] : r \in Refs} \ {Nil}

\* Variant: dropped values expire a tick early.
UnexpiredBy(m, cut) == SelectSeq(m.dropped, LAMBDA d : d.at > cut + 1)

\* Dropped values at or before a cutoff are expired.
Unexpired(m, cut) ==
    LET kept[i \in 0..Len(m.dropped)] ==
            IF i = 0 THEN <<>>
            ELSE IF m.dropped[i].at > cut THEN Append(kept[i - 1], m.dropped[i])
            ELSE kept[i - 1]
    IN kept[Len(m.dropped)]

\* What a collection keeps the history of.
Tips(m, cut) == RefValues(m) \cup {d.id : d \in ToSet(Unexpired(m, cut))}
Cutoff(purge) == IF purge THEN clock ELSE clock - Keep

------------------------------------------------------------------------------
\* The copy in memory.

\* up: it is loaded; fresh: it was compared with storage so recently that open
\* does not look again (REVALIDATE, two seconds: within one tick of the clock);
\* gen counts rebuilds of the index and load counts loadings by this process.
NoMem == [up |-> FALSE, m |-> NoMan, etag |-> None, stale |-> FALSE, fresh |-> FALSE,
          gen |-> 0, load |-> 0]

\* A step that reads storage fails when something is missing, or by a fault.
Fault == /\ spent.faults < MaxFaults
         /\ spent' = [spent EXCEPT !.faults = @ + 1]
Fails(readable) == IF readable THEN Fault ELSE UNCHANGED spent

\* Adopt a newer manifest: extend the index, or rebuild it when packs left.
Extends(ms, m) == IsPrefix(ms.m.packs, m.packs) /\ ~ms.stale
Apply(ms, m) ==
    [ms EXCEPT !.m = m, !.etag = m.writer, !.stale = FALSE, !.fresh = TRUE,
               !.gen = IF Extends(ms, m) THEN @ ELSE @ + 1]

\* The pack indexes it takes to do so must be there to read.
Indexable(ms, m) ==
    ToSet(m.packs) \ (IF Extends(ms, m) THEN ToSet(ms.m.packs) ELSE {}) \subseteq stored

\* revalidate: whether it works, and what the copy becomes.
CanRevalidate(ms) ==
    /\ ms.up
    /\ man.writer # ms.etag => Newer(man, ms.m, ms.etag) /\ Indexable(ms, man)
Revalidated(ms) ==
    IF man.writer = ms.etag THEN [ms EXCEPT !.fresh = TRUE] ELSE Apply(ms, man)

\* Variant: no pack is held for a fetch.
HeldNone(s, ms) == held[s]

\* The packs held once the copy becomes ms: those that leave the index while a
\* fetch reads them, if it was planned on this very index (a rebuilt one has new
\* records even for the packs it keeps).
HeldAfter(s, ms) ==
    IF fetch[s].gen = mem[s].gen /\ fetch[s].load = mem[s].load
    THEN held[s] \cup ((ToSet(mem[s].m.packs) \ ToSet(ms.m.packs)) \cap fetch[s].packs)
    ELSE held[s]

Become(s, ms) ==
    /\ mem' = [mem EXCEPT ![s] = ms]
    /\ held' = [held EXCEPT ![s] = HeldAfter(s, ms)]

\* A pack is complete in the bucket.
Upload(objs) == /\ made' = Append(made, [objs |-> objs, at |-> clock])
                /\ stored' = stored \cup {Len(made) + 1}
NewPack == Len(made) + 1

------------------------------------------------------------------------------
NoFetch == [packs |-> {}, at |-> 0, gen |-> 0, load |-> 0]
NoPush == [st |-> "new", s |-> Nil, cmds |-> <<>>, atomic |-> FALSE, objs |-> {}, pack |-> 0,
           gen |-> 0, res |-> {}]
NoJob == [kind |-> "none", sources |-> <<>>, keep |-> {}, cut |-> 0, gen |-> 0, load |-> 0]

\* A call is the part of a request, of a job or of the periodic round that
\* blocks its server: rounds of building a manifest and writing it (st = "try"),
\* settling a write that was not seen to succeed ("settle"), and removing an
\* uploaded pack after a failure ("cleanup").
NoCall == [kind |-> "none", st |-> "try", pack |-> 0, push |-> Nil, ref |-> Nil, id |-> Nil,
           gen |-> 0, ok |-> {}, moved |-> {}, gone |-> {}, cut |-> 0, round |-> FALSE,
           attempt |-> 0, tried |-> FALSE, doc |-> NoMan, first |-> "none"]
Call(kind) == [NoCall EXCEPT !.kind = kind]

Free(s) == call[s] = NoCall

\* open: the repository is in memory, and was looked at a moment ago.
Open(s) == Free(s) /\ mem[s].up /\ mem[s].fresh /\ ~mem[s].stale

Init ==
    LET seeded == [NoMan EXCEPT !.rev = Len(Seed) + 1, !.writer = 1, !.refs = SeedRefs,
                      !.packs = [i \in DOMAIN Seed |-> i],
                      !.dropped = SetToSeq({[id |-> o, at |-> 0] : o \in SeedDrops})]
    IN
    /\ man = IF Seed = <<>> THEN NoMan ELSE seeded
    /\ made = [i \in DOMAIN Seed |-> [objs |-> Seed[i], at |-> 0]]
    /\ stored = DOMAIN made
    /\ late = {}
    /\ nonces = 1
    /\ clock = 0
    /\ mem = [s \in Servers |-> NoMem]
    /\ fetch = [s \in Servers |-> NoFetch]
    /\ held = [s \in Servers |-> {}]
    /\ push = [p \in Pushes |-> NoPush]
    /\ job = [s \in Servers |-> NoJob]
    /\ want = [s \in Servers |-> {}]
    /\ failed = [s \in Servers |-> 0 - Backoff]
    /\ call = [s \in Servers |-> NoCall]
    /\ applied = {}
    /\ spent = [requests |-> 0, rounds |-> 0, fetches |-> 0, restores |-> 0, faults |-> 0]

------------------------------------------------------------------------------
\* The copy comes, is looked at, and goes.

Load(s) ==
    /\ Free(s) /\ ~mem[s].up
    /\ ToSet(man.packs) \subseteq stored
    /\ mem' = [mem EXCEPT ![s] = [@ EXCEPT !.up = TRUE, !.m = man, !.etag = man.writer,
                                           !.stale = FALSE, !.fresh = TRUE, !.gen = 0]]
    /\ UNCHANGED <<man, made, stored, late, nonces, clock, fetch, held, push, job, want, failed,
                   call, applied, spent>>

\* A request opens the repository and its copy is compared with storage.
Look(s) ==
    /\ Free(s) /\ CanRevalidate(mem[s])
    /\ Become(s, Revalidated(mem[s]))
    /\ UNCHANGED <<man, made, stored, late, nonces, clock, fetch, push, job, want, failed, call,
                   applied, spent>>

\* reset_from_storage: an admin accepted what storage holds (POST /api/witness);
\* everything loaded is forgotten.
Reset(s) ==
    /\ Free(s) /\ mem[s].up /\ mem[s].load < MaxResets
    /\ mem' = [mem EXCEPT ![s] = [NoMem EXCEPT !.load = mem[s].load + 1]]
    /\ UNCHANGED <<man, made, stored, late, nonces, clock, fetch, held, push, job, want, failed,
                   call, applied, spent>>

\* The process dies, with its requests and its job.
Crash(s) ==
    /\ Fault
    /\ mem' = [mem EXCEPT ![s] = NoMem]
    /\ fetch' = [fetch EXCEPT ![s] = NoFetch]
    /\ held' = [held EXCEPT ![s] = {}]
    /\ push' = [p \in Pushes |-> IF push[p].s = s /\ push[p].st # "done"
                                 THEN [push[p] EXCEPT !.st = "done"] ELSE push[p]]
    /\ job' = [job EXCEPT ![s] = NoJob]
    /\ want' = [want EXCEPT ![s] = {}]
    /\ failed' = [failed EXCEPT ![s] = 0 - Backoff]
    /\ call' = [call EXCEPT ![s] = NoCall]
    /\ UNCHANGED <<man, made, stored, late, nonces, clock, applied>>

\* A tick of the clock stands for an hour.  A call is over within one (every
\* request to the bucket ends by IO_TIMEOUT, client.rs, and rounds are few), and
\* no upload in flight grows as old as an orphan ("far longer than any upload in
\* flight", README.md, Orphans).
Timely ==
    /\ \A s \in Servers : Free(s)
    /\ \A p \in Pushes : push[p].st = "uploaded" => clock + 1 - made[push[p].pack].at < OrphanAge

Tick ==
    /\ clock < MaxClock
    /\ Timely
    /\ clock' = clock + 1
    /\ mem' = [s \in Servers |-> [mem[s] EXCEPT !.fresh = FALSE]]
    /\ spent' = [spent EXCEPT !.rounds = 0]
    /\ UNCHANGED <<man, made, stored, late, nonces, fetch, held, push, job, want, failed, call,
                   applied>>

------------------------------------------------------------------------------
\* The save loop.

\* A call ends; the periodic round goes on from the retired packs to the orphans,
\* to a look at what is worth collecting, and to what is worth merging.
Done(s) ==
    LET c == call[s] IN
    call' = [call EXCEPT ![s] = IF c.kind = "sweep" THEN Call("orphans")
                                ELSE IF c.kind = "orphans" THEN Call("consider")
                                ELSE IF c.round THEN Call("merge")
                                ELSE NoCall]

\* after_push: queue a repack that is due, unless a collection will rewrite
\* everything anyway.
Mergeable(m) == Pick([i \in DOMAIN m.packs |-> Cardinality(made[m.packs[i]].objs)])
AfterPush(s, m) ==
    IF "collect" \in want[s] \/ Mergeable(m) = 0 THEN want
    ELSE [want EXCEPT ![s] = @ \cup {"repack"}]

\* A push is answered: res are the refs it reports as updated.
Answer(p, res) == [push EXCEPT ![p] = [@ EXCEPT !.st = "done", !.res = res]]

\* The call's manifest, doc, is in place.
Succeed(s, c, doc) ==
    /\ Done(s)
    /\ CASE c.kind = "push" ->
              /\ Become(s, [mem[s] EXCEPT !.m = doc, !.etag = doc.writer, !.fresh = TRUE])
              /\ push' = Answer(c.push, c.ok)
              /\ want' = AfterPush(s, doc)
              /\ UNCHANGED <<job, spent>>
         [] c.kind \in {"collect", "repack"} ->
              /\ \/ /\ Indexable(mem[s], doc)
                    /\ Become(s, Apply(mem[s], doc))
                    /\ UNCHANGED spent
                 \/ /\ Fails(Indexable(mem[s], doc))
                    /\ Become(s, [mem[s] EXCEPT !.stale = TRUE, !.etag = None])
              /\ job' = [job EXCEPT ![s] = NoJob]
              /\ UNCHANGED <<push, want>>
         [] OTHER ->
              /\ Become(s, [mem[s] EXCEPT !.m = doc, !.etag = doc.writer])
              /\ UNCHANGED <<push, want, job, spent>>

\* The call gives up: a push reports failure, a job is abandoned, and a pack
\* they uploaded is looked into.
GiveUp(s) ==
    LET c == call[s]
        ofJob == c.kind \in {"collect", "repack"}
    IN
    /\ push' = IF c.kind = "push" THEN Answer(c.push, {}) ELSE push
    /\ job' = IF ofJob THEN [job EXCEPT ![s] = NoJob] ELSE job
    /\ failed' = IF c.kind = "collect" THEN [failed EXCEPT ![s] = clock] ELSE failed
    /\ IF c.pack # 0 THEN call' = [call EXCEPT ![s].st = "cleanup"] ELSE Done(s)

\* Variant: the pack of a failed commit is deleted without a look at the manifest.
CleanupBlind(s) ==
    LET c == call[s] IN
    /\ c.kind # "none" /\ c.st = "cleanup"
    /\ Done(s)
    /\ stored' = stored \ {c.pack}
    /\ UNCHANGED <<man, made, late, nonces, clock, mem, held, fetch, push, job, want, failed,
                   applied, spent>>

\* cleanup and abandon: the pack goes if it was never offered to a manifest, or
\* if a manifest read afresh does not list it.
Cleanup(s) ==
    LET c == call[s]
        blind == c.kind = "push" /\ ~c.tried
    IN
    /\ c.kind # "none" /\ c.st = "cleanup"
    /\ Done(s)
    /\ \/ /\ blind
          /\ stored' = stored \ {c.pack}
          /\ UNCHANGED <<mem, held, spent>>
       \/ /\ ~blind /\ CanRevalidate(mem[s])
          /\ Become(s, Revalidated(mem[s]))
          /\ stored' = IF Lists(Revalidated(mem[s]).m, c.pack) THEN stored ELSE stored \ {c.pack}
          /\ UNCHANGED spent
       \/ /\ Fails(blind \/ CanRevalidate(mem[s]))
          /\ UNCHANGED <<mem, held, stored>>
    /\ UNCHANGED <<man, made, late, nonces, clock, fetch, push, job, want, failed, applied>>

\* The writes that took effect, once doc did.
Landed(c, doc) ==
    IF c.kind = "push"
    THEN applied \cup {[push |-> c.push, ok |-> c.ok, moved |-> c.moved, writer |-> doc.writer]}
    ELSE applied

\* save_manifest: m, as the next revision and under a fresh nonce, on condition
\* of the ETag held.  It takes effect or is refused, and the answer may be lost;
\* or the request is lost, or late.  c is the call with what this round decided.
Save(s, c, m) ==
    LET doc == [m EXCEPT !.rev = @ + 1, !.writer = nonces + 1]
        etag == mem[s].etag
        Unanswered(first) ==
            /\ call' = [call EXCEPT ![s] = [c EXCEPT !.st = "settle", !.tried = TRUE,
                                                     !.doc = doc, !.first = first]]
            /\ UNCHANGED <<mem, held, push, job, want>>
    IN
    /\ nonces' = nonces + 1
    /\ \/ /\ Accepts(man, etag)
          /\ man' = doc
          /\ applied' = Landed(c, doc)
          /\ late' = late
          /\ \/ Succeed(s, c, doc)
             \/ Fault /\ Unanswered("unknown")
       \/ /\ ~Accepts(man, etag)
          /\ Unanswered("refused")
          /\ UNCHANGED <<man, applied, late, spent>>
       \/ /\ Fault
          /\ Unanswered("unknown")
          /\ \/ late' = late
             \/ LatePuts /\ late' = late \cup {[etag |-> etag, doc |-> doc, call |-> c]}
          /\ UNCHANGED <<man, applied>>
    /\ UNCHANGED <<made, stored, clock, fetch, failed>>

\* Variant: the loop runs once too often.
AgainOnceMore(attempt) == attempt + 1 <= MaxAttempts

\* Does the loop go round again (for attempt in 0..8)?
Again(attempt) == attempt + 1 < MaxAttempts

\* put_sealed_once reads the manifest back; a conflict starts the next round
\* with a revalidated copy.
Settle(s) ==
    LET c == call[s]
        r == ReadBack(c.first, man, c.doc.writer)
        again == r = "conflict" /\ Again(c.attempt)
    IN
    /\ c.kind # "none" /\ c.st = "settle"
    /\ \/ /\ r = "ok"
          /\ Succeed(s, c, c.doc)
          /\ UNCHANGED failed
       \/ /\ again /\ CanRevalidate(mem[s])
          /\ Become(s, Revalidated(mem[s]))
          /\ call' = [call EXCEPT ![s] = [c EXCEPT !.st = "try", !.attempt = @ + 1,
                                                   !.doc = NoMan, !.first = "none"]]
          /\ UNCHANGED <<push, job, want, failed, spent>>
       \/ /\ IF r = "ok" \/ (again /\ CanRevalidate(mem[s])) THEN Fault ELSE UNCHANGED spent
          /\ GiveUp(s)
          /\ UNCHANGED <<mem, held, want>>
    /\ UNCHANGED <<man, made, stored, late, nonces, clock, fetch, applied>>

\* A PUT nobody waits for reaches the bucket.
Arrive(w) ==
    /\ w \in late
    /\ late' = late \ {w}
    /\ IF Accepts(man, w.etag)
       THEN man' = w.doc /\ applied' = Landed(w.call, w.doc)
       ELSE UNCHANGED <<man, applied>>
    /\ UNCHANGED <<made, stored, nonces, clock, mem, fetch, held, push, job, want, failed, call,
                   spent>>
=============================================================================
