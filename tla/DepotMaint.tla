----------------------------- MODULE DepotMaint -----------------------------
(***************************************************************************)
(* Background work on one repository: garbage collection (gc.rs), the      *)
(* geometric repack, and the periodic round that deletes retired packs and *)
(* orphans and looks for something to collect or merge (maint.rs).  One    *)
(* job runs at a time; the queues come before the round.                   *)
(***************************************************************************)
EXTENDS DepotRepo

Resting(s) == Free(s) /\ job[s] = NoJob

\* request: an admin asks for a collection, a purge, or a repack if one is due.
Request(s, kind) ==
    /\ spent.requests < MaxRequests
    /\ Open(s)
    /\ CASE kind = "collect" -> want' = [want EXCEPT ![s] = @ \cup {"collect"}]
         [] kind = "purge"   -> Purges /\ want' = [want EXCEPT ![s] = @ \cup {"collect", "purge"}]
         [] kind = "repack"  -> Mergeable(mem[s].m) # 0 /\ want' = [want EXCEPT ![s] = @ \cup {"repack"}]
    /\ spent' = [spent EXCEPT !.requests = @ + 1]
    /\ UNCHANGED <<man, made, stored, late, nonces, clock, mem, fetch, held, push, job, failed,
                   call, applied>>

------------------------------------------------------------------------------
\* Collection.

\* The index still extends the one the job planned against: nothing rebuilt it.
Unmoved(s) == mem[s].up /\ mem[s].gen = job[s].gen /\ mem[s].load = job[s].load

\* start: plan to keep what the refs and the unexpired dropped values reach.
\* With nothing to rewrite, expired dropped values may still be forgotten.
CollectStart(s) ==
    LET ms == Revalidated(mem[s])
        ix == Ix(ms.m)
        cut == Cutoff("purge" \in want[s])
        keep == Closure(ix, Tips(ms.m, cut))
        nothing == \/ ms.m.packs = <<>>
                   \/ /\ keep = Held(ix) /\ Len(ms.m.packs) = 1
                      /\ Unexpired(ms.m, cut) = ms.m.dropped
    IN
    /\ Resting(s) /\ "collect" \in want[s]
    /\ want' = [want EXCEPT ![s] = @ \ {"collect", "purge"}]
    /\ \/ /\ CanRevalidate(mem[s])
          /\ Become(s, ms)
          /\ \/ /\ nothing
                /\ call' = [call EXCEPT ![s] = [Call("prune") EXCEPT !.cut = Cutoff(FALSE)]]
                /\ UNCHANGED <<job, failed, spent>>
             \/ /\ ~nothing /\ Dangling(ix, keep)
                /\ failed' = [failed EXCEPT ![s] = clock]
                /\ UNCHANGED <<call, job, spent>>
             \/ /\ ~nothing /\ ~Dangling(ix, keep)
                /\ job' = [job EXCEPT ![s] = [kind |-> "collect", sources |-> ms.m.packs, keep |-> keep,
                                              cut |-> cut, gen |-> ms.gen, load |-> ms.load]]
                /\ UNCHANGED <<call, failed, spent>>
       \/ /\ Fails(CanRevalidate(mem[s]))
          /\ failed' = [failed EXCEPT ![s] = clock]
          /\ UNCHANGED <<mem, held, call, job>>
    /\ UNCHANGED <<man, made, stored, late, nonces, clock, fetch, push, applied>>

\* A job whose pack is not complete is given up.
Abandon(s) ==
    /\ failed' = IF job[s].kind = "collect" THEN [failed EXCEPT ![s] = clock] ELSE failed
    /\ call' = [call EXCEPT ![s] = [Call(job[s].kind) EXCEPT !.st = "cleanup"]]
    /\ job' = [job EXCEPT ![s] = NoJob]

\* The pack is written, from packs that must be there to read; its last slice
\* goes on to commit.
JobUpload(s, kind, readable, objs) ==
    /\ Free(s) /\ job[s].kind = kind
    /\ \/ /\ readable
          /\ Upload(objs)
          /\ call' = [call EXCEPT ![s] = [Call(kind) EXCEPT !.pack = NewPack]]
          /\ UNCHANGED <<job, failed, spent>>
       \/ /\ Fails(readable)
          /\ Abandon(s)
          /\ UNCHANGED <<made, stored>>
    /\ UNCHANGED <<man, late, nonces, clock, mem, fetch, held, push, want, applied>>

CollectUpload(s) ==
    JobUpload(s, "collect", Unmoved(s) /\ ToSet(job[s].sources) \subseteq stored, job[s].keep)

\* A job's save loop finds its own pack listed: an earlier round landed.
JobLanded(s) ==
    /\ Done(s)
    /\ job' = [job EXCEPT ![s] = NoJob]
    /\ UNCHANGED <<man, made, stored, late, nonces, clock, mem, fetch, held, push, want, failed,
                   applied, spent>>

JobGivesUp(s) ==
    /\ GiveUp(s)
    /\ UNCHANGED <<man, made, stored, late, nonces, clock, mem, fetch, held, want, applied, spent>>

\* The packs at positions i..j make way for one pack, and are retired.
Merged(m, i, j, pack) ==
    [m EXCEPT !.packs = SubSeq(@, 1, i - 1) \o <<pack>> \o SubSeq(@, j + 1, Len(@)),
              !.retired = @ \cup {[id |-> m.packs[k], at |-> clock] : k \in i..j}]

\* Variant: what is reachable by now is not looked at again.
SurvivesUnchecked(s, dropped) == TRUE

\* Everything the refs and the dropped values still kept reach by now is in the
\* new pack, or in a pack pushed meanwhile.
Survives(s, dropped) ==
    LET m == mem[s].m
        n == Len(job[s].sources)
        ix == Ix(m)
        need == Closure(ix, RefValues(m) \cup {d.id : d \in ToSet(dropped)})
    IN (need \cap Held(SubSeq(ix, 1, n))) \ job[s].keep \subseteq Held(SubSeq(ix, n + 1, Len(ix)))

\* One round of a collection's commit.
TryCollect(s) ==
    LET c == call[s]
        m == mem[s].m
        dropped == Unexpired(m, job[s].cut)
        fits == /\ IsPrefix(job[s].sources, m.packs)
                /\ Unmoved(s)
                /\ Survives(s, dropped)
    IN
    /\ c.kind = "collect" /\ c.st = "try"
    /\ \/ /\ Lists(m, c.pack)
          /\ JobLanded(s)
       \/ /\ ~Lists(m, c.pack) /\ ~fits
          /\ JobGivesUp(s)
       \/ /\ ~Lists(m, c.pack) /\ fits
          /\ Save(s, c, [Merged(m, 1, Len(job[s].sources), c.pack) EXCEPT !.dropped = dropped])

------------------------------------------------------------------------------
\* Repack.

RepackStart(s) ==
    LET ms == Revalidated(mem[s])
        start == Mergeable(ms.m)
        sources == SubSeq(ms.m.packs, start, Len(ms.m.packs))
    IN
    /\ Resting(s) /\ "repack" \in want[s] /\ "collect" \notin want[s]
    /\ want' = [want EXCEPT ![s] = @ \ {"repack"}]
    /\ \/ /\ CanRevalidate(mem[s])
          /\ Become(s, ms)
          /\ job' = IF start = 0 \/ ~(ToSet(sources) \subseteq stored) THEN job
                    ELSE [job EXCEPT ![s] = [NoJob EXCEPT !.kind = "repack", !.sources = sources]]
          /\ UNCHANGED spent
       \/ /\ Fails(CanRevalidate(mem[s]))
          /\ UNCHANGED <<mem, held, job>>
    /\ UNCHANGED <<man, made, stored, late, nonces, clock, fetch, push, failed, call, applied>>

RepackUpload(s) ==
    JobUpload(s, "repack", ToSet(job[s].sources) \subseteq stored,
              UNION {made[k].objs : k \in ToSet(job[s].sources)})

\* One round of a repack's commit: the sources must still be a run.
TryRepack(s) ==
    LET c == call[s]
        m == mem[s].m
        n == Len(job[s].sources)
        runs == {i \in 1..Len(m.packs) : i + n - 1 <= Len(m.packs)
                                         /\ SubSeq(m.packs, i, i + n - 1) = job[s].sources}
    IN
    /\ c.kind = "repack" /\ c.st = "try"
    /\ \/ /\ Lists(m, c.pack)
          /\ JobLanded(s)
       \/ /\ ~Lists(m, c.pack) /\ (~mem[s].up \/ runs = {})
          /\ JobGivesUp(s)
       \/ /\ ~Lists(m, c.pack) /\ mem[s].up
          /\ \E i \in runs : Save(s, c, Merged(m, i, i + n - 1, c.pack))

------------------------------------------------------------------------------
\* The periodic round: sweep, orphans, consider, and a look for a merge.

Round(s) ==
    /\ spent.rounds < MaxRounds
    /\ Resting(s) /\ want[s] = {} /\ mem[s].up
    /\ call' = [call EXCEPT ![s] = Call("sweep")]
    /\ spent' = [spent EXCEPT !.rounds = @ + 1]
    /\ UNCHANGED <<man, made, stored, late, nonces, clock, mem, fetch, held, push, job, want,
                   failed, applied>>

\* Packs retired long enough ago, that the manifest does not serve and no fetch
\* here still reads.
Sweepable(m, spared) ==
    {x.id : x \in {y \in m.retired : y.at <= clock - Grace}} \ (ToSet(m.packs) \cup spared)

\* sweep deletes packs and then takes them off the list; a failing delete ends it.
Sweep(s) ==
    LET c == call[s]
        ms == Revalidated(mem[s])
        old == Sweepable(ms.m, HeldAfter(s, ms))
        looks == mem[s].m.retired # {}
    IN
    /\ c.kind = "sweep" /\ c.st = "try" /\ c.gone = {}
    /\ \/ /\ ~looks
          /\ Done(s)
          /\ UNCHANGED <<stored, mem, held, spent>>
       \/ /\ looks /\ CanRevalidate(mem[s])
          /\ Become(s, ms)
          /\ \/ /\ old = {}
                /\ Done(s)
                /\ UNCHANGED <<stored, spent>>
             \/ /\ old # {}
                /\ stored' = stored \ old
                /\ call' = [call EXCEPT ![s].gone = old]
                /\ UNCHANGED spent
             \/ /\ Fault
                /\ \E part \in SUBSET old : part # old /\ stored' = stored \ part
                /\ Done(s)
       \/ /\ looks /\ Fails(CanRevalidate(mem[s]))
          /\ Done(s)
          /\ UNCHANGED <<stored, mem, held>>
    /\ UNCHANGED <<man, made, late, nonces, clock, fetch, push, job, want, failed, applied>>

TrySweep(s) ==
    LET c == call[s]
        m == mem[s].m
        rest == {x \in m.retired : x.id \notin c.gone}
    IN
    /\ c.kind = "sweep" /\ c.st = "try" /\ c.gone # {}
    /\ \/ /\ rest = m.retired
          /\ Done(s)
          /\ UNCHANGED <<man, made, stored, late, nonces, clock, mem, fetch, held, push, job, want,
                         failed, applied, spent>>
       \/ /\ rest # m.retired
          /\ Save(s, c, [m EXCEPT !.retired = rest])

\* Variant: a pack of just that age stays, and so may the last one for ever.
OrphanedStrict(m) == {k \in stored : ~Lists(m, k) /\ made[k].at < clock - OrphanAge}

\* Packs no manifest lists, old enough.
Orphaned(m) == {k \in stored : ~Lists(m, k) /\ made[k].at <= clock - OrphanAge}

\* orphans reads the manifest and lists the bucket, and then deletes.
Orphans(s) ==
    LET c == call[s]
        ms == Revalidated(mem[s])
    IN
    /\ c.kind = "orphans"
    /\ \/ /\ c.gone = {} /\ CanRevalidate(mem[s])
          /\ Become(s, ms)
          /\ IF Orphaned(ms.m) = {} THEN Done(s)
             ELSE call' = [call EXCEPT ![s].gone = Orphaned(ms.m)]
          /\ UNCHANGED <<stored, spent>>
       \/ /\ c.gone # {}
          /\ stored' = stored \ c.gone
          /\ Done(s)
          /\ UNCHANGED <<mem, held, spent>>
       \/ /\ Fails(c.gone # {} \/ CanRevalidate(mem[s]))
          /\ \E part \in SUBSET c.gone : stored' = stored \ part
          /\ Done(s)
          /\ UNCHANGED <<mem, held>>
    /\ UNCHANGED <<man, made, late, nonces, clock, fetch, push, job, want, failed, applied>>

\* assess: what there is to collect.
Expired(m) == Len(m.dropped) > Len(Unexpired(m, clock - Keep))
Garbage(m) == Held(Ix(m)) \ Closure(Ix(m), Tips(m, clock - Keep))
Size(m) == SumFunction([i \in DOMAIN m.packs |-> Cardinality(Ix(m)[i])])

\* due: expired dropped history whose objects would go is always worth a collection;
\* other garbage, second copies included, is when there is much of it.
Due(m) ==
    LET bytes == Size(m) - Cardinality(Held(Ix(m)) \ Garbage(m))
    IN (Expired(m) /\ Garbage(m) # {}) \/ (bytes >= Large /\ 10 * bytes >= Size(m))

Consider(s) ==
    LET m == mem[s].m
        collect == Due(m) /\ clock - failed[s] >= Backoff
    IN
    /\ call[s].kind = "consider"
    /\ IF collect
       THEN /\ want' = [want EXCEPT ![s] = @ \cup {"collect"}]
            /\ call' = [call EXCEPT ![s] = NoCall]
       ELSE /\ call' = [call EXCEPT ![s] =
                  IF Expired(m) THEN [Call("prune") EXCEPT !.cut = clock - Keep, !.round = TRUE]
                  ELSE Call("merge")]
            /\ UNCHANGED want
    /\ UNCHANGED <<man, made, stored, late, nonces, clock, mem, fetch, held, push, job, failed,
                   applied, spent>>

\* prune: forget the dropped values that expired.
TryPrune(s) ==
    LET c == call[s]
        m == mem[s].m
        rest == Unexpired(m, c.cut)
    IN
    /\ c.kind = "prune" /\ c.st = "try"
    /\ \/ /\ rest = m.dropped
          /\ Done(s)
          /\ UNCHANGED <<man, made, stored, late, nonces, clock, mem, fetch, held, push, job, want,
                         failed, applied, spent>>
       \/ /\ rest # m.dropped
          /\ Save(s, c, [m EXCEPT !.dropped = rest])

\* The last of the round: a repack that is due is queued.
Merge(s) ==
    /\ call[s].kind = "merge"
    /\ want' = AfterPush(s, mem[s].m)
    /\ Done(s)
    /\ UNCHANGED <<man, made, stored, late, nonces, clock, mem, fetch, held, push, job, failed,
                   applied, spent>>
=============================================================================
