-------------------------------- MODULE Depot --------------------------------
(***************************************************************************)
(* A repository of depot under all its operations at once, and what makes  *)
(* it correct.                                                             *)
(***************************************************************************)
EXTENDS DepotPush, DepotMaint

\* The bucket, the processes and the save loop; the requests; the background.
Common ==
    \/ \E s \in Servers : Load(s) \/ Look(s) \/ Reset(s) \/ Crash(s) \/ Cleanup(s) \/ Settle(s)
    \/ \E w \in late : Arrive(w)
    \/ Tick

Serve ==
    \/ \E p \in Pushes : PushUpload(p) \/ PushCommit(p) \/ \E s \in Servers : PushStart(p, s)
    \/ \E s \in Servers :
          \/ TryPush(s)
          \/ FetchStart(s) \/ FetchEnd(s)
          \/ TryRestore(s) \/ \E r \in Refs, o \in Objs : Restore(s, r, o)

Maintain ==
    \E s \in Servers :
       \/ \E kind \in {"collect", "purge", "repack"} : Request(s, kind)
       \/ CollectStart(s) \/ CollectUpload(s) \/ TryCollect(s)
       \/ RepackStart(s) \/ RepackUpload(s) \/ TryRepack(s)
       \/ Round(s) \/ Sweep(s) \/ TrySweep(s) \/ Orphans(s) \/ Consider(s) \/ TryPrune(s) \/ Merge(s)

Next == Common \/ Serve \/ Maintain

Spec == Init /\ [][Next]_vars

\* A repository without background work.
ServeSpec == Init /\ [][Common \/ Serve]_vars

\* What a server does by itself, as long as its event loop runs: it finishes what
\* it is in, works off its queues and makes its rounds over the repositories it has
\* open.  Load is not among it: only a request opens a repository.
Work(s) ==
    \/ Cleanup(s) \/ Settle(s) \/ TryPush(s) \/ TryRestore(s)
    \/ CollectStart(s) \/ CollectUpload(s) \/ TryCollect(s)
    \/ RepackStart(s) \/ RepackUpload(s) \/ TryRepack(s)
    \/ Round(s) \/ Sweep(s) \/ TrySweep(s) \/ Orphans(s) \/ Consider(s) \/ TryPrune(s) \/ Merge(s)

FairSpec == Spec /\ \A s \in Servers : WF_vars(Work(s))

------------------------------------------------------------------------------
\* Properties.

Packs == 1..Len(made)
Manifests ==
    [rev : Nat, writer : 0..nonces, packs : Seq(Packs), refs : [Refs -> Values],
     dropped : Seq([id : Objs, at : 0..clock]), retired : SUBSET [id : Packs, at : 0..clock]]

\* Every variable has the type its field has in the code: packs and revisions a
\* manifest or a copy of it names exist, and a job works on packs that do.
TypeOK ==
    /\ man \in Manifests
    /\ made \in Seq([objs : SUBSET Objs, at : 0..clock]) /\ stored \subseteq Packs
    /\ nonces \in Nat /\ clock \in 0..MaxClock
    /\ \A s \in Servers :
          /\ mem[s].m \in Manifests /\ mem[s].etag \in 0..nonces
          /\ fetch[s].packs \subseteq Packs /\ held[s] \subseteq Packs
          /\ ToSet(job[s].sources) \subseteq Packs /\ job[s].keep \subseteq Objs
          /\ want[s] \subseteq {"collect", "purge", "repack"}
          /\ failed[s] \in (0 - Backoff)..clock
          /\ call[s].attempt \in 0..(MaxAttempts - 1) /\ call[s].pack \in {0} \cup Packs
    /\ \A p \in Pushes : push[p].objs \subseteq Objs /\ push[p].res \subseteq DOMAIN push[p].cmds

\* Every live pack of the manifest is in the bucket: no cleanup, abandoned job,
\* sweep or orphan scan, on any server, removes a pack that a write which landed
\* unseen has listed.
ListedStored == ToSet(man.packs) \subseteq stored

\* The repository can be cloned: everything its refs reach is in its packs, and
\* an index built from them in their order resolves every link on the way.
Clonable == Closure(Ix(man), RefValues(man)) = History(RefValues(man))

\* Nothing the refs reach is gone from the packs, wherever in them it is.
Complete == History(RefValues(man)) \subseteq Held(Ix(man))

\* Dropped history is kept for its time: a dropped value that has not expired can
\* be restored whole, and the manifest goes on remembering it (where nothing is
\* purged and the manifest has room); and it never forgets by mistake why garbage has
\* to go: prune takes expired values off it only if a collection would free nothing by
\* then, or one failed a moment ago (while that is backed off, consider prunes all the
\* same).
Restorable(d) == History({d.id}) \subseteq Closure(Ix(man), {d.id})
Unforgotten == {d \in ToSet(man.dropped) : d.at > clock - Keep}
Prunes(s) == call[s].kind = "prune" /\ call'[s] # call[s] /\ man'.dropped # man.dropped
KeptHistory ==
    /\ [](\A d \in Unforgotten : Restorable(d))
    /\ [][Len(man.dropped) < MaxDropped => Unforgotten \subseteq ToSet(man'.dropped)]_vars
    /\ [][\A s \in Servers :
             Prunes(s) => Garbage(mem[s].m) = {} \/ clock - failed[s] < Backoff]_vars

\* No ref is beneath another (a and a/b), which no clone could store.
NoClash == \A r \in Refs : man.refs[r] # Nil => \A x \in Clashes[r] : man.refs[x] = Nil

\* A protected ref only fast-forwards and is never deleted.
ProtectedForward ==
    [][\A r \in Protected : man.refs[r] # Nil =>
          man'.refs[r] # Nil /\ man.refs[r] \in History({man'.refs[r]})]_vars

\* A push that brings objects moves refs by one manifest write at most, however
\* often its commit retries.
PackedOnce ==
    \A a, b \in applied : a.push = b.push /\ push[a.push].pack # 0 => a = b

\* A fetch can read the packs it was planned against: for as long as a retired pack is
\* kept, whichever server retires and sweeps; and however old it is, where the sweep is
\* its own server's, through a rebuild of the index.
FetchServed ==
    /\ [](\A s \in Servers : fetch[s].packs \subseteq stored \/ clock >= fetch[s].at + Grace)
    /\ [][\A s \in Servers :
             /\ call[s].kind = "sweep" /\ call'[s] # call[s]
             /\ mem'[s].load = fetch[s].load /\ mem'[s].gen <= fetch[s].gen + 1
             => fetch[s].packs \cap stored \subseteq stored']_vars

\* The refs behave as one book of refs, moved by the commands of pushes in one
\* step each, and what a client is told is what was done.
Book == INSTANCE RefBook WITH
    Late <- LatePuts,
    refs <- man.refs,
    cmds <- [p \in Pushes |-> push[p].cmds],
    atomic <- [p \in Pushes |-> push[p].atomic],
    done <- [p \in Pushes |-> UNION {a.ok : a \in {x \in applied : x.push = p}}],
    claimed <- [p \in Pushes |-> IF push[p].st = "done" THEN push[p].res ELSE {Nil}]
OneRefBook == Book!BookSpec

\* Whatever interrupts pushes and jobs, no pack is left behind while somebody is there
\* to look: one that was retired long enough ago, and one that no manifest lists, that
\* nobody still works on and that is old enough, are deleted by a server that has the
\* repository open, unless it loses its copy first (a crash, a copy thrown away); the
\* server that opens it next owes the same.
LeftBehind(k) ==
    /\ k \in stored /\ k \notin ToSet(man.packs)
    /\ IF Lists(man, k) THEN \E x \in man.retired : x.id = k /\ x.at <= clock - Grace
       ELSE /\ made[k].at <= clock - OrphanAge
            /\ \A p \in Pushes : push[p].st = "uploaded" => push[p].pack # k
Cleaned ==
    \A s \in Servers, k \in 1..(Len(Seed) + 3) :
        LeftBehind(k) /\ mem[s].up ~> k \notin stored \/ ~mem[s].up

\* README.md, Consistency: "Two servers sharing a bucket cannot lose each other's
\* pushes": a push moves refs by one manifest write at most.
MovesOnce ==
    \A x, y \in applied : x.push = y.push /\ x.moved \cap y.moved # {} => x = y

\* README.md, Repack: replaced packs are deleted "after any fetch planned against
\* them has finished".
FetchReads == \A s \in Servers : fetch[s].packs \subseteq stored
=============================================================================
