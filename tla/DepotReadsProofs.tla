---------------------------- MODULE DepotReadsProofs ----------------------------
(***************************************************************************)
(* Proofs about what readers of a depot's repositories are promised, and   *)
(* about the types of all that is kept.                                    *)
(*                                                                         *)
(* A protected ref only fast-forwards: the walk that looked for the old    *)
(* tip among what the new one reaches found it within as many hops as      *)
(* there are objects, and what a set of tips reaches is closed under the   *)
(* edges, which the hops prove by the first object they would miss.        *)
(*                                                                         *)
(* A fetch can read the packs it was planned against: in every copy that   *)
(* was compared with the manifest, a listed pack is in the bucket and has  *)
(* the whole grace period before it, and no call that deletes packs has    *)
(* condemned one that a copy of that age can name.                         *)
(*                                                                         *)
(* Every variable keeps its type.  A step changes the tables of one server *)
(* at most, and each step is shown to be such a step for its server; the   *)
(* time up to which a manifest may date what it dropped grows with the     *)
(* clock, and what had its type has it later.                              *)
(***************************************************************************)
EXTENDS DepotProofs, FiniteSetTheorems

-------------------------------------------------------------------------------
(***************************************************************************)
(* A protected ref only fast-forwards.                                     *)
(***************************************************************************)

\* What is reached in one hop after the other: hop n of N.
Hops(tips, edges, N, hop) ==
    hop = [n \in 0..N |-> IF n = 0 THEN tips ELSE hop[n - 1] \cup UNION {edges[o] : o \in hop[n - 1]}]

LEMMA SpreadUnfolds ==
    ASSUME NEW tips, NEW edges
    PROVE  Spread(tips, edges) = (CHOOSE hop : Hops(tips, edges, Cardinality(Objs), hop))[Cardinality(Objs)]
BY DEF Spread, Hops

LEMMA UpToAll ==
    ASSUME NEW T, 0 \in T, \A n \in Nat : n \in T => n + 1 \in T
    PROVE  Nat \subseteq T
<1> SUFFICES ASSUME Nat \ T # {} PROVE FALSE
  OBVIOUS
<1>1. PICK n \in Nat \ T : \A m \in Nat \ T : ~(m < n)
  BY LeastOf
<1>2. n # 0 /\ n - 1 \in Nat /\ (n - 1) + 1 = n /\ n - 1 < n
  BY <1>1
<1> QED
  BY <1>1, <1>2

LEMMA HopsExist ==
    ASSUME NEW tips, NEW edges, NEW N \in Nat PROVE \E hop : Hops(tips, edges, N, hop)
<1> DEFINE T == {n \in Nat : \E hop : Hops(tips, edges, n, hop)}
<1>1. 0 \in T
  <2>1. Hops(tips, edges, 0, [n \in 0..0 |-> tips])
    BY DEF Hops
  <2> QED
    BY <2>1
<1>2. ASSUME NEW n \in Nat, n \in T PROVE n + 1 \in T
  <2>1. PICK hop : Hops(tips, edges, n, hop)
    BY <1>2
  <2> DEFINE more == hop[n] \cup UNION {edges[o] : o \in hop[n]}
             next == [i \in 0..(n + 1) |-> IF i = n + 1 THEN more ELSE hop[i]]
  <2>2. ASSUME NEW i \in 0..(n + 1)
        PROVE  next[i] = IF i = 0 THEN tips ELSE next[i - 1] \cup UNION {edges[o] : o \in next[i - 1]}
    <3>1. CASE i = n + 1
      <4>1. i # 0 /\ i - 1 = n /\ next[n] = hop[n]
        BY <3>1
      <4> QED
        BY <3>1, <4>1
    <3>2. CASE i # n + 1
      <4>1. i \in 0..n /\ (i # 0 => next[i - 1] = hop[i - 1])
        BY <3>2
      <4> QED
        BY <2>1, <3>2, <4>1 DEF Hops
    <3> QED
      BY <3>1, <3>2
  <2>3. Hops(tips, edges, n + 1, next)
    BY <2>2 DEF Hops
  <2> QED
    BY <2>3
<1> HIDE DEF T
<1>3. N \in T
  BY <1>1, <1>2, UpToAll
<1> QED
  BY <1>3 DEF T

\* A spread is the last of its hops.
Reaches(tips, edges, N, hop) ==
    /\ hop[0] = tips
    /\ \A n \in 0..(N - 1) : hop[n + 1] = hop[n] \cup UNION {edges[o] : o \in hop[n]}

LEMMA SpreadIs ==
    ASSUME NEW tips, NEW edges, NEW N \in Nat, N = Cardinality(Objs)
    PROVE  \E hop : Reaches(tips, edges, N, hop) /\ Spread(tips, edges) = hop[N]
<1>1. PICK hop : hop = CHOOSE h : Hops(tips, edges, N, h)
  OBVIOUS
<1>2. Hops(tips, edges, N, hop)
  BY <1>1, HopsExist
<1>3. hop[0] = tips
  BY <1>2 DEF Hops
<1>4. ASSUME NEW n \in 0..(N - 1) PROVE hop[n + 1] = hop[n] \cup UNION {edges[o] : o \in hop[n]}
  <2>1. n + 1 \in 0..N /\ n + 1 # 0 /\ (n + 1) - 1 = n
    OBVIOUS
  <2> QED
    BY <1>2, <2>1 DEF Hops
<1>5. Spread(tips, edges) = hop[N]
  BY <1>1, SpreadUnfolds
<1> QED
  BY <1>3, <1>4, <1>5 DEF Reaches

LEMMA ObjsCount == Cardinality(Objs) \in Nat
BY ObjsAssumption, FS_CardinalityType

\* It has what it starts from, and along more edges it gets as far.
LEMMA SpreadGrows ==
    ASSUME NEW tips \in SUBSET Objs, NEW few \in [Objs -> SUBSET Objs], NEW many \in [Objs -> SUBSET Objs],
           \A o \in Objs : few[o] \subseteq many[o]
    PROVE  tips \subseteq Spread(tips, many) /\ Spread(tips, few) \subseteq Spread(tips, many)
<1>0. PICK N \in Nat : N = Cardinality(Objs)
  BY ObjsCount
<1>1. PICK f : Reaches(tips, few, N, f) /\ Spread(tips, few) = f[N]
  BY <1>0, SpreadIs
<1>2. PICK g : Reaches(tips, many, N, g) /\ Spread(tips, many) = g[N]
  BY <1>0, SpreadIs
<1> DEFINE T == {n \in Nat : n <= N => f[n] \subseteq g[n] /\ tips \subseteq g[n] /\ g[n] \subseteq Objs}
<1>3. 0 \in T
  BY <1>1, <1>2 DEF Reaches
<1>4. ASSUME NEW n \in Nat, n \in T PROVE n + 1 \in T
  <2> SUFFICES ASSUME n + 1 <= N
               PROVE  f[n + 1] \subseteq g[n + 1] /\ tips \subseteq g[n + 1] /\ g[n + 1] \subseteq Objs
    OBVIOUS
  <2>1. n \in 0..(N - 1) /\ n <= N
    OBVIOUS
  <2>2. f[n] \subseteq g[n] /\ tips \subseteq g[n] /\ g[n] \subseteq Objs
    BY <1>4, <2>1
  <2>3. f[n + 1] = f[n] \cup UNION {few[o] : o \in f[n]} /\ g[n + 1] = g[n] \cup UNION {many[o] : o \in g[n]}
    BY <1>1, <1>2, <2>1 DEF Reaches
  <2> QED
    BY <2>2, <2>3
<1> HIDE DEF T
<1>5. N \in T
  BY <1>3, <1>4, UpToAll
<1> QED
  BY <1>1, <1>2, <1>5 DEF T

\* What an object has behind it, through commits of one index or another, is history.
LEMMA AncestorsAreHistory ==
    ASSUME NEW objs, NEW content, NEW old, NEW new \in Objs, IsAncestor(objs, content, old, new)
    PROVE  old \in History({new})
<1> DEFINE has == Held(content)
           parents == [o \in Objs |-> Commits \cap IF o \in objs THEN Links[o]
                                                ELSE IF o \in has THEN Kids(content, o) ELSE {}]
<1>1. Links \in [Objs -> SUBSET Objs]
  BY LinksAssumption
<1>2. parents \in [Objs -> SUBSET Objs] /\ \A o \in Objs : parents[o] \subseteq Links[o]
  BY <1>1 DEF Kids
<1>3. old \in Spread({new}, parents)
  BY DEF IsAncestor
<1> HIDE DEF parents
<1>4. {new} \in SUBSET Objs
  OBVIOUS
<1> QED
  BY <1>1, <1>2, <1>3, <1>4, SpreadGrows DEF History

LEMMA OwnHistory == ASSUME NEW o \in Objs PROVE o \in History({o})
<1>1. Links \in [Objs -> SUBSET Objs] /\ {o} \in SUBSET Objs
  BY LinksAssumption
<1> QED
  BY <1>1, SpreadGrows DEF History

\* A manifest that takes the place of another.
Forward(old, new) ==
    \A r \in Protected : old.refs[r] # Nil => new.refs[r] # Nil /\ old.refs[r] \in History({new.refs[r]})

LEMMA SameForward == ASSUME NEW old, NEW new, IsDoc(old), new.refs = old.refs PROVE Forward(old, new)
<1>1. \A r \in Protected : old.refs[r] # Nil => old.refs[r] \in Objs
  BY ProtectedAssumption DEF IsDoc, Values
<1> QED
  BY <1>1, OwnHistory DEF Forward

LEMMA StepsForward ==
    ASSUME Inv, NEW c, NEW old, NEW new, IsDoc(old), Steps(c, old, new) PROVE Forward(old, new)
<1>1. Protected \subseteq Refs
  BY ProtectedAssumption
<1>2. \A r \in Protected : old.refs[r] # Nil => old.refs[r] \in Objs
  BY <1>1 DEF IsDoc, Values
<1>3. CASE c.kind = "push"
  <2>1. PICK p \in Pushes : p = c.push /\ Moves(p, c.ok, old, new)
    BY <1>3 DEF Steps
  <2>2. PICK ok, cmds, ix : ok = c.ok /\ cmds = push[p].cmds /\ ix = Ix(old)
    OBVIOUS
  <2>3. /\ new.refs = [r \in Refs |-> IF r \in ok THEN cmds[r].new ELSE old.refs[r]]
        /\ ok = Judge(cmds, old.refs, push[p].objs, ix)
    BY <2>1, <2>2 DEF Moves, Verdict
  <2>4. ASSUME NEW r \in Protected, old.refs[r] # Nil
        PROVE  new.refs[r] # Nil /\ old.refs[r] \in History({new.refs[r]})
    <3>1. old.refs[r] \in Objs /\ r \in Refs
      BY <1>1, <1>2, <2>4
    <3>2. CASE r \notin ok
      BY <2>3, <2>4, <3>1, <3>2, OwnHistory
    <3>3. CASE r \in ok
      <4>1. new.refs[r] = cmds[r].new /\ Check(r, cmds[r], old.refs[r], push[p].objs, ix)
        BY <2>3, <3>1, <3>3 DEF Judge
      <4>2. CASE old.refs[r] # cmds[r].old
        BY <2>4, <3>1, <4>1, <4>2, OwnHistory DEF Check
      <4>3. CASE old.refs[r] = cmds[r].old
        <5>1. cmds[r].new # Nil /\ cmds[r].new \in Commits /\ IsAncestor(push[p].objs, ix, cmds[r].old, cmds[r].new)
          BY <2>4, <4>1, <4>3 DEF Check
        <5> QED
          BY <4>1, <4>3, <5>1, AncestorsAreHistory, CommitsAssumption
      <4> QED
        BY <4>2, <4>3
    <3> QED
      BY <3>2, <3>3
  <2> QED
    BY <2>4 DEF Forward
<1>4. CASE c.kind = "restore"
  <2>1. /\ c.ref \in Refs /\ c.id \in Objs /\ old.refs[c.ref] \in {Nil, c.id}
        /\ new.refs = [old.refs EXCEPT ![c.ref] = c.id] /\ old.refs \in [Refs -> Values]
    BY <1>4 DEF Steps, IsDoc
  <2>2. ASSUME NEW r \in Protected, old.refs[r] # Nil PROVE new.refs[r] = old.refs[r]
    BY <1>1, <2>1, <2>2
  <2> QED
    BY <1>2, <2>2, OwnHistory DEF Forward
<1>5. CASE c.kind \notin {"push", "restore"}
  BY <1>5, SameForward DEF Steps
<1> QED
  BY <1>3, <1>4, <1>5

\* The manifest is replaced by a step on the one it was built on, and by nothing else.
ManStays == man' = man
ManSteps == \E c : Steps(c, man, man')

LEMMA SavingSteps == ASSUME Inv, NEW s \in Servers, Saving(s) PROVE ManStays \/ ManSteps
<1>1. PICK c, m : SameCall(s, c) /\ Writes(c, mem[s].m, m) /\ Save(s, c, m)
  BY DEF Saving
<1>2. PICK doc :
             /\ Saves(s, c, doc)
             /\ \/ Accepts(man, mem[s].etag) /\ Replaced(c, doc)
                   /\ (Succeeded(s, c, doc) \/ ToSettle(s, c, doc))
                \/ ~Accepts(man, mem[s].etag) /\ Kept /\ late' = late /\ ToSettle(s, c, doc)
                \/ /\ Kept /\ ToSettle(s, c, doc)
                   /\ late' = late \/ (LatePuts /\ late' = late \cup {Put(s, c, doc)})
  BY <1>1, SaveIs
<1>3. CASE Kept
  BY <1>3 DEF Kept, ManStays
<1>4. CASE Accepts(man, mem[s].etag) /\ Replaced(c, doc) /\ (Succeeded(s, c, doc) \/ ToSettle(s, c, doc))
  <2>1. SaveMoves(s, c, doc)
    BY <1>2, <1>4, SucceededMoves, ToSettleMoves DEF Replaced
  <2>2. Steps(c, man, doc)
    BY <1>4, <2>1, SaveFirst DEF Accepts
  <2> QED
    BY <1>4, <2>2 DEF Replaced, ManSteps
<1> QED
  BY <1>2, <1>3, <1>4

LEMMA ArriveSteps == ASSUME Inv, NEW w \in late, Arrive(w) PROVE ManStays \/ ManSteps
<1>1. CASE Accepts(man, w.etag) /\ man' = w.doc
  <2>1. Steps(w.call, man, w.doc)
    BY <1>1 DEF Accepts, Inv, Based
  <2> QED
    BY <1>1, <2>1 DEF ManSteps
<1> QED
  BY <1>1 DEF Arrive, ManStays

LEMMA NextSteps == ASSUME Inv, [Next]_vars PROVE ManStays \/ ManSteps
<1>1. CASE Common
  <2>1. ASSUME NEW s \in Servers, Load(s) \/ Look(s) \/ Reset(s) \/ Crash(s) \/ Cleanup(s) \/ Settle(s) PROVE ManStays
    BY <2>1 DEF Load, Look, Reset, Crash, Cleanup, Settle, ManStays
  <2>2. ASSUME Tick PROVE ManStays
    BY <2>2 DEF Tick, ManStays
  <2> QED
    BY <1>1, <2>1, <2>2, ArriveSteps DEF Common
<1>2. CASE Serve
  <2>1. ASSUME NEW p \in Pushes, PushUpload(p) \/ PushCommit(p) \/ \E s \in Servers : PushStart(p, s) PROVE ManStays
    BY <2>1 DEF PushUpload, PushCommit, PushStart, ManStays
  <2>2. ASSUME NEW s \in Servers, FetchStart(s) \/ FetchEnd(s) \/ \E r \in Refs, o \in Objs : Restore(s, r, o)
        PROVE  ManStays
    BY <2>2 DEF FetchStart, FetchEnd, Restore, ManStays
  <2>3. ASSUME NEW s \in Servers, TryPush(s) PROVE ManStays \/ ManSteps
    <3>1. man' = man \/ Saving(s)
      BY <2>3, TryPushIs
    <3> QED
      BY <3>1, SavingSteps DEF ManStays
  <2>4. ASSUME NEW s \in Servers, TryRestore(s) PROVE ManStays \/ ManSteps
    <3>1. man' = man \/ Saving(s)
      BY <2>4, TryRestoreIs
    <3> QED
      BY <3>1, SavingSteps DEF ManStays
  <2> QED
    BY <1>2, <2>1, <2>2, <2>3, <2>4 DEF Serve
<1>3. CASE Maintain
  <2>1. ASSUME NEW s \in Servers, NEW kind, Request(s, kind) PROVE ManStays
    BY <2>1 DEF Request, ManStays
  <2>2. ASSUME NEW s \in Servers, CollectStart(s) \/ RepackStart(s) \/ CollectUpload(s) \/ RepackUpload(s) \/ Round(s)
                 \/ Sweep(s) \/ Orphans(s) \/ Consider(s) \/ Merge(s)
        PROVE  ManStays
    BY <2>2 DEF CollectStart, RepackStart, CollectUpload, RepackUpload, JobUpload, Round, Sweep, Orphans, Consider,
       Merge, ManStays
  <2>3. ASSUME NEW s \in Servers, TryCollect(s) \/ TryRepack(s) \/ TrySweep(s) \/ TryPrune(s) PROVE ManStays \/ ManSteps
    <3>1. man' = man \/ Saving(s)
      BY <2>3, TryCollectIs, TryRepackIs, TrySweepIs, TryPruneIs DEF JobLanded, JobGivesUp
    <3> QED
      BY <3>1, SavingSteps DEF ManStays
  <2> QED
    BY <1>3, <2>1, <2>2, <2>3 DEF Maintain
<1>4. CASE UNCHANGED vars
  BY <1>4 DEF vars, ManStays
<1> QED
  BY <1>1, <1>2, <1>3, <1>4 DEF Next

\* A protected ref only fast-forwards and is never deleted, whatever pushes race for it
\* and however late a write lands: each command is judged against the manifest that its
\* write replaces (judge and check of git/receive.rs, commit of push.rs); an admin's
\* restore moves a ref that is not there only (restore of api.rs).
THEOREM ProtectedKept == Spec => ProtectedForward
<1>1. ASSUME Inv, [Next]_vars PROVE Forward(man, man')
  <2>1. IsDoc(man)
    BY <1>1, ManTyped
  <2>2. CASE ManStays
    BY <2>1, <2>2, SameForward DEF ManStays
  <2>3. CASE ManSteps
    <3>1. PICK c : Steps(c, man, man')
      BY <2>3 DEF ManSteps
    <3> QED
      BY <1>1, <2>1, <3>1, StepsForward
  <2> QED
    BY <1>1, <2>2, <2>3, NextSteps
<1>2. Inv /\ [Next]_vars =>
        [\A r \in Protected : man.refs[r] # Nil =>
          man'.refs[r] # Nil /\ man.refs[r] \in History({man'.refs[r]})]_vars
  BY <1>1 DEF Forward
<1> QED
  BY <1>2, Invariant, PTL DEF Spec, ProtectedForward

-------------------------------------------------------------------------------
(***************************************************************************)
(* A fetch can read the packs it was planned against.                      *)
(***************************************************************************)

\* The inductive invariant, server by server.

\* A copy that was compared with the manifest in this tick of the clock.
Fresh(s) == mem[s].up /\ mem[s].fresh /\ ~mem[s].stale

\* A pack that is in the bucket, listed, and was not retired before t.
Standing(k, t) == k \in stored /\ Lists(man, k) /\ \A x \in man.retired : x.id = k => x.at >= t

\* A pack that nobody may read any more: unlisted, or retired long ago.
Doom(k) == Lists(man, k) => \E x \in man.retired : x.id = k /\ x.at <= clock - Grace

\* The packs that a call deletes, or deleted and is about to take off the list.
Condemns(c, k) == \/ c.kind \in {"orphans", "sweep"} /\ k \in c.gone
                  \/ c.kind = "push" /\ c.st = "cleanup" /\ ~c.tried /\ k = c.pack
CondemnAt(s) == \A k : Condemns(call[s], k) => Doom(k)

\* A manifest under settlement keeps the packs of the copy, but for those of a job; and
\* a scan for orphans writes none.
SettleAt(s) ==
    /\ call[s].st = "settle" /\ ~OfJob(s) => ToSet(mem[s].m.packs) \subseteq ToSet(call[s].doc.packs)
    /\ call[s].kind = "orphans" => call[s].st = "try"

\* What a fresh copy lists was not retired before this tick.
FreshAt(s) == Fresh(s) => \A k \in ToSet(mem[s].m.packs) : Standing(k, clock)

\* What a fetch was planned against stands for as long as a retired pack is kept.
FetchAt(s) ==
    /\ mem[s].gen \in Nat /\ mem[s].load \in Nat
    /\ fetch[s].gen \in Nat /\ fetch[s].load \in Nat /\ fetch[s].at \in Nat /\ fetch[s].at <= clock
    /\ clock < fetch[s].at + Grace => \A k \in fetch[s].packs : Standing(k, fetch[s].at)

\* What a fetch reads is in the index it was planned on, or held for it, until the
\* second rebuild.
ReadAt(s) ==
    fetch[s].packs # {} =>
       /\ fetch[s].load <= mem[s].load
       /\ mem[s].load = fetch[s].load =>
             /\ mem[s].up /\ fetch[s].gen <= mem[s].gen
             /\ mem[s].gen <= fetch[s].gen + 1 => fetch[s].packs \subseteq ToSet(mem[s].m.packs) \cup held[s]

ReadInv == /\ DOMAIN fetch = Servers /\ DOMAIN held = Servers
           /\ \A s \in Servers : CondemnAt(s) /\ SettleAt(s) /\ FreshAt(s) /\ FetchAt(s) /\ ReadAt(s)

-------------------------------------------------------------------------------
\* What a step of one server may do.

ReadStep(s) ==
    /\ clock' = clock
    /\ man' = man \/ \E c : SameCall(s, c) /\ Relists(c, man, man')
    /\ \A k \in stored : k \in stored' \/ Doom(k)
    /\ DOMAIN fetch' = Servers /\ DOMAIN held' = Servers
    /\ \A r \in Servers \ {s} : call'[r] = call[r] /\ mem'[r] = mem[r] /\ fetch'[r] = fetch[r] /\ held'[r] = held[r]

LEMMA Times == ASSUME Inv PROVE clock \in Nat /\ Grace \in Nat /\ Grace > 0 /\ IsDoc(man) /\ Neat(man)
  BY ManTyped, ConstantsAssumption, GraceAssumption DEF Inv, Shapes, IsDoc

\* What stands is not doomed while it is kept.
LEMMA StandsClear ==
    ASSUME Inv, NEW k, NEW t \in Nat, Standing(k, t), clock < t + Grace
    PROVE  ~Doom(k)
<1>1. SUFFICES ASSUME NEW x \in man.retired, x.id = k, x.at <= clock - Grace PROVE FALSE
  BY DEF Standing, Doom
<1>2. PICK a \in Nat : a = x.at
  BY Times DEF Neat
<1>3. a >= t
  BY <1>1, <1>2 DEF Standing
<1> QED
  BY <1>1, <1>2, <1>3, Times

LEMMA StandsOn ==
    ASSUME Inv, ReadInv, NEW s \in Servers, ReadStep(s),
           NEW k, NEW t \in Nat, Standing(k, t), t <= clock, clock < t + Grace
    PROVE  Standing(k, t)'
<1>1. ~Doom(k)
  BY StandsClear
<1>2. k \in stored'
  BY <1>1 DEF ReadStep, Standing
<1>3. Lists(man, k)' /\ \A x \in man'.retired : x.id = k => x.at >= t
  <2>1. CASE man' = man
    BY <2>1 DEF Standing, Lists
  <2>2. ASSUME NEW c, SameCall(s, c), Relists(c, man, man') PROVE Lists(man', k) /\ \A x \in man'.retired : x.id = k => x.at >= t
    <3>1. c.kind = "sweep" => k \notin c.gone
      <4>1. SUFFICES ASSUME c.kind = "sweep", k \in c.gone PROVE FALSE
        OBVIOUS
      <4>2. Condemns(call[s], k)
        BY <2>2, <4>1 DEF SameCall, Condemns
      <4> QED
        BY <1>1, <4>2 DEF ReadInv, CondemnAt
    <3>2. Lists(man', k)
      <4>1. CASE k \in ToSet(man.packs)
        BY <2>2, <4>1 DEF Relists
      <4>2. ASSUME NEW x \in man.retired, x.id = k PROVE Lists(man', k)
        BY <2>2, <3>1, <4>2 DEF Relists, Lists
      <4> QED
        BY <4>1, <4>2 DEF Standing, Lists
    <3>3. ASSUME NEW x \in man'.retired, x.id = k PROVE x.at >= t
      <4>1. CASE x \in man.retired
        BY <3>3, <4>1 DEF Standing
      <4>2. CASE x.at = clock
        BY <4>2, Times
      <4> QED
        BY <2>2, <4>1, <4>2 DEF Relists
    <3> QED
      BY <3>2, <3>3
  <2> QED
    BY <2>1, <2>2 DEF ReadStep
<1> QED
  BY <1>2, <1>3 DEF Standing

\* What is doomed and not under way stays so.
LEMMA DoomStands ==
    ASSUME Inv, Inv', NEW s \in Servers, ReadStep(s), NEW k, Doom(k), ~Borne(k)
    PROVE  Doom(k)'
<1>1. CASE man' = man
  BY <1>1 DEF ReadStep, Doom, Lists
<1>2. ASSUME NEW c, SameCall(s, c), Relists(c, man, man'), Lists(man', k)
      PROVE  \E x \in man'.retired : x.id = k /\ x.at <= clock - Grace
  <2>1. Lists(man, k)
    <3>1. CASE k \in ToSet(man'.packs)
      <4>1. k \in ToSet(man.packs) \/ (c.kind \in {"push", "collect", "repack"} /\ k = c.pack)
        BY <1>2, <3>1 DEF Relists
      <4>2. ASSUME c.kind \in {"push", "collect", "repack"}, k = c.pack PROVE FALSE
        <5>1. man'.packs \in Seq(1..Len(made'))
          BY DEF Inv, Written, Docs, IsDoc
        <5>2. k # 0
          BY <3>1, <5>1 DEF ToSet
        <5> QED
          BY <1>2, <4>2, <5>2, TryBorne DEF SameCall
      <4> QED
        BY <4>1, <4>2 DEF Lists
    <3>2. ASSUME NEW x \in man'.retired, x.id = k PROVE Lists(man, k)
      BY <1>2, <3>2 DEF Relists, Lists
    <3> QED
      BY <1>2, <3>1, <3>2 DEF Lists
  <2>2. PICK x \in man.retired : x.id = k /\ x.at <= clock - Grace
    BY <2>1 DEF Doom
  <2>3. k \notin ToSet(man.packs)
    BY <2>2, Times DEF Neat
  <2>4. CASE x \in man'.retired
    BY <2>2, <2>4
  <2>5. CASE c.kind = "sweep" /\ \A y \in man'.retired : y.id # x.id
    <3>1. k \in ToSet(man'.packs)
      BY <1>2, <2>2, <2>5 DEF Lists
    <3> QED
      BY <1>2, <2>3, <2>5, <3>1 DEF Relists
  <2> QED
    BY <1>2, <2>4, <2>5 DEF Relists
<1> QED
  BY <1>1, <1>2 DEF ReadStep, Doom

\* What a call condemns is under way no more.
LEMMA CondemnedIdle ==
    ASSUME Inv, PackInv, NEW s \in Servers, NEW k, Condemns(call[s], k) PROVE ~Borne(k)
<1>1. CASE call[s].kind \in {"orphans", "sweep"} /\ k \in call[s].gone
  BY <1>1 DEF PackInv, Orphaning
<1>2. CASE call[s].st = "cleanup" /\ k = call[s].pack
  BY <1>2, BorneMade DEF PackInv, Cleaning
<1> QED
  BY <1>1, <1>2 DEF Condemns

\* The servers that take no step.
LEMMA ReadsElsewhere ==
    ASSUME Inv, Inv', PackInv, ReadInv, NEW s \in Servers, ReadStep(s), NEW r \in Servers, r # s
    PROVE  CondemnAt(r)' /\ SettleAt(r)' /\ FreshAt(r)' /\ FetchAt(r)' /\ ReadAt(r)'
<1>1. /\ call'[r] = call[r] /\ mem'[r] = mem[r] /\ fetch'[r] = fetch[r] /\ held'[r] = held[r] /\ clock' = clock
      /\ CondemnAt(r) /\ SettleAt(r) /\ FreshAt(r) /\ FetchAt(r) /\ ReadAt(r)
  BY DEF ReadStep, ReadInv
<1>2. CondemnAt(r)'
  <2>1. ASSUME NEW k, Condemns(call[r], k) PROVE Doom(k)'
    BY <1>1, <2>1, CondemnedIdle, DoomStands DEF CondemnAt
  <2> QED
    BY <1>1, <2>1 DEF CondemnAt
<1>3. FreshAt(r)'
  <2>1. ASSUME Fresh(r), NEW k \in ToSet(mem[r].m.packs) PROVE Standing(k, clock)'
    <3>1. Standing(k, clock) /\ clock \in Nat /\ clock <= clock /\ clock < clock + Grace
      BY <1>1, <2>1, Times DEF FreshAt
    <3>2. PICK t \in Nat : t = clock
      BY <3>1
    <3>3. Standing(k, t)'
      BY <3>1, <3>2, StandsOn
    <3> QED
      BY <1>1, <3>2, <3>3 DEF Standing
  <2> QED
    BY <1>1, <2>1 DEF FreshAt, Fresh
<1>4. FetchAt(r)'
  <2>1. PICK t \in Nat : t = fetch[r].at /\ t <= clock
    BY <1>1 DEF FetchAt
  <2>2. ASSUME clock < t + Grace, NEW k \in fetch[r].packs PROVE Standing(k, t)'
    BY <1>1, <2>1, <2>2, StandsOn DEF FetchAt
  <2> QED
    BY <1>1, <2>1, <2>2 DEF FetchAt, Standing
<1> QED
  BY <1>1, <1>2, <1>3, <1>4 DEF SettleAt, OfJob, ReadAt

\* The copy after a step lists what it did, or the index was rebuilt and holds what a
\* fetch reads; and it is fresh only as the manifest or as it was.
Copies(s) ==
    /\ fetch'[s] = fetch[s] /\ held[s] \subseteq held'[s]
    /\ mem'[s].load = mem[s].load /\ (mem[s].up => mem'[s].up)
    /\ \/ mem'[s].gen = mem[s].gen /\ ToSet(mem[s].m.packs) \subseteq ToSet(mem'[s].m.packs)
       \/ /\ mem'[s].gen = mem[s].gen + 1
          /\ fetch[s].gen = mem[s].gen /\ fetch[s].load = mem[s].load =>
                ToSet(mem[s].m.packs) \cap fetch[s].packs \subseteq ToSet(mem'[s].m.packs) \cup held'[s]
    /\ Fresh(s)' => mem'[s].m = man' \/ (Fresh(s) /\ mem'[s].m = mem[s].m)

\* What the manifest lists live stands, from this tick on.
LEMMA LiveStands ==
    ASSUME Inv, PackInv, NEW k \in ToSet(man.packs) PROVE Standing(k, clock)
<1>1. \A x \in man.retired : x.id # k
  BY Times DEF Neat
<1> QED
  BY <1>1 DEF PackInv, ListedStored, Standing, Lists

LEMMA FreshCopy ==
    ASSUME Inv, Inv', PackInv', ReadInv, NEW s \in Servers, ReadStep(s),
           Fresh(s)' => mem'[s].m = man' \/ (Fresh(s) /\ mem'[s].m = mem[s].m)
    PROVE  FreshAt(s)'
<1>1. ASSUME Fresh(s)', NEW k \in ToSet(mem'[s].m.packs) PROVE Standing(k, clock)'
  <2>1. CASE mem'[s].m = man'
    <3>1. \A x \in man'.retired : x.id # k
      <4>1. Neat(man')
        BY DEF Inv, Written, Docs, IsDoc
      <4> QED
        BY <1>1, <2>1, <4>1 DEF Neat
    <3> QED
      BY <1>1, <2>1, <3>1 DEF PackInv, ListedStored, Standing, Lists
  <2>2. CASE Fresh(s) /\ mem'[s].m = mem[s].m
    <3>1. Standing(k, clock) /\ clock \in Nat /\ clock <= clock /\ clock < clock + Grace
      BY <1>1, <2>2, Times DEF ReadInv, FreshAt
    <3>2. PICK t \in Nat : t = clock
      BY <3>1
    <3>3. Standing(k, t)'
      BY <3>1, <3>2, StandsOn
    <3> QED
      BY <3>2, <3>3 DEF Standing, ReadStep
  <2> QED
    BY <1>1, <2>1, <2>2
<1> QED
  BY <1>1 DEF FreshAt

LEMMA CopyStep ==
    ASSUME Inv, Inv', PackInv', ReadInv, NEW s \in Servers, ReadStep(s), Copies(s)
    PROVE  FreshAt(s)' /\ FetchAt(s)' /\ ReadAt(s)'
<1>1. FreshAt(s)'
  BY FreshCopy DEF Copies
<1>2. FetchAt(s) /\ ReadAt(s) /\ clock' = clock /\ fetch'[s] = fetch[s]
  BY DEF ReadInv, ReadStep, Copies
<1>3. PICK g, h \in Nat : g = mem[s].gen /\ h = fetch[s].gen
  BY <1>2 DEF FetchAt
<1>4. mem'[s].gen \in {g, g + 1} /\ mem'[s].load = mem[s].load
  BY <1>3 DEF Copies
<1>5. FetchAt(s)'
  <2>1. PICK t \in Nat : t = fetch[s].at /\ t <= clock
    BY <1>2 DEF FetchAt
  <2>2. ASSUME clock < t + Grace, NEW k \in fetch[s].packs PROVE Standing(k, t)'
    BY <1>2, <2>1, <2>2, StandsOn DEF FetchAt
  <2>3. mem'[s].gen \in Nat
    BY <1>3, <1>4
  <2> QED
    BY <1>2, <1>4, <2>1, <2>2, <2>3 DEF FetchAt, Standing
<1>6. ReadAt(s)'
  <2>1. SUFFICES ASSUME fetch[s].packs # {}
                 PROVE  /\ fetch[s].load <= mem[s].load
                        /\ mem[s].load = fetch[s].load =>
                              /\ mem'[s].up /\ h <= mem'[s].gen
                              /\ mem'[s].gen <= h + 1 => fetch[s].packs \subseteq ToSet(mem'[s].m.packs) \cup held'[s]
    BY <1>2, <1>3, <1>4 DEF ReadAt
  <2>2. fetch[s].load <= mem[s].load
    BY <1>2, <2>1 DEF ReadAt
  <2>3. ASSUME mem[s].load = fetch[s].load
        PROVE  /\ mem'[s].up /\ h <= mem'[s].gen
               /\ mem'[s].gen <= h + 1 => fetch[s].packs \subseteq ToSet(mem'[s].m.packs) \cup held'[s]
    <3>1. mem[s].up /\ h <= g /\ (g <= h + 1 => fetch[s].packs \subseteq ToSet(mem[s].m.packs) \cup held[s])
      BY <1>2, <1>3, <2>1, <2>3 DEF ReadAt
    <3>2. mem'[s].up /\ h <= mem'[s].gen
      BY <1>3, <1>4, <3>1 DEF Copies
    <3>3. CASE mem'[s].gen = mem[s].gen /\ ToSet(mem[s].m.packs) \subseteq ToSet(mem'[s].m.packs)
      BY <1>3, <3>1, <3>2, <3>3 DEF Copies
    <3>4. CASE mem'[s].gen = mem[s].gen + 1 /\ g = h
      BY <1>3, <2>3, <3>1, <3>2, <3>4 DEF Copies
    <3>5. CASE mem'[s].gen = mem[s].gen + 1 /\ g # h
      BY <1>3, <3>1, <3>2, <3>5
    <3> QED
      BY <1>3, <3>3, <3>4, <3>5 DEF Copies
  <2> QED
    BY <2>2, <2>3
<1> QED
  BY <1>1, <1>5, <1>6

LEMMA StepReads ==
    ASSUME Inv, Inv', PackInv, PackInv', ReadInv, NEW s \in Servers, ReadStep(s), Copies(s),
           CondemnAt(s)', SettleAt(s)'
    PROVE  ReadInv'
<1>1. FreshAt(s)' /\ FetchAt(s)' /\ ReadAt(s)'
  BY CopyStep
<1>2. \A r \in Servers \ {s} : CondemnAt(r)' /\ SettleAt(r)' /\ FreshAt(r)' /\ FetchAt(r)' /\ ReadAt(r)'
  BY ReadsElsewhere
<1> QED
  BY <1>1, <1>2 DEF ReadInv, ReadStep

-------------------------------------------------------------------------------
\* The copy becomes another.

LEMMA PrefixLists ==
    ASSUME NEW S, NEW p \in Seq(S), NEW q \in Seq(S), IsPrefix(p, q) PROVE ToSet(p) \subseteq ToSet(q)
<1>1. SUFFICES ASSUME NEW i \in 1..Len(p) PROVE p[i] \in ToSet(q)
  BY ToSetOf
<1>2. p[i] = SubSeq(p, 1, Len(p))[i] /\ SubSeq(q, 1, Len(p))[i] = q[i] /\ i \in 1..Len(q)
  BY DEF IsPrefix
<1> QED
  BY <1>2, ToSetOf DEF IsPrefix

LEMMA MemTyped == ASSUME Inv, NEW s \in Servers PROVE DOMAIN mem[s] = DOMAIN NoMem /\ mem[s].m.packs \in Seq(1..Len(made))
  BY DEF Inv, Shapes, Written, Docs, IsDoc

LEMMA HeldMore ==
    ASSUME Inv, ReadInv, NEW s \in Servers, NEW ms, Become(s, ms)
    PROVE  /\ mem'[s] = ms /\ held[s] \subseteq held'[s] /\ DOMAIN held' = Servers
           /\ \A r \in Servers \ {s} : mem'[r] = mem[r] /\ held'[r] = held[r]
           /\ fetch[s].gen = mem[s].gen /\ fetch[s].load = mem[s].load =>
                  ToSet(mem[s].m.packs) \cap fetch[s].packs \subseteq ToSet(ms.m.packs) \cup held'[s]
<1>1. mem'[s] = ms /\ \A r \in Servers \ {s} : mem'[r] = mem[r]
  BY BecomeIs
<1>2. PICK h : h = HeldAfter(s, ms)
  OBVIOUS
<1>3. held'[s] = h /\ DOMAIN held' = Servers /\ \A r \in Servers \ {s} : held'[r] = held[r]
  BY <1>2 DEF Become, ReadInv
<1> QED
  BY <1>1, <1>2, <1>3 DEF HeldAfter

\* How the copy may become one of the manifest d.
Follows(s, ms) ==
    /\ ms.load = mem[s].load /\ (mem[s].up => ms.up)
    /\ ms.gen = mem[s].gen + 1 \/ (ms.gen = mem[s].gen /\ ToSet(mem[s].m.packs) \subseteq ToSet(ms.m.packs))

LEMMA BecomeCopies ==
    ASSUME Inv, ReadInv, NEW s \in Servers, NEW ms, Become(s, ms), Follows(s, ms), fetch' = fetch,
           ms.up /\ ms.fresh /\ ~ms.stale => ms.m = man' \/ (Fresh(s) /\ ms.m = mem[s].m)
    PROVE  Copies(s)
<1>1. mem'[s] = ms
  BY HeldMore
<1> QED
  BY <1>1, HeldMore DEF Copies, Follows, Fresh

LEMMA ApplyFollows ==
    ASSUME Inv, NEW s \in Servers, NEW d, d.packs \in Seq(Nat)
    PROVE  Follows(s, Apply(mem[s], d)) /\ Apply(mem[s], d).m = d
<1>1. DOMAIN mem[s] = DOMAIN NoMem /\ mem[s].m.packs \in Seq(Nat)
  BY MemTyped
<1>2. Extends(mem[s], d) => ToSet(mem[s].m.packs) \subseteq ToSet(d.packs)
  BY <1>1, PrefixLists DEF Extends
<1>3. PICK ms : ms = Apply(mem[s], d)
  OBVIOUS
<1>4. ms.load = mem[s].load /\ ms.up = mem[s].up /\ ms.m = d
      /\ ms.gen = IF Extends(mem[s], d) THEN mem[s].gen ELSE mem[s].gen + 1
  BY <1>1, <1>3 DEF Apply, NoMem
<1> QED
  BY <1>2, <1>3, <1>4 DEF Follows

LEMMA SameFollows ==
    ASSUME NEW s, NEW ms, ms.load = mem[s].load, ms.up = mem[s].up, ms.gen = mem[s].gen,
           ToSet(mem[s].m.packs) \subseteq ToSet(ms.m.packs)
    PROVE  Follows(s, ms)
  BY DEF Follows

LEMMA RevalidatedFollows ==
    ASSUME Inv, NEW s \in Servers PROVE Follows(s, Revalidated(mem[s])) /\ Revalidated(mem[s]).m = man
<1>1. DOMAIN mem[s] = DOMAIN NoMem
  BY MemTyped
<1>2. CASE man.writer = mem[s].etag
  <2>1. PICK ms : ms = [mem[s] EXCEPT !.fresh = TRUE]
    OBVIOUS
  <2>2. ms.load = mem[s].load /\ ms.up = mem[s].up /\ ms.gen = mem[s].gen /\ ms.m = mem[s].m
    BY <1>1, <2>1 DEF NoMem
  <2>3. ms.m = man
    BY <1>2, <2>2, CopyIsMan
  <2>4. Follows(s, ms)
    BY <2>2, SameFollows
  <2> QED
    BY <1>2, <2>1, <2>3, <2>4 DEF Revalidated
<1>3. CASE man.writer # mem[s].etag
  <2>1. man.packs \in Seq(Nat)
    BY ManTyped
  <2> QED
    BY <1>3, <2>1, ApplyFollows DEF Revalidated
<1> QED
  BY <1>2, <1>3

\* A copy is compared with the manifest, while nothing else goes on with it.
LEMMA RevalidatedCopies ==
    ASSUME Inv, ReadInv, NEW s \in Servers, Become(s, Revalidated(mem[s])), fetch' = fetch, man' = man
    PROVE  Copies(s)
<1>1. PICK ms : ms = Revalidated(mem[s])
  OBVIOUS
<1>2. Follows(s, ms) /\ ms.m = man /\ Become(s, ms)
  BY <1>1, RevalidatedFollows
<1> QED
  BY <1>2, BecomeCopies

LEMMA SameCopies ==
    ASSUME NEW s \in Servers, mem' = mem, held' = held, fetch' = fetch PROVE Copies(s)
  BY DEF Copies, Fresh
-------------------------------------------------------------------------------
\* Steps that leave the manifest alone.

\* A call that deletes what is doomed only.
Dooms(c) == /\ c.st # "settle" /\ (c.kind = "orphans" => c.st = "try")
            /\ \A k : Condemns(c, k) => Doom(k)

Gentle(s) ==
    /\ man' = man /\ clock' = clock /\ fetch' = fetch
    /\ \A k \in stored : k \in stored' \/ Doom(k)
    /\ \A r \in Servers \ {s} : call'[r] = call[r]
    /\ (mem' = mem /\ held' = held) \/ Become(s, Revalidated(mem[s]))
    /\ Dooms(call'[s])

LEMMA GentleReads ==
    ASSUME Inv, Inv', PackInv, PackInv', ReadInv, NEW s \in Servers, Gentle(s) PROVE ReadInv'
<1>1. /\ man' = man /\ clock' = clock /\ fetch' = fetch
      /\ \A k \in stored : k \in stored' \/ Doom(k)
      /\ \A r \in Servers \ {s} : call'[r] = call[r]
      /\ (mem' = mem /\ held' = held) \/ Become(s, Revalidated(mem[s]))
      /\ Dooms(call'[s])
  BY DEF Gentle
<1>2. /\ DOMAIN held' = Servers
      /\ \A r \in Servers \ {s} : mem'[r] = mem[r] /\ held'[r] = held[r]
  <2>1. CASE Become(s, Revalidated(mem[s]))
    <3>1. PICK ms : ms = Revalidated(mem[s])
      OBVIOUS
    <3> QED
      BY <2>1, <3>1, HeldMore
  <2> QED
    BY <1>1, <2>1 DEF ReadInv
<1>3. ReadStep(s)
  BY <1>1, <1>2 DEF ReadStep, ReadInv
<1>4. Copies(s)
  BY <1>1, SameCopies, RevalidatedCopies
<1>5. CondemnAt(s)' /\ SettleAt(s)'
  BY <1>1 DEF Dooms, Doom, CondemnAt, SettleAt
<1> QED
  BY <1>3, <1>4, <1>5, StepReads

LEMMA ModestDooms == ASSUME NEW c, c.st = "try", c.gone = {} PROVE Dooms(c)
  BY DEF Dooms, Condemns

LEMMA NextDooms == ASSUME NEW c \in NextCalls PROVE Dooms(c)
<1>1. c.st = "try" /\ c.gone = {}
  BY DEF NextCalls, Call, NoCall
<1> QED
  BY <1>1, ModestDooms

LEMMA DoneDooms ==
    ASSUME Inv, NEW s \in Servers, Done(s)
    PROVE  Dooms(call'[s]) /\ \A r \in Servers \ {s} : call'[r] = call[r]
<1>1. PICK c \in NextCalls : call'[s] = c
  BY DoneIs
<1> QED
  BY <1>1, DoneIs, NextDooms

LEMMA FreeDooms == ASSUME NEW s \in Servers, Free(s), call' = call PROVE Dooms(call'[s])
<1>1. NoCall \in NextCalls /\ call'[s] = NoCall
  BY DEF NextCalls, Free
<1> QED
  BY <1>1, NextDooms

LEMMA BeginsDooms ==
    ASSUME Inv, NEW s \in Servers, NEW c, call' = [call EXCEPT ![s] = c], Dooms(c)
    PROVE  Dooms(call'[s]) /\ \A r \in Servers \ {s} : call'[r] = call[r]
  BY DEF Inv, Shapes

\* What no manifest lists is doomed.
LEMMA UnlistedDoom == ASSUME NEW k, ~Lists(man, k) PROVE Doom(k)
  BY DEF Doom

\* A push that gives up before anything was written for it.
LEMMA UntouchedDoom == ASSUME Inv, NEW p \in Pushes, Untouched(p), push[p].pack # 0 PROVE Doom(push[p].pack)
  BY UnlistedDoom DEF Untouched, Docs

LEMMA GiveUpDooms ==
    ASSUME Inv, PackInv, ReadInv, NEW s \in Servers, call[s].st \in {"try", "settle"}, GiveUp(s)
    PROVE  Dooms(call'[s]) /\ \A r \in Servers \ {s} : call'[r] = call[r]
<1>1. CASE Done(s)
  BY <1>1, DoneDooms
<1>2. CASE call[s].pack # 0 /\ call' = [call EXCEPT ![s].st = "cleanup"]
  <2>1. PICK c : c = [call[s] EXCEPT !.st = "cleanup"]
    OBVIOUS
  <2>2. /\ c.st = "cleanup" /\ c.kind = call[s].kind /\ c.gone = call[s].gone /\ c.pack = call[s].pack
        /\ c.tried = call[s].tried
    BY <2>1 DEF Inv, Shapes, NoCall
  <2>3. ASSUME NEW k, Condemns(c, k) PROVE Doom(k)
    <3>1. CASE c.kind \in {"orphans", "sweep"} /\ k \in c.gone
      <4>1. Condemns(call[s], k)
        BY <2>2, <3>1 DEF Condemns
      <4> QED
        BY <4>1 DEF ReadInv, CondemnAt
    <3>2. CASE c.kind = "push" /\ ~c.tried /\ k = c.pack
      <4>1. Live(s) /\ ~call[s].tried
        BY <2>2, <3>2 DEF Live
      <4>2. PICK p \in Pushes : p = call[s].push /\ push[p].pack = call[s].pack
        BY <4>1 DEF Inv, Linked
      <4>3. Untouched(p)
        BY <4>1, <4>2 DEF Inv, Early
      <4> QED
        BY <1>2, <2>2, <3>2, <4>2, <4>3, UntouchedDoom
    <3> QED
      BY <2>3, <3>1, <3>2 DEF Condemns
  <2>4. c.kind # "orphans"
    BY <1>2, <2>2 DEF PackInv, JobsApart, OfJob
  <2>5. Dooms(c)
    BY <2>2, <2>3, <2>4 DEF Dooms
  <2> QED
    BY <1>2, <2>1, <2>5, BeginsDooms
<1> QED
  BY <1>1, <1>2 DEF GiveUp

\* Nothing moves but what a call is about.
Quiet == man' = man /\ clock' = clock /\ fetch' = fetch /\ stored \subseteq stored'

LEMMA QuietGentle ==
    ASSUME NEW s \in Servers, Quiet, \A r \in Servers \ {s} : call'[r] = call[r], Dooms(call'[s]),
           (mem' = mem /\ held' = held) \/ Become(s, Revalidated(mem[s]))
    PROVE  Gentle(s)
  BY DEF Quiet, Gentle

LEMMA LookReads == ASSUME Inv, ReadInv, NEW s \in Servers, Look(s) PROVE Gentle(s)
  BY FreeDooms, QuietGentle DEF Look, Quiet

LEMMA RequestReads == ASSUME NEW s \in Servers, NEW kind, Request(s, kind) PROVE Gentle(s)
  BY FreeDooms, QuietGentle DEF Request, Open, Quiet

LEMMA RestoreReads == ASSUME Inv, NEW s \in Servers, NEW r, NEW o, Restore(s, r, o) PROVE Gentle(s)
<1>1. PICK c : c = [Call("restore") EXCEPT !.ref = r, !.id = o]
  OBVIOUS
<1>2. Dooms(c)
  BY <1>1, ModestDooms DEF Call, NoCall
<1>3. call' = [call EXCEPT ![s] = c] /\ Quiet /\ mem' = mem /\ held' = held
  BY <1>1 DEF Restore, Quiet
<1> QED
  BY <1>2, <1>3, BeginsDooms, QuietGentle

LEMMA CollectStartReads == ASSUME Inv, NEW s \in Servers, CollectStart(s) PROVE Gentle(s)
<1>1. PICK c : c = [Call("prune") EXCEPT !.cut = Cutoff(FALSE)]
  OBVIOUS
<1>2. Dooms(c)
  BY <1>1, ModestDooms DEF Call, NoCall
<1>3. /\ Quiet /\ Free(s)
      /\ (mem' = mem /\ held' = held) \/ Become(s, Revalidated(mem[s]))
      /\ call' = call \/ call' = [call EXCEPT ![s] = c]
  BY <1>1 DEF CollectStart, Resting, Quiet
<1> QED
  BY <1>2, <1>3, BeginsDooms, FreeDooms, QuietGentle

LEMMA RepackStartReads == ASSUME Inv, NEW s \in Servers, RepackStart(s) PROVE Gentle(s)
<1>1. /\ Quiet /\ Free(s) /\ call' = call
      /\ (mem' = mem /\ held' = held) \/ Become(s, Revalidated(mem[s]))
  BY DEF RepackStart, Resting, Quiet
<1> QED
  BY <1>1, FreeDooms, QuietGentle

LEMMA JobUploadReads ==
    ASSUME Inv, NEW s \in Servers, NEW kind \in {"collect", "repack"}, NEW readable, NEW objs,
           JobUpload(s, kind, readable, objs)
    PROVE  Gentle(s)
<1>1. PICK c, d : c = [Call(kind) EXCEPT !.pack = NewPack] /\ d = [Call(kind) EXCEPT !.st = "cleanup"]
  OBVIOUS
<1>2. Dooms(c)
  BY <1>1, ModestDooms DEF Call, NoCall
<1>3. d.kind = kind /\ d.st = "cleanup"
  BY <1>1 DEF Call, NoCall
<1>4. Dooms(d)
  BY <1>3 DEF Dooms, Condemns
<1>5. call' = [call EXCEPT ![s] = c] \/ call' = [call EXCEPT ![s] = d]
  BY <1>1 DEF JobUpload, Abandon
<1>6. Quiet /\ mem' = mem /\ held' = held
  BY DEF JobUpload, Upload, Quiet
<1> QED
  BY <1>2, <1>4, <1>5, <1>6, BeginsDooms, QuietGentle

LEMMA RoundReads == ASSUME Inv, NEW s \in Servers, Round(s) PROVE Gentle(s)
<1>1. PICK c : c = Call("sweep")
  OBVIOUS
<1>2. Dooms(c)
  BY <1>1, ModestDooms DEF Call, NoCall
<1>3. call' = [call EXCEPT ![s] = c] /\ Quiet /\ mem' = mem /\ held' = held
  BY <1>1 DEF Round, Quiet
<1> QED
  BY <1>2, <1>3, BeginsDooms, QuietGentle

LEMMA ConsiderReads == ASSUME Inv, NEW s \in Servers, Consider(s) PROVE Gentle(s)
<1>1. PICK d : d = [Call("prune") EXCEPT !.cut = clock - Keep, !.round = TRUE]
  OBVIOUS
<1>2. PICK c \in {NoCall, Call("merge"), d} : call' = [call EXCEPT ![s] = c]
  BY <1>1 DEF Consider
<1>3. Dooms(d)
  BY <1>1, ModestDooms DEF Call, NoCall
<1>4. Quiet /\ mem' = mem /\ held' = held
  BY DEF Consider, Quiet
<1>5. Dooms(c)
  BY <1>2, <1>3, NextDooms DEF NextCalls
<1>6. Dooms(call'[s]) /\ \A r \in Servers \ {s} : call'[r] = call[r]
  BY <1>2, <1>5, BeginsDooms
<1> QED
  BY <1>4, <1>6, QuietGentle

LEMMA MergeReads == ASSUME Inv, NEW s \in Servers, Merge(s) PROVE Gentle(s)
  BY DoneDooms, QuietGentle DEF Merge, Quiet

\* A pack that is looked into.
LEMMA CleanupReads == ASSUME Inv, ReadInv, NEW s \in Servers, Cleanup(s) PROVE Gentle(s)
<1> DEFINE ms == Revalidated(mem[s])
           k == call[s].pack
<1>1. call[s].st = "cleanup" /\ Done(s) /\ man' = man /\ clock' = clock /\ fetch' = fetch
  BY DEF Cleanup
<1>2. ms.m = man
  BY RevalidatedIs
<1>3. (mem' = mem /\ held' = held) \/ Become(s, Revalidated(mem[s]))
  BY DEF Cleanup
<1> HIDE DEF ms
<1>4. stored' = stored \/ (stored' = stored \ {k} /\ Doom(k))
  <2>1. CASE call[s].kind = "push" /\ ~call[s].tried /\ stored' = stored \ {k}
    <3>1. Condemns(call[s], k)
      BY <1>1, <2>1 DEF Condemns
    <3> QED
      BY <2>1, <3>1 DEF ReadInv, CondemnAt
  <2>2. CASE stored' = IF Lists(ms.m, k) THEN stored ELSE stored \ {k}
    BY <1>2, <2>2, UnlistedDoom
  <2> QED
    BY <2>1, <2>2 DEF Cleanup, ms
<1> QED
  BY <1>1, <1>3, <1>4, DoneDooms DEF Gentle

\* What a sweep deletes was retired long enough ago.
LEMMA SweepableDoom == ASSUME NEW spared, NEW k \in Sweepable(man, spared) PROVE Doom(k)
  BY DEF Sweepable, Doom

LEMMA SweepReads == ASSUME Inv, ReadInv, NEW s \in Servers, Sweep(s) PROVE Gentle(s)
<1> DEFINE ms == Revalidated(mem[s])
<1>1. PICK spared : spared = HeldAfter(s, ms)
  OBVIOUS
<1>2. ms.m = man
  BY RevalidatedIs
<1>3. PICK old : old = Sweepable(man, spared)
  OBVIOUS
<1>4. /\ call[s].st = "try" /\ man' = man /\ clock' = clock /\ fetch' = fetch
      /\ stored \ stored' \subseteq old
      /\ (mem' = mem /\ held' = held) \/ Become(s, ms)
      /\ Done(s) \/ call' = [call EXCEPT ![s].gone = old]
  BY <1>1, <1>2, <1>3 DEF Sweep
<1>5. \A k \in old : Doom(k)
  BY <1>3, SweepableDoom
<1> HIDE DEF ms
<1>6. CASE call' = [call EXCEPT ![s].gone = old]
  <2>1. PICK c : c = [call[s] EXCEPT !.gone = old]
    OBVIOUS
  <2>2. c.gone = old /\ c.st = "try" /\ c.kind = call[s].kind
    BY <1>4, <2>1 DEF Inv, Shapes, NoCall
  <2>3. Dooms(c)
    BY <1>5, <2>2 DEF Dooms, Condemns
  <2> QED
    BY <1>4, <1>5, <1>6, <2>1, <2>3, BeginsDooms DEF Gentle, ms
<1> QED
  BY <1>4, <1>5, <1>6, DoneDooms DEF Gentle, ms

LEMMA OrphansReads == ASSUME Inv, ReadInv, NEW s \in Servers, Orphans(s) PROVE Gentle(s)
<1> DEFINE ms == Revalidated(mem[s])
<1>1. ms.m = man
  BY RevalidatedIs
<1>2. PICK g : g = Orphaned(man)
  OBVIOUS
<1>3. /\ call[s].kind = "orphans" /\ man' = man /\ clock' = clock /\ fetch' = fetch
      /\ stored \ stored' \subseteq call[s].gone
      /\ (mem' = mem /\ held' = held) \/ Become(s, ms)
      /\ Done(s) \/ (call[s].gone = {} /\ call' = [call EXCEPT ![s].gone = g])
  BY <1>1, <1>2 DEF Orphans
<1>4. \A k \in call[s].gone : Doom(k)
  BY <1>3 DEF ReadInv, CondemnAt, Condemns
<1>5. \A k \in g : Doom(k)
  BY <1>2 DEF Orphaned, Doom
<1> HIDE DEF ms
<1>6. CASE call' = [call EXCEPT ![s].gone = g]
  <2>1. PICK c : c = [call[s] EXCEPT !.gone = g]
    OBVIOUS
  <2>2. c.gone = g /\ c.kind = "orphans" /\ c.st = call[s].st
    BY <1>3, <2>1 DEF Inv, Shapes, NoCall
  <2>3. call[s].st = "try"
    BY <1>3 DEF ReadInv, SettleAt
  <2>4. Dooms(c)
    BY <1>5, <2>2, <2>3 DEF Dooms, Condemns
  <2> QED
    BY <1>3, <1>4, <1>6, <2>1, <2>4, BeginsDooms DEF Gentle, ms
<1> QED
  BY <1>3, <1>4, <1>6, DoneDooms DEF Gentle, ms
\* Pushes up to their commit.
LEMMA PushStartReads == ASSUME NEW p \in Pushes, NEW s \in Servers, PushStart(p, s) PROVE Gentle(s)
  BY FreeDooms, QuietGentle DEF PushStart, Quiet

LEMMA PushUploadReads ==
    ASSUME Inv, NEW p \in Pushes, PushUpload(p) PROVE \E s \in Servers : Gentle(s)
<1>1. PICK s \in Servers : s = push[p].s /\ Free(s)
  BY DEF PushUpload, Inv, Shapes
<1>2. Quiet /\ mem' = mem /\ held' = held /\ call' = call
  BY DEF PushUpload, Upload, Quiet
<1>3. Gentle(s)
  BY <1>1, <1>2, FreeDooms, QuietGentle
<1> QED
  BY <1>3

LEMMA PushCommitReads ==
    ASSUME Inv, NEW p \in Pushes, PushCommit(p) PROVE \E s \in Servers : Gentle(s)
<1> DEFINE x == push[p]
<1>1. PICK s \in Servers : s = x.s /\ Free(s)
  BY DEF PushCommit, Inv, Shapes
<1>2. Quiet /\ mem' = mem /\ held' = held
  BY DEF PushCommit, Quiet
<1>3. PICK c, d : c = [Call("push") EXCEPT !.push = p, !.pack = x.pack, !.gen = x.gen]
                  /\ d = [c EXCEPT !.st = "cleanup"]
  OBVIOUS
<1>4. DOMAIN c = DOMAIN NoCall /\ c.kind = "push" /\ c.st = "try" /\ c.gone = {} /\ c.pack = x.pack
  BY <1>3 DEF Call, NoCall
<1>5. d.kind = "push" /\ d.st = "cleanup" /\ d.pack = x.pack
  BY <1>3, <1>4 DEF NoCall
<1>6. Dooms(c)
  BY <1>4, ModestDooms
<1>7. x.pack # 0 => Dooms(d)
  <2>1. Untouched(p)
    BY DEF PushCommit, Inv, Early
  <2>2. ASSUME x.pack # 0 PROVE Doom(x.pack)
    BY <2>1, <2>2, UntouchedDoom
  <2> QED
    BY <1>5, <2>2 DEF Dooms, Condemns
<1>8. call' = call \/ call' = [call EXCEPT ![s] = c] \/ (x.pack # 0 /\ call' = [call EXCEPT ![s] = d])
  BY <1>1, <1>3 DEF PushCommit
<1>9. Dooms(call'[s]) /\ \A r \in Servers \ {s} : call'[r] = call[r]
  BY <1>1, <1>6, <1>7, <1>8, FreeDooms, BeginsDooms
<1>10. Gentle(s)
  BY <1>2, <1>9, QuietGentle
<1> QED
  BY <1>10

-------------------------------------------------------------------------------
\* The manifest is replaced, or the call goes on to settle that.

\* A call whose write is known to have taken its place.
LEMMA SucceedCopies ==
    ASSUME Inv, ReadInv, NEW s \in Servers, NEW c, NEW doc, doc.packs \in Seq(Nat), Succeed(s, c, doc), fetch' = fetch,
           man' = doc,
           c.kind \notin {"collect", "repack"} => ToSet(mem[s].m.packs) \subseteq ToSet(doc.packs)
    PROVE  /\ Copies(s) /\ DOMAIN held' = Servers
           /\ \A r \in Servers \ {s} : mem'[r] = mem[r] /\ held'[r] = held[r]
<1>1. DOMAIN mem[s] = DOMAIN NoMem
  BY MemTyped
<1>2. PICK a, b, d, e : /\ a = Apply(mem[s], doc)
                        /\ b = [mem[s] EXCEPT !.m = doc, !.etag = doc.writer, !.fresh = TRUE]
                        /\ d = [mem[s] EXCEPT !.m = doc, !.etag = doc.writer]
                        /\ e = [mem[s] EXCEPT !.stale = TRUE, !.etag = None]
  OBVIOUS
<1>3. PICK ms : Become(s, ms) /\ (ms \in {a, e} \/ (c.kind \notin {"collect", "repack"} /\ ms \in {b, d}))
  <2>1. CASE c.kind \in {"collect", "repack"}
    BY <1>2, <2>1 DEF Succeed
  <2>2. CASE c.kind \notin {"collect", "repack"}
    BY <1>2, <2>2 DEF Succeed
  <2> QED
    BY <2>1, <2>2
<1>4. Follows(s, a) /\ a.m = doc
  BY <1>2, ApplyFollows
<1>5. c.kind \notin {"collect", "repack"} => Follows(s, b) /\ Follows(s, d)
  <2>1. b.load = mem[s].load /\ b.up = mem[s].up /\ b.gen = mem[s].gen /\ b.m = doc
    BY <1>1, <1>2 DEF NoMem
  <2>2. d.load = mem[s].load /\ d.up = mem[s].up /\ d.gen = mem[s].gen /\ d.m = doc
    BY <1>1, <1>2 DEF NoMem
  <2> QED
    BY <2>1, <2>2, SameFollows
<1>6. Follows(s, e) /\ e.stale
  <2>1. e.load = mem[s].load /\ e.up = mem[s].up /\ e.gen = mem[s].gen /\ e.m = mem[s].m /\ e.stale
    BY <1>1, <1>2 DEF NoMem
  <2> QED
    BY <2>1, SameFollows
<1>7. b.m = doc /\ d.m = doc
  BY <1>1, <1>2 DEF NoMem
<1>8. Follows(s, ms) /\ (ms.m = doc \/ ms.stale)
  BY <1>3, <1>4, <1>5, <1>6, <1>7
<1>9. Copies(s)
  BY <1>3, <1>8, BecomeCopies
<1> QED
  BY <1>3, <1>9, HeldMore

\* A round of a save loop that ends in a write.
LEMMA SavingReads ==
    ASSUME LatePuts = FALSE, Inv, Inv', PackInv, PackInv', ReadInv, NEW s \in Servers, Saving(s), call[s].kind # "orphans"
    PROVE  ReadInv'
<1>1. PICK c, m : SameCall(s, c) /\ Writes(c, mem[s].m, m) /\ Save(s, c, m)
  BY DEF Saving
<1>2. PICK doc : doc = [m EXCEPT !.rev = @ + 1, !.writer = nonces + 1]
  OBVIOUS
<1>3. /\ doc.packs = m.packs /\ doc.retired = m.retired /\ doc.writer = nonces + 1
      /\ doc.packs \in Seq(1..Len(made))
  BY <1>1, <1>2 DEF Writes, NoMan
<1>4. Relists(c, mem[s].m, doc)
  <2>1. \A k : Lists(doc, k) <=> Lists(m, k)
    BY <1>3 DEF Lists
  <2> QED
    BY <1>1, <1>3, <2>1 DEF Writes, Relists
<1>5. c.kind \notin {"collect", "repack"} => ToSet(mem[s].m.packs) \subseteq ToSet(doc.packs)
  BY <1>4 DEF Relists
<1>6. stored' = stored /\ clock' = clock /\ fetch' = fetch
  BY <1>1 DEF Save
<1>7. /\ man' = man \/ (man' = doc /\ mem[s].m = man)
      /\ \/ man' = doc /\ Succeed(s, c, doc)
         \/ /\ mem' = mem /\ held' = held
            /\ \E first : call' = [call EXCEPT ![s] = [c EXCEPT !.st = "settle", !.tried = TRUE,
                                                         !.doc = doc, !.first = first]]
  <2>1. Accepts(man, mem[s].etag) => mem[s].m = man
    BY CopyIsMan DEF Accepts
  <2> QED
    BY <1>1, <1>2, <2>1 DEF Save
<1>8. man' = man \/ \E x : SameCall(s, x) /\ Relists(x, man, man')
  BY <1>1, <1>4, <1>7
<1>9. CASE man' = doc /\ Succeed(s, c, doc)
  <2>1. doc.packs \in Seq(Nat)
    BY <1>3
  <2>2. /\ Copies(s) /\ DOMAIN held' = Servers
        /\ \A r \in Servers \ {s} : mem'[r] = mem[r] /\ held'[r] = held[r]
    BY <1>5, <1>6, <1>9, <2>1, SucceedCopies
  <2>3. Dooms(call'[s]) /\ \A r \in Servers \ {s} : call'[r] = call[r]
    BY <1>9, DoneDooms DEF Succeed
  <2>4. ReadStep(s)
    BY <1>6, <1>8, <2>2, <2>3 DEF ReadStep, ReadInv
  <2>5. call'[s] \in NextCalls
    BY <1>9, DoneIs DEF Succeed
  <2>6. PICK n \in NextCalls : call'[s] = n
    BY <2>5
  <2>7. n.st = "try" /\ n.gone = {}
    BY DEF NextCalls, Call, NoCall
  <2>8. CondemnAt(s)' /\ SettleAt(s)'
    BY <2>6, <2>7 DEF CondemnAt, SettleAt, Condemns
  <2> QED
    BY <2>2, <2>4, <2>8, StepReads
<1>10. ASSUME NEW first, mem' = mem, held' = held,
              call' = [call EXCEPT ![s] = [c EXCEPT !.st = "settle", !.tried = TRUE, !.doc = doc, !.first = first]]
       PROVE  ReadInv'
  <2>1. PICK d : d = [c EXCEPT !.st = "settle", !.tried = TRUE, !.doc = doc, !.first = first]
    OBVIOUS
  <2>2. DOMAIN c = DOMAIN NoCall
    BY <1>1 DEF SameCall
  <2>3. d.st = "settle" /\ d.doc = doc /\ d.kind = c.kind /\ d.gone = c.gone
    BY <2>1, <2>2 DEF NoCall
  <2>4. call'[s] = d /\ \A r \in Servers \ {s} : call'[r] = call[r]
    BY <1>10, <2>1 DEF Inv, Shapes
  <2>5. ReadStep(s)
    BY <1>6, <1>8, <1>10, <2>4 DEF ReadStep, ReadInv
  <2>6. Copies(s)
    BY <1>6, <1>10, SameCopies
  <2>7. CondemnAt(s)'
    <3>1. ASSUME NEW k, Condemns(d, k) PROVE Doom(k)'
      <4>1. Condemns(call[s], k)
        BY <1>1, <2>3, <3>1 DEF Condemns, SameCall
      <4> QED
        BY <2>5, <4>1, CondemnedIdle, DoomStands DEF ReadInv, CondemnAt
    <3> QED
      BY <2>4, <3>1 DEF CondemnAt
  <2>8. SettleAt(s)'
    BY <1>1, <1>5, <1>10, <2>3, <2>4 DEF SettleAt, OfJob, SameCall
  <2> QED
    BY <2>5, <2>6, <2>7, <2>8, StepReads
<1> QED
  BY <1>7, <1>9, <1>10

LEMMA SettleReads ==
    ASSUME Inv, Inv', PackInv, PackInv', ReadInv, NEW s \in Servers, Settle(s) PROVE ReadInv'
<1> DEFINE c == call[s]
<1>1. c.st = "settle" /\ Quiet
  BY DEF Settle, Quiet
<1>2. CASE ReadBack(c.first, man, c.doc.writer) = "ok" /\ Succeed(s, c, c.doc)
  <2>1. PICK doc : doc = c.doc
    OBVIOUS
  <2>2. man.writer = doc.writer
    BY <1>2, <2>1 DEF ReadBack
  <2>3. man = doc
    BY <2>1, <2>2 DEF Inv, Written, Docs
  <2>4. c.kind \notin {"collect", "repack"} => ToSet(mem[s].m.packs) \subseteq ToSet(doc.packs)
    BY <1>1, <2>1 DEF ReadInv, SettleAt, OfJob
  <2>5. doc.packs \in Seq(Nat)
    BY <2>3, ManTyped
  <2>6. /\ Copies(s) /\ DOMAIN held' = Servers
        /\ \A r \in Servers \ {s} : mem'[r] = mem[r] /\ held'[r] = held[r]
    <3>1. PICK d : d = call[s]
      OBVIOUS
    <3> QED
      BY <1>1, <1>2, <2>1, <2>3, <2>4, <2>5, <3>1, SucceedCopies DEF Quiet
  <2>7. Dooms(call'[s]) /\ \A r \in Servers \ {s} : call'[r] = call[r]
    BY <1>2, DoneDooms DEF Succeed
  <2>8. ReadStep(s)
    BY <1>1, <2>6, <2>7 DEF ReadStep, ReadInv, Quiet
  <2>9. CondemnAt(s)' /\ SettleAt(s)'
    BY <1>1, <2>7 DEF Dooms, Doom, CondemnAt, SettleAt, Quiet
  <2> QED
    BY <2>6, <2>8, <2>9, StepReads
<1>3. CASE /\ Become(s, Revalidated(mem[s]))
           /\ call' = [call EXCEPT ![s] = [c EXCEPT !.st = "try", !.attempt = @ + 1,
                                                    !.doc = NoMan, !.first = "none"]]
  <2>1. PICK d : d = [c EXCEPT !.st = "try", !.attempt = @ + 1, !.doc = NoMan, !.first = "none"]
    OBVIOUS
  <2>2. DOMAIN c = DOMAIN NoCall
    BY DEF Inv, Shapes
  <2> HIDE DEF c
  <2>3. d.st = "try" /\ d.kind = c.kind /\ d.gone = c.gone
    BY <2>1, <2>2 DEF NoCall
  <2>4. \A k : Condemns(d, k) => Condemns(call[s], k)
    BY <2>3 DEF Condemns, c
  <2>5. Dooms(d)
    BY <2>3, <2>4 DEF Dooms, ReadInv, CondemnAt
  <2>6. Gentle(s)
    BY <1>1, <1>3, <2>1, <2>5, BeginsDooms, QuietGentle
  <2> QED
    BY <2>6, GentleReads
<1>4. CASE GiveUp(s) /\ mem' = mem /\ held' = held
  <2>1. Gentle(s)
    BY <1>1, <1>4, GiveUpDooms, QuietGentle
  <2> QED
    BY <2>1, GentleReads
<1> QED
  BY <1>2, <1>3, <1>4 DEF Settle

\* The rounds of the save loops.
LEMMA EndsReads ==
    ASSUME Inv, Inv', PackInv, PackInv', ReadInv, NEW s \in Servers, call[s].st = "try", Done(s) \/ GiveUp(s),
           Quiet, mem' = mem, held' = held
    PROVE  ReadInv'
<1>1. Gentle(s)
  BY DoneDooms, GiveUpDooms, QuietGentle
<1> QED
  BY <1>1, GentleReads

LEMMA TryReads ==
    ASSUME LatePuts = FALSE, Inv, Inv', PackInv, PackInv', ReadInv, NEW s \in Servers,
           TryPush(s) \/ TryRestore(s) \/ TryCollect(s) \/ TryRepack(s) \/ TrySweep(s) \/ TryPrune(s)
    PROVE  ReadInv'
<1>1. call[s].st = "try" /\ call[s].kind # "orphans"
  BY DEF TryPush, TryRestore, TryCollect, TryRepack, TrySweep, TryPrune
<1>2. ASSUME TryPush(s), ~Saving(s) PROVE ReadInv'
  <2>1. (Done(s) \/ GiveUp(s)) /\ Quiet /\ mem' = mem /\ held' = held
    BY <1>2, TryPushIs DEF Quiet
  <2> QED
    BY <1>1, <2>1, EndsReads
<1>3. ASSUME TryRestore(s) \/ TrySweep(s) \/ TryPrune(s), ~Saving(s) PROVE ReadInv'
  <2>1. Done(s) /\ Quiet /\ mem' = mem /\ held' = held
    BY <1>3, TryRestoreIs, TrySweepIs, TryPruneIs DEF Quiet
  <2> QED
    BY <1>1, <2>1, EndsReads
<1>4. ASSUME TryCollect(s) \/ TryRepack(s), ~Saving(s) PROVE ReadInv'
  <2>1. (Done(s) \/ GiveUp(s)) /\ Quiet /\ mem' = mem /\ held' = held
    BY <1>4, TryCollectIs, TryRepackIs DEF JobLanded, JobGivesUp, Quiet
  <2> QED
    BY <1>1, <2>1, EndsReads
<1> QED
  BY <1>1, <1>2, <1>3, <1>4, SavingReads
-------------------------------------------------------------------------------
\* The other steps of a server.

\* A step that touches what the server has in memory, and nothing else.
Inward(s) ==
    /\ man' = man /\ clock' = clock /\ stored' = stored
    /\ DOMAIN fetch' = Servers /\ DOMAIN held' = Servers
    /\ \A r \in Servers \ {s} : call'[r] = call[r] /\ mem'[r] = mem[r] /\ fetch'[r] = fetch[r] /\ held'[r] = held[r]
    /\ call'[s] \in {NoCall, call[s]}

LEMMA InwardReads ==
    ASSUME Inv, Inv', PackInv, ReadInv, NEW s \in Servers, Inward(s), Free(s) \/ call'[s] = NoCall,
           FreshAt(s)', FetchAt(s)', ReadAt(s)'
    PROVE  ReadInv'
<1>1. ReadStep(s)
  BY DEF Inward, ReadStep
<1>2. call'[s].st = "try" /\ call'[s].gone = {} /\ call'[s].kind = "none"
  BY DEF Inward, Free, NoCall
<1>3. CondemnAt(s)' /\ SettleAt(s)'
  BY <1>2 DEF CondemnAt, SettleAt, Condemns
<1>4. \A r \in Servers \ {s} : CondemnAt(r)' /\ SettleAt(r)' /\ FreshAt(r)' /\ FetchAt(r)' /\ ReadAt(r)'
  BY <1>1, ReadsElsewhere
<1> QED
  BY <1>1, <1>3, <1>4 DEF ReadInv, ReadStep

LEMMA FetchStays ==
    ASSUME ReadInv, NEW s \in Servers, Inward(s), fetch'[s] = fetch[s], mem'[s].gen \in Nat, mem'[s].load \in Nat
    PROVE  FetchAt(s)'
  BY DEF ReadInv, FetchAt, Inward, Standing

LEMMA LoadReads == ASSUME Inv, Inv', PackInv, ReadInv, NEW s \in Servers, Load(s) PROVE ReadInv'
<1>1. PICK ms : ms = [mem[s] EXCEPT !.up = TRUE, !.m = man, !.etag = man.writer,
                                    !.stale = FALSE, !.fresh = TRUE, !.gen = 0]
  OBVIOUS
<1>2. ms.m = man /\ ms.load = mem[s].load /\ ms.gen = 0
  BY <1>1, MemTyped DEF NoMem
<1>3. mem'[s] = ms /\ \A r \in Servers \ {s} : mem'[r] = mem[r]
  BY <1>1 DEF Load, Inv, Shapes
<1>4. Inward(s) /\ Free(s) /\ ~mem[s].up /\ fetch' = fetch /\ stored' = stored /\ man' = man /\ clock' = clock
  BY <1>3 DEF Load, Inward, ReadInv
<1>5. FreshAt(s)'
  BY <1>2, <1>3, <1>4, LiveStands DEF FreshAt, Standing
<1>6. FetchAt(s)'
  BY <1>2, <1>3, <1>4, FetchStays DEF ReadInv, FetchAt
<1>7. ReadAt(s)'
  BY <1>2, <1>3, <1>4 DEF ReadInv, ReadAt
<1> QED
  BY <1>4, <1>5, <1>6, <1>7, InwardReads

LEMMA ResetReads == ASSUME Inv, Inv', PackInv, ReadInv, NEW s \in Servers, Reset(s) PROVE ReadInv'
<1>1. PICK n \in Nat : n = mem[s].load
  BY DEF ReadInv, FetchAt
<1>2. PICK ms : ms = [NoMem EXCEPT !.load = n + 1]
  OBVIOUS
<1>3. ms.load = n + 1 /\ ms.gen = 0 /\ ms.up = FALSE
  BY <1>2 DEF NoMem
<1>4. mem'[s] = ms /\ \A r \in Servers \ {s} : mem'[r] = mem[r]
  BY <1>1, <1>2 DEF Reset, Inv, Shapes
<1>5. Inward(s) /\ Free(s) /\ fetch' = fetch
  BY <1>4 DEF Reset, Inward, ReadInv
<1>6. FreshAt(s)'
  BY <1>3, <1>4 DEF FreshAt, Fresh
<1>7. FetchAt(s)'
  BY <1>3, <1>4, <1>5, FetchStays
<1>8. ReadAt(s)'
  <2>1. fetch[s].packs # {} => fetch[s].load <= n
    BY <1>1 DEF ReadInv, ReadAt
  <2>2. PICK h \in Nat : h = fetch[s].load
    BY DEF ReadInv, FetchAt
  <2>3. fetch[s].packs # {} => h <= n + 1 /\ n + 1 # h
    BY <2>1, <2>2
  <2> QED
    BY <1>3, <1>4, <1>5, <2>2, <2>3 DEF ReadAt
<1> QED
  BY <1>5, <1>6, <1>7, <1>8, InwardReads

LEMMA CrashReads == ASSUME Inv, Inv', PackInv, ReadInv, NEW s \in Servers, Crash(s) PROVE ReadInv'
<1>1. NoMem.gen = 0 /\ NoMem.load = 0 /\ NoMem.up = FALSE
  BY DEF NoMem
<1>2. NoFetch.packs = {} /\ NoFetch.at = 0 /\ NoFetch.gen = 0 /\ NoFetch.load = 0
  BY DEF NoFetch
<1>3. mem'[s] = NoMem /\ fetch'[s] = NoFetch /\ call'[s] = NoCall /\ Inward(s)
  BY DEF Crash, Inward, ReadInv, Inv, Shapes
<1>4. clock' \in Nat
  BY <1>3, Times DEF Inward
<1>5. FreshAt(s)' /\ FetchAt(s)' /\ ReadAt(s)'
  BY <1>1, <1>2, <1>3, <1>4 DEF FreshAt, Fresh, FetchAt, ReadAt
<1> QED
  BY <1>3, <1>5, InwardReads

LEMMA FetchEndReads == ASSUME Inv, Inv', PackInv, ReadInv, NEW s \in Servers, FetchEnd(s) PROVE ReadInv'
<1>1. NoFetch.packs = {} /\ NoFetch.at = 0 /\ NoFetch.gen = 0 /\ NoFetch.load = 0
  BY DEF NoFetch
<1>2. fetch'[s] = NoFetch /\ mem' = mem /\ Inward(s) /\ Free(s)
  BY DEF FetchEnd, Inward, ReadInv, Inv, Shapes
<1>3. clock' \in Nat
  BY <1>2, Times DEF Inward
<1>4. FreshAt(s)'
  BY <1>2 DEF ReadInv, FreshAt, Fresh, Standing, Inward
<1>5. FetchAt(s)' /\ ReadAt(s)'
  BY <1>1, <1>2, <1>3 DEF ReadInv, FetchAt, ReadAt
<1> QED
  BY <1>2, <1>4, <1>5, InwardReads

\* A fetch reads packs that the index lists.
LEMMA SpreadWithin ==
    ASSUME NEW tips, NEW edges, NEW S, tips \subseteq S, \A o \in S : edges[o] \subseteq S
    PROVE  Spread(tips, edges) \subseteq S
<1>0. PICK N \in Nat : N = Cardinality(Objs)
  BY ObjsCount
<1>1. PICK f : Reaches(tips, edges, N, f) /\ Spread(tips, edges) = f[N]
  BY <1>0, SpreadIs
<1> DEFINE T == {n \in Nat : n <= N => f[n] \subseteq S}
<1>2. 0 \in T
  BY <1>1 DEF Reaches
<1>3. ASSUME NEW n \in Nat, n \in T PROVE n + 1 \in T
  <2> SUFFICES ASSUME n + 1 <= N PROVE f[n + 1] \subseteq S
    OBVIOUS
  <2>1. n \in 0..(N - 1) /\ f[n] \subseteq S
    BY <1>3
  <2>2. f[n + 1] = f[n] \cup UNION {edges[o] : o \in f[n]}
    BY <1>1, <2>1 DEF Reaches
  <2> QED
    BY <2>1, <2>2
<1> HIDE DEF T
<1>4. N \in T
  BY <1>2, <1>3, UpToAll
<1> QED
  BY <1>1, <1>4 DEF T

LEMMA ClosureHeld ==
    ASSUME NEW content, NEW tips \in SUBSET Objs PROVE Closure(content, tips) \subseteq Held(content) \cap Objs
<1> DEFINE has == Held(content)
           edges == [o \in Objs |-> IF o \in has THEN Kids(content, o) ELSE {}]
<1>1. tips \cap has \subseteq has \cap Objs
  OBVIOUS
<1>2. \A o \in has \cap Objs : edges[o] \subseteq has \cap Objs
  BY LinksAssumption DEF Kids
<1>3. Closure(content, tips) = Spread(tips \cap has, edges)
  BY DEF Closure
<1> HIDE DEF has, edges
<1>4. PICK S : S = has \cap Objs
  OBVIOUS
<1>5. Closure(content, tips) \subseteq S
  BY <1>1, <1>2, <1>3, <1>4, SpreadWithin
<1> QED
  BY <1>4, <1>5 DEF has

LEMMA FirstServes ==
    ASSUME NEW content, NEW n \in Nat, DOMAIN content = 1..n, NEW o \in Held(content)
    PROVE  First(content, o) \in 1..n /\ o \in content[First(content, o)]
<1> DEFINE S == {i \in 1..n : o \in content[i]}
<1>1. S \in SUBSET Nat /\ S # {}
  BY DEF Held
<1>2. PICK i \in S : \A j \in S : ~(j < i)
  BY <1>1, LeastOf
<1>3. i \in DOMAIN content /\ o \in content[i] /\ \A j \in 1..(i - 1) : o \notin content[j]
  <2>1. ASSUME NEW j \in 1..(i - 1) PROVE o \notin content[j]
    BY <1>2, <2>1
  <2> QED
    BY <1>2, <2>1
<1> QED
  BY <1>3 DEF First

LEMMA FetchStartReads == ASSUME Inv, Inv', PackInv, ReadInv, NEW s \in Servers, FetchStart(s) PROVE ReadInv'
<1>0. PICK wants, haves \in SUBSET Closure(Ix(mem[s].m), RefValues(mem[s].m)) :
         fetch' = [fetch EXCEPT ![s] =
            [packs |-> {mem[s].m.packs[First(Ix(mem[s].m), o)] : o \in Planned(Ix(mem[s].m), wants, haves)},
             at |-> clock, gen |-> mem[s].gen, load |-> mem[s].load]]
  BY Zenon DEF FetchStart
<1>1. PICK m, ix : m = mem[s].m /\ ix = Ix(m)
  OBVIOUS
<1>2. /\ wants \in SUBSET Closure(ix, RefValues(m))
      /\ fetch' = [fetch EXCEPT ![s] = [packs |-> {m.packs[First(ix, o)] : o \in Planned(ix, wants, haves)},
                                        at |-> clock, gen |-> mem[s].gen, load |-> mem[s].load]]
  BY <1>0, <1>1
<1>3. PICK objs : objs = Planned(ix, wants, haves)
  OBVIOUS
<1>4. PICK f : f = [packs |-> {m.packs[First(ix, o)] : o \in objs},
                    at |-> clock, gen |-> mem[s].gen, load |-> mem[s].load]
  OBVIOUS
<1>5. fetch'[s] = f /\ DOMAIN fetch' = Servers /\ \A r \in Servers \ {s} : fetch'[r] = fetch[r]
  BY <1>2, <1>3, <1>4 DEF ReadInv
<1>6. Open(s) /\ mem' = mem /\ Inward(s)
  BY <1>5 DEF FetchStart, Inward, ReadInv
<1>7. m.packs \in Seq(1..Len(made)) /\ m.refs \in [Refs -> Values]
  BY <1>1, CopyTyped DEF IsDoc
<1>8. objs \subseteq Held(ix)
  <2>1. RefValues(m) \in SUBSET Objs
    BY <1>7 DEF RefValues, Values
  <2>2. wants \in SUBSET Objs
    BY <1>2, <2>1, ClosureHeld
  <2> QED
    BY <1>3, <2>2, ClosureHeld DEF Planned
<1>9. f.packs \subseteq ToSet(m.packs)
  <2>1. PICK n \in Nat : n = Len(m.packs)
    BY <1>7
  <2>2. DOMAIN ix = 1..n
    BY <1>1, <1>7, <2>1 DEF Ix
  <2>3. ASSUME NEW o \in objs PROVE m.packs[First(ix, o)] \in ToSet(m.packs)
    <3>1. First(ix, o) \in 1..n
      BY <1>8, <2>2, FirstServes
    <3> QED
      BY <1>7, <2>1, <3>1, ToSetOf
  <2> QED
    BY <1>4, <2>3
<1>10. Fresh(s)
  BY <1>6 DEF Open, Fresh
<1>11. \A k \in f.packs : Standing(k, clock)
  BY <1>1, <1>9, <1>10 DEF ReadInv, FreshAt
<1>12. FreshAt(s)'
  BY <1>6 DEF ReadInv, FreshAt, Fresh, Standing, Inward
<1>13. FetchAt(s)'
  <2>1. f.at = clock /\ f.gen = mem[s].gen /\ f.load = mem[s].load /\ clock \in Nat /\ clock' = clock
    BY <1>4, <1>6, Times DEF Inward
  <2>2. mem[s].gen \in Nat /\ mem[s].load \in Nat
    BY DEF ReadInv, FetchAt
  <2> QED
    BY <1>5, <1>6, <1>11, <2>1, <2>2 DEF FetchAt, Standing, Inward
<1>14. ReadAt(s)'
  <2>1. PICK g, h \in Nat : g = mem[s].gen /\ h = mem[s].load
    BY DEF ReadInv, FetchAt
  <2>2. f.gen = g /\ f.load = h
    BY <1>4, <2>1
  <2> QED
    BY <1>1, <1>5, <1>6, <1>9, <1>10, <2>1, <2>2 DEF ReadAt, Fresh
<1> QED
  BY <1>6, <1>12, <1>13, <1>14, InwardReads DEF Open

\* The clock ticks when no server is in a call.
LEMMA TickReads == ASSUME Inv, ReadInv, Tick PROVE ReadInv'
<1>1. /\ man' = man /\ stored' = stored /\ fetch' = fetch /\ held' = held /\ call' = call /\ Timely
      /\ clock' = clock + 1 /\ mem' = [s \in Servers |-> [mem[s] EXCEPT !.fresh = FALSE]]
  BY DEF Tick
<1>2. ASSUME NEW s \in Servers PROVE CondemnAt(s)' /\ SettleAt(s)' /\ FreshAt(s)' /\ FetchAt(s)' /\ ReadAt(s)'
  <2>1. PICK ms : ms = [mem[s] EXCEPT !.fresh = FALSE]
    OBVIOUS
  <2>2. ms.fresh = FALSE /\ ms.m = mem[s].m /\ ms.gen = mem[s].gen /\ ms.load = mem[s].load /\ ms.up = mem[s].up
    BY <2>1, MemTyped DEF NoMem
  <2>3. mem'[s] = ms
    BY <1>1, <2>1
  <2>4. call'[s] = NoCall
    BY <1>1 DEF Timely, Free
  <2>5. NoCall.gone = {} /\ NoCall.st = "try" /\ NoCall.kind = "none"
    BY DEF NoCall
  <2>6. CondemnAt(s)' /\ SettleAt(s)'
    BY <2>4, <2>5 DEF CondemnAt, SettleAt, Condemns
  <2>7. FreshAt(s)'
    BY <2>2, <2>3 DEF FreshAt, Fresh
  <2>8. ReadAt(s)'
    BY <1>1, <2>2, <2>3 DEF ReadInv, ReadAt
  <2>9. FetchAt(s)'
    <3>1. PICK t \in Nat : t = fetch[s].at /\ t <= clock
      BY DEF ReadInv, FetchAt
    <3>2. t <= clock + 1 /\ (clock + 1 < t + Grace => clock < t + Grace)
      BY <3>1, Times
    <3> QED
      BY <1>1, <2>2, <2>3, <3>1, <3>2 DEF ReadInv, FetchAt, Standing
  <2> QED
    BY <2>6, <2>7, <2>8, <2>9
<1> QED
  BY <1>1, <1>2 DEF ReadInv

LEMMA StutterReads == ASSUME ReadInv, UNCHANGED vars PROVE ReadInv'
<1>1. /\ man' = man /\ stored' = stored /\ fetch' = fetch /\ held' = held /\ call' = call
      /\ clock' = clock /\ mem' = mem
  BY DEF vars
<1>2. ASSUME NEW s \in Servers PROVE CondemnAt(s)' /\ SettleAt(s)' /\ FreshAt(s)' /\ FetchAt(s)' /\ ReadAt(s)'
  <2>1. CondemnAt(s)'
    BY <1>1 DEF ReadInv, CondemnAt, Doom, Lists
  <2>2. SettleAt(s)'
    BY <1>1 DEF ReadInv, SettleAt, OfJob
  <2>3. FreshAt(s)'
    BY <1>1 DEF ReadInv, FreshAt, Fresh, Standing, Lists
  <2>4. FetchAt(s)'
    BY <1>1 DEF ReadInv, FetchAt, Standing, Lists
  <2>5. ReadAt(s)'
    BY <1>1 DEF ReadInv, ReadAt
  <2> QED
    BY <2>1, <2>2, <2>3, <2>4, <2>5
<1> QED
  BY <1>1, <1>2 DEF ReadInv

LEMMA InitReads == Init => ReadInv
<1> SUFFICES ASSUME Init PROVE ReadInv
  OBVIOUS
<1>1. /\ call = [s \in Servers |-> NoCall] /\ mem = [s \in Servers |-> NoMem] /\ fetch = [s \in Servers |-> NoFetch]
      /\ held = [s \in Servers |-> {}] /\ clock = 0
  BY DEF Init
<1>2. NoCall.gone = {} /\ NoCall.st = "try" /\ NoCall.kind = "none"
  BY DEF NoCall
<1>3. NoMem.gen = 0 /\ NoMem.load = 0 /\ NoMem.up = FALSE
  BY DEF NoMem
<1>4. NoFetch.packs = {} /\ NoFetch.at = 0 /\ NoFetch.gen = 0 /\ NoFetch.load = 0
  BY DEF NoFetch
<1>5. ASSUME NEW s \in Servers PROVE CondemnAt(s) /\ SettleAt(s) /\ FreshAt(s) /\ FetchAt(s) /\ ReadAt(s)
  <2>1. call[s] = NoCall /\ mem[s] = NoMem /\ fetch[s] = NoFetch
    BY <1>1
  <2>2. CondemnAt(s) /\ SettleAt(s)
    BY <1>2, <2>1 DEF CondemnAt, SettleAt, Condemns
  <2>3. FreshAt(s) /\ FetchAt(s) /\ ReadAt(s)
    BY <1>1, <1>3, <1>4, <2>1 DEF FreshAt, Fresh, FetchAt, ReadAt
  <2> QED
    BY <2>2, <2>3
<1> QED
  BY <1>1, <1>5 DEF ReadInv
LEMMA NextReads ==
    ASSUME LatePuts = FALSE, Inv, Inv', PackInv, PackInv', ReadInv, [Next]_vars PROVE ReadInv'
<1>1. CASE Common
  <2>1. late = {}
    BY DEF Inv, Shapes
  <2>2. ASSUME NEW s \in Servers, Look(s) \/ Cleanup(s) PROVE ReadInv'
    BY <2>2, LookReads, CleanupReads, GentleReads
  <2>3. ASSUME NEW s \in Servers, Load(s) \/ Reset(s) \/ Crash(s) \/ Settle(s) PROVE ReadInv'
    BY <2>3, LoadReads, ResetReads, CrashReads, SettleReads
  <2> QED
    BY <1>1, <2>1, <2>2, <2>3, TickReads DEF Common
<1>2. CASE Serve
  <2>1. ASSUME NEW p \in Pushes, PushUpload(p) \/ PushCommit(p) PROVE ReadInv'
    BY <2>1, PushUploadReads, PushCommitReads, GentleReads
  <2>2. ASSUME NEW p \in Pushes, NEW s \in Servers, PushStart(p, s) PROVE ReadInv'
    BY <2>2, PushStartReads, GentleReads
  <2>3. ASSUME NEW s \in Servers, TryPush(s) \/ FetchStart(s) \/ FetchEnd(s) \/ TryRestore(s) PROVE ReadInv'
    BY <2>3, TryReads, FetchStartReads, FetchEndReads
  <2>4. ASSUME NEW s \in Servers, NEW r \in Refs, NEW o \in Objs, Restore(s, r, o) PROVE ReadInv'
    BY <2>4, RestoreReads, GentleReads
  <2> QED
    BY <1>2, <2>1, <2>2, <2>3, <2>4 DEF Serve
<1>3. CASE Maintain
  <2>1. ASSUME NEW s \in Servers, CollectUpload(s) PROVE ReadInv'
    <3>1. PICK objs : objs = job[s].keep
      OBVIOUS
    <3>2. PICK readable : readable = (Unmoved(s) /\ ToSet(job[s].sources) \subseteq stored)
      OBVIOUS
    <3>3. JobUpload(s, "collect", readable, objs)
      BY <2>1, <3>1, <3>2 DEF CollectUpload
    <3> QED
      BY <3>3, JobUploadReads, GentleReads
  <2>2. ASSUME NEW s \in Servers, RepackUpload(s) PROVE ReadInv'
    <3>1. PICK objs : objs = UNION {made[k].objs : k \in ToSet(job[s].sources)}
      OBVIOUS
    <3>2. PICK readable : readable = (ToSet(job[s].sources) \subseteq stored)
      OBVIOUS
    <3>3. JobUpload(s, "repack", readable, objs)
      BY <2>2, <3>1, <3>2 DEF RepackUpload
    <3> QED
      BY <3>3, JobUploadReads, GentleReads
  <2>3. ASSUME NEW s \in Servers, NEW kind, Request(s, kind) PROVE ReadInv'
    BY <2>3, RequestReads, GentleReads
  <2>4. ASSUME NEW s \in Servers, CollectStart(s) \/ RepackStart(s) \/ Round(s) \/ Sweep(s) \/ Orphans(s) \/ Consider(s)
                                  \/ Merge(s)
        PROVE  Gentle(s)
    BY <2>4, CollectStartReads, RepackStartReads, RoundReads, SweepReads, OrphansReads, ConsiderReads, MergeReads
  <2>5. ASSUME NEW s \in Servers, TryCollect(s) \/ TryRepack(s) \/ TrySweep(s) \/ TryPrune(s) PROVE ReadInv'
    BY <2>5, TryReads
  <2> QED
    BY <1>3, <2>1, <2>2, <2>3, <2>4, <2>5, GentleReads DEF Maintain
<1>4. CASE UNCHANGED vars
  BY <1>4, StutterReads
<1> QED
  BY <1>1, <1>2, <1>3, <1>4 DEF Next

-------------------------------------------------------------------------------
\* What a fetch reads is there.

LEMMA FetchedStored ==
    ASSUME Inv, ReadInv, NEW s \in Servers PROVE fetch[s].packs \subseteq stored \/ clock >= fetch[s].at + Grace
<1>1. PICK t \in Nat : t = fetch[s].at
  BY DEF ReadInv, FetchAt
<1>2. clock < t + Grace => fetch[s].packs \subseteq stored
  BY <1>1 DEF ReadInv, FetchAt, Standing
<1> QED
  BY <1>1, <1>2, Times

\* Packs are deleted by three actions.
Deletes(s) == Cleanup(s) \/ Sweep(s) \/ Orphans(s)

LEMMA StoredStays == ASSUME [Next]_vars PROVE stored \subseteq stored' \/ \E s \in Servers : Deletes(s)
<1>1. CASE Common
  BY <1>1 DEF Common, Load, Look, Reset, Crash, Settle, Arrive, Tick, Deletes
<1>2. CASE Serve
  <2>1. ASSUME NEW p \in Pushes, PushUpload(p) \/ PushCommit(p) \/ \E s \in Servers : PushStart(p, s)
        PROVE  stored \subseteq stored'
    BY <2>1 DEF PushUpload, Upload, PushCommit, PushStart
  <2>2. ASSUME NEW s \in Servers, TryPush(s) \/ TryRestore(s) PROVE stored \subseteq stored'
    BY <2>2 DEF TryPush, TryRestore, Save
  <2>3. ASSUME NEW s \in Servers, FetchStart(s) \/ FetchEnd(s) \/ \E r \in Refs, o \in Objs : Restore(s, r, o)
        PROVE  stored \subseteq stored'
    BY <2>3 DEF FetchStart, FetchEnd, Restore
  <2> QED
    BY <1>2, <2>1, <2>2, <2>3 DEF Serve
<1>3. CASE Maintain
  <2>1. ASSUME NEW s \in Servers, \/ \E kind \in {"collect", "purge", "repack"} : Request(s, kind)
                                  \/ CollectStart(s) \/ RepackStart(s) \/ Round(s) \/ Consider(s) \/ Merge(s)
        PROVE  stored \subseteq stored'
    BY <2>1 DEF Request, CollectStart, RepackStart, Round, Consider, Merge
  <2>2. ASSUME NEW s \in Servers, CollectUpload(s) \/ RepackUpload(s) PROVE stored \subseteq stored'
    BY <2>2 DEF CollectUpload, RepackUpload, JobUpload, Upload
  <2>3. ASSUME NEW s \in Servers, TryCollect(s) \/ TryRepack(s) \/ TrySweep(s) \/ TryPrune(s)
        PROVE  stored \subseteq stored'
    BY <2>3 DEF TryCollect, TryRepack, TrySweep, TryPrune, JobLanded, JobGivesUp, Save
  <2> QED
    BY <1>3, <2>1, <2>2, <2>3 DEF Maintain, Deletes
<1>4. CASE UNCHANGED vars
  BY <1>4 DEF vars
<1> QED
  BY <1>1, <1>2, <1>3, <1>4 DEF Next

\* A sweep spares what a fetch of its server reads.
LEMMA SweepSpares ==
    ASSUME Inv, PackInv, ReadInv, ReadInv', NEW s \in Servers, Sweep(s),
           mem'[s].load = fetch[s].load, mem'[s].gen <= fetch[s].gen + 1
    PROVE  fetch[s].packs \cap stored \subseteq stored'
<1> DEFINE ms == Revalidated(mem[s])
<1>1. PICK spared : spared = HeldAfter(s, ms)
  OBVIOUS
<1>2. ms.m = man
  BY RevalidatedIs
<1>3. PICK old : old = Sweepable(man, spared)
  OBVIOUS
<1>4. /\ fetch' = fetch
      /\ stored \subseteq stored' \/ (Become(s, ms) /\ stored \ stored' \subseteq old)
  BY <1>1, <1>2, <1>3 DEF Sweep
<1>5. CASE Become(s, ms) /\ stored \ stored' \subseteq old
  <2>1. old \cap (ToSet(man.packs) \cup spared) = {}
    BY <1>3 DEF Sweepable
  <2>2. held'[s] = spared
    BY <1>1, <1>5 DEF Become, ReadInv
  <2> HIDE DEF ms
  <2>3. mem'[s].m = man
    BY <1>5, BecomeRevalidated DEF ms
  <2>4. fetch[s].packs # {} => fetch[s].packs \subseteq ToSet(man.packs) \cup spared
    BY <1>4, <2>2, <2>3 DEF ReadInv, ReadAt
  <2> QED
    BY <1>5, <2>1, <2>4
<1> QED
  BY <1>4, <1>5

LEMMA FetchSpared ==
    ASSUME Inv, PackInv, ReadInv, ReadInv', [Next]_vars, NEW s \in Servers,
           call[s].kind = "sweep", call'[s] # call[s],
           mem'[s].load = fetch[s].load, mem'[s].gen <= fetch[s].gen + 1
    PROVE  fetch[s].packs \cap stored \subseteq stored'
<1>1. ASSUME NEW r \in Servers, Deletes(r) PROVE fetch[s].packs \cap stored \subseteq stored'
  <2>1. \A q \in Servers \ {r} : call'[q] = call[q]
    BY <1>1, DoneIs DEF Deletes, Cleanup, Sweep, Orphans, Inv, Shapes
  <2>2. r = s
    BY <2>1
  <2>3. CASE Sweep(s)
    BY <2>3, SweepSpares
  <2>4. CASE Cleanup(s)
    <3>1. call[s].pack = 0
      BY DEF PackInv, JobsApart, OfJob
    <3>2. stored \ {0} \subseteq stored'
      BY <2>4, <3>1 DEF Cleanup
    <3>3. 0 \notin stored
      BY DEF PackInv, Dated
    <3> QED
      BY <3>2, <3>3
  <2>5. ~Orphans(s)
    BY DEF Orphans
  <2> QED
    BY <1>1, <2>2, <2>3, <2>4, <2>5 DEF Deletes
<1> QED
  BY <1>1, StoredStays

\* A fetch can read the packs it was planned against, where no PUT takes effect after its
\* sender settled it: for as long as a retired pack is kept, whichever server retires it,
\* sweeps, scans for orphans or cleans up; and however old the fetch is, a sweep of its
\* own server spares what it reads, through a rebuild of the index (Pinned and apply of
\* app.rs, sweep and orphans of maint.rs, and the fetches of fetch.rs).
THEOREM FetchesServed == ASSUME LatePuts = FALSE PROVE Spec => FetchServed
<1>1. Init => PackInv /\ ReadInv
  BY InitPacks, InitReads
<1>2. Inv /\ Inv' /\ PackInv /\ [Next]_vars => PackInv'
  BY NextPacks
<1>3. Inv /\ Inv' /\ PackInv /\ PackInv' /\ ReadInv /\ [Next]_vars => ReadInv'
  BY NextReads
<1>4. Inv /\ ReadInv => \A s \in Servers : fetch[s].packs \subseteq stored \/ clock >= fetch[s].at + Grace
  BY FetchedStored
<1>5. Inv /\ PackInv /\ ReadInv /\ ReadInv' /\ [Next]_vars =>
        [\A s \in Servers :
             /\ call[s].kind = "sweep" /\ call'[s] # call[s]
             /\ mem'[s].load = fetch[s].load /\ mem'[s].gen <= fetch[s].gen + 1
             => fetch[s].packs \cap stored \subseteq stored']_vars
  BY FetchSpared
<1> QED
  BY <1>1, <1>2, <1>3, <1>4, <1>5, Invariant, PTL DEF Spec, FetchServed

-------------------------------------------------------------------------------
(***************************************************************************)
(* Every variable has the type its field has in the code.                  *)
(***************************************************************************)

\* The inductive invariant.

\* Manifests, and copies of them, as there can be at time t.
DocsBy(t) ==
    [rev : Nat, writer : Nat, packs : Seq(Nat), refs : [Refs -> Values],
     dropped : Seq([id : Objs, at : 0..t]), retired : SUBSET [id : Nat, at : 0..t]]
MemsBy(t) ==
    [up : BOOLEAN, m : DocsBy(t), etag : Nat, stale : BOOLEAN, fresh : BOOLEAN, gen : Nat, load : Nat]
Wants == {"collect", "purge", "repack"}

\* A call in good order, that of a push with the refs it would report.
Typed(c) ==
    /\ DOMAIN c = DOMAIN NoCall /\ c.doc \in DocsBy(clock)
    /\ c.attempt \in 0..(MaxAttempts - 1) /\ c.pack \in 0..Len(made)
    /\ c.kind = "push" /\ c.st # "cleanup" => c.ok \subseteq DOMAIN push[c.push].cmds

TypedAt(s) ==
    /\ mem[s] \in MemsBy(clock)
    /\ fetch[s].packs \subseteq 1..Len(made)
    /\ held[s] \subseteq 1..Len(made)
    /\ ToSet(job[s].sources) \subseteq 1..Len(made)
    /\ job[s].keep \subseteq Objs
    /\ want[s] \subseteq Wants
    /\ failed[s] \in (0 - Backoff)..clock
    /\ Typed(call[s])

PushTyped(p) == push[p].objs \subseteq Objs /\ push[p].res \subseteq DOMAIN push[p].cmds

Uploads ==
    /\ made \in Seq([objs : SUBSET Objs, at : 0..clock])
    /\ stored \subseteq 1..Len(made)
    /\ clock \in 0..MaxClock

Tables == /\ DOMAIN fetch = Servers /\ DOMAIN held = Servers
          /\ DOMAIN want = Servers /\ DOMAIN failed = Servers

TypeInv ==
    /\ Tables /\ Uploads
    /\ man \in DocsBy(clock) /\ \A w \in late : w.doc \in DocsBy(clock)
    /\ \A s \in Servers : TypedAt(s)
    /\ \A p \in Pushes : PushTyped(p)

-------------------------------------------------------------------------------
\* What holds now holds later.

LEMMA DocsLater ==
    ASSUME NEW t \in Nat, NEW u \in Nat, t <= u
    PROVE  DocsBy(t) \subseteq DocsBy(u) /\ MemsBy(t) \subseteq MemsBy(u)
<1>1. 0..t \subseteq 0..u
  OBVIOUS
<1>2. [id : Objs, at : 0..t] \subseteq [id : Objs, at : 0..u] /\ [id : Nat, at : 0..t] \subseteq [id : Nat, at : 0..u]
  BY <1>1
<1>3. PICK A, B, C, D : /\ A = [id : Objs, at : 0..t] /\ B = [id : Objs, at : 0..u]
                        /\ C = SUBSET [id : Nat, at : 0..t] /\ D = SUBSET [id : Nat, at : 0..u]
  OBVIOUS
<1>4. A \subseteq B /\ C \subseteq D
  BY <1>2, <1>3
<1>5. Seq(A) \subseteq Seq(B)
  BY <1>4, SeqMonotonic
<1>6. DocsBy(t) \subseteq DocsBy(u)
  <2>1. DocsBy(t) = [rev : Nat, writer : Nat, packs : Seq(Nat), refs : [Refs -> Values], dropped : Seq(A), retired : C]
    BY <1>3 DEF DocsBy
  <2>2. DocsBy(u) = [rev : Nat, writer : Nat, packs : Seq(Nat), refs : [Refs -> Values], dropped : Seq(B), retired : D]
    BY <1>3 DEF DocsBy
  <2> QED
    BY <1>4, <1>5, <2>1, <2>2
<1> HIDE DEF DocsBy
<1> QED
  BY <1>6 DEF MemsBy

LEMMA NoManTyped == ASSUME NEW t \in Nat PROVE NoMan \in DocsBy(t) /\ NoMem \in MemsBy(t)
<1>1. [r \in Refs |-> Nil] \in [Refs -> Values] /\ <<>> \in Seq([id : Objs, at : 0..t]) /\ <<>> \in Seq(Nat)
  BY DEF Values
<1>2. NoMan \in DocsBy(t)
  BY <1>1 DEF NoMan, DocsBy, None
<1> HIDE DEF DocsBy
<1> QED
  BY <1>2 DEF NoMem, MemsBy, None

-------------------------------------------------------------------------------
\* The values on a manifest.

\* What is kept of a sequence q, up to each of its places.
Keeping(q, cut, N, f) ==
    f = [i \in 0..N |-> IF i = 0 THEN <<>>
                        ELSE IF q[i].at > cut THEN Append(f[i - 1], q[i])
                        ELSE f[i - 1]]

LEMMA UnexpiredUnfolds ==
    ASSUME NEW m, NEW cut
    PROVE  Unexpired(m, cut) = (CHOOSE f : Keeping(m.dropped, cut, Len(m.dropped), f))[Len(m.dropped)]
BY DEF Unexpired, Keeping

LEMMA KeepingExists ==
    ASSUME NEW q, NEW cut, NEW N \in Nat PROVE \E f : Keeping(q, cut, N, f)
<1> DEFINE T == {n \in Nat : \E f : Keeping(q, cut, n, f)}
<1>1. 0 \in T
  <2>1. Keeping(q, cut, 0, [n \in 0..0 |-> <<>>])
    BY DEF Keeping
  <2> QED
    BY <2>1
<1>2. ASSUME NEW n \in Nat, n \in T PROVE n + 1 \in T
  <2>1. PICK f : Keeping(q, cut, n, f)
    BY <1>2
  <2> DEFINE more == IF q[n + 1].at > cut THEN Append(f[n], q[n + 1]) ELSE f[n]
             next == [i \in 0..(n + 1) |-> IF i = n + 1 THEN more ELSE f[i]]
  <2>2. ASSUME NEW i \in 0..(n + 1)
        PROVE  next[i] = IF i = 0 THEN <<>>
                         ELSE IF q[i].at > cut THEN Append(next[i - 1], q[i])
                         ELSE next[i - 1]
    <3>1. CASE i = n + 1
      <4>1. i # 0 /\ i - 1 = n /\ next[n] = f[n]
        BY <3>1
      <4> QED
        BY <3>1, <4>1
    <3>2. CASE i # n + 1
      <4>1. i \in 0..n /\ (i # 0 => next[i - 1] = f[i - 1])
        BY <3>2
      <4>2. f[i] = IF i = 0 THEN <<>>
                   ELSE IF q[i].at > cut THEN Append(f[i - 1], q[i])
                   ELSE f[i - 1]
        BY <2>1, <4>1 DEF Keeping
      <4> QED
        BY <3>2, <4>1, <4>2
    <3> QED
      BY <3>1, <3>2
  <2>3. Keeping(q, cut, n + 1, next)
    BY <2>2 DEF Keeping
  <2> QED
    BY <2>3
<1> HIDE DEF T
<1>3. N \in T
  BY <1>1, <1>2, UpToAll
<1> QED
  BY <1>3 DEF T

LEMMA UnexpiredTyped ==
    ASSUME NEW S, NEW m, m.dropped \in Seq(S), NEW cut PROVE Unexpired(m, cut) \in Seq(S)
<1>1. PICK q, N : q = m.dropped /\ N = Len(q) /\ N \in Nat
  OBVIOUS
<1>2. PICK f : f = CHOOSE g : Keeping(q, cut, N, g)
  OBVIOUS
<1>3. Keeping(q, cut, N, f)
  BY <1>1, <1>2, KeepingExists
<1> DEFINE T == {n \in Nat : n <= N => f[n] \in Seq(S)}
<1>4. 0 \in T
  BY <1>1, <1>3 DEF Keeping
<1>5. ASSUME NEW n \in Nat, n \in T PROVE n + 1 \in T
  <2> SUFFICES ASSUME n + 1 <= N PROVE f[n + 1] \in Seq(S)
    OBVIOUS
  <2>1. f[n] \in Seq(S) /\ q[n + 1] \in S /\ n + 1 \in 0..N /\ n + 1 # 0 /\ (n + 1) - 1 = n
    BY <1>1, <1>5
  <2>2. f[n + 1] \in {Append(f[n], q[n + 1]), f[n]}
    BY <1>3, <2>1 DEF Keeping
  <2>3. Append(f[n], q[n + 1]) \in Seq(S)
    BY <2>1
  <2> QED
    BY <2>1, <2>2, <2>3
<1> HIDE DEF T
<1>6. N \in T
  BY <1>1, <1>4, <1>5, UpToAll
<1>7. f[N] \in Seq(S)
  BY <1>1, <1>6 DEF T
<1> QED
  BY <1>1, <1>2, <1>7, UnexpiredUnfolds

\* A finite set in some order.
LEMMA InSomeOrder == ASSUME NEW S, IsFiniteSet(S) PROVE SetToSeq(S) \in Seq(S)
<1>1. PICK n \in Nat : n = Cardinality(S)
  BY FS_CardinalityType
<1>2. PICK f : f \in Bijection(1..n, S)
  BY <1>1, FS_CardinalityType DEF ExistsBijection
<1>3. f \in [1..n -> S] /\ IsInjective(f)
  BY <1>2 DEF Bijection, Injection, IsInjective
<1>4. SetToSeq(S) \in [1..n -> S]
  BY <1>1, <1>3 DEF SetToSeq
<1> QED
  BY <1>1, <1>4

LEMMA ImageFinite ==
    ASSUME NEW S, IsFiniteSet(S), NEW f, DOMAIN f = S PROVE IsFiniteSet({f[x] : x \in S})
<1>1. PICK g : g = [x \in S |-> f[x]]
  OBVIOUS
<1>2. g \in Surjection(S, {f[x] : x \in S})
  BY <1>1 DEF Surjection
<1> QED
  BY <1>2, FS_Surjection

-------------------------------------------------------------------------------
\* A step of one server.

\* What a step of s may do.
Typing(s) ==
    /\ clock' = clock /\ Uploads' /\ Tables' /\ Len(made) <= Len(made')
    /\ man' \in DocsBy(clock) /\ \A w \in late' : w.doc \in DocsBy(clock)
    /\ \A r \in Servers \ {s} :
          /\ mem'[r] = mem[r] /\ fetch'[r] = fetch[r] /\ held'[r] = held[r] /\ job'[r] = job[r]
          /\ want'[r] = want[r] /\ failed'[r] = failed[r] /\ call'[r] = call[r]
    /\ \A p \in Pushes : push'[p] = push[p] \/ (PushTyped(p)' /\ (push[p].st = "new" \/ push'[p].cmds = push[p].cmds))
    /\ mem'[s] \in MemsBy(clock)
    /\ fetch'[s].packs \subseteq 1..Len(made) /\ held'[s] \subseteq 1..Len(made)
    /\ ToSet(job'[s].sources) \subseteq 1..Len(made) /\ job'[s].keep \subseteq Objs
    /\ want'[s] \subseteq Wants /\ failed'[s] \in {failed[s], clock, 0 - Backoff}
    /\ call'[s] = call[s] \/ Typed(call[s])'

\* The ok of a push's call speaks of commands that stay.
LEMMA TypedStays ==
    ASSUME Inv, TypeInv, NEW r \in Servers, call'[r] = call[r], clock' = clock,
           Len(made) \in Nat, Len(made') \in Nat, Len(made) <= Len(made'),
           \A p \in Pushes : push[p].st = "commit" => push'[p].cmds = push[p].cmds
    PROVE  Typed(call[r])'
<1>1. Typed(call[r])
  BY DEF TypeInv, TypedAt
<1>2. 0..Len(made) \subseteq 0..Len(made') /\ DOMAIN NoCall = DOMAIN NoCall'
  BY DEF NoCall
<1>3. PICK c : c = call[r]
  OBVIOUS
<1>4. ASSUME c.kind = "push", c.st # "cleanup" PROVE c.ok \subseteq DOMAIN push'[c.push].cmds
  <2>1. c.push \in Pushes /\ push[c.push].st = "commit"
    BY <1>3, <1>4 DEF Inv, Linked, Live
  <2>2. push'[c.push].cmds = push[c.push].cmds
    BY <2>1
  <2> QED
    BY <1>1, <1>3, <1>4, <2>2 DEF Typed
<1>5. Typed(c)'
  BY <1>1, <1>2, <1>3, <1>4 DEF Typed
<1> QED
  BY <1>3, <1>5
LEMMA TypedThen ==
    ASSUME NEW r,
           mem'[r] \in MemsBy(clock'), fetch'[r].packs \subseteq 1..Len(made'), held'[r] \subseteq 1..Len(made'),
           ToSet(job'[r].sources) \subseteq 1..Len(made'), job'[r].keep \subseteq Objs, want'[r] \subseteq Wants,
           failed'[r] \in (0 - Backoff)..clock', Typed(call[r])'
    PROVE  TypedAt(r)'
BY DEF TypedAt

LEMMA StepTyped ==
    ASSUME Inv, Inv', TypeInv, NEW s \in Servers, Typing(s) PROVE TypeInv'
<1>1. /\ clock' = clock /\ Len(made) \in Nat /\ Len(made') \in Nat /\ Len(made) <= Len(made')
      /\ 1..Len(made) \subseteq 1..Len(made')
  BY DEF Typing, Inv, Shapes
<1>2. \A p \in Pushes : push[p].st = "commit" => push'[p].cmds = push[p].cmds
  BY DEF Typing
<1>3. ASSUME NEW p \in Pushes PROVE PushTyped(p)'
  BY <1>3 DEF Typing, TypeInv, PushTyped
<1>4. ASSUME NEW r \in Servers \ {s} PROVE TypedAt(r)'
  <2>1. /\ mem'[r] = mem[r] /\ fetch'[r] = fetch[r] /\ held'[r] = held[r] /\ job'[r] = job[r]
        /\ want'[r] = want[r] /\ failed'[r] = failed[r] /\ call'[r] = call[r]
    BY <1>4 DEF Typing
  <2>2. Typed(call[r])'
    BY <1>1, <1>2, <2>1, TypedStays
  <2>3. TypedAt(r)
    BY <1>4 DEF TypeInv
  <2>4. clock \in Nat
    BY DEF Inv, Shapes
  <2>5. /\ mem'[r] \in MemsBy(clock') /\ fetch'[r].packs \subseteq 1..Len(made') /\ held'[r] \subseteq 1..Len(made')
        /\ ToSet(job'[r].sources) \subseteq 1..Len(made')
    BY <1>1, <2>1, <2>3 DEF TypedAt
  <2>6. job'[r].keep \subseteq Objs /\ want'[r] \subseteq Wants /\ failed'[r] \in (0 - Backoff)..clock'
    BY <1>1, <2>1, <2>3 DEF TypedAt
  <2> QED
    BY <2>2, <2>5, <2>6, TypedThen
<1>5. TypedAt(s)'
  <2>1. TypedAt(s)
    BY DEF TypeInv
  <2>2. Typed(call[s])'
    BY <1>1, <1>2, TypedStays DEF Typing
  <2>3. failed'[s] \in (0 - Backoff)..clock
    <3>1. clock \in Nat /\ Backoff \in Nat
      BY ConstantsAssumption DEF Inv, Shapes
    <3>2. failed[s] \in (0 - Backoff)..clock /\ failed'[s] \in {failed[s], clock, 0 - Backoff}
      BY <2>1 DEF Typing, TypedAt
    <3>3. PICK x, y, z : x = failed[s] /\ y = failed'[s] /\ z = clock
      OBVIOUS
    <3>4. z \in Nat /\ x \in (0 - Backoff)..z /\ y \in {x, z, 0 - Backoff} => y \in (0 - Backoff)..z
      BY <3>1
    <3> QED
      BY <3>1, <3>2, <3>3, <3>4
  <2>4. /\ mem'[s] \in MemsBy(clock') /\ fetch'[s].packs \subseteq 1..Len(made') /\ held'[s] \subseteq 1..Len(made')
        /\ ToSet(job'[s].sources) \subseteq 1..Len(made')
    BY <1>1 DEF Typing
  <2>5. job'[s].keep \subseteq Objs /\ want'[s] \subseteq Wants
    BY DEF Typing
  <2> QED
    BY <1>1, <2>2, <2>3, <2>4, <2>5 DEF TypedAt
<1>6. Tables' /\ Uploads' /\ man' \in DocsBy(clock') /\ \A w \in late' : w.doc \in DocsBy(clock')
  BY <1>1 DEF Typing
<1> QED
  BY <1>3, <1>4, <1>5, <1>6 DEF TypeInv

\* What a step of s may do to the servers and the pushes.
Local(s) ==
    /\ DOMAIN fetch' = Servers /\ DOMAIN held' = Servers /\ DOMAIN want' = Servers /\ DOMAIN failed' = Servers
    /\ \A r \in Servers \ {s} :
          /\ mem'[r] = mem[r] /\ fetch'[r] = fetch[r] /\ held'[r] = held[r] /\ job'[r] = job[r]
          /\ want'[r] = want[r] /\ failed'[r] = failed[r] /\ call'[r] = call[r]
    /\ \A p \in Pushes : push'[p] = push[p] \/ (PushTyped(p)' /\ (push[p].st = "new" \/ push'[p].cmds = push[p].cmds))
    /\ mem'[s] = mem[s] \/ mem'[s] \in MemsBy(clock)
    /\ fetch'[s] = fetch[s] \/ fetch'[s].packs \subseteq 1..Len(made)
    /\ held'[s] = held[s] \/ held'[s] \subseteq 1..Len(made)
    /\ job'[s] = job[s] \/ (ToSet(job'[s].sources) \subseteq 1..Len(made) /\ job'[s].keep \subseteq Objs)
    /\ want'[s] \subseteq want[s] \cup Wants /\ failed'[s] \in {failed[s], clock, 0 - Backoff}
    /\ call'[s] = call[s] \/ Typed(call[s])'

Stores == \/ made' = made /\ stored' \subseteq stored
          \/ \E objs \in SUBSET Objs : Upload(objs)
Documents == /\ man' = man \/ man' \in DocsBy(clock)
             /\ \A w \in late' : w \in late \/ w.doc \in DocsBy(clock)

LEMMA OneMore ==
    ASSUME NEW S, NEW q \in Seq(S), NEW e \in S PROVE Append(q, e) \in Seq(S) /\ Len(Append(q, e)) = Len(q) + 1
BY AppendProperties

LEMMA OnePlace == ASSUME NEW n \in Nat, NEW S, S \subseteq 1..n PROVE S \cup {n + 1} \subseteq 1..(n + 1)
OBVIOUS

LEMMA StoresTyped == ASSUME Inv, TypeInv, clock' = clock, Stores PROVE Uploads' /\ Len(made) <= Len(made')
<1>1. Len(made) \in Nat /\ clock \in Nat /\ made \in Seq([objs : SUBSET Objs, at : 0..clock])
      /\ stored \subseteq 1..Len(made) /\ clock \in 0..MaxClock
  BY DEF Inv, Shapes, TypeInv, Uploads
<1>2. CASE made' = made /\ stored' \subseteq stored
  BY <1>1, <1>2 DEF Uploads
<1>3. ASSUME NEW objs \in SUBSET Objs, Upload(objs) PROVE Uploads' /\ Len(made) <= Len(made')
  <2>1. PICK e : e = [objs |-> objs, at |-> clock]
    OBVIOUS
  <2>2. e \in [objs : SUBSET Objs, at : 0..clock]
    BY <1>1, <2>1
  <2>3. made' = Append(made, e) /\ stored' = stored \cup {Len(made) + 1}
    BY <1>3, <2>1 DEF Upload
  <2>4. made' \in Seq([objs : SUBSET Objs, at : 0..clock]) /\ Len(made') = Len(made) + 1
    <3>1. PICK S : S = [objs : SUBSET Objs, at : 0..clock]
      OBVIOUS
    <3>2. made \in Seq(S) /\ e \in S
      BY <1>1, <2>2, <3>1
    <3>3. Append(made, e) \in Seq(S) /\ Len(Append(made, e)) = Len(made) + 1
      BY <3>2, OneMore
    <3>4. made' \in Seq(S) /\ Len(made') = Len(made) + 1
      BY <2>3, <3>3
    <3> QED
      BY <3>1, <3>4, Zenon
  <2>5. stored' \subseteq 1..Len(made')
    <3>1. PICK n \in Nat : n = Len(made)
      BY <1>1
    <3>2. stored \subseteq 1..n /\ stored' = stored \cup {n + 1} /\ Len(made') = n + 1
      BY <1>1, <2>3, <2>4, <3>1
    <3>3. stored' \subseteq 1..(n + 1)
      BY <3>1, <3>2, OnePlace
    <3> QED
      BY <3>2, <3>3
  <2> QED
    BY <1>1, <2>4, <2>5 DEF Uploads
<1> QED
  BY <1>2, <1>3 DEF Stores

LEMMA LocalTyped ==
    ASSUME Inv, TypeInv, NEW s \in Servers, clock' = clock, Stores, Documents, Local(s) PROVE Typing(s)
<1>1. TypedAt(s) /\ man \in DocsBy(clock) /\ \A w \in late : w.doc \in DocsBy(clock)
  BY DEF TypeInv
<1>2. Uploads' /\ Tables' /\ Len(made) <= Len(made')
  BY StoresTyped DEF Tables, Local
<1>3. man' \in DocsBy(clock) /\ \A w \in late' : w.doc \in DocsBy(clock)
  BY <1>1 DEF Documents
<1>4. mem'[s] \in MemsBy(clock) /\ fetch'[s].packs \subseteq 1..Len(made) /\ held'[s] \subseteq 1..Len(made)
  BY <1>1 DEF Local, TypedAt
<1>5. /\ ToSet(job'[s].sources) \subseteq 1..Len(made) /\ job'[s].keep \subseteq Objs
      /\ want'[s] \subseteq Wants /\ failed'[s] \in {failed[s], clock, 0 - Backoff}
  BY <1>1 DEF Local, TypedAt
<1> QED
  BY <1>2, <1>3, <1>4, <1>5 DEF Local, Typing

-------------------------------------------------------------------------------
\* A copy is adopted, held packs with it.

LEMMA ApplyTyped ==
    ASSUME NEW t, NEW ms \in MemsBy(t), NEW m \in DocsBy(t) PROVE Apply(ms, m) \in MemsBy(t)
<1>1. m.writer \in Nat
  BY DEF DocsBy
<1>2. PICK n \in Nat : n = IF Extends(ms, m) THEN ms.gen ELSE ms.gen + 1
  BY DEF MemsBy
<1>3. Apply(ms, m) = [ms EXCEPT !.m = m, !.etag = m.writer, !.stale = FALSE, !.fresh = TRUE, !.gen = n]
  BY <1>2 DEF Apply, MemsBy
<1> HIDE DEF DocsBy
<1> QED
  BY <1>1, <1>3 DEF MemsBy

LEMMA RevalidatedTyped ==
    ASSUME Inv, TypeInv, NEW s \in Servers, NEW ms, ms = Revalidated(mem[s]) PROVE ms \in MemsBy(clock)
<1>1. mem[s] \in MemsBy(clock) /\ man \in DocsBy(clock) /\ man.writer \in Nat
  BY DEF TypeInv, TypedAt, DocsBy
<1> HIDE DEF DocsBy
<1>2. ms \in {[mem[s] EXCEPT !.fresh = TRUE], Apply(mem[s], man)}
  BY DEF Revalidated
<1>3. [mem[s] EXCEPT !.fresh = TRUE] \in MemsBy(clock)
  BY <1>1 DEF MemsBy
<1>4. Apply(mem[s], man) \in MemsBy(clock)
  BY <1>1, ApplyTyped
<1> QED
  BY <1>2, <1>3, <1>4

LEMMA LivePacks == ASSUME Inv, NEW s \in Servers PROVE ToSet(mem[s].m.packs) \subseteq 1..Len(made)
<1>1. mem[s].m.packs \in Seq(1..Len(made))
  BY MemTyped
<1> QED
  BY <1>1 DEF ToSet

LEMMA BecomeTyped ==
    ASSUME Inv, TypeInv, NEW s \in Servers, NEW ms, ms \in MemsBy(clock), Become(s, ms)
    PROVE  /\ mem'[s] \in MemsBy(clock) /\ held'[s] \subseteq 1..Len(made) /\ DOMAIN held' = Servers
           /\ \A r \in Servers \ {s} : mem'[r] = mem[r] /\ held'[r] = held[r]
<1>1. DOMAIN mem = Servers /\ DOMAIN held = Servers /\ held[s] \subseteq 1..Len(made)
  BY DEF Inv, Shapes, TypeInv, Tables, TypedAt
<1>2. HeldAfter(s, ms) \subseteq held[s] \cup ToSet(mem[s].m.packs)
  BY DEF HeldAfter
<1>3. HeldAfter(s, ms) \subseteq 1..Len(made)
  BY <1>1, <1>2, LivePacks
<1> QED
  BY <1>1, <1>3 DEF Become

-------------------------------------------------------------------------------
\* A call goes on, or ends.

LEMMA TypedIs == ASSUME NEW s, NEW c, call'[s] = c, Typed(c)' PROVE Typed(call[s])'
BY DEF Typed

LEMMA PlainTyped ==
    ASSUME Inv', NEW c, DOMAIN c = DOMAIN NoCall, c.doc = NoMan, c.attempt = 0, c.pack \in 0..Len(made'),
           c.kind = "push" => c.ok = {}
    PROVE  Typed(c)'
<1>1. clock' \in Nat /\ NoCall' = NoCall /\ MaxAttempts \in Nat /\ MaxAttempts > 0
  BY ConstantsAssumption DEF Inv, Shapes, NoCall, NoMan
<1>2. NoMan \in DocsBy(clock')
  BY <1>1, NoManTyped
<1> QED
  BY <1>1, <1>2 DEF Typed

LEMMA CallIs ==
    ASSUME NEW kind
    PROVE  /\ DOMAIN Call(kind) = DOMAIN NoCall /\ Call(kind).doc = NoMan /\ Call(kind).attempt = 0
           /\ Call(kind).pack = 0 /\ Call(kind).ok = {} /\ Call(kind).kind = kind
BY DEF Call, NoCall

LEMMA NextTyped == ASSUME Inv', NEW c \in NextCalls PROVE Typed(c)'
<1>1. /\ DOMAIN c = DOMAIN NoCall /\ c.doc = NoMan /\ c.attempt = 0 /\ c.pack = 0 /\ c.kind # "push"
  BY DEF NextCalls, Call, NoCall
<1>2. 0 \in 0..Len(made')
  BY DEF Inv, Shapes
<1> QED
  BY <1>1, <1>2, PlainTyped

LEMMA DoneTyped == ASSUME Inv, Inv', NEW s \in Servers, Done(s)
    PROVE Typed(call[s])' /\ \A r \in Servers \ {s} : call'[r] = call[r]
<1>1. PICK c \in NextCalls : call'[s] = c
  BY DoneIs
<1> QED
  BY <1>1, DoneIs, NextTyped, TypedIs

LEMMA AnswerTyped ==
    ASSUME Inv, TypeInv, NEW p \in Pushes, NEW res, res \subseteq DOMAIN push[p].cmds, push' = Answer(p, res)
    PROVE  \A q \in Pushes : push'[q] = push[q] \/ (PushTyped(q)' /\ push'[q].cmds = push[q].cmds)
<1>1. DOMAIN push = Pushes /\ DOMAIN push[p] = DOMAIN NoPush
  BY DEF Inv, Shapes
<1>2. push'[p].cmds = push[p].cmds /\ push'[p].objs = push[p].objs /\ push'[p].res = res
  BY <1>1 DEF Answer, NoPush
<1>3. PushTyped(p)'
  BY <1>2 DEF TypeInv, PushTyped
<1>4. ASSUME NEW q \in Pushes \ {p} PROVE push'[q] = push[q]
  BY <1>1, <1>4 DEF Answer
<1> QED
  BY <1>2, <1>3, <1>4

LEMMA NoJobTyped == ToSet(NoJob.sources) \subseteq 1..Len(made) /\ NoJob.keep \subseteq Objs
BY DEF NoJob, ToSet

\* A call gives up.
LEMMA GiveUpTyped ==
    ASSUME Inv, Inv', TypeInv, NEW s \in Servers, GiveUp(s), made' = made, clock' = clock, mem' = mem, fetch' = fetch,
           held' = held, want' = want, call[s].kind = "push" => call[s].push \in Pushes
    PROVE  Local(s)
<1>1. Tables /\ DOMAIN call = Servers /\ DOMAIN job = Servers /\ DOMAIN call[s] = DOMAIN NoCall
  BY DEF TypeInv, Inv, Shapes
<1>2. Typed(call[s])' /\ \A r \in Servers \ {s} : call'[r] = call[r]
  <2>1. CASE call[s].pack # 0
    <3>1. PICK c : c = [call[s] EXCEPT !.st = "cleanup"]
      OBVIOUS
    <3>2. call'[s] = c /\ \A r \in Servers \ {s} : call'[r] = call[r]
      BY <1>1, <2>1, <3>1 DEF GiveUp
    <3>3. /\ DOMAIN c = DOMAIN NoCall /\ c.doc = call[s].doc /\ c.attempt = call[s].attempt
          /\ c.pack = call[s].pack /\ c.st = "cleanup"
      BY <1>1, <3>1 DEF NoCall
    <3>4. Typed(call[s])
      BY DEF TypeInv, TypedAt
    <3>5. Typed(c)'
      <4>1. DOMAIN NoCall' = DOMAIN NoCall
        BY DEF NoCall
      <4> QED
        BY <3>3, <3>4, <4>1 DEF Typed
    <3> QED
      BY <3>2, <3>5, TypedIs
  <2>2. CASE call[s].pack = 0
    BY <2>2, DoneTyped DEF GiveUp
  <2> QED
    BY <2>1, <2>2
<1>3. \A q \in Pushes : push'[q] = push[q] \/ (PushTyped(q)' /\ push'[q].cmds = push[q].cmds)
  <2>1. CASE call[s].kind = "push"
    <3>1. push' = Answer(call[s].push, {})
      BY <2>1 DEF GiveUp
    <3> QED
      BY <2>1, <3>1, AnswerTyped
  <2>2. CASE call[s].kind # "push"
    BY <2>2 DEF GiveUp
  <2> QED
    BY <2>1, <2>2
<1>4. /\ job'[s] = job[s] \/ job'[s] = NoJob
      /\ failed'[s] \in {failed[s], clock, 0 - Backoff} /\ DOMAIN failed' = Servers
      /\ \A r \in Servers \ {s} : job'[r] = job[r] /\ failed'[r] = failed[r]
  BY <1>1 DEF GiveUp, Tables
<1> QED
  BY <1>1, <1>2, <1>3, <1>4, NoJobTyped DEF Local, Tables

-------------------------------------------------------------------------------
\* What is written for a call.

LEMMA PushedTyped ==
    ASSUME NEW t \in Nat, clock = t, NEW m \in DocsBy(t), NEW p, AskOk(push[p].cmds),
           NEW ok \in SUBSET DOMAIN push[p].cmds, push[p].pack \in Nat
    PROVE  Pushed(m, p, ok) \in DocsBy(t)
<1>b. PICK cmds : cmds = push[p].cmds
  OBVIOUS
<1>c. PICK pack \in Nat : pack = push[p].pack
  OBVIOUS
<1>1. cmds = push[p].cmds /\ pack = push[p].pack
  BY <1>b, <1>c
<1>a. PICK moved : moved = {r \in ok : m.refs[r] = cmds[r].old}
  OBVIOUS
<1>2. PICK left : left = {r \in moved : Drops(cmds[r], push[p].objs, Ix(m))}
  OBVIOUS
<1>3. PICK E : E = [id : Objs, at : 0..t]
  OBVIOUS
<1>4. DOMAIN cmds \subseteq Refs /\ \A r \in DOMAIN cmds : cmds[r] \in [old : Values, new : Values]
  BY <1>1 DEF AskOk
<1>5. left \subseteq DOMAIN cmds /\ moved \subseteq DOMAIN cmds /\ \A r \in left : cmds[r].old # Nil
  BY <1>1, <1>a, <1>2 DEF Drops
<1>6. PICK drops : drops = {[id |-> cmds[r].old, at |-> t] : r \in left}
  OBVIOUS
<1>7. drops \subseteq E
  <2>1. \A r \in left : cmds[r].old \in Objs
    BY <1>4, <1>5 DEF Values
  <2> QED
    BY <1>3, <1>6, <2>1
<1>8. IsFiniteSet(drops)
  <2>1. IsFiniteSet(left)
    BY <1>4, <1>5, RefsAssumption, FS_Subset
  <2>2. PICK f : f = [r \in left |-> [id |-> cmds[r].old, at |-> t]]
    OBVIOUS
  <2>3. drops = {f[r] : r \in left} /\ DOMAIN f = left
    BY <1>6, <2>2
  <2> QED
    BY <2>1, <2>3, ImageFinite
<1>9. m.dropped \in Seq(E) /\ SetToSeq(drops) \in Seq(E)
  <2>1. SetToSeq(drops) \in Seq(drops)
    BY <1>8, InSomeOrder
  <2>2. SetToSeq(drops) \in Seq(E)
    BY <1>7, <2>1, SeqMonotonic
  <2>3. m.dropped \in Seq(E)
    BY <1>3 DEF DocsBy
  <2> QED
    BY <2>2, <2>3
<1>10. PICK all : all = m.dropped \o SetToSeq(drops)
  OBVIOUS
<1>11. all \in Seq(E) /\ Len(all) \in Nat
  BY <1>9, <1>10, ConcatProperties
<1>12. PICK rest : rest = IF Len(all) - MaxDropped > 0 THEN SubSeq(all, Len(all) - MaxDropped + 1, Len(all)) ELSE all
  OBVIOUS
<1>13. rest \in Seq(E)
  <2>1. MaxDropped \in Nat
    BY ConstantsAssumption
  <2>2. CASE Len(all) - MaxDropped > 0
    <3>1. PICK j \in Nat : j = Len(all)
      BY <1>11
    <3>2. PICK i \in Int : i = j - MaxDropped + 1 /\ 1 <= i
      BY <2>1, <2>2, <3>1
    <3>3. \A k \in i..j : k \in 1..j
      BY <3>2
    <3>4. \A k \in i..j : all[k] \in E
      BY <1>11, <3>1, <3>3, ElementOfSeq
    <3>5. SubSeq(all, i, j) \in Seq(E)
      BY <3>4, SubSeqProperties
    <3> QED
      BY <1>12, <2>2, <3>1, <3>2, <3>5
  <2>3. CASE ~(Len(all) - MaxDropped > 0)
    BY <1>11, <1>12, <2>3
  <2> QED
    BY <2>2, <2>3
<1>14. PICK refs : refs = [r \in Refs |-> IF r \in moved THEN cmds[r].new ELSE m.refs[r]]
  OBVIOUS
<1>15. refs \in [Refs -> Values]
  <2>1. m.refs \in [Refs -> Values]
    BY DEF DocsBy
  <2> QED
    BY <1>4, <1>5, <1>14, <2>1
<1>16. PICK packs : packs = IF pack = 0 THEN m.packs ELSE Append(m.packs, pack)
  OBVIOUS
<1>17. packs \in Seq(Nat)
  <2>1. m.packs \in Seq(Nat)
    BY DEF DocsBy
  <2>2. Append(m.packs, pack) \in Seq(Nat)
    BY <2>1, OneMore
  <2> QED
    BY <1>16, <2>1, <2>2
<1>18. Pushed(m, p, ok) = [m EXCEPT !.refs = refs, !.dropped = rest, !.packs = packs]
  <2>1. drops = {[id |-> push[p].cmds[r].old, at |-> clock] : r \in left}
    BY <1>1, <1>6
  <2>2. left = {r \in moved : Drops(push[p].cmds[r], push[p].objs, Ix(m))}
    BY <1>1, <1>2
  <2>3. moved = {r \in ok : m.refs[r] = push[p].cmds[r].old}
    BY <1>1, <1>a
  <2>4. refs = [r \in Refs |-> IF r \in moved THEN push[p].cmds[r].new ELSE m.refs[r]]
    BY <1>1, <1>14
  <2>5. packs = IF push[p].pack = 0 THEN m.packs ELSE Append(m.packs, push[p].pack)
    BY <1>1, <1>16
  <2> QED
    BY <2>1, <2>2, <2>3, <2>4, <2>5, <1>10, <1>12 DEF Pushed
<1> QED
  BY <1>3, <1>13, <1>15, <1>17, <1>18 DEF DocsBy

LEMMA MergedTyped ==
    ASSUME NEW t \in Nat, clock = t, NEW m \in DocsBy(t), IsDoc(m), NEW i \in Int, NEW j \in Int,
           1 <= i, i <= j + 1, j <= Len(m.packs), NEW pack \in 1..Len(made), Len(made) \in Nat
    PROVE  Merged(m, i, j, pack) \in DocsBy(t)
<1>1. PICK n : n = Merged(m, i, j, pack)
  OBVIOUS
<1>2. n.packs \in Seq(1..Len(made)) /\ n.retired = m.retired \cup {[id |-> m.packs[k], at |-> clock] : k \in i..j}
  <2>1. MergedAs(m, i, j, pack, Merged(m, i, j, pack))
    BY MergedPacks
  <2> QED
    BY <1>1, <2>1 DEF MergedAs
<1>3. PICK packs, gone : packs = n.packs /\ gone = n.retired
  OBVIOUS
<1>4. packs \in Seq(Nat)
  BY <1>2, <1>3, SeqMonotonic
<1>5. gone \in SUBSET [id : Nat, at : 0..t]
  <2>1. m.packs \in Seq(Nat) /\ m.retired \subseteq [id : Nat, at : 0..t]
    BY DEF DocsBy
  <2>2. \A k \in i..j : m.packs[k] \in Nat
    BY <2>1
  <2> QED
    BY <1>2, <1>3, <2>1, <2>2
<1>6. n = [m EXCEPT !.packs = packs, !.retired = gone]
  <2>1. PICK a, b : n = [m EXCEPT !.packs = a, !.retired = b]
    BY <1>1 DEF Merged
  <2>2. a = n.packs /\ b = n.retired
    BY <2>1 DEF DocsBy
  <2> QED
    BY <1>3, <2>1, <2>2
<1> QED
  BY <1>1, <1>4, <1>5, <1>6 DEF DocsBy

LEMMA DroppedTyped ==
    ASSUME NEW t, NEW m \in DocsBy(t), NEW cut PROVE [m EXCEPT !.dropped = Unexpired(m, cut)] \in DocsBy(t)
<1>1. PICK d : d = Unexpired(m, cut)
  OBVIOUS
<1>2. m.dropped \in Seq([id : Objs, at : 0..t])
  BY DEF DocsBy
<1>3. d \in Seq([id : Objs, at : 0..t])
  BY <1>1, <1>2, UnexpiredTyped
<1> QED
  BY <1>1, <1>3 DEF DocsBy

LEMMA SavedTyped ==
    ASSUME NEW t, NEW m \in DocsBy(t), nonces \in Nat
    PROVE  [m EXCEPT !.rev = @ + 1, !.writer = nonces + 1] \in DocsBy(t)
<1>1. PICK n \in Nat : n = m.rev + 1
  BY DEF DocsBy
<1>2. PICK w \in Nat : w = nonces + 1
  OBVIOUS
<1>3. [m EXCEPT !.rev = n, !.writer = w] \in DocsBy(t)
  BY DEF DocsBy
<1> QED
  BY <1>1, <1>2, <1>3

\* The write is known to have succeeded.
LEMMA SucceedTyped ==
    ASSUME Inv, Inv', TypeInv, NEW s \in Servers, NEW c, NEW doc \in DocsBy(clock), Succeed(s, c, doc),
           c.kind = "push" => c.push \in Pushes /\ c.ok \subseteq DOMAIN push[c.push].cmds,
           clock' = clock, made' = made, fetch' = fetch, failed' = failed
    PROVE  Local(s)
<1>1. /\ Tables /\ DOMAIN job = Servers /\ mem[s] \in MemsBy(clock) /\ clock \in Nat
  BY DEF Inv, Shapes, TypeInv, TypedAt
<1>2. PICK ms : Become(s, ms) /\ ms \in {Apply(mem[s], doc),
                                        [mem[s] EXCEPT !.m = doc, !.etag = doc.writer, !.fresh = TRUE],
                                        [mem[s] EXCEPT !.m = doc, !.etag = doc.writer],
                                        [mem[s] EXCEPT !.stale = TRUE, !.etag = None]}
  BY DEF Succeed
<1>3. ms \in MemsBy(clock)
  <2>1. PICK w \in Nat : w = doc.writer
    BY DEF DocsBy
  <2>2. Apply(mem[s], doc) \in MemsBy(clock)
    BY <1>1, ApplyTyped
  <2>3. /\ [mem[s] EXCEPT !.m = doc, !.etag = w, !.fresh = TRUE] \in MemsBy(clock)
        /\ [mem[s] EXCEPT !.m = doc, !.etag = w] \in MemsBy(clock)
        /\ [mem[s] EXCEPT !.stale = TRUE, !.etag = None] \in MemsBy(clock)
    BY <1>1 DEF MemsBy, None
  <2> QED
    BY <1>2, <2>1, <2>2, <2>3
<1>4. /\ mem'[s] \in MemsBy(clock) /\ held'[s] \subseteq 1..Len(made) /\ DOMAIN held' = Servers
      /\ \A r \in Servers \ {s} : mem'[r] = mem[r] /\ held'[r] = held[r]
  BY <1>2, <1>3, BecomeTyped
<1>5. \A q \in Pushes : push'[q] = push[q] \/ (PushTyped(q)' /\ push'[q].cmds = push[q].cmds)
  <2>1. CASE c.kind = "push"
    <3>1. push' = Answer(c.push, c.ok)
      BY <2>1 DEF Succeed
    <3> QED
      BY <2>1, <3>1, AnswerTyped
  <2>2. CASE c.kind # "push"
    BY <2>2 DEF Succeed
  <2> QED
    BY <2>1, <2>2
<1>6. /\ DOMAIN want' = Servers /\ want'[s] \subseteq want[s] \cup Wants
      /\ \A r \in Servers \ {s} : want'[r] = want[r]
  BY <1>1 DEF Succeed, AfterPush, Tables, Wants
<1>7. /\ job'[s] = job[s] \/ job'[s] = NoJob
      /\ \A r \in Servers \ {s} : job'[r] = job[r]
  BY <1>1 DEF Succeed
<1>8. Typed(call[s])' /\ \A r \in Servers \ {s} : call'[r] = call[r]
  BY DoneTyped DEF Succeed
<1> QED
  BY <1>1, <1>4, <1>5, <1>6, <1>7, <1>8, NoJobTyped DEF Local, Tables

\* What a call says that writes, and that settles.
Says(s, c) ==
    /\ DOMAIN c = DOMAIN NoCall /\ c.kind = call[s].kind /\ c.attempt = call[s].attempt /\ c.pack = call[s].pack
    /\ c.kind = "push" => c.push \in Pushes /\ c.ok \subseteq DOMAIN push[c.push].cmds

LEMMA SettlesTyped ==
    ASSUME Inv, TypeInv, NEW s \in Servers, NEW c, Says(s, c), NEW doc \in DocsBy(clock), NEW first,
           clock' = clock, made' = made, mem' = mem, held' = held, push' = push, job' = job, want' = want,
           fetch' = fetch, failed' = failed,
           call' = [call EXCEPT ![s] = [c EXCEPT !.st = "settle", !.tried = TRUE, !.doc = doc, !.first = first]]
    PROVE  Local(s)
<1>1. PICK d : d = [c EXCEPT !.st = "settle", !.tried = TRUE, !.doc = doc, !.first = first]
  OBVIOUS
<1>2. DOMAIN call = Servers /\ Tables /\ Typed(call[s])
  BY DEF Inv, Shapes, TypeInv, TypedAt
<1>3. call'[s] = d /\ \A r \in Servers \ {s} : call'[r] = call[r]
  BY <1>1, <1>2
<1>4. /\ DOMAIN d = DOMAIN NoCall /\ d.kind = c.kind /\ d.st = "settle" /\ d.doc = doc /\ d.attempt = c.attempt
      /\ d.pack = c.pack /\ d.push = c.push /\ d.ok = c.ok
  BY <1>1 DEF Says, NoCall
<1>5. Typed(d)'
  <2>1. d.attempt \in 0..(MaxAttempts - 1) /\ d.pack \in 0..Len(made)
    BY <1>2, <1>4 DEF Says, Typed
  <2>2. DOMAIN NoCall' = DOMAIN NoCall
    BY DEF NoCall
  <2> QED
    BY <1>4, <2>1, <2>2 DEF Says, Typed
<1>6. Typed(call[s])'
  BY <1>3, <1>5, TypedIs
<1> QED
  BY <1>2, <1>3, <1>6 DEF Local, Tables

\* What every step comes to, but a late write and a tick.
Goes(s) == clock' = clock /\ Stores /\ Documents /\ Local(s)

LEMMA GoesTyped == ASSUME Inv, Inv', TypeInv, NEW s \in Servers, Goes(s) PROVE TypeInv'
BY LocalTyped, StepTyped DEF Goes

LEMMA SaveTyped ==
    ASSUME Inv, Inv', TypeInv, NEW s \in Servers, NEW c, Says(s, c), NEW m \in DocsBy(clock), Save(s, c, m)
    PROVE  Goes(s)
<1>1. PICK doc : doc = [m EXCEPT !.rev = @ + 1, !.writer = nonces + 1]
  OBVIOUS
<1>2. doc \in DocsBy(clock)
  BY <1>1, SavedTyped DEF Inv, Shapes
<1>3. clock' = clock /\ made' = made /\ stored' = stored /\ fetch' = fetch /\ failed' = failed
  BY DEF Save
<1>4. /\ Succeed(s, c, doc)
         \/ \E first : /\ call' = [call EXCEPT ![s] = [c EXCEPT !.st = "settle",
                                           !.tried = TRUE, !.doc = doc, !.first = first]]
                       /\ UNCHANGED <<mem, held, push, job, want>>
      /\ man' \in {man, doc}
      /\ late' = late \/ late' = late \cup {[etag |-> mem[s].etag, doc |-> doc, call |-> c]}
  BY <1>1 DEF Save
<1>5. Local(s)
  <2>1. CASE Succeed(s, c, doc)
    BY <1>2, <1>3, <2>1, SucceedTyped DEF Says
  <2>2. ASSUME NEW first, call' = [call EXCEPT ![s] = [c EXCEPT !.st = "settle",
                                           !.tried = TRUE, !.doc = doc, !.first = first]],
               UNCHANGED <<mem, held, push, job, want>>
        PROVE  Local(s)
    BY <1>2, <1>3, <2>2, SettlesTyped
  <2> QED
    BY <1>4, <2>1, <2>2
<1>6. Documents
  <2>1. PICK w : w = [etag |-> mem[s].etag, doc |-> doc, call |-> c]
    OBVIOUS
  <2>2. w.doc = doc /\ man' \in {man, doc} /\ (late' = late \/ late' = late \cup {w})
    BY <1>4, <2>1
  <2>3. man' = man \/ man' \in DocsBy(clock)
    BY <1>2, <2>2
  <2>4. \A v \in late' : v \in late \/ v.doc \in DocsBy(clock)
    BY <1>2, <2>2
  <2> QED
    BY <2>3, <2>4 DEF Documents
<1> QED
  BY <1>3, <1>5, <1>6 DEF Goes, Stores

-------------------------------------------------------------------------------
\* The steps, but those that save.

\* What a step does, table by table.
CopyGoes(s) == (mem' = mem /\ held' = held) \/ \E ms \in MemsBy(clock) : Become(s, ms)
WantGoes(s) == want' = want \/ \E W : want' = [want EXCEPT ![s] = W] /\ W \subseteq want[s] \cup Wants
FailGoes(s) == failed' = failed \/ failed' = [failed EXCEPT ![s] = clock]
JobGoes(s) == \/ job' = job
              \/ \E j : /\ job' = [job EXCEPT ![s] = j]
                        /\ ToSet(j.sources) \subseteq 1..Len(made) /\ j.keep \subseteq Objs
CallGoes(s) == call' = call \/ (Typed(call[s])' /\ \A r \in Servers \ {s} : call'[r] = call[r])
PushGoes == \A q \in Pushes : push'[q] = push[q] \/ (PushTyped(q)' /\ push'[q].cmds = push[q].cmds)

LEMMA TablesAre ==
    ASSUME Inv, TypeInv
    PROVE  /\ DOMAIN fetch = Servers /\ DOMAIN held = Servers /\ DOMAIN want = Servers /\ DOMAIN failed = Servers
           /\ DOMAIN mem = Servers /\ DOMAIN job = Servers /\ DOMAIN call = Servers
           /\ clock \in Nat /\ Len(made) \in Nat
BY DEF Inv, Shapes, TypeInv, Tables

LEMMA AtGoes ==
    ASSUME Inv, TypeInv, NEW s \in Servers, clock' = clock, Stores, man' = man, late' = late, fetch' = fetch,
           CopyGoes(s), WantGoes(s), FailGoes(s), JobGoes(s), CallGoes(s), PushGoes
    PROVE  Goes(s)
<1>1. /\ mem'[s] = mem[s] \/ mem'[s] \in MemsBy(clock)
      /\ held'[s] = held[s] \/ held'[s] \subseteq 1..Len(made)
      /\ DOMAIN held' = Servers /\ \A r \in Servers \ {s} : mem'[r] = mem[r] /\ held'[r] = held[r]
  <2>1. CASE mem' = mem /\ held' = held
    BY <2>1, TablesAre
  <2>2. ASSUME NEW ms \in MemsBy(clock), Become(s, ms)
        PROVE  /\ mem'[s] \in MemsBy(clock) /\ held'[s] \subseteq 1..Len(made) /\ DOMAIN held' = Servers
               /\ \A r \in Servers \ {s} : mem'[r] = mem[r] /\ held'[r] = held[r]
    BY <2>2, BecomeTyped
  <2> QED
    BY <2>1, <2>2 DEF CopyGoes
<1>2. /\ DOMAIN want' = Servers /\ want'[s] \subseteq want[s] \cup Wants
      /\ \A r \in Servers \ {s} : want'[r] = want[r]
  BY TablesAre DEF WantGoes
<1>3. /\ DOMAIN failed' = Servers /\ failed'[s] \in {failed[s], clock}
      /\ \A r \in Servers \ {s} : failed'[r] = failed[r]
  BY TablesAre DEF FailGoes
<1>4. /\ job'[s] = job[s] \/ (ToSet(job'[s].sources) \subseteq 1..Len(made) /\ job'[s].keep \subseteq Objs)
      /\ \A r \in Servers \ {s} : job'[r] = job[r]
  BY TablesAre DEF JobGoes
<1>5. /\ call'[s] = call[s] \/ Typed(call[s])'
      /\ \A r \in Servers \ {s} : call'[r] = call[r]
  BY DEF CallGoes
<1>6. DOMAIN fetch' = Servers
  BY TablesAre
<1>7. Local(s)
  BY <1>1, <1>2, <1>3, <1>4, <1>5, <1>6 DEF Local, PushGoes
<1>8. Documents
  BY DEF Documents
<1> QED
  BY <1>7, <1>8 DEF Goes

LEMMA LooksGo == ASSUME Inv, TypeInv, NEW s \in Servers, Become(s, Revalidated(mem[s])) PROVE CopyGoes(s)
<1>1. Revalidated(mem[s]) \in MemsBy(clock)
  BY RevalidatedTyped
<1> QED
  BY <1>1 DEF CopyGoes

LEMMA DoneGoes == ASSUME Inv, Inv', TypeInv, NEW s \in Servers, Done(s) PROVE CallGoes(s)
BY DoneTyped DEF CallGoes

LEMMA PlainGoes ==
    ASSUME Inv, Inv', TypeInv, NEW s \in Servers, NEW c, call' = [call EXCEPT ![s] = c],
           DOMAIN c = DOMAIN NoCall, c.doc = NoMan, c.attempt = 0, c.pack \in 0..Len(made'),
           c.kind = "push" => c.ok = {}
    PROVE  CallGoes(s)
<1>1. call'[s] = c /\ \A r \in Servers \ {s} : call'[r] = call[r]
  BY TablesAre
<1>2. Typed(c)'
  BY PlainTyped
<1> QED
  BY <1>1, <1>2, TypedIs DEF CallGoes

\* The call goes on, with what is about to be deleted.
LEMMA GoneGoes ==
    ASSUME Inv, TypeInv, NEW s \in Servers, NEW gone, call' = [call EXCEPT ![s].gone = gone],
           clock' = clock, made' = made, call[s].kind # "push"
    PROVE  CallGoes(s)
<1>1. PICK c : c = [call[s] EXCEPT !.gone = gone]
  OBVIOUS
<1>2. DOMAIN call[s] = DOMAIN NoCall /\ Typed(call[s])
  BY DEF Inv, Shapes, TypeInv, TypedAt
<1>3. /\ DOMAIN c = DOMAIN NoCall /\ c.doc = call[s].doc /\ c.attempt = call[s].attempt
      /\ c.pack = call[s].pack /\ c.kind = call[s].kind
  BY <1>1, <1>2 DEF NoCall
<1>4. call'[s] = c /\ \A r \in Servers \ {s} : call'[r] = call[r]
  BY <1>1, TablesAre
<1>5. Typed(c)'
  <2>1. DOMAIN NoCall' = DOMAIN NoCall
    BY DEF NoCall
  <2> QED
    BY <1>2, <1>3, <2>1 DEF Typed
<1> QED
  BY <1>4, <1>5, TypedIs DEF CallGoes

LEMMA StaysGoes ==
    /\ push' = push => PushGoes
    /\ \A s \in Servers :
          /\ mem' = mem /\ held' = held => CopyGoes(s)
          /\ want' = want => WantGoes(s)
          /\ failed' = failed => FailGoes(s)
          /\ job' = job => JobGoes(s)
          /\ call' = call => CallGoes(s)
BY DEF PushGoes, CopyGoes, WantGoes, FailGoes, JobGoes, CallGoes

LEMMA NoJobGoes == ASSUME NEW s, job' = [job EXCEPT ![s] = NoJob] PROVE JobGoes(s)
BY NoJobTyped DEF JobGoes

LEMMA AnswerGoes ==
    ASSUME Inv, TypeInv, NEW p \in Pushes, NEW res, res \subseteq DOMAIN push[p].cmds, push' = Answer(p, res)
    PROVE  PushGoes
BY AnswerTyped DEF PushGoes

LEMMA LookTypes == ASSUME Inv, Inv', TypeInv, NEW s \in Servers, Look(s) PROVE Goes(s)
<1>1. CopyGoes(s)
  BY LooksGo DEF Look
<1> QED
  BY <1>1, StaysGoes, AtGoes DEF Look, Stores

LEMMA RequestTypes ==
    ASSUME Inv, Inv', TypeInv, NEW s \in Servers, NEW kind \in {"collect", "purge", "repack"}, Request(s, kind)
    PROVE  Goes(s)
<1>1. WantGoes(s)
  <2>1. PICK W : want' = [want EXCEPT ![s] = W] /\ W \subseteq want[s] \cup Wants
    BY DEF Request, Wants
  <2> QED
    BY <2>1 DEF WantGoes
<1> QED
  BY <1>1, StaysGoes, AtGoes DEF Request, Stores

LEMMA RestoreTypes ==
    ASSUME Inv, Inv', TypeInv, NEW s \in Servers, NEW r, NEW o, Restore(s, r, o) PROVE Goes(s)
<1>1. PICK c : c = [Call("restore") EXCEPT !.ref = r, !.id = o]
  OBVIOUS
<1>2. DOMAIN c = DOMAIN NoCall /\ c.doc = NoMan /\ c.attempt = 0 /\ c.pack = 0 /\ c.kind = "restore"
  BY <1>1 DEF Call, NoCall
<1>3. call' = [call EXCEPT ![s] = c]
  BY <1>1 DEF Restore
<1>4. 0 \in 0..Len(made')
  BY TablesAre DEF Restore
<1>5. CallGoes(s)
  BY <1>2, <1>3, <1>4, PlainGoes
<1> QED
  BY <1>5, StaysGoes, AtGoes DEF Restore, Stores

LEMMA RoundTypes == ASSUME Inv, Inv', TypeInv, NEW s \in Servers, Round(s) PROVE Goes(s)
<1>1. PICK c : c = Call("sweep")
  OBVIOUS
<1>a. call' = [call EXCEPT ![s] = c] /\ 0 \in 0..Len(made')
  BY <1>1, TablesAre DEF Round
<1>b. DOMAIN c = DOMAIN NoCall /\ c.doc = NoMan /\ c.attempt = 0 /\ c.pack = 0 /\ c.kind = "sweep"
  BY <1>1 DEF Call, NoCall
<1>2. CallGoes(s)
  BY <1>a, <1>b, PlainGoes
<1> QED
  BY <1>2, StaysGoes, AtGoes DEF Round, Stores

LEMMA MergeTypes == ASSUME Inv, Inv', TypeInv, NEW s \in Servers, Merge(s) PROVE Goes(s)
<1>1. WantGoes(s)
  BY DEF Merge, AfterPush, WantGoes, Wants
<1>2. CallGoes(s)
  BY DoneGoes DEF Merge
<1> QED
  BY <1>1, <1>2, StaysGoes, AtGoes DEF Merge, Stores

LEMMA CleanupTypes == ASSUME Inv, Inv', TypeInv, NEW s \in Servers, Cleanup(s) PROVE Goes(s)
<1>1. CallGoes(s)
  BY DoneGoes DEF Cleanup
<1>2. CopyGoes(s) /\ stored' \subseteq stored
  BY LooksGo, StaysGoes DEF Cleanup
<1> QED
  BY <1>1, <1>2, StaysGoes, AtGoes DEF Cleanup, Stores

LEMMA SweepTypes == ASSUME Inv, Inv', TypeInv, NEW s \in Servers, Sweep(s) PROVE Goes(s)
<1>1. CallGoes(s)
  BY DoneGoes, GoneGoes DEF Sweep
<1>2. CopyGoes(s) /\ stored' \subseteq stored
  BY LooksGo, StaysGoes DEF Sweep
<1> QED
  BY <1>1, <1>2, StaysGoes, AtGoes DEF Sweep, Stores

LEMMA OrphansTypes == ASSUME Inv, Inv', TypeInv, NEW s \in Servers, Orphans(s) PROVE Goes(s)
<1>1. CallGoes(s)
  BY DoneGoes, GoneGoes DEF Orphans
<1>2. CopyGoes(s) /\ stored' \subseteq stored
  BY LooksGo, StaysGoes DEF Orphans
<1> QED
  BY <1>1, <1>2, StaysGoes, AtGoes DEF Orphans, Stores

LEMMA ConsiderTypes == ASSUME Inv, Inv', TypeInv, NEW s \in Servers, Consider(s) PROVE Goes(s)
<1>1. WantGoes(s)
  BY DEF Consider, WantGoes, Wants
<1>2. CallGoes(s)
  <2>1. PICK c : /\ call' = [call EXCEPT ![s] = c]
                 /\ c \in {NoCall, Call("merge"), [Call("prune") EXCEPT !.cut = clock - Keep, !.round = TRUE]}
    BY DEF Consider
  <2>2. DOMAIN c = DOMAIN NoCall /\ c.doc = NoMan /\ c.attempt = 0 /\ c.pack = 0 /\ c.kind # "push"
    <3>1. CASE c = NoCall
      BY <3>1 DEF NoCall
    <3>2. CASE c = Call("merge")
      BY <3>2 DEF Call, NoCall
    <3>3. CASE c = [Call("prune") EXCEPT !.cut = clock - Keep, !.round = TRUE]
      BY <3>3 DEF Call, NoCall
    <3> QED
      BY <2>1, <3>1, <3>2, <3>3
  <2>3. 0 \in 0..Len(made')
    BY TablesAre DEF Consider
  <2> QED
    BY <2>1, <2>2, <2>3, PlainGoes
<1> QED
  BY <1>1, <1>2, StaysGoes, AtGoes DEF Consider, Stores

\* What packs, indexes and manifests are made of.
LEMMA MadeObjs ==
    ASSUME Inv, TypeInv PROVE \A k \in 1..Len(made) : made[k].objs \subseteq Objs
<1>1. made \in Seq([objs : SUBSET Objs, at : 0..clock])
  BY DEF TypeInv, Uploads
<1>2. \A k \in 1..Len(made) : made[k] \in [objs : SUBSET Objs, at : 0..clock]
  BY <1>1, ElementOfSeq
<1> QED
  BY <1>2

LEMMA IxObjs == ASSUME Inv, TypeInv, NEW m, m.packs \in Seq(1..Len(made)) PROVE Held(Ix(m)) \subseteq Objs
<1>1. \A i \in DOMAIN m.packs : m.packs[i] \in 1..Len(made)
  OBVIOUS
<1>2. \A i \in DOMAIN m.packs : Ix(m)[i] \subseteq Objs
  BY <1>1, MadeObjs DEF Ix
<1> QED
  BY <1>2 DEF Held, Ix

LEMMA TipsTyped == ASSUME NEW t, NEW m \in DocsBy(t), NEW cut PROVE Tips(m, cut) \subseteq Objs
<1>1. PICK E : E = [id : Objs, at : 0..t]
  OBVIOUS
<1>2. m.dropped \in Seq(E) /\ m.refs \in [Refs -> Values]
  BY <1>1 DEF DocsBy
<1>3. PICK q : q = Unexpired(m, cut)
  OBVIOUS
<1>4. q \in Seq(E)
  BY <1>2, <1>3, UnexpiredTyped
<1>5. \A d \in ToSet(q) : d \in E
  BY <1>4, ToSetOf
<1>6. \A d \in ToSet(q) : d.id \in Objs
  BY <1>1, <1>5
<1>7. RefValues(m) \subseteq Objs
  BY <1>2 DEF RefValues, Values
<1> QED
  BY <1>3, <1>6, <1>7 DEF Tips

LEMMA RevalidatedPacks ==
    ASSUME Inv, NEW s \in Servers, NEW ms, ms = Revalidated(mem[s])
    PROVE  ms.m.packs \in Seq(1..Len(made)) /\ ToSet(ms.m.packs) \subseteq 1..Len(made)
<1>1. DOMAIN mem[s] = DOMAIN NoMem
  BY MemTyped
<1>2. ms.m = mem[s].m \/ ms.m = man
  BY <1>1 DEF Revalidated, Apply, NoMem
<1>3. ms.m.packs \in Seq(1..Len(made))
  BY <1>2, MemTyped, ManTyped
<1> QED
  BY <1>3, ToSetOf

LEMMA CollectStartTypes == ASSUME Inv, Inv', TypeInv, NEW s \in Servers, CollectStart(s) PROVE Goes(s)
<1>1. PICK ms : ms = Revalidated(mem[s])
  OBVIOUS
<1>2. PICK cut : cut = Cutoff("purge" \in want[s])
  OBVIOUS
<1>3. PICK keep : keep = Closure(Ix(ms.m), Tips(ms.m, cut))
  OBVIOUS
<1>4. PICK later : later = Cutoff(FALSE)
  OBVIOUS
<1>5. ms.m \in DocsBy(clock)
  BY <1>1, RevalidatedTyped DEF MemsBy
<1>6. keep \subseteq Objs
  BY <1>3, <1>5, TipsTyped, ClosureHeld
<1>7. \/ job' = job
      \/ job' = [job EXCEPT ![s] = [kind |-> "collect", sources |-> ms.m.packs, keep |-> keep,
                                    cut |-> cut, gen |-> ms.gen, load |-> ms.load]]
  BY <1>1, <1>2, <1>3 DEF CollectStart
<1>8. JobGoes(s)
  <2>1. PICK j : j = [kind |-> "collect", sources |-> ms.m.packs, keep |-> keep,
                      cut |-> cut, gen |-> ms.gen, load |-> ms.load]
    OBVIOUS
  <2>2. ToSet(j.sources) \subseteq 1..Len(made) /\ j.keep \subseteq Objs
    BY <1>1, <1>6, <2>1, RevalidatedPacks
  <2> QED
    BY <1>7, <2>1, <2>2 DEF JobGoes
<1>9. CallGoes(s)
  <2>1. PICK c : c = [Call("prune") EXCEPT !.cut = later]
    OBVIOUS
  <2>2. DOMAIN c = DOMAIN NoCall /\ c.doc = NoMan /\ c.attempt = 0 /\ c.pack = 0 /\ c.kind = "prune"
    BY <2>1 DEF Call, NoCall
  <2>3. call' = call \/ call' = [call EXCEPT ![s] = c]
    BY <1>4, <2>1 DEF CollectStart
  <2>4. 0 \in 0..Len(made')
    BY TablesAre DEF CollectStart
  <2> QED
    BY <2>2, <2>3, <2>4, PlainGoes, StaysGoes
<1>10. CopyGoes(s)
  BY LooksGo, StaysGoes DEF CollectStart
<1>11. FailGoes(s)
  BY DEF CollectStart, FailGoes
<1>12. WantGoes(s)
  <2>1. want' = [want EXCEPT ![s] = want[s] \ {"collect", "purge"}]
    BY DEF CollectStart
  <2>2. want[s] \ {"collect", "purge"} \subseteq want[s] \cup Wants
    OBVIOUS
  <2> QED
    BY <2>1, <2>2 DEF WantGoes
<1> QED
  BY <1>8, <1>9, <1>10, <1>11, <1>12, StaysGoes, AtGoes DEF CollectStart, Stores

LEMMA RepackStartTypes == ASSUME Inv, Inv', TypeInv, NEW s \in Servers, RepackStart(s) PROVE Goes(s)
<1>1. PICK sources :
         job' = job \/ (ToSet(sources) \subseteq stored
                        /\ job' = [job EXCEPT ![s] = [NoJob EXCEPT !.kind = "repack", !.sources = sources]])
  BY DEF RepackStart
<1>2. JobGoes(s)
  <2>1. PICK j : j = [NoJob EXCEPT !.kind = "repack", !.sources = sources]
    OBVIOUS
  <2>2. j.sources = sources /\ j.keep = {}
    BY <2>1 DEF NoJob
  <2>3. stored \subseteq 1..Len(made)
    BY DEF TypeInv, Uploads
  <2> QED
    BY <1>1, <2>1, <2>2, <2>3 DEF JobGoes
<1>3. CopyGoes(s)
  BY LooksGo, StaysGoes DEF RepackStart
<1>4. WantGoes(s)
  <2>1. want' = [want EXCEPT ![s] = want[s] \ {"repack"}]
    BY DEF RepackStart
  <2>2. want[s] \ {"repack"} \subseteq want[s] \cup Wants
    OBVIOUS
  <2> QED
    BY <2>1, <2>2 DEF WantGoes
<1> QED
  BY <1>2, <1>3, <1>4, StaysGoes, AtGoes DEF RepackStart, Stores

LEMMA JobUploadTypes ==
    ASSUME Inv, Inv', TypeInv, NEW s \in Servers, NEW kind \in {"collect", "repack"}, NEW readable,
           NEW objs \in SUBSET Objs, JobUpload(s, kind, readable, objs)
    PROVE  Goes(s)
<1>1. CASE Upload(objs) /\ call' = [call EXCEPT ![s] = [Call(kind) EXCEPT !.pack = NewPack]]
           /\ UNCHANGED <<job, failed, spent>>
  <2>1. PICK c : c = [Call(kind) EXCEPT !.pack = NewPack]
    OBVIOUS
  <2>2. DOMAIN c = DOMAIN NoCall /\ c.doc = NoMan /\ c.attempt = 0 /\ c.pack = NewPack /\ c.kind = kind
    BY <2>1 DEF Call, NoCall
  <2>3. Stores
    BY <1>1 DEF Stores
  <2>4. NewPack \in 0..Len(made')
    <3>1. Len(made) \in Nat /\ Len(made') = Len(made) + 1
      BY <1>1, UploadGrows DEF Inv, Shapes
    <3>2. PICK n \in Nat : n = Len(made)
      BY <3>1
    <3>3. n + 1 \in 0..(n + 1)
      OBVIOUS
    <3> QED
      BY <3>1, <3>2, <3>3 DEF NewPack
  <2>5. CallGoes(s)
    BY <1>1, <2>1, <2>2, <2>4, PlainGoes
  <2> QED
    BY <1>1, <2>3, <2>5, StaysGoes, AtGoes DEF JobUpload
<1>2. CASE Abandon(s) /\ UNCHANGED <<made, stored>>
  <2>1. PICK c : c = [Call(job[s].kind) EXCEPT !.st = "cleanup"]
    OBVIOUS
  <2>2. DOMAIN c = DOMAIN NoCall /\ c.doc = NoMan /\ c.attempt = 0 /\ c.pack = 0 /\ c.ok = {}
    BY <2>1 DEF Call, NoCall
  <2>3. CallGoes(s)
    <3>1. 0 \in 0..Len(made')
      BY <1>2, TablesAre
    <3>2. call' = [call EXCEPT ![s] = c]
      BY <1>2, <2>1 DEF Abandon
    <3> QED
      BY <2>2, <3>1, <3>2, PlainGoes
  <2>4. JobGoes(s) /\ FailGoes(s)
    BY <1>2, NoJobGoes DEF Abandon, FailGoes
  <2> QED
    BY <1>2, <2>3, <2>4, StaysGoes, AtGoes DEF JobUpload, Stores
<1> QED
  BY <1>1, <1>2 DEF JobUpload

LEMMA UploadTypes ==
    ASSUME Inv, Inv', TypeInv, NEW s \in Servers, CollectUpload(s) \/ RepackUpload(s) PROVE Goes(s)
<1>1. TypedAt(s)
  BY DEF TypeInv
<1>2. job[s].keep \in SUBSET Objs
  BY <1>1 DEF TypedAt
<1>3. UNION {made[k].objs : k \in ToSet(job[s].sources)} \in SUBSET Objs
  BY <1>1, MadeObjs DEF TypedAt
<1> QED
  BY <1>2, <1>3, JobUploadTypes DEF CollectUpload, RepackUpload

LEMMA LoadTypes == ASSUME Inv, Inv', TypeInv, NEW s \in Servers, Load(s) PROVE Goes(s)
<1>1. mem[s] \in MemsBy(clock) /\ man \in DocsBy(clock)
  BY DEF TypeInv, TypedAt
<1>2. PICK w \in Nat : w = man.writer
  BY <1>1 DEF DocsBy
<1>3. PICK ms : ms = [mem[s] EXCEPT !.up = TRUE, !.m = man, !.etag = w, !.stale = FALSE, !.fresh = TRUE, !.gen = 0]
  OBVIOUS
<1>4. ms \in MemsBy(clock)
  BY <1>1, <1>3 DEF MemsBy
<1>5. mem' = [mem EXCEPT ![s] = ms]
  BY <1>2, <1>3 DEF Load
<1>6. mem'[s] \in MemsBy(clock) /\ \A r \in Servers \ {s} : mem'[r] = mem[r]
  BY <1>4, <1>5, TablesAre
<1> QED
  BY <1>6, TablesAre DEF Load, Goes, Stores, Documents, Local

LEMMA ResetTypes == ASSUME Inv, Inv', TypeInv, NEW s \in Servers, Reset(s) PROVE Goes(s)
<1>1. mem[s] \in MemsBy(clock) /\ NoMem \in MemsBy(clock)
  BY TablesAre, NoManTyped DEF TypeInv, TypedAt
<1>2. PICK n \in Nat : n = mem[s].load + 1
  BY <1>1 DEF MemsBy
<1>3. PICK ms : ms = [NoMem EXCEPT !.load = n]
  OBVIOUS
<1>4. ms \in MemsBy(clock)
  BY <1>1, <1>3 DEF MemsBy
<1>5. mem' = [mem EXCEPT ![s] = ms]
  BY <1>2, <1>3 DEF Reset
<1>6. mem'[s] \in MemsBy(clock) /\ \A r \in Servers \ {s} : mem'[r] = mem[r]
  BY <1>4, <1>5, TablesAre
<1> QED
  BY <1>6, TablesAre DEF Reset, Goes, Stores, Documents, Local

LEMMA CrashTypes == ASSUME Inv, Inv', TypeInv, NEW s \in Servers, Crash(s) PROVE Goes(s)
<1>1. mem'[s] \in MemsBy(clock) /\ \A r \in Servers \ {s} : mem'[r] = mem[r]
  BY TablesAre, NoManTyped DEF Crash
<1>2. /\ fetch'[s].packs \subseteq 1..Len(made) /\ held'[s] \subseteq 1..Len(made)
      /\ DOMAIN fetch' = Servers /\ DOMAIN held' = Servers
      /\ \A r \in Servers \ {s} : fetch'[r] = fetch[r] /\ held'[r] = held[r]
  BY TablesAre DEF Crash, NoFetch
<1>3. /\ job'[s] = NoJob /\ want'[s] = {} /\ failed'[s] = 0 - Backoff
      /\ DOMAIN want' = Servers /\ DOMAIN failed' = Servers
      /\ \A r \in Servers \ {s} : job'[r] = job[r] /\ want'[r] = want[r] /\ failed'[r] = failed[r]
  BY TablesAre DEF Crash
<1>4. Typed(call[s])' /\ \A r \in Servers \ {s} : call'[r] = call[r]
  <2>1. call'[s] = NoCall /\ \A r \in Servers \ {s} : call'[r] = call[r]
    BY TablesAre DEF Crash
  <2>2. Typed(NoCall)'
    BY NextTyped DEF NextCalls
  <2>3. NoCall' = NoCall
    BY DEF NoCall, NoMan
  <2> QED
    BY <2>1, <2>2, <2>3, TypedIs
<1>5. ASSUME NEW p \in Pushes PROVE push'[p] = push[p] \/ (PushTyped(p)' /\ push'[p].cmds = push[p].cmds)
  <2>1. push'[p] = push[p] \/ push'[p] = [push[p] EXCEPT !.st = "done"]
    BY DEF Crash
  <2>2. DOMAIN push[p] = DOMAIN NoPush /\ PushTyped(p)
    BY DEF Inv, Shapes, TypeInv
  <2>3. CASE push'[p] = [push[p] EXCEPT !.st = "done"]
    <3>1. push'[p].objs = push[p].objs /\ push'[p].cmds = push[p].cmds /\ push'[p].res = push[p].res
      BY <2>2, <2>3 DEF NoPush
    <3> QED
      BY <2>2, <3>1 DEF PushTyped
  <2> QED
    BY <2>1, <2>3
<1>6. Local(s)
  BY <1>1, <1>2, <1>3, <1>4, <1>5, NoJobTyped DEF Local
<1> QED
  BY <1>6 DEF Crash, Goes, Stores, Documents

LEMMA FetchEndTypes == ASSUME Inv, Inv', TypeInv, NEW s \in Servers, FetchEnd(s) PROVE Goes(s)
<1>1. /\ fetch'[s].packs \subseteq 1..Len(made) /\ held'[s] \subseteq 1..Len(made)
      /\ DOMAIN fetch' = Servers /\ DOMAIN held' = Servers
      /\ \A r \in Servers \ {s} : fetch'[r] = fetch[r] /\ held'[r] = held[r]
  BY TablesAre DEF FetchEnd, NoFetch
<1> QED
  BY <1>1, TablesAre DEF FetchEnd, Goes, Stores, Documents, Local

LEMMA FetchStartTypes == ASSUME Inv, Inv', TypeInv, NEW s \in Servers, FetchStart(s) PROVE Goes(s)
<1>0. PICK wants, haves \in SUBSET Closure(Ix(mem[s].m), RefValues(mem[s].m)) :
         fetch' = [fetch EXCEPT ![s] =
            [packs |-> {mem[s].m.packs[First(Ix(mem[s].m), o)] : o \in Planned(Ix(mem[s].m), wants, haves)},
             at |-> clock, gen |-> mem[s].gen, load |-> mem[s].load]]
  BY Zenon DEF FetchStart
<1>1. PICK m : m = mem[s].m
  OBVIOUS
<1>2. PICK ix : ix = Ix(m)
  OBVIOUS
<1>3. PICK objs : objs = Planned(ix, wants, haves)
  OBVIOUS
<1>4. PICK f : f = [packs |-> {m.packs[First(ix, o)] : o \in objs},
                    at |-> clock, gen |-> mem[s].gen, load |-> mem[s].load]
  OBVIOUS
<1>5. fetch' = [fetch EXCEPT ![s] = f]
  BY <1>0, <1>1, <1>2, <1>3, <1>4
<1>6. m.packs \in Seq(1..Len(made)) /\ m.refs \in [Refs -> Values]
  BY <1>1, CopyTyped DEF IsDoc
<1>7. objs \subseteq Held(ix)
  <2>1. RefValues(m) \in SUBSET Objs
    BY <1>6 DEF RefValues, Values
  <2>2. wants \in SUBSET Objs
    BY <1>0, <1>1, <1>2, <2>1, ClosureHeld
  <2> QED
    BY <1>3, <2>2, ClosureHeld DEF Planned
<1>8. f.packs \subseteq 1..Len(made)
  <2>1. PICK n \in Nat : n = Len(m.packs)
    BY <1>6
  <2>2. DOMAIN ix = 1..n
    BY <1>2, <1>6, <2>1 DEF Ix
  <2>3. ASSUME NEW o \in objs PROVE m.packs[First(ix, o)] \in 1..Len(made)
    <3>1. First(ix, o) \in 1..n
      BY <1>7, <2>2, FirstServes
    <3> QED
      BY <1>6, <2>1, <3>1, ElementOfSeq
  <2> QED
    BY <1>4, <2>3
<1>9. fetch'[s] = f /\ DOMAIN fetch' = Servers /\ \A r \in Servers \ {s} : fetch'[r] = fetch[r]
  BY <1>5, TablesAre
<1> QED
  BY <1>8, <1>9, TablesAre DEF FetchStart, Goes, Stores, Documents, Local

\* What a client sends are objects.
LEMMA SentObjs == ASSUME NEW cmds, AskOk(cmds), NEW sent \in Sendable(cmds) PROVE sent \subseteq Objs
<1>1. PICK news : news = {cmds[r].new : r \in DOMAIN cmds} \ {Nil}
  OBVIOUS
<1>2. news \subseteq Objs
  BY <1>1 DEF AskOk, Values
<1>3. sent \subseteq History(news)
  BY <1>1 DEF Sendable
<1>4. History(news) \subseteq Objs
  BY <1>2, LinksAssumption, SpreadWithin DEF History
<1> QED
  BY <1>3, <1>4

LEMMA PushStartTypes ==
    ASSUME Inv, Inv', TypeInv, NEW p \in Pushes, NEW s \in Servers, PushStart(p, s) PROVE Goes(s)
<1>1. PICK cmds \in CmdSets, atomic \in BOOLEAN :
         \E sent \in Sendable(cmds), thin \in SUBSET (IF ThinBases THEN Held(Ix(mem[s].m)) ELSE {}) :
            LET ix == Ix(mem[s].m)
                objs == sent \cup thin
            IN /\ Cardinality(DOMAIN cmds) = 1 => ~atomic
               /\ sent = {} => thin = {}
               /\ Connected(objs, ix)
               /\ GoesAhead(cmds, atomic, Judge(cmds, mem[s].m.refs, objs, ix))
               /\ push' = [push EXCEPT ![p] = [NoPush EXCEPT !.st = "checked", !.s = s, !.cmds = cmds,
                                                   !.atomic = atomic, !.objs = objs, !.gen = mem[s].gen]]
  BY DEF PushStart
<1>2. PICK sent \in Sendable(cmds), thin \in SUBSET (IF ThinBases THEN Held(Ix(mem[s].m)) ELSE {}) :
         push' = [push EXCEPT ![p] = [NoPush EXCEPT !.st = "checked", !.s = s, !.cmds = cmds,
                                         !.atomic = atomic, !.objs = sent \cup thin, !.gen = mem[s].gen]]
  BY <1>1, Zenon
<1>3. PICK objs : objs = sent \cup thin
  OBVIOUS
<1>4. objs \subseteq Objs
  <2>1. AskOk(cmds)
    <3>1. PICK rs \in SUBSET Refs : rs # {} /\ cmds \in [rs -> {c \in [old : Values, new : Values] : c.old # c.new}]
      BY DEF CmdSets
    <3> QED
      BY <3>1 DEF AskOk
  <2>2. thin \subseteq Objs
    BY IxObjs, CopyTyped DEF IsDoc
  <2> QED
    BY <1>3, <2>1, <2>2, SentObjs
<1>5. PICK x : x = [NoPush EXCEPT !.st = "checked", !.s = s, !.cmds = cmds,
                                  !.atomic = atomic, !.objs = objs, !.gen = mem[s].gen]
  OBVIOUS
<1>6. x.objs = objs /\ x.res = {}
  BY <1>5 DEF NoPush
<1>7. push' = [push EXCEPT ![p] = x] /\ DOMAIN push = Pushes
  BY <1>2, <1>3, <1>5 DEF Inv, Shapes
<1>8. PushTyped(p)' /\ \A q \in Pushes \ {p} : push'[q] = push[q]
  BY <1>4, <1>6, <1>7 DEF PushTyped
<1>9. push[p].st = "new"
  BY DEF PushStart, NoPush
<1> QED
  BY <1>8, <1>9, TablesAre DEF PushStart, Goes, Stores, Documents, Local

LEMMA PushUploadTypes == ASSUME Inv, Inv', TypeInv, NEW p \in Pushes, PushUpload(p) PROVE \E s \in Servers : Goes(s)
<1>1. PICK s \in Servers : s = push[p].s
  BY DEF PushUpload, Inv, Shapes
<1>2. push[p].objs \in SUBSET Objs /\ PushTyped(p)
  BY DEF TypeInv, PushTyped
<1>3. Stores
  BY <1>2 DEF PushUpload, Stores
<1>4. PushGoes
  <2>1. CASE push' = Answer(p, {})
    BY <2>1, AnswerGoes
  <2>2. CASE push' = [push EXCEPT ![p] = [@ EXCEPT !.st = "uploaded", !.pack = NewPack]]
    <3>1. PICK x : x = [push[p] EXCEPT !.st = "uploaded", !.pack = NewPack]
      OBVIOUS
    <3>2. DOMAIN push[p] = DOMAIN NoPush /\ DOMAIN push = Pushes
      BY DEF Inv, Shapes
    <3>3. x.objs = push[p].objs /\ x.cmds = push[p].cmds /\ x.res = push[p].res
      BY <3>1, <3>2 DEF NoPush
    <3>4. push'[p] = x /\ \A q \in Pushes \ {p} : push'[q] = push[q]
      BY <2>2, <3>1, <3>2
    <3>5. PushTyped(p)' /\ push'[p].cmds = push[p].cmds
      BY <1>2, <3>3, <3>4 DEF PushTyped
    <3> QED
      BY <3>4, <3>5 DEF PushGoes
  <2> QED
    BY <2>1, <2>2 DEF PushUpload
<1> QED
  BY <1>3, <1>4, StaysGoes, AtGoes DEF PushUpload

LEMMA PushCommitTypes == ASSUME Inv, Inv', TypeInv, NEW p \in Pushes, PushCommit(p) PROVE \E s \in Servers : Goes(s)
<1>1. PICK s \in Servers : s = push[p].s
  BY DEF PushCommit, Inv, Shapes
<1>2. /\ PushTyped(p) /\ DOMAIN push[p] = DOMAIN NoPush /\ DOMAIN push = Pushes
      /\ push[p].pack \in 0..Len(made) /\ made' = made
  BY DEF PushCommit, TypeInv, Inv, Shapes
<1>3. PICK a : a = [Call("push") EXCEPT !.push = p, !.pack = push[p].pack, !.gen = push[p].gen]
  OBVIOUS
<1>4. PICK b : b = [a EXCEPT !.st = "cleanup"]
  OBVIOUS
<1>5. /\ DOMAIN a = DOMAIN NoCall /\ a.doc = NoMan /\ a.attempt = 0 /\ a.pack = push[p].pack /\ a.ok = {}
      /\ DOMAIN b = DOMAIN NoCall /\ b.doc = NoMan /\ b.attempt = 0 /\ b.pack = push[p].pack /\ b.ok = {}
  BY <1>3, <1>4 DEF Call, NoCall
<1>6. CallGoes(s)
  <2>1. call' = call \/ call' = [call EXCEPT ![s] = a] \/ call' = [call EXCEPT ![s] = b]
    BY <1>1, <1>3, <1>4 DEF PushCommit
  <2>2. push[p].pack \in 0..Len(made')
    BY <1>2
  <2> QED
    BY <1>5, <2>1, <2>2, PlainGoes, StaysGoes
<1>7. PushGoes
  <2>1. CASE push' = Answer(p, {})
    BY <2>1, AnswerGoes
  <2>2. CASE push' = [push EXCEPT ![p].st = "commit"]
    <3>1. PICK x : x = [push[p] EXCEPT !.st = "commit"]
      OBVIOUS
    <3>3. x.objs = push[p].objs /\ x.cmds = push[p].cmds /\ x.res = push[p].res
      BY <3>1, <1>2 DEF NoPush
    <3>4. push'[p] = x /\ \A q \in Pushes \ {p} : push'[q] = push[q]
      BY <2>2, <3>1, <1>2
    <3>5. PushTyped(p)' /\ push'[p].cmds = push[p].cmds
      BY <1>2, <3>3, <3>4 DEF PushTyped
    <3> QED
      BY <3>4, <3>5 DEF PushGoes
  <2> QED
    BY <2>1, <2>2 DEF PushCommit
<1> QED
  BY <1>6, <1>7, StaysGoes, AtGoes DEF PushCommit, Stores

-------------------------------------------------------------------------------
\* The steps of the save loop.

LEMMA SaysOf ==
    ASSUME Inv, TypeInv, NEW s \in Servers, call[s].kind # "push" \/ (Live(s) /\ call[s].st = "settle")
    PROVE  Says(s, call[s])
<1>1. Typed(call[s])
  BY DEF TypeInv, TypedAt
<1>2. Live(s) => call[s].push \in Pushes
  BY DEF Inv, Linked
<1> QED
  BY <1>1, <1>2 DEF Says, Typed, Live

LEMMA SettleTypes == ASSUME Inv, Inv', TypeInv, NEW s \in Servers, Settle(s) PROVE Goes(s)
<1>1. Typed(call[s]) /\ DOMAIN call[s] = DOMAIN NoCall
  BY DEF Inv, Shapes, TypeInv, TypedAt
<1>2. /\ call[s].kind = "push" => Live(s) /\ call[s].push \in Pushes
      /\ clock' = clock /\ made' = made /\ stored' = stored /\ fetch' = fetch /\ man' = man /\ late' = late
  BY DEF Settle, Inv, Linked, Live
<1>3. Stores /\ Documents
  BY <1>2 DEF Stores, Documents
<1>4. CASE Succeed(s, call[s], call[s].doc) /\ UNCHANGED failed
  <2>1. Says(s, call[s]) /\ call[s].doc \in DocsBy(clock)
    BY <1>1, <1>2, SaysOf DEF Typed, Settle
  <2> QED
    BY <1>2, <1>3, <1>4, <2>1, SucceedTyped DEF Says, Goes
<1>5. CASE /\ Again(call[s].attempt) /\ Become(s, Revalidated(mem[s]))
           /\ call' = [call EXCEPT ![s] = [call[s] EXCEPT !.st = "try", !.attempt = @ + 1,
                                                          !.doc = NoMan, !.first = "none"]]
           /\ UNCHANGED <<push, job, want, failed, spent>>
  <2>1. PICK n : n = call[s].attempt + 1
    OBVIOUS
  <2>2. n \in 0..(MaxAttempts - 1)
    <3>1. PICK a : a = call[s].attempt
      OBVIOUS
    <3>2. a \in 0..(MaxAttempts - 1) /\ a + 1 < MaxAttempts /\ MaxAttempts \in Nat
      BY <1>1, <1>5, <3>1, ConstantsAssumption DEF Typed, Again
    <3>3. a + 1 \in 0..(MaxAttempts - 1)
      BY <3>2
    <3> QED
      BY <2>1, <3>1, <3>3
  <2>3. PICK c : c = [call[s] EXCEPT !.st = "try", !.attempt = n, !.doc = NoMan, !.first = "none"]
    OBVIOUS
  <2>4. /\ DOMAIN c = DOMAIN NoCall /\ c.kind = call[s].kind /\ c.st = "try" /\ c.attempt = n /\ c.doc = NoMan
        /\ c.pack = call[s].pack /\ c.push = call[s].push /\ c.ok = call[s].ok
    BY <1>1, <2>3 DEF NoCall
  <2>5. Typed(c)'
    <3>1. NoMan \in DocsBy(clock) /\ DOMAIN NoCall' = DOMAIN NoCall
      BY TablesAre, NoManTyped DEF NoCall
    <3>2. c.kind = "push" => c.ok \subseteq DOMAIN push[c.push].cmds
      BY <1>1, <1>2, <2>4 DEF Typed, Settle
    <3> QED
      BY <1>1, <1>2, <1>5, <2>2, <2>4, <3>1, <3>2 DEF Typed
  <2>6. call' = [call EXCEPT ![s] = c]
    BY <1>5, <2>1, <2>3
  <2>7. CallGoes(s)
    BY <2>5, <2>6, TypedIs, TablesAre DEF CallGoes
  <2>8. CopyGoes(s)
    BY <1>5, LooksGo
  <2> QED
    BY <1>2, <1>3, <1>5, <2>7, <2>8, StaysGoes, AtGoes
<1>6. CASE GiveUp(s) /\ UNCHANGED <<mem, held, want>>
  BY <1>2, <1>3, <1>6, GiveUpTyped DEF Goes
<1> QED
  BY <1>4, <1>5, <1>6 DEF Settle

LEMMA TryPushTypes == ASSUME Inv, Inv', TypeInv, NEW s \in Servers, TryPush(s) PROVE Goes(s)
<1>0. Live(s)
  BY DEF TryPush, Live
<1>1. PICK p \in Pushes : p = call[s].push /\ push[p].pack = call[s].pack /\ push[p].st = "commit"
  BY <1>0 DEF Inv, Linked
<1>2. Typed(call[s]) /\ DOMAIN call[s] = DOMAIN NoCall /\ call[s].kind = "push" /\ call[s].st = "try"
  BY DEF TryPush, Inv, Shapes, TypeInv, TypedAt
<1>3. PICK m : m = mem[s].m
  OBVIOUS
<1>4. PICK ok : ok = Judge(push[p].cmds, m.refs, push[p].objs, Ix(m))
  OBVIOUS
<1>5. PICK moved : moved = {r \in ok : m.refs[r] = push[p].cmds[r].old}
  OBVIOUS
<1>6. PICK c : c = [call[s] EXCEPT !.gen = mem[s].gen, !.ok = ok, !.moved = moved]
  OBVIOUS
<1>7. \/ /\ push' = Answer(p, call[s].ok) /\ want' = AfterPush(s, m) /\ Done(s)
         /\ UNCHANGED <<man, made, stored, late, nonces, clock, mem, fetch, held, job, failed, applied, spent>>
      \/ /\ GiveUp(s)
         /\ UNCHANGED <<man, made, stored, late, nonces, clock, mem, fetch, held, want, applied, spent>>
      \/ Save(s, c, Pushed(m, p, ok))
  BY <1>1, <1>3, <1>4, <1>5, <1>6 DEF TryPush
<1>8. CASE /\ push' = Answer(p, call[s].ok) /\ want' = AfterPush(s, m) /\ Done(s)
           /\ UNCHANGED <<man, made, stored, late, nonces, clock, mem, fetch, held, job, failed, applied, spent>>
  <2>1. call[s].ok \subseteq DOMAIN push[p].cmds
    BY <1>1, <1>2 DEF Typed
  <2>2. PushGoes
    BY <1>8, <2>1, AnswerGoes
  <2>3. WantGoes(s)
    BY <1>8 DEF AfterPush, WantGoes, Wants
  <2>4. CallGoes(s)
    BY <1>8, DoneGoes
  <2> QED
    BY <1>8, <2>2, <2>3, <2>4, StaysGoes, AtGoes DEF Stores
<1>9. CASE GiveUp(s)
           /\ UNCHANGED <<man, made, stored, late, nonces, clock, mem, fetch, held, want, applied, spent>>
  BY <1>1, <1>9, GiveUpTyped DEF Goes, Stores, Documents
<1>10. CASE Save(s, c, Pushed(m, p, ok))
  <2>1. ok \in SUBSET DOMAIN push[p].cmds
    BY <1>4, JudgeLets
  <2>2. DOMAIN c = DOMAIN NoCall /\ c.kind = "push" /\ c.push = p /\ c.ok = ok /\ c.attempt = call[s].attempt
        /\ c.pack = call[s].pack
    BY <1>1, <1>2, <1>6 DEF NoCall
  <2>3. Says(s, c)
    BY <1>2, <2>1, <2>2 DEF Says
  <2>4. m \in DocsBy(clock)
    BY <1>3 DEF TypeInv, TypedAt, MemsBy
  <2>5. AskOk(push[p].cmds) /\ push[p].pack \in Nat /\ clock \in Nat
    BY <1>1 DEF Inv, Shapes
  <2>6. Pushed(m, p, ok) \in DocsBy(clock)
    BY <2>1, <2>4, <2>5, PushedTyped
  <2> QED
    BY <1>10, <2>3, <2>6, SaveTyped
<1> QED
  BY <1>7, <1>8, <1>9, <1>10

LEMMA TryRestoreTypes == ASSUME Inv, Inv', TypeInv, NEW s \in Servers, TryRestore(s) PROVE Goes(s)
<1>1. PICK m : m = mem[s].m
  OBVIOUS
<1>2. m \in DocsBy(clock)
  BY <1>1 DEF TypeInv, TypedAt, MemsBy
<1>3. call[s].kind = "restore" /\ call[s].ref \in Refs /\ call[s].id \in Objs
  BY DEF TryRestore, Inv, Linked
<1>4. \/ /\ Done(s)
         /\ UNCHANGED <<man, made, stored, late, nonces, clock, mem, fetch, held, push, job, want,
                        failed, applied, spent>>
      \/ Save(s, call[s], [m EXCEPT !.refs[call[s].ref] = call[s].id])
  BY <1>1 DEF TryRestore
<1>5. CASE /\ Done(s)
           /\ UNCHANGED <<man, made, stored, late, nonces, clock, mem, fetch, held, push, job, want,
                          failed, applied, spent>>
  BY <1>5, DoneGoes, StaysGoes, AtGoes DEF Stores
<1>6. CASE Save(s, call[s], [m EXCEPT !.refs[call[s].ref] = call[s].id])
  <2>1. PICK r \in Refs, o \in Objs : r = call[s].ref /\ o = call[s].id
    BY <1>3
  <2>2. PICK refs : refs = [m.refs EXCEPT ![r] = o]
    OBVIOUS
  <2>3. refs \in [Refs -> Values]
    <3>1. m.refs \in [Refs -> Values] /\ o \in Values
      BY <1>2 DEF DocsBy, Values
    <3> QED
      BY <2>2, <3>1
  <2>4. [m EXCEPT !.refs = refs] \in DocsBy(clock)
    BY <1>2, <2>3 DEF DocsBy
  <2>5. Save(s, call[s], [m EXCEPT !.refs = refs])
    BY <1>6, <2>1, <2>2
  <2> QED
    BY <1>3, <2>4, <2>5, SaysOf, SaveTyped
<1> QED
  BY <1>4, <1>5, <1>6

LEMMA TrySweepTypes == ASSUME Inv, Inv', TypeInv, NEW s \in Servers, TrySweep(s) PROVE Goes(s)
<1>1. PICK m : m = mem[s].m
  OBVIOUS
<1>2. m \in DocsBy(clock)
  BY <1>1 DEF TypeInv, TypedAt, MemsBy
<1>3. PICK rest : rest = {x \in m.retired : x.id \notin call[s].gone}
  OBVIOUS
<1>4. \/ /\ Done(s)
         /\ UNCHANGED <<man, made, stored, late, nonces, clock, mem, fetch, held, push, job, want,
                        failed, applied, spent>>
      \/ Save(s, call[s], [m EXCEPT !.retired = rest])
  BY <1>1, <1>3 DEF TrySweep
<1>5. CASE /\ Done(s)
           /\ UNCHANGED <<man, made, stored, late, nonces, clock, mem, fetch, held, push, job, want,
                          failed, applied, spent>>
  BY <1>5, DoneGoes, StaysGoes, AtGoes DEF Stores
<1>6. CASE Save(s, call[s], [m EXCEPT !.retired = rest])
  <2>1. [m EXCEPT !.retired = rest] \in DocsBy(clock)
    BY <1>2, <1>3 DEF DocsBy
  <2>2. Says(s, call[s])
    BY SaysOf DEF TrySweep
  <2> QED
    BY <1>6, <2>1, <2>2, SaveTyped
<1> QED
  BY <1>4, <1>5, <1>6

LEMMA TryPruneTypes == ASSUME Inv, Inv', TypeInv, NEW s \in Servers, TryPrune(s) PROVE Goes(s)
<1>1. PICK m : m = mem[s].m
  OBVIOUS
<1>2. m \in DocsBy(clock)
  BY <1>1 DEF TypeInv, TypedAt, MemsBy
<1>4. \/ /\ Done(s)
         /\ UNCHANGED <<man, made, stored, late, nonces, clock, mem, fetch, held, push, job, want,
                        failed, applied, spent>>
      \/ Save(s, call[s], [m EXCEPT !.dropped = Unexpired(m, call[s].cut)])
  BY <1>1 DEF TryPrune
<1>5. CASE /\ Done(s)
           /\ UNCHANGED <<man, made, stored, late, nonces, clock, mem, fetch, held, push, job, want,
                          failed, applied, spent>>
  BY <1>5, DoneGoes, StaysGoes, AtGoes DEF Stores
<1>6. CASE Save(s, call[s], [m EXCEPT !.dropped = Unexpired(m, call[s].cut)])
  <2>1. [m EXCEPT !.dropped = Unexpired(m, call[s].cut)] \in DocsBy(clock)
    BY <1>2, DroppedTyped
  <2>2. Says(s, call[s])
    BY SaysOf DEF TryPrune
  <2> QED
    BY <1>6, <2>1, <2>2, SaveTyped
<1> QED
  BY <1>4, <1>5, <1>6

\* A job's round that does not write.
LEMMA JobEndsTypes ==
    ASSUME Inv, Inv', TypeInv, NEW s \in Servers, call[s].kind # "push", JobLanded(s) \/ JobGivesUp(s)
    PROVE  Goes(s)
<1>1. CASE JobLanded(s)
  BY <1>1, DoneGoes, NoJobGoes, StaysGoes, AtGoes DEF JobLanded, Stores
<1>2. CASE JobGivesUp(s)
  BY <1>2, GiveUpTyped DEF JobGivesUp, Goes, Stores, Documents
<1> QED
  BY <1>1, <1>2

LEMMA TryCollectTypes == ASSUME Inv, Inv', TypeInv, NEW s \in Servers, TryCollect(s) PROVE Goes(s)
<1>1. PICK m : m = mem[s].m
  OBVIOUS
<1>2. m \in DocsBy(clock) /\ IsDoc(m)
  BY <1>1, CopyTyped DEF TypeInv, TypedAt, MemsBy
<1>3. PICK j : j = Len(job[s].sources)
  OBVIOUS
<1>4. PICK pack : pack = call[s].pack
  OBVIOUS
<1>5. PICK d : d = Unexpired(m, job[s].cut)
  OBVIOUS
<1>6. /\ call[s].kind = "collect" /\ call[s].st = "try"
      /\ \/ JobLanded(s) \/ JobGivesUp(s)
         \/ IsPrefix(job[s].sources, m.packs) /\ Save(s, call[s], [Merged(m, 1, j, pack) EXCEPT !.dropped = d])
  BY <1>1, <1>3, <1>4, <1>5 DEF TryCollect
<1>7. CASE IsPrefix(job[s].sources, m.packs) /\ Save(s, call[s], [Merged(m, 1, j, pack) EXCEPT !.dropped = d])
  <2>1. j \in Nat /\ j <= Len(m.packs)
    BY <1>3, <1>7 DEF IsPrefix, Inv, Shapes
  <2>2. pack \in 1..Len(made) /\ Len(made) \in Nat /\ clock \in Nat
    BY <1>4, <1>6 DEF Inv, Shapes, Apart
  <2>3. PICK M : M = Merged(m, 1, j, pack)
    OBVIOUS
  <2>4. 1 \in Int /\ j \in Int /\ 1 <= 1 /\ 1 <= j + 1
    BY <2>1
  <2>5. M \in DocsBy(clock)
    BY <1>2, <2>1, <2>2, <2>3, <2>4, MergedTyped
  <2>6. [M EXCEPT !.dropped = d] \in DocsBy(clock)
    <3>1. PICK E : E = [id : Objs, at : 0..clock]
      OBVIOUS
    <3>2. m.dropped \in Seq(E)
      BY <1>2, <3>1 DEF DocsBy
    <3>3. d \in Seq(E)
      BY <1>5, <3>2, UnexpiredTyped
    <3>4. d \in Seq([id : Objs, at : 0..clock])
      BY <3>1, <3>3, Zenon
    <3> QED
      BY <2>5, <3>4 DEF DocsBy
  <2>7. Save(s, call[s], [M EXCEPT !.dropped = d])
    BY <1>7, <2>3
  <2> QED
    BY <1>6, <2>6, <2>7, SaysOf, SaveTyped
<1> QED
  BY <1>6, <1>7, JobEndsTypes

LEMMA TryRepackTypes == ASSUME Inv, Inv', TypeInv, NEW s \in Servers, TryRepack(s) PROVE Goes(s)
<1>1. PICK m : m = mem[s].m
  OBVIOUS
<1>2. m \in DocsBy(clock) /\ IsDoc(m)
  BY <1>1, CopyTyped DEF TypeInv, TypedAt, MemsBy
<1>3. PICK n : n = Len(job[s].sources)
  OBVIOUS
<1>4. PICK pack : pack = call[s].pack
  OBVIOUS
<1>6. /\ call[s].kind = "repack" /\ call[s].st = "try"
      /\ \/ JobLanded(s) \/ JobGivesUp(s)
         \/ \E i \in 1..Len(m.packs) : i + n - 1 <= Len(m.packs) /\ Save(s, call[s], Merged(m, i, i + n - 1, pack))
  BY <1>1, <1>3, <1>4 DEF TryRepack
<1>7. ASSUME NEW i \in 1..Len(m.packs), i + n - 1 <= Len(m.packs), Save(s, call[s], Merged(m, i, i + n - 1, pack))
      PROVE  Goes(s)
  <2>1. n \in Nat /\ Len(m.packs) \in Nat
    BY <1>2, <1>3 DEF Inv, Shapes, IsDoc
  <2>2. pack \in 1..Len(made) /\ Len(made) \in Nat /\ clock \in Nat
    BY <1>4, <1>6 DEF Inv, Shapes, Apart
  <2>3. PICK j \in Int : j = i + n - 1
    BY <2>1
  <2>4. i \in Int /\ 1 <= i /\ i <= j + 1 /\ j <= Len(m.packs)
    BY <1>7, <2>1, <2>3
  <2>5. Merged(m, i, j, pack) \in DocsBy(clock)
    BY <1>2, <2>2, <2>4, MergedTyped
  <2> QED
    BY <1>6, <1>7, <2>3, <2>5, SaysOf, SaveTyped
<1> QED
  BY <1>6, <1>7, JobEndsTypes

-------------------------------------------------------------------------------
\* A late write, a tick of the clock, and nothing.

LEMMA SameAt ==
    ASSUME TypeInv, NEW s \in Servers, clock' = clock, made' = made, mem' = mem, fetch' = fetch, held' = held,
           push' = push, job' = job, want' = want, failed' = failed, call' = call
    PROVE  TypedAt(s)'
<1>1. TypedAt(s)
  BY DEF TypeInv
<1>2. Typed(call[s])'
  <2>1. DOMAIN NoCall' = DOMAIN NoCall
    BY DEF NoCall
  <2> QED
    BY <1>1, <2>1 DEF TypedAt, Typed
<1>3. mem'[s] \in MemsBy(clock') /\ failed'[s] \in (0 - Backoff)..clock'
  BY <1>1 DEF TypedAt
<1> QED
  BY <1>1, <1>2, <1>3, TypedThen DEF TypedAt

LEMMA SameTyped ==
    ASSUME TypeInv, clock' = clock, made' = made, stored' = stored, mem' = mem, fetch' = fetch, held' = held,
           push' = push, job' = job, want' = want, failed' = failed, call' = call,
           man' \in DocsBy(clock), \A w \in late' : w.doc \in DocsBy(clock)
    PROVE  TypeInv'
<1>1. Tables' /\ Uploads' /\ \A p \in Pushes : PushTyped(p)'
  BY DEF TypeInv, Tables, Uploads, PushTyped
<1>2. \A s \in Servers : TypedAt(s)'
  BY SameAt
<1>3. man' \in DocsBy(clock') /\ \A w \in late' : w.doc \in DocsBy(clock')
  OBVIOUS
<1> QED
  BY <1>1, <1>2, <1>3 DEF TypeInv

LEMMA ArriveTypes == ASSUME TypeInv, NEW w \in late, Arrive(w) PROVE TypeInv'
<1>1. man \in DocsBy(clock) /\ \A v \in late : v.doc \in DocsBy(clock)
  BY DEF TypeInv
<1>2. man' \in {man, w.doc} /\ late' \subseteq late
  BY DEF Arrive
<1> QED
  BY <1>1, <1>2, SameTyped DEF Arrive

LEMMA StutterTypes == ASSUME TypeInv, UNCHANGED vars PROVE TypeInv'
<1>1. man' \in DocsBy(clock) /\ \A v \in late' : v.doc \in DocsBy(clock)
  BY DEF TypeInv, vars
<1> QED
  BY <1>1, SameTyped DEF vars

LEMMA TickTypes == ASSUME Inv, TypeInv, Tick PROVE TypeInv'
<1>1. PICK t \in Nat : t = clock
  BY TablesAre
<1>2. /\ clock' = t + 1 /\ t <= t + 1 /\ t + 1 \in Nat /\ t < MaxClock /\ MaxClock \in Nat
      /\ mem' = [s \in Servers |-> [mem[s] EXCEPT !.fresh = FALSE]]
      /\ UNCHANGED <<man, made, stored, late, fetch, held, push, job, want, failed, call>>
  BY <1>1, ConstantsAssumption, SMTT(30) DEF Tick
<1>3. DocsBy(t) \subseteq DocsBy(t + 1) /\ MemsBy(t) \subseteq MemsBy(t + 1)
  BY <1>2, DocsLater
<1>4. man' \in DocsBy(clock') /\ \A w \in late' : w.doc \in DocsBy(clock')
  BY <1>1, <1>2, <1>3 DEF TypeInv
<1>5. Uploads'
  <2>1. PICK S : S = [objs : SUBSET Objs, at : 0..t]
    OBVIOUS
  <2>2. PICK T : T = [objs : SUBSET Objs, at : 0..(t + 1)]
    OBVIOUS
  <2>3. 0..t \subseteq 0..(t + 1) /\ t + 1 \in 0..MaxClock
    BY <1>2
  <2>4. S \subseteq T
    BY <2>1, <2>2, <2>3
  <2>5. made \in Seq(S) /\ stored \subseteq 1..Len(made)
    BY <1>1, <2>1 DEF TypeInv, Uploads
  <2>6. made \in Seq(T)
    BY <2>4, <2>5, SeqMonotonic
  <2>7. made' \in Seq([objs : SUBSET Objs, at : 0..clock'])
    BY <1>2, <2>2, <2>6
  <2> QED
    BY <1>2, <2>3, <2>5, <2>7 DEF Uploads
<1>6. ASSUME NEW s \in Servers PROVE TypedAt(s)'
  <2>1. TypedAt(s) /\ Typed(call[s])
    BY DEF TypeInv, TypedAt
  <2>2. mem'[s] \in MemsBy(clock')
    <3>1. mem[s] \in MemsBy(t)
      BY <1>1, <2>1 DEF TypedAt
    <3>2. [mem[s] EXCEPT !.fresh = FALSE] \in MemsBy(t)
      BY <3>1 DEF MemsBy
    <3> QED
      BY <1>2, <1>3, <3>2
  <2>3. failed'[s] \in (0 - Backoff)..clock'
    <3>1. PICK x : x = failed[s]
      OBVIOUS
    <3>2. x \in (0 - Backoff)..t /\ Backoff \in Nat
      BY <1>1, <2>1, <3>1, ConstantsAssumption DEF TypedAt
    <3>3. x \in (0 - Backoff)..(t + 1)
      BY <3>2
    <3> QED
      BY <1>2, <3>1, <3>3
  <2>4. Typed(call[s])'
    <3>1. DOMAIN NoCall' = DOMAIN NoCall
      BY DEF NoCall
    <3>2. call[s].doc \in DocsBy(clock')
      BY <1>1, <1>2, <1>3, <2>1 DEF Typed
    <3> QED
      BY <1>2, <2>1, <3>1, <3>2 DEF Typed
  <2> QED
    BY <1>2, <2>1, <2>2, <2>3, <2>4, TypedThen DEF TypedAt
<1>7. Tables' /\ \A p \in Pushes : PushTyped(p)'
  BY <1>2 DEF TypeInv, Tables, PushTyped
<1> QED
  BY <1>4, <1>5, <1>6, <1>7 DEF TypeInv

-------------------------------------------------------------------------------
\* The first state.

LEMMA SeededTyped == ASSUME Init PROVE man \in DocsBy(0)
<1>1. PICK q : q = [i \in DOMAIN Seed |-> i]
  OBVIOUS
<1>2. PICK drops : drops = {[id |-> o, at |-> 0] : o \in SeedDrops}
  OBVIOUS
<1>3. PICK E : E = [id : Objs, at : 0..0]
  OBVIOUS
<1>4. Seed \in Seq(SUBSET Objs) /\ SeedRefs \in [Refs -> Held(Seed) \cup {Nil}] /\ SeedDrops \subseteq Held(Seed)
  BY ConstantsAssumption
<1>5. Held(Seed) \subseteq Objs
  BY <1>4 DEF Held
<1>6. drops \subseteq E /\ IsFiniteSet(drops)
  <2>1. SeedDrops \subseteq Objs
    BY <1>4, <1>5
  <2>2. IsFiniteSet(SeedDrops)
    BY <2>1, ObjsAssumption, FS_Subset
  <2>3. PICK f : f = [o \in SeedDrops |-> [id |-> o, at |-> 0]]
    OBVIOUS
  <2>4. drops = {f[o] : o \in SeedDrops} /\ DOMAIN f = SeedDrops
    BY <1>2, <2>3
  <2>5. IsFiniteSet(drops)
    BY <2>2, <2>4, ImageFinite
  <2>6. drops \subseteq E
    BY <1>2, <1>3, <2>1
  <2> QED
    BY <2>5, <2>6
<1>7. PICK d : d = SetToSeq(drops)
  OBVIOUS
<1>8. d \in Seq(E)
  <2>1. d \in Seq(drops)
    BY <1>6, <1>7, InSomeOrder
  <2> QED
    BY <1>6, <2>1, SeqMonotonic
<1>9. PICK n \in Nat : n = Len(Seed)
  BY <1>4
<1>10. q \in Seq(Nat)
  <2>1. DOMAIN Seed = 1..n
    BY <1>4, <1>9
  <2>2. q \in [1..n -> Nat]
    BY <1>1, <2>1
  <2> QED
    BY <2>2
<1>11. SeedRefs \in [Refs -> Values]
  BY <1>4, <1>5 DEF Values
<1>12. NoMan \in DocsBy(0)
  BY NoManTyped
<1>13. d \in Seq([id : Objs, at : 0..0])
  BY <1>3, <1>8
<1>14. [NoMan EXCEPT !.rev = n + 1, !.writer = 1, !.refs = SeedRefs, !.packs = q, !.dropped = d] \in DocsBy(0)
  <2>1. PICK D : D = Seq([id : Objs, at : 0..0])
    OBVIOUS
  <2>2. PICK G : G = SUBSET [id : Nat, at : 0..0]
    OBVIOUS
  <2>3. DocsBy(0) = [rev : Nat, writer : Nat, packs : Seq(Nat), refs : [Refs -> Values], dropped : D, retired : G]
    BY <2>1, <2>2 DEF DocsBy
  <2>4. d \in D
    BY <1>13, <2>1
  <2>5. n + 1 \in Nat /\ 1 \in Nat
    BY <1>9
  <2>6. PICK k \in Nat : k = n + 1
    BY <2>5
  <2>7. PICK Q : Q = Seq(Nat)
    OBVIOUS
  <2>8. q \in Q
    BY <1>10, <2>7
  <2>9. PICK F : F = [Refs -> Values]
    OBVIOUS
  <2>10. SeedRefs \in F
    BY <1>11, <2>9
  <2>11. NoMan \in [rev : Nat, writer : Nat, packs : Q, refs : F, dropped : D, retired : G]
    BY <1>12, <2>3, <2>7, <2>9
  <2>12. [NoMan EXCEPT !.rev = k, !.writer = 1, !.refs = SeedRefs, !.packs = q, !.dropped = d]
           \in [rev : Nat, writer : Nat, packs : Q, refs : F, dropped : D, retired : G]
    BY <2>4, <2>5, <2>8, <2>10, <2>11
  <2> QED
    BY <2>3, <2>6, <2>7, <2>9, <2>12
<1>15. man = IF Seed = <<>> THEN NoMan
             ELSE [NoMan EXCEPT !.rev = n + 1, !.writer = 1, !.refs = SeedRefs, !.packs = q, !.dropped = d]
  BY <1>1, <1>2, <1>7, <1>9 DEF Init
<1> QED
  BY <1>12, <1>14, <1>15

LEMMA InitTypes == Init => TypeInv
<1> SUFFICES ASSUME Init PROVE TypeInv
  OBVIOUS
<1>1. clock = 0 /\ late = {} /\ stored = DOMAIN made /\ man \in DocsBy(clock)
  BY SeededTyped DEF Init
<1>2. /\ mem = [s \in Servers |-> NoMem] /\ fetch = [s \in Servers |-> NoFetch] /\ held = [s \in Servers |-> {}]
      /\ push = [p \in Pushes |-> NoPush] /\ job = [s \in Servers |-> NoJob] /\ want = [s \in Servers |-> {}]
      /\ failed = [s \in Servers |-> 0 - Backoff] /\ call = [s \in Servers |-> NoCall]
  BY DEF Init
<1>3. Tables
  BY <1>2 DEF Tables
<1>4. PICK n \in Nat : n = Len(Seed) /\ Seed \in [1..n -> SUBSET Objs]
  BY ConstantsAssumption
<1>5. made \in [1..n -> [objs : SUBSET Objs, at : 0..clock]]
  <2>1. made = [i \in 1..n |-> [objs |-> Seed[i], at |-> 0]]
    BY <1>4 DEF Init
  <2>2. \A i \in 1..n : [objs |-> Seed[i], at |-> 0] \in [objs : SUBSET Objs, at : 0..clock]
    BY <1>1, <1>4
  <2> QED
    BY <2>1, <2>2
<1>6. Uploads
  <2>1. PICK S : S = [objs : SUBSET Objs, at : 0..clock]
    OBVIOUS
  <2>2. made \in [1..n -> S]
    BY <1>5, <2>1
  <2>3. made \in Seq(S) /\ Len(made) = n /\ DOMAIN made = 1..n
    BY <2>2, LenProperties
  <2>4. MaxClock \in Nat
    BY ConstantsAssumption
  <2>5. made \in Seq([objs : SUBSET Objs, at : 0..clock])
    BY <2>1, <2>3, Zenon
  <2>6. stored \subseteq 1..Len(made) /\ clock \in 0..MaxClock
    BY <1>1, <2>3, <2>4
  <2> QED
    BY <2>5, <2>6 DEF Uploads
<1>7. ASSUME NEW s \in Servers PROVE TypedAt(s)
  <2>1. mem[s] \in MemsBy(clock)
    BY <1>1, <1>2, NoManTyped
  <2>2. ToSet(job[s].sources) \subseteq 1..Len(made) /\ job[s].keep \subseteq Objs
    BY <1>2, NoJobTyped
  <2>3. fetch[s].packs \subseteq 1..Len(made) /\ held[s] \subseteq 1..Len(made) /\ want[s] \subseteq Wants
    BY <1>2 DEF NoFetch
  <2>4. failed[s] \in (0 - Backoff)..clock
    <3>1. Backoff \in Nat
      BY ConstantsAssumption
    <3>2. 0 - Backoff \in (0 - Backoff)..0
      BY <3>1
    <3> QED
      BY <1>1, <1>2, <3>2
  <2>5. Typed(call[s])
    <3>1. NoMan \in DocsBy(clock) /\ MaxAttempts \in Nat /\ MaxAttempts > 0
      BY <1>1, NoManTyped, ConstantsAssumption
    <3>2. Len(made) = n
      BY <1>5
    <3>3. call[s] = NoCall
      BY <1>2
    <3>4. NoCall.doc = NoMan /\ NoCall.attempt = 0 /\ NoCall.pack = 0 /\ NoCall.kind = "none"
      BY DEF NoCall
    <3> QED
      BY <1>4, <3>1, <3>2, <3>3, <3>4 DEF Typed
  <2> QED
    BY <2>1, <2>2, <2>3, <2>4, <2>5 DEF TypedAt
<1>8. \A p \in Pushes : PushTyped(p)
  BY <1>2 DEF PushTyped, NoPush
<1> QED
  BY <1>1, <1>3, <1>6, <1>7, <1>8 DEF TypeInv

LEMMA NextTypes == ASSUME Inv, Inv', TypeInv, [Next]_vars PROVE TypeInv'
<1>1. CASE Common
  <2>1. ASSUME NEW s \in Servers, Load(s) \/ Look(s) \/ Reset(s) \/ Crash(s) \/ Cleanup(s) \/ Settle(s) PROVE Goes(s)
    BY <2>1, LoadTypes, LookTypes, ResetTypes, CrashTypes, CleanupTypes, SettleTypes
  <2> QED
    BY <1>1, <2>1, GoesTyped, ArriveTypes, TickTypes DEF Common
<1>2. CASE Serve
  <2>1. ASSUME NEW p \in Pushes, PushUpload(p) \/ PushCommit(p) \/ \E s \in Servers : PushStart(p, s)
        PROVE  \E s \in Servers : Goes(s)
    BY <2>1, PushUploadTypes, PushCommitTypes, PushStartTypes
  <2>2. ASSUME NEW s \in Servers, \/ TryPush(s) \/ FetchStart(s) \/ FetchEnd(s) \/ TryRestore(s)
                                  \/ \E r \in Refs, o \in Objs : Restore(s, r, o)
        PROVE  Goes(s)
    BY <2>2, TryPushTypes, FetchStartTypes, FetchEndTypes, TryRestoreTypes, RestoreTypes
  <2> QED
    BY <1>2, <2>1, <2>2, GoesTyped DEF Serve
<1>3. CASE Maintain
  <2>1. ASSUME NEW s \in Servers,
               \/ \E kind \in {"collect", "purge", "repack"} : Request(s, kind)
               \/ CollectStart(s) \/ CollectUpload(s) \/ TryCollect(s)
               \/ RepackStart(s) \/ RepackUpload(s) \/ TryRepack(s)
               \/ Round(s) \/ Sweep(s) \/ TrySweep(s) \/ Orphans(s) \/ Consider(s) \/ TryPrune(s) \/ Merge(s)
        PROVE  Goes(s)
    BY <2>1, RequestTypes, CollectStartTypes, UploadTypes, TryCollectTypes, RepackStartTypes, TryRepackTypes,
       RoundTypes, SweepTypes, TrySweepTypes, OrphansTypes, ConsiderTypes, TryPruneTypes, MergeTypes
  <2> QED
    BY <1>3, <2>1, GoesTyped DEF Maintain
<1>4. CASE UNCHANGED vars
  BY <1>4, StutterTypes
<1> QED
  BY <1>1, <1>2, <1>3, <1>4 DEF Next

\* What the types and what the proofs above say of manifests come to together.
LEMMA DocTyped == ASSUME NEW d \in DocsBy(clock), IsDoc(d) PROVE d \in Manifests
<1>1. PICK D, G : D = Seq([id : Objs, at : 0..clock]) /\ G = SUBSET [id : Packs, at : 0..clock]
  OBVIOUS
<1>2. d.rev \in Nat /\ d.writer \in 0..nonces /\ d.packs \in Seq(Packs) /\ d.refs \in [Refs -> Values] /\ d.dropped \in D
  BY <1>1 DEF DocsBy, IsDoc, Packs
<1>3. d.retired \in G
  <2>1. d.retired \subseteq [id : Nat, at : 0..clock] /\ \A x \in d.retired : x.id \in Packs
    BY DEF DocsBy, IsDoc, Packs
  <2>2. \A x \in d.retired : x \in [id : Packs, at : 0..clock]
    BY <2>1
  <2> QED
    BY <1>1, <2>2
<1>4. d = [rev |-> d.rev, writer |-> d.writer, packs |-> d.packs, refs |-> d.refs,
           dropped |-> d.dropped, retired |-> d.retired]
  BY DEF DocsBy
<1>5. Manifests = [rev : Nat, writer : 0..nonces, packs : Seq(Packs), refs : [Refs -> Values], dropped : D, retired : G]
  BY <1>1 DEF Manifests
<1> QED
  BY <1>2, <1>3, <1>4, <1>5

LEMMA Types == Inv /\ TypeInv => TypeOK
<1> SUFFICES ASSUME Inv, TypeInv PROVE TypeOK
  OBVIOUS
<1>1. man \in Manifests
  BY ManTyped, DocTyped DEF TypeInv
<1>2. Uploads /\ nonces \in Nat
  BY DEF TypeInv, Inv, Shapes
<1>3. ASSUME NEW s \in Servers
      PROVE  /\ mem[s].m \in Manifests /\ mem[s].etag \in 0..nonces
             /\ fetch[s].packs \subseteq Packs /\ held[s] \subseteq Packs
             /\ ToSet(job[s].sources) \subseteq Packs /\ job[s].keep \subseteq Objs
             /\ want[s] \subseteq {"collect", "purge", "repack"}
             /\ failed[s] \in (0 - Backoff)..clock
             /\ call[s].attempt \in 0..(MaxAttempts - 1) /\ call[s].pack \in {0} \cup Packs
  <2>1. TypedAt(s)
    BY DEF TypeInv
  <2>2. mem[s].m \in Manifests
    <3>1. mem[s].m \in DocsBy(clock)
      BY <2>1 DEF TypedAt, MemsBy
    <3> QED
      BY <3>1, CopyTyped, DocTyped
  <2>3. mem[s].etag \in 0..nonces
    <3>1. mem[s].m.writer \in 0..nonces
      BY CopyTyped DEF IsDoc
    <3>2. mem[s].etag = mem[s].m.writer \/ mem[s].etag = 0
      BY DEF Inv, Tags, None
    <3>3. 0 \in 0..nonces
      BY <1>2
    <3> QED
      BY <3>1, <3>2, <3>3
  <2>4. /\ fetch[s].packs \subseteq Packs /\ held[s] \subseteq Packs /\ ToSet(job[s].sources) \subseteq Packs
        /\ job[s].keep \subseteq Objs /\ want[s] \subseteq {"collect", "purge", "repack"}
        /\ failed[s] \in (0 - Backoff)..clock
    BY <2>1 DEF TypedAt, Packs, Wants
  <2>5. call[s].attempt \in 0..(MaxAttempts - 1) /\ call[s].pack \in 0..Len(made)
    BY <2>1 DEF TypedAt, Typed
  <2>6. call[s].pack \in {0} \cup Packs
    <3>1. PICK k : k = call[s].pack
      OBVIOUS
    <3>2. PICK n \in Nat : n = Len(made)
      BY DEF Inv, Shapes
    <3>3. k \in 0..n
      BY <2>5, <3>1, <3>2
    <3>4. k = 0 \/ k \in 1..n
      BY <3>3
    <3> QED
      BY <3>1, <3>2, <3>4 DEF Packs
  <2> QED
    BY <2>2, <2>3, <2>4, <2>5, <2>6
<1>4. \A p \in Pushes : push[p].objs \subseteq Objs /\ push[p].res \subseteq DOMAIN push[p].cmds
  BY DEF TypeInv, PushTyped
<1> QED
  BY <1>1, <1>2, <1>3, <1>4 DEF TypeOK, Uploads, Packs

\* Every field of the repository, of the servers' copies of it and of what is under way
\* has its type, whatever interleaves, is lost or restarted: the packs a manifest, a copy,
\* a fetch or a job names were made, no value was recorded later than now, and no save
\* loop runs over its rounds (Manifest and Repo of store.rs and app.rs, save_manifest).
THEOREM TypesKept == Spec => []TypeOK
<1>1. Init => TypeInv
  BY InitTypes
<1>2. Inv /\ Inv' /\ TypeInv /\ [Next]_vars => TypeInv'
  BY NextTypes
<1>3. Inv /\ TypeInv => TypeOK
  BY Types
<1> QED
  BY <1>1, <1>2, <1>3, Invariant, PTL DEF Spec
=================================================================================
