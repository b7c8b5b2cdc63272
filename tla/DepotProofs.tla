------------------------------ MODULE DepotProofs ------------------------------
(***************************************************************************)
(* Proofs about a repository on the shared storage, for any servers,       *)
(* pushes, objects and refs, whatever is collected, repacked, swept,       *)
(* restored, lost, late or restarted meanwhile.  First, that its refs      *)
(* behave as one book (RefBook), that none is ever beneath another, and    *)
(* that a push that brings a pack moves them by one manifest write at      *)
(* most.  Then, where no manifest PUT takes effect after its sender        *)
(* settled it, that no pack of the manifest is ever missing from the       *)
(* bucket.                                                                 *)
(***************************************************************************)
EXTENDS Depot, SequenceTheorems, WellFoundedInduction, TLAPS

-------------------------------------------------------------------------------
(***************************************************************************)
(* The refs are one book.                                                  *)
(***************************************************************************)

\* The inductive invariant.

\* Every manifest that anyone has, or that is on its way.
Docs == {NoMan, man} \cup {mem[s].m : s \in Servers} \cup {call[s].doc : s \in Servers}
        \cup {w.doc : w \in late}

\* No two refs of these clash.
NoClashIn(refs) == \A r \in Refs : refs[r] # Nil => \A x \in Clashes[r] : refs[x] = Nil

\* A manifest names a pack once, as live or as retired at some time.
Neat(d) ==
    /\ \A x \in d.retired : x.at \in Nat /\ x.id \notin ToSet(d.packs)
    /\ \A i, j \in 1..Len(d.packs) : d.packs[i] = d.packs[j] => i = j

IsDoc(d) ==
    /\ DOMAIN d = DOMAIN NoMan
    /\ d.writer \in 0..nonces
    /\ d.packs \in Seq(1..Len(made))
    /\ d.refs \in [Refs -> Values]
    /\ \A x \in d.retired : x.id \in 1..Len(made)
    /\ NoClashIn(d.refs)
    /\ Neat(d)

Written == /\ \A d \in Docs : IsDoc(d)
           /\ \A d, e \in Docs : d.writer = e.writer => d = e

AskOk(f) == /\ DOMAIN f \subseteq Refs /\ DOMAIN f # {}
            /\ f \in [DOMAIN f -> [old : Values, new : Values]]

Shapes ==
    /\ nonces \in Nat /\ nonces > 0 /\ clock \in Nat /\ made \in Seq(ToSet(made))
    /\ DOMAIN mem = Servers /\ \A s \in Servers : DOMAIN mem[s] = DOMAIN NoMem
    /\ DOMAIN job = Servers /\ \A s \in Servers : job[s].sources \in Seq(Nat)
    /\ DOMAIN call = Servers /\ \A s \in Servers : DOMAIN call[s] = DOMAIN NoCall
    /\ DOMAIN push = Pushes
    /\ \A p \in Pushes :
          /\ DOMAIN push[p] = DOMAIN NoPush
          /\ push[p].st \in {"new", "checked", "uploaded", "commit", "done"}
          /\ push[p].pack \in 0..Len(made)
          /\ push[p].st \in {"new", "checked"} => push[p].pack = 0
          /\ push[p].st # "done" => push[p].res = {}
          /\ IF push[p].st = "new" THEN push[p] = NoPush
             ELSE push[p].s \in Servers /\ AskOk(push[p].cmds)
    /\ late # {} => LatePuts

\* The call that commits a push, and the push.
Live(s) == call[s].kind = "push" /\ call[s].st \in {"try", "settle"}
Linked ==
    /\ \A s \in Servers :
          /\ call[s].st \in {"try", "settle", "cleanup"}
          /\ Live(s) => /\ call[s].push \in Pushes /\ push[call[s].push].st = "commit"
                        /\ push[call[s].push].s = s /\ push[call[s].push].pack = call[s].pack
                        /\ call[s].st = "settle" => call[s].tried
          /\ call[s].kind = "restore" => call[s].ref \in Refs /\ call[s].id \in Objs
    /\ \A p \in Pushes : push[p].st = "commit" => Live(push[p].s) /\ call[push[p].s].push = p

\* Packs under way: of a push that commits; and apart.
Offered(p) == push[p].st = "commit" /\ push[p].pack # 0
Apart ==
    /\ \A p, q \in Pushes : push[p].pack = push[q].pack /\ push[p].pack # 0 => p = q
    /\ \A s \in Servers :
          /\ call[s].kind \in {"collect", "repack"} =>
                 /\ call[s].pack \in 0..Len(made) /\ (call[s].st # "cleanup" => call[s].pack # 0)
                 /\ \A p \in Pushes : push[p].pack # 0 => push[p].pack # call[s].pack
          /\ call[s].kind = "sweep" =>
                 /\ call[s].gone \subseteq 1..Len(made)
                 /\ \A p \in Pushes : push[p].st \in {"uploaded", "commit"} => push[p].pack \notin call[s].gone

\* A push that no manifest was written for.
Untouched(p) ==
    /\ \A a \in applied : a.push # p
    /\ \A w \in late : w.call.kind = "push" => w.call.push # p
    /\ push[p].pack # 0 => \A d \in Docs : ~Lists(d, push[p].pack)
Early == 
    /\ \A p \in Pushes : push[p].st \in {"new", "checked", "uploaded"} => Untouched(p)
    /\ \A s \in Servers : Live(s) /\ ~call[s].tried => Untouched(call[s].push)

\* ETags.
Tags ==
    /\ \A s \in Servers : \/ mem[s].etag = mem[s].m.writer
                          \/ mem[s].etag = None /\ man.writer # None
    /\ \A w \in late :
          /\ w.etag \in 0..nonces /\ w.doc.writer \notin {None, man.writer}
          /\ \A s \in Servers : mem[s].etag # w.doc.writer
          /\ \A v \in late : v.etag # w.doc.writer /\ (v.doc.writer = w.doc.writer => v = w)

\* A pack that is offered was retired in this tick, if it was.
Lingers ==
    /\ \A p \in Pushes : Offered(p) =>
          \A d \in Docs : \A x \in d.retired : x.id = push[p].pack => x.at = clock
    /\ \A p \in Pushes, s \in Servers :
          Offered(p) /\ Lists(mem[s].m, push[p].pack) => Lists(man, push[p].pack)

Verdict(p, m) == Judge(push[p].cmds, m.refs, push[p].objs, Ix(m))

\* What a write does to the manifest it replaces.
Moves(p, ok, old, new) ==
    /\ ok = Verdict(p, old) /\ ok # {} /\ ok \subseteq DOMAIN push[p].cmds
    /\ push[p].atomic => ok = DOMAIN push[p].cmds
    /\ \A r \in ok : old.refs[r] \in {push[p].cmds[r].old, push[p].cmds[r].new}
    /\ new.refs = [r \in Refs |-> IF r \in ok THEN push[p].cmds[r].new ELSE old.refs[r]]
    /\ push[p].pack # 0 => ~Lists(old, push[p].pack) /\ Lists(new, push[p].pack)
Steps(c, old, new) ==
    /\ c.kind = "push" => c.push \in Pushes /\ Moves(c.push, c.ok, old, new)
    /\ c.kind = "restore" => /\ c.ref \in Refs /\ c.id \in Objs /\ old.refs[c.ref] \in {Nil, c.id}
                             /\ new.refs = [old.refs EXCEPT ![c.ref] = c.id]
    /\ c.kind \notin {"push", "restore"} => new.refs = old.refs
    /\ \A p \in Pushes : Offered(p) /\ Lists(old, push[p].pack) => Lists(new, push[p].pack)
    /\ \A p \in Pushes : Offered(p) /\ Lists(new, push[p].pack) =>
           Lists(old, push[p].pack) \/ (c.kind = "push" /\ c.push = p)

\* Packs come with the call; they go only to be retired, for a job; and what was retired
\* stays so, but for what a sweep takes off the list.
Relists(c, old, new) ==
    /\ \A k \in ToSet(new.packs) :
           k \in ToSet(old.packs) \/ (c.kind \in {"push", "collect", "repack"} /\ k = c.pack)
    /\ \A k \in ToSet(old.packs) : Lists(new, k) /\ (k \in ToSet(new.packs) \/ c.kind \in {"collect", "repack"})
    /\ \A x \in new.retired : x \in old.retired \/ (x.id \in ToSet(old.packs) /\ x.at = clock)
    /\ \A x \in old.retired : \/ x \in new.retired
                              \/ c.kind = "sweep" /\ x.id \in c.gone /\ \A y \in new.retired : y.id # x.id

\* What may be written for c in the place of old, but for its revision and writer.
Writes(c, old, new) ==
    /\ DOMAIN new = DOMAIN NoMan /\ new.packs \in Seq(1..Len(made))
    /\ new.refs \in [Refs -> Values] /\ NoClashIn(new.refs)
    /\ \A x \in new.retired : x \in old.retired \/ (x.id \in 1..Len(made) /\ x.at = clock)
    /\ \A p \in Pushes : push[p].pack # 0 /\ Lists(new, push[p].pack) =>
           Lists(old, push[p].pack) \/ (c.kind = "push" /\ c.push = p)
    /\ Neat(new) /\ Relists(c, old, new)
    /\ Steps(c, old, new)

Based == \A w \in late : w.etag = man.writer => Steps(w.call, man, w.doc)

\* A push's writes.
Landings ==
    /\ \A a \in applied : a.push \in Pushes
    /\ PackedOnce
    /\ \A w \in late : w.call.kind = "push" /\ w.etag = man.writer =>
          /\ w.call.push \in Pushes
          /\ push[w.call.push].st = "commit" \/ (push[w.call.push].st = "done" /\ push[w.call.push].res = {})
          /\ push[w.call.push].pack # 0 => \A a \in applied : a.push # w.call.push
    /\ \A p \in Pushes : Offered(p) => (Lists(man, push[p].pack) <=> \E a \in applied : a.push = p)

OfPush(w, p) == w.call.kind = "push" /\ w.call.push = p
\* What a call that commits a push knows.
OnCall(s) ==
    LET c == call[s] IN
    /\ c.st = "settle" =>
          /\ c.ok \subseteq DOMAIN push[c.push].cmds
          /\ man.writer = c.doc.writer => \E a \in applied : a.push = c.push /\ a.ok = c.ok
          /\ \A w \in late : w.doc.writer = c.doc.writer => OfPush(w, c.push) /\ w.call.ok = c.ok
          /\ \A w \in late : OfPush(w, c.push) =>
                w.etag < c.doc.writer /\ (w.etag = man.writer => w.call.ok = c.ok)
          /\ c.pack # 0 => \A a \in applied : a.push = c.push => a.ok = c.ok
    /\ c.st = "try" =>
          /\ \A w \in late : OfPush(w, c.push) /\ w.etag = man.writer => mem[s].etag = man.writer
          /\ c.pack # 0 => \A a \in applied : a.push = c.push =>
                a.ok = IF Lists(mem[s].m, c.pack) THEN c.ok ELSE Verdict(c.push, mem[s].m)
Informed == \A s \in Servers : Live(s) => OnCall(s)

Inv == /\ Shapes /\ Written /\ Linked /\ Apart /\ Early /\ Tags /\ Lingers /\ Based
       /\ Landings /\ Informed

-------------------------------------------------------------------------------
\* Packs and manifests.

LEMMA ToSetOf == ASSUME NEW S, NEW q \in Seq(S), NEW k PROVE k \in ToSet(q) <=> \E i \in 1..Len(q) : q[i] = k
  BY DEF ToSet

\* Nothing that was uploaded changes.
Grows == /\ made' \in Seq(ToSet(made')) /\ Len(made) <= Len(made')
         /\ \A i \in 1..Len(made) : made'[i] = made[i]

LEMMA UploadGrows ==
    ASSUME NEW objs, made \in Seq(ToSet(made)), Upload(objs)
    PROVE  Grows /\ Len(made') = Len(made) + 1
<1> DEFINE e == [objs |-> objs, at |-> clock]
           S == ToSet(made) \cup {e}
<1>1. made \in Seq(S) /\ e \in S
  BY DEF ToSet
<1>2. made' = Append(made, e)
  BY DEF Upload
<1> HIDE DEF e, S
<1>3. made' \in Seq(S) /\ Len(made') = Len(made) + 1 /\ \A i \in 1..Len(made) : made'[i] = made[i]
  BY <1>1, <1>2
<1>4. \A i \in 1..Len(made') : made'[i] \in ToSet(made')
  BY <1>3 DEF ToSet
<1> QED
  BY <1>3, <1>4 DEF Grows

LEMMA SameGrows == ASSUME made \in Seq(ToSet(made)), made' = made PROVE Grows
  BY DEF Grows

\* A verdict on a manifest stands.
LEMMA VerdictStands ==
    ASSUME NEW p, NEW m, m.packs \in Seq(1..Len(made)), Grows,
           push'[p].cmds = push[p].cmds, push'[p].objs = push[p].objs
    PROVE  Judge(push'[p].cmds, m.refs, push'[p].objs, Ix(m)') = Verdict(p, m)
<1>1. \A i \in DOMAIN m.packs : m.packs[i] \in 1..Len(made)
  OBVIOUS
<1>2. [i \in DOMAIN m.packs |-> made'[m.packs[i]].objs] = [i \in DOMAIN m.packs |-> made[m.packs[i]].objs]
  BY <1>1 DEF Grows
<1> QED
  BY <1>2 DEF Verdict, Ix

\* What Judge lets through.
LEMMA JudgeLets ==
    ASSUME NEW cmds, NEW refs, NEW objs, NEW content
    PROVE  /\ Judge(cmds, refs, objs, content) \subseteq DOMAIN cmds
           /\ \A r \in Judge(cmds, refs, objs, content) : refs[r] \in {cmds[r].old, cmds[r].new}
  BY DEF Judge, Check

\* A manifest without clashes has none after what Judge lets through.
LEMMA JudgeKeepsApart ==
    ASSUME NEW cmds, NEW refs, NEW objs, NEW content, NEW after,
           DOMAIN cmds \subseteq Refs, NoClashIn(refs),
           after = [r \in Refs |-> IF r \in Judge(cmds, refs, objs, content) THEN cmds[r].new ELSE refs[r]]
    PROVE  NoClashIn(after)
<1> DEFINE ok1 == {r \in DOMAIN cmds : Check(r, cmds[r], refs[r], objs, content)}
           mid == [r \in Refs |-> IF r \in ok1 THEN cmds[r].new ELSE refs[r]]
           ok == Judge(cmds, refs, objs, content)
<1>1. ok = {r \in ok1 : cmds[r].new = Nil \/ \A x \in Clashes[r] : mid[x] = Nil}
  BY DEF Judge
<1>2. ok1 \subseteq Refs /\ Clashes \in [Refs -> SUBSET Refs] /\ \A r \in Refs : \A x \in Clashes[r] : r \in Clashes[x]
  BY ClashesAssumption, SeedAssumption
<1> HIDE DEF ok1, ok
<1>3. ASSUME NEW r \in ok, NEW x \in Clashes[r], cmds[r].new # Nil PROVE after[x] = Nil
  <2>1. r \in Refs /\ x \in Refs /\ mid[x] = Nil
    BY <1>1, <1>2, <1>3
  <2>2. CASE x \in ok1
    BY <2>1, <2>2, <1>1 DEF ok
  <2>3. CASE x \notin ok1
    BY <2>1, <2>3, <1>1 DEF ok
  <2> QED
    BY <2>2, <2>3
<1>4. ASSUME NEW r \in Refs, NEW x \in Clashes[r], after[r] # Nil, after[x] # Nil PROVE FALSE
  <2>1. x \in Refs /\ r \in Clashes[x]
    BY <1>2
  <2>2. CASE r \in ok
    BY <2>1, <2>2, <1>3, <1>4 DEF ok
  <2>3. CASE x \in ok
    BY <2>1, <2>3, <1>3, <1>4 DEF ok
  <2>4. CASE r \notin ok /\ x \notin ok
    BY <2>1, <2>4, <1>4 DEF ok, NoClashIn
  <2> QED
    BY <2>2, <2>3, <2>4
<1> QED
  BY <1>4 DEF NoClashIn

\* What a repack would merge starts at one of the packs.
LEMMA LeastOf ==
    ASSUME NEW S \in SUBSET Nat, S # {} PROVE \E i \in S : \A j \in S : ~(j < i)
<1>1. PICK i \in S : \A j \in S : <<j, i>> \notin OpToRel(<, Nat)
  BY NatLessThanWellFounded, WFMin
<1>2. \A j \in S : <<j, i>> \in Nat \X Nat
  OBVIOUS
<1>3. \A j \in S : j < i => <<j, i>> \in OpToRel(<, Nat)
  BY <1>2 DEF OpToRel
<1> QED
  BY <1>1, <1>3

LEMMA PickInRange == ASSUME NEW lens, Len(lens) \in Nat PROVE Pick(lens) \in 0..Len(lens)
<1> DEFINE n == Len(lens)
           joins(i) == lens[i] < 2 * Gathered(lens, i)
           Good(i) == /\ \A j \in i..(n - 1) : joins(j)
                      /\ i = 1 \/ ~joins(i - 1)
           S == {i \in 1..n : \A j \in i..(n - 1) : joins(j)}
           start == CHOOSE i \in 1..n : Good(i)
<1>1. CASE n = 0
  BY <1>1, MinPacksAssumption DEF Pick
<1>2. CASE n # 0
  <2>1. n \in S /\ S \in SUBSET Nat
    BY <1>2
  <2>2. PICK i \in S : \A j \in S : ~(j < i)
    <3> HIDE DEF S
    <3> QED
      BY <2>1, LeastOf
  <2>3. Good(i)
    <3>1. i \in 1..n /\ \A j \in i..(n - 1) : joins(j)
      OBVIOUS
    <3> HIDE DEF joins
    <3>2. i = 1 \/ ~joins(i - 1)
      <4>1. SUFFICES ASSUME i # 1, joins(i - 1) PROVE FALSE
        OBVIOUS
      <4>2. i - 1 \in 1..n /\ \A j \in (i - 1)..(n - 1) : j = i - 1 \/ j \in i..(n - 1)
        BY <3>1, <4>1
      <4>3. i - 1 \in S
        BY <3>1, <4>1, <4>2
      <4> HIDE DEF S
      <4> QED
        BY <2>2, <4>2, <4>3, <3>1
    <3> QED
      BY <3>1, <3>2
  <2>4. start \in 1..n
    <3> HIDE DEF Good
    <3> QED
      BY <2>3
  <2>5. Pick(lens) = IF n < MinPacks \/ start = n THEN 0 ELSE start
    BY DEF Pick
  <2> QED
    BY <2>4, <2>5
<1> QED
  BY <1>1, <1>2

\* A manifest in which some packs made way for another: where its packs come from.
MergedAs(m, i, j, pack, n) ==
    /\ DOMAIN n = DOMAIN NoMan /\ n.packs \in Seq(1..Len(made)) /\ n.refs = m.refs
    /\ n.retired = m.retired \cup {[id |-> m.packs[k], at |-> clock] : k \in i..j}
    /\ Len(n.packs) = i + (Len(m.packs) - j) /\ DOMAIN n.packs = 1..Len(n.packs)
    /\ n.packs[i] = pack
    /\ \A k \in 1..(i - 1) : n.packs[k] = m.packs[k]
    /\ \A k \in (i + 1)..Len(n.packs) : n.packs[k] = m.packs[j + k - i]
LEMMA MergedPacks ==
    ASSUME NEW m, IsDoc(m), NEW i \in Int, NEW j \in Int, 1 <= i, i <= j + 1, j <= Len(m.packs),
           NEW pack \in 1..Len(made)
    PROVE  MergedAs(m, i, j, pack, Merged(m, i, j, pack))
<1> DEFINE n == Merged(m, i, j, pack)
           P == 1..Len(made)
           a == SubSeq(m.packs, 1, i - 1)
           b == SubSeq(m.packs, j + 1, Len(m.packs))
           new == a \o <<pack>> \o b
           gone == {[id |-> m.packs[k], at |-> clock] : k \in i..j}
<1>1. m.packs \in Seq(P) /\ DOMAIN m = DOMAIN NoMan /\ Len(m.packs) \in Nat
  BY DEF IsDoc
<1>2. DOMAIN n = DOMAIN NoMan /\ n.packs = new /\ n.refs = m.refs /\ n.retired = m.retired \cup gone
  BY <1>1 DEF Merged, NoMan
<1>3. /\ a \in Seq(P) /\ Len(a) = i - 1 /\ \A k \in 1..(i - 1) : a[k] = m.packs[k]
      /\ b \in Seq(P) /\ Len(b) = Len(m.packs) - j /\ \A k \in 1..Len(b) : b[k] = m.packs[j + k]
  <2> HIDE DEF P
  <2>1. \A k \in 1..Len(m.packs) : m.packs[k] \in P
    BY <1>1
  <2>2. /\ a \in Seq(P) /\ Len(a) = IF 1 <= i - 1 THEN (i - 1) - 1 + 1 ELSE 0
        /\ \A k \in 1..((i - 1) - 1 + 1) : a[k] = m.packs[1 + k - 1]
    <3>1. i - 1 \in Int /\ \A k \in 1..(i - 1) : m.packs[k] \in P
      BY <1>1, <2>1
    <3> HIDE DEF a
    <3> QED
      BY <3>1, SubSeqProperties DEF a
  <2>3. /\ b \in Seq(P) /\ Len(b) = IF j + 1 <= Len(m.packs) THEN Len(m.packs) - (j + 1) + 1 ELSE 0
        /\ \A k \in 1..(Len(m.packs) - (j + 1) + 1) : b[k] = m.packs[(j + 1) + k - 1]
    <3>1. j + 1 \in Int /\ Len(m.packs) \in Int /\ \A k \in (j + 1)..Len(m.packs) : m.packs[k] \in P
      BY <1>1, <2>1
    <3> HIDE DEF b
    <3> QED
      BY <3>1, SubSeqProperties DEF b
  <2> HIDE DEF a, b
  <2>4. Len(a) = i - 1 /\ \A k \in 1..(i - 1) : a[k] = m.packs[k]
    BY <2>2
  <2>5. Len(b) = Len(m.packs) - j /\ \A k \in 1..Len(b) : b[k] = m.packs[j + k]
    <3>1. \A k \in 1..(Len(m.packs) - j) : (j + 1) + k - 1 = j + k
      BY <1>1
    <3> QED
      BY <2>3, <1>1, <3>1
  <2> QED
    BY <2>2, <2>3, <2>4, <2>5
<1>4. <<pack>> \in Seq(P)
  OBVIOUS
<1> HIDE DEF a, b
<1>5. /\ new \in Seq(P) /\ Len(new) = i + Len(b) /\ DOMAIN new = 1..Len(new)
      /\ \A k \in 1..(i - 1) : new[k] = m.packs[k]
      /\ new[i] = pack
      /\ \A k \in (i + 1)..Len(new) : new[k] = m.packs[j + k - i]
  <2> DEFINE c == a \o <<pack>>
  <2>1. c \in Seq(P) /\ Len(c) = i /\ c[i] = pack /\ \A k \in 1..(i - 1) : c[k] = m.packs[k]
    <3>1. /\ c \in Seq(P) /\ Len(c) = Len(a) + Len(<<pack>>)
          /\ \A k \in 1..Len(a) + Len(<<pack>>) : c[k] = IF k <= Len(a) THEN a[k] ELSE <<pack>>[k - Len(a)]
      BY <1>3, <1>4, ConcatProperties
    <3>2. Len(<<pack>>) = 1 /\ <<pack>>[1] = pack
      OBVIOUS
    <3> HIDE DEF c
    <3>3. Len(c) = i /\ \A k \in 1..i : c[k] = IF k <= Len(a) THEN a[k] ELSE <<pack>>[k - Len(a)]
      <4>1. Len(a) + Len(<<pack>>) = i
        BY <1>3, <3>2
      <4> HIDE DEF a
      <4> QED
        BY <3>1, <4>1
    <3>4. i \in 1..i /\ ~(i <= Len(a)) /\ i - Len(a) = 1
      BY <1>3
    <3>5. c[i] = pack
      BY <3>2, <3>3, <3>4
    <3>6. ASSUME NEW k \in 1..(i - 1) PROVE c[k] = m.packs[k]
      <4>1. k \in 1..i /\ k <= Len(a)
        BY <1>3
      <4> QED
        BY <3>3, <4>1, <1>3
    <3> QED
      BY <3>1, <3>3, <3>5, <3>6
  <2> HIDE DEF c
  <2>2. c \o b \in Seq(P) /\ Len(c \o b) = i + Len(b)
        /\ \A k \in 1..Len(c) + Len(b) : (c \o b)[k] = IF k <= i THEN c[k] ELSE b[k - i]
    BY <2>1, <1>3, ConcatProperties
  <2>3. \A k \in (i + 1)..(i + Len(b)) : b[k - i] = m.packs[j + k - i]
    <3>1. \A k \in (i + 1)..(i + Len(b)) : k - i \in 1..Len(b) /\ j + (k - i) = j + k - i
      BY <1>3, <1>1
    <3> QED
      BY <1>3, <3>1
  <2>4. new = c \o b
    BY DEF c
  <2> HIDE DEF new
  <2>5. Len(new) = i + Len(b) /\ \A k \in 1..(i + Len(b)) : new[k] = IF k <= i THEN c[k] ELSE b[k - i]
    BY <2>1, <2>2, <2>4
  <2>6. Len(b) \in Nat
    BY <1>3
  <2>7. ASSUME NEW k \in 1..(i - 1) PROVE new[k] = m.packs[k]
    <3>1. k \in 1..(i + Len(b)) /\ k <= i
      BY <2>6
    <3>2. new[k] = c[k]
      BY <2>5, <3>1
    <3> QED
      BY <2>1, <3>2
  <2>8. new[i] = pack
    BY <2>1, <2>5, <2>6
  <2>9. ASSUME NEW k \in (i + 1)..(i + Len(b)) PROVE new[k] = m.packs[j + k - i]
    <3>1. k \in 1..(i + Len(b)) /\ ~(k <= i)
      BY <2>6
    <3>2. new[k] = b[k - i]
      BY <2>5, <3>1
    <3> QED
      BY <2>3, <3>2
  <2> QED
    BY <2>2, <2>4, <2>5, <2>7, <2>8, <2>9
<1> HIDE DEF n, new, gone
<1>6. Len(new) = i + (Len(m.packs) - j)
  BY <1>3, <1>5
<1>7. MergedAs(m, i, j, pack, n)
  BY <1>2, <1>5, <1>6 DEF MergedAs, gone
<1> QED
  BY <1>7 DEF n

\* It lists what it listed, and the new one; what is retired is retired now.
LEMMA MergedLists ==
    ASSUME NEW m, IsDoc(m), NEW i \in Int, NEW j \in Int, 1 <= i, i <= j + 1, j <= Len(m.packs),
           NEW pack \in 1..Len(made)
    PROVE  LET n == Merged(m, i, j, pack) IN
           /\ DOMAIN n = DOMAIN NoMan /\ n.packs \in Seq(1..Len(made)) /\ n.refs = m.refs
           /\ \A x \in n.retired : x \in m.retired \/ (x.id \in 1..Len(made) /\ x.at = clock)
           /\ \A k : Lists(n, k) <=> Lists(m, k) \/ k = pack
           /\ \A k \in ToSet(n.packs) : k \in ToSet(m.packs) \/ k = pack
<1> DEFINE n == Merged(m, i, j, pack)
           P == 1..Len(made)
           new == n.packs
           gone == {[id |-> m.packs[k], at |-> clock] : k \in i..j}
<1>1. m.packs \in Seq(P) /\ DOMAIN m = DOMAIN NoMan /\ Len(m.packs) \in Nat
  BY DEF IsDoc
<1>4. MergedAs(m, i, j, pack, n)
  BY MergedPacks
<1> HIDE DEF n, new
<1>2. DOMAIN n = DOMAIN NoMan /\ n.refs = m.refs /\ n.retired = m.retired \cup gone
  BY <1>4 DEF MergedAs
<1>5. /\ new \in Seq(P) /\ Len(new) = i + (Len(m.packs) - j) /\ DOMAIN new = 1..Len(new)
      /\ \A k \in 1..(i - 1) : new[k] = m.packs[k]
      /\ new[i] = pack
      /\ \A k \in (i + 1)..Len(new) : new[k] = m.packs[j + k - i]
  BY <1>4 DEF MergedAs, new
<1>3. n.packs = new
  BY DEF new
<1>6. \A x \in n.retired : x \in m.retired \/ (x.id \in 1..Len(made) /\ x.at = clock)
  <2>1. \A k \in i..j : m.packs[k] \in P
    BY <1>1
  <2> QED
    BY <1>2, <2>1
<1>7. ASSUME NEW k, Lists(m, k) PROVE Lists(n, k)
  <2>1. CASE \E x \in m.retired : x.id = k
    BY <2>1, <1>2 DEF Lists
  <2>2. CASE k \in ToSet(m.packs)
    <3>1. PICK q \in 1..Len(m.packs) : m.packs[q] = k
      BY <2>2, <1>1 DEF ToSet
    <3>2. CASE q < i
      <4>1. q \in DOMAIN new /\ new[q] = k
        <5>1. q \in 1..(i - 1) /\ q \in 1..Len(new)
          BY <3>1, <3>2, <1>5, <1>1
        <5> QED
          BY <3>1, <5>1, <1>5
      <4> QED
        BY <4>1, <1>3 DEF Lists, ToSet
    <3>3. CASE q \in i..j
      <4>1. PICK x : x = [id |-> m.packs[q], at |-> clock]
        OBVIOUS
      <4>2. x \in n.retired /\ x.id = k
        BY <3>1, <3>3, <4>1, <1>2
      <4> HIDE DEF gone
      <4> QED
        BY <4>2 DEF Lists
    <3>4. CASE q > j
      <4>1. q - j + i \in (i + 1)..Len(new) /\ j + (q - j + i) - i = q
        <5>1. PICK N \in Nat : N = Len(m.packs)
          BY <1>1
        <5>2. PICK L : L = Len(new)
          OBVIOUS
        <5>3. q \in 1..N /\ q > j /\ L = i + (N - j)
          BY <3>1, <3>4, <1>5, <5>1, <5>2
        <5>4. q - j + i \in (i + 1)..L /\ j + (q - j + i) - i = q
          BY <5>3
        <5> QED
          BY <5>2, <5>4
      <4>2. new[q - j + i] = k /\ q - j + i \in DOMAIN new
        <5> DEFINE k1 == q - j + i
        <5>1. k1 \in (i + 1)..Len(new) /\ j + k1 - i = q /\ k1 \in 1..Len(new)
          BY <4>1
        <5> HIDE DEF k1
        <5>2. new[k1] = m.packs[j + k1 - i]
          BY <5>1, <1>5
        <5>3. new[k1] = k /\ k1 \in DOMAIN new
          BY <5>1, <5>2, <3>1, <1>5
        <5> QED
          BY <5>3 DEF k1
      <4> QED
        BY <4>2, <1>3 DEF Lists, ToSet
    <3> QED
      BY <3>1, <3>2, <3>3, <3>4, <1>1
  <2> QED
    BY <1>7, <2>1, <2>2 DEF Lists
<1>8. Lists(n, pack)
  <2>1. i \in DOMAIN new /\ new[i] = pack
    BY <1>5, <1>1
  <2> QED
    BY <2>1, <1>3 DEF Lists, ToSet
<1>9. ASSUME NEW k \in ToSet(n.packs), k # pack PROVE k \in ToSet(m.packs)
  <2>1. PICK q \in 1..Len(new) : new[q] = k
    BY <1>3, <1>5 DEF ToSet
  <2>2. q \in 1..(i - 1) \/ q \in (i + 1)..Len(new)
    BY <2>1, <1>9, <1>5
  <2>3. CASE q \in 1..(i - 1)
    <3>1. q \in DOMAIN m.packs /\ m.packs[q] = k
      <4>1. q \in 1..Len(m.packs)
        BY <2>3, <1>1
      <4>2. new[q] = m.packs[q]
        BY <2>3, <1>5
      <4> QED
        BY <4>1, <4>2, <2>1, <1>1
    <3> QED
      BY <3>1 DEF ToSet
  <2>4. CASE q \in (i + 1)..Len(new)
    <3>1. j + q - i \in 1..Len(m.packs) /\ m.packs[j + q - i] = k
      <4>1. j + q - i \in 1..Len(m.packs)
        <5>1. /\ i \in Int /\ j \in Int /\ 1 <= i /\ i <= j + 1
              /\ Len(m.packs) \in Nat /\ Len(new) = i + (Len(m.packs) - j)
          BY <1>1, <1>5
        <5>2. q \in Int /\ i + 1 <= q /\ q <= i + (Len(m.packs) - j)
          BY <2>4, <5>1
        <5>3. PICK N \in Nat : N = Len(m.packs)
          BY <5>1
        <5>4. q \in Int /\ i + 1 <= q /\ q <= i + (N - j) /\ i \in Int /\ j \in Int /\ 1 <= i /\ i <= j + 1
          BY <5>1, <5>2, <5>3
        <5>5. j + q - i \in 1..N
          BY <5>4
        <5> QED
          BY <5>3, <5>5
      <4>2. new[q] = m.packs[j + q - i]
        BY <2>4, <1>5
      <4>3. m.packs[j + q - i] = k
        BY <2>1, <4>2, Zenon
      <4> QED
        BY <4>1, <4>3
    <3> QED
      BY <3>1, <1>1 DEF ToSet
  <2> QED
    BY <2>2, <2>3, <2>4
<1>10. ASSUME NEW k, Lists(n, k), k # pack PROVE Lists(m, k)
  <2>1. CASE k \in ToSet(n.packs)
    BY <1>9, <1>10, <2>1 DEF Lists
  <2>2. CASE \E x \in n.retired : x.id = k
    <3>1. PICK x \in n.retired : x.id = k
      BY <2>2
    <3>2. CASE x \in m.retired
      BY <3>1, <3>2 DEF Lists
    <3>3. CASE x \in gone
      <4>1. PICK q \in i..j : x.id = m.packs[q]
        BY <3>3
      <4>2. q \in 1..Len(m.packs)
        BY <1>1
      <4> QED
        BY <3>1, <4>1, <4>2, <1>1 DEF Lists, ToSet
    <3> QED
      BY <3>2, <3>3, <1>2
  <2> QED
    BY <1>10, <2>1, <2>2 DEF Lists
<1> QED
  BY <1>2, <1>3, <1>5, <1>6, <1>7, <1>8, <1>9, <1>10 DEF n

LEMMA MergedRetires ==
    ASSUME NEW m, IsDoc(m), NEW i \in Int, NEW j \in Int, 1 <= i, i <= j + 1, j <= Len(m.packs),
           NEW pack \in 1..Len(made)
    PROVE  LET n == Merged(m, i, j, pack) IN
           /\ m.retired \subseteq n.retired
           /\ \A y \in n.retired :
                 \/ y \in m.retired
                 \/ y.id \in ToSet(m.packs) /\ y.at = clock /\ \E k \in i..j : y.id = m.packs[k]
<1>1. PICK n : n = Merged(m, i, j, pack)
  OBVIOUS
<1>2. MergedAs(m, i, j, pack, n)
  BY <1>1, MergedPacks
<1>3. m.packs \in Seq(1..Len(made)) /\ i..j \subseteq 1..Len(m.packs)
  BY DEF IsDoc
<1>4. \A k \in i..j : m.packs[k] \in ToSet(m.packs)
  BY <1>3 DEF ToSet
<1> QED
  BY <1>1, <1>2, <1>4 DEF MergedAs

\* If the new one was not listed, every pack is listed once.
LEMMA MergedNeat ==
    ASSUME NEW m, IsDoc(m), NEW i \in Int, NEW j \in Int, 1 <= i, i <= j + 1, j <= Len(m.packs),
           NEW pack \in 1..Len(made), ~Lists(m, pack), clock \in Nat
    PROVE  Neat(Merged(m, i, j, pack))
<1>1. PICK n : n = Merged(m, i, j, pack)
  OBVIOUS
<1>2. MergedAs(m, i, j, pack, n)
  BY <1>1, MergedPacks
<1>3. PICK N : N = Len(m.packs)
  OBVIOUS
<1>4. PICK L : L = Len(n.packs)
  OBVIOUS
<1>5. N \in Nat /\ j <= N /\ L = i + (N - j) /\ DOMAIN n.packs = 1..L /\ DOMAIN m.packs = 1..N /\ L \in Nat
  <2>1. m.packs \in Seq(1..Len(made))
    BY DEF IsDoc
  <2>2. N \in Nat /\ j <= N /\ L = i + (N - j) /\ DOMAIN n.packs = 1..L /\ DOMAIN m.packs = 1..N
    BY <1>2, <1>3, <1>4, <2>1 DEF MergedAs
  <2> QED
    BY <2>2
<1>6. \A a, b \in 1..N : m.packs[a] = m.packs[b] => a = b
  BY <1>3 DEF IsDoc, Neat
<1>7. \A a \in 1..N : m.packs[a] # pack
  BY <1>5 DEF Lists, ToSet
\* Where a pack of the new manifest comes from.
<1> DEFINE from(q) == IF q < i THEN q ELSE j + q - i
<1>8. ASSUME NEW q \in 1..L, q # i
      PROVE  from(q) \in 1..N /\ ~(from(q) \in i..j) /\ n.packs[q] = m.packs[from(q)]
  <2>1. CASE q < i
    <3>1. q \in 1..N /\ q \in 1..(i - 1) /\ from(q) = q
      BY <1>5, <2>1
    <3>2. n.packs[q] = m.packs[q]
      BY <1>2, <3>1 DEF MergedAs
    <3> HIDE DEF from
    <3> QED
      BY <2>1, <3>1, <3>2
  <2>2. CASE ~(q < i)
    <3>1. q \in (i + 1)..L /\ from(q) = j + q - i /\ from(q) \in 1..N /\ from(q) > j
      BY <1>5, <1>8, <2>2
    <3>2. n.packs[q] = m.packs[j + q - i]
      BY <1>2, <1>4, <3>1 DEF MergedAs
    <3> HIDE DEF from
    <3> QED
      BY <3>1, <3>2
  <2> QED
    BY <2>1, <2>2
<1>9. ASSUME NEW q \in 1..L, NEW r \in 1..L, q # i, r # i, from(q) = from(r) PROVE q = r
  <2>1. CASE q < i
    BY <1>5, <1>8, <1>9, <2>1
  <2>2. CASE ~(q < i)
    BY <1>5, <1>8, <1>9, <2>2
  <2> QED
    BY <2>1, <2>2
<1> HIDE DEF from
<1>10. n.packs[i] = pack
  BY <1>2 DEF MergedAs
<1>11. ASSUME NEW q \in 1..L, NEW r \in 1..L, n.packs[q] = n.packs[r] PROVE q = r
  <2>1. CASE q = i
    BY <1>7, <1>8, <1>10, <1>11, <2>1
  <2>2. CASE r = i
    BY <1>7, <1>8, <1>10, <1>11, <2>2
  <2>3. CASE q # i /\ r # i
    <3>1. from(q) = from(r)
      BY <1>6, <1>8, <1>11, <2>3
    <3> QED
      BY <1>9, <2>3, <3>1
  <2> QED
    BY <2>1, <2>2, <2>3
<1>12. ASSUME NEW y \in n.retired PROVE y.at \in Nat /\ y.id \notin ToSet(n.packs)
  <2>1. CASE y \in m.retired
    <3>1. y.at \in Nat /\ y.id \notin ToSet(m.packs) /\ y.id # pack
      BY <2>1 DEF IsDoc, Neat, Lists
    <3>2. ASSUME NEW q \in 1..L, n.packs[q] = y.id PROVE FALSE
      <4>1. q # i
        BY <1>10, <3>1, <3>2
      <4> QED
        BY <1>5, <1>8, <3>1, <3>2, <4>1 DEF ToSet
    <3> QED
      BY <1>5, <3>1, <3>2 DEF ToSet
  <2>2. CASE y \notin m.retired
    <3>1. PICK k \in i..j : y.id = m.packs[k] /\ y.at = clock
      BY <1>1, <2>2, MergedRetires
    <3>2. k \in 1..N
      BY <1>5
    <3>3. ASSUME NEW q \in 1..L, n.packs[q] = y.id PROVE FALSE
      <4>1. q # i
        BY <1>7, <1>10, <3>1, <3>2, <3>3
      <4>2. from(q) = k
        BY <1>6, <1>8, <3>1, <3>2, <3>3, <4>1
      <4> QED
        BY <1>8, <4>1, <4>2
    <3> QED
      BY <1>5, <3>1, <3>3 DEF ToSet
  <2> QED
    BY <2>1, <2>2
<1> QED
  BY <1>1, <1>4, <1>11, <1>12 DEF Neat

\* What each operation writes.
LEMMA PushedWrites ==
    ASSUME NEW m, IsDoc(m), NEW p \in Pushes, NEW ok, ok = Verdict(p, m), ok # {}, made \in Seq(ToSet(made)),
           AskOk(push[p].cmds), push[p].pack \in 0..Len(made),
           push[p].atomic => ok = DOMAIN push[p].cmds,
           push[p].pack # 0 => ~Lists(m, push[p].pack),
           \A q \in Pushes : push[p].pack = push[q].pack /\ push[p].pack # 0 => p = q,
           NEW c, c.kind = "push", c.push = p, c.ok = ok, c.pack = push[p].pack
    PROVE  Writes(c, m, Pushed(m, p, ok))
<1> DEFINE x == push[p]
           n == Pushed(m, p, ok)
           P == 1..Len(made)
           moved == {r \in ok : m.refs[r] = x.cmds[r].old}
           packs == IF x.pack = 0 THEN m.packs ELSE Append(m.packs, x.pack)
           after == [r \in Refs |-> IF r \in ok THEN x.cmds[r].new ELSE m.refs[r]]
<1>1. DOMAIN m = DOMAIN NoMan /\ m.packs \in Seq(P) /\ m.refs \in [Refs -> Values] /\ NoClashIn(m.refs)
      /\ \A y \in m.retired : y.id \in P
  BY DEF IsDoc
<1>2. /\ DOMAIN n = DOMAIN NoMan /\ n.packs = packs /\ n.retired = m.retired
      /\ n.refs = [r \in Refs |-> IF r \in moved THEN x.cmds[r].new ELSE m.refs[r]]
  BY <1>1 DEF Pushed, NoMan
<1> HIDE DEF n
<1>3. ok \subseteq DOMAIN x.cmds /\ \A r \in ok : m.refs[r] \in {x.cmds[r].old, x.cmds[r].new}
  BY JudgeLets DEF Verdict
<1>4. DOMAIN x.cmds \subseteq Refs /\ \A r \in DOMAIN x.cmds : x.cmds[r].new \in Values
  BY DEF AskOk
<1>5. n.refs = after
  <2>1. \A r \in Refs : (IF r \in moved THEN x.cmds[r].new ELSE m.refs[r])
                        = (IF r \in ok THEN x.cmds[r].new ELSE m.refs[r])
    BY <1>3
  <2> QED
    BY <1>2, <2>1
<1>6. after \in [Refs -> Values]
  BY <1>1, <1>3, <1>4
<1>7. NoClashIn(after)
  <2>1. after = [r \in Refs |-> IF r \in Judge(x.cmds, m.refs, x.objs, Ix(m)) THEN x.cmds[r].new ELSE m.refs[r]]
    BY DEF Verdict
  <2>2. DOMAIN x.cmds \subseteq Refs /\ NoClashIn(m.refs)
    BY <1>1, <1>4
  <2> HIDE DEF after, x
  <2> QED
    BY <2>1, <2>2, JudgeKeepsApart
<1> HIDE DEF after
<1>8. /\ packs \in Seq(P) /\ \A k : k \in ToSet(packs) <=> k \in ToSet(m.packs) \/ (k = x.pack /\ k # 0)
      /\ \A i, j \in 1..Len(packs) : packs[i] = packs[j] => i = j
  <2>1. CASE x.pack = 0
    <3>1. packs = m.packs
      BY <2>1
    <3> QED
      BY <3>1, <2>1, <1>1 DEF IsDoc, Neat
  <2>2. CASE x.pack # 0
    <3>1. packs = Append(m.packs, x.pack) /\ x.pack \in P
      BY <2>2
    <3> HIDE DEF packs, P, x
    <3>2. /\ packs \in Seq(P) /\ Len(packs) = Len(m.packs) + 1 /\ Len(m.packs) \in Nat
          /\ \A i \in 1..Len(m.packs) : packs[i] = m.packs[i]
          /\ packs[Len(m.packs) + 1] = x.pack
      BY <1>1, <3>1, AppendProperties
    <3>3. DOMAIN packs = 1..(Len(m.packs) + 1) /\ DOMAIN m.packs = 1..Len(m.packs)
      BY <3>2, <1>1
    <3>4. ASSUME NEW k, k \in ToSet(packs) PROVE k \in ToSet(m.packs) \/ k = x.pack
      <4>1. PICK i \in 1..(Len(m.packs) + 1) : packs[i] = k
        BY <3>3, <3>4 DEF ToSet
      <4>2. i \in 1..Len(m.packs) \/ i = Len(m.packs) + 1
        BY <3>2
      <4> QED
        BY <4>1, <4>2, <3>2, <3>3 DEF ToSet
    <3>5. ASSUME NEW k, k \in ToSet(m.packs) \/ k = x.pack PROVE k \in ToSet(packs)
      <4>1. PICK i \in 1..(Len(m.packs) + 1) : packs[i] = k
        <5>1. CASE k = x.pack
          BY <5>1, <3>2
        <5>2. CASE k \in ToSet(m.packs)
          BY <5>2, <3>2, <3>3 DEF ToSet
        <5> QED
          BY <3>5, <5>1, <5>2
      <4> QED
        BY <4>1, <3>3 DEF ToSet
    <3>6. \A i \in 1..Len(m.packs) : m.packs[i] # x.pack
      BY <2>2, <1>1 DEF Lists, ToSet, x
    <3>7. \A i, j \in 1..Len(m.packs) : m.packs[i] = m.packs[j] => i = j
      BY DEF IsDoc, Neat
    <3>8. ASSUME NEW i \in 1..Len(packs), NEW j \in 1..Len(packs), packs[i] = packs[j] PROVE i = j
      <4>1. /\ i \in 1..Len(m.packs) \/ i = Len(m.packs) + 1
            /\ j \in 1..Len(m.packs) \/ j = Len(m.packs) + 1
        BY <3>2
      <4> QED
        BY <3>2, <3>6, <3>7, <3>8, <4>1
    <3> QED
      BY <3>2, <3>4, <3>5, <3>8, <2>2
  <2> QED
    BY <2>1, <2>2
<1>9. \A k : Lists(n, k) <=> Lists(m, k) \/ (k = x.pack /\ k # 0)
  <2> HIDE DEF packs, x
  <2> QED
    BY <1>2, <1>8 DEF Lists
<1>10. Steps(c, m, n)
  <2>1. Moves(p, ok, m, n)
    BY <1>3, <1>5, <1>9 DEF Moves, after
  <2> QED
    BY <2>1, <1>9 DEF Steps, Offered
<1> HIDE DEF x
<1>11. Neat(n)
  <2>1. ASSUME NEW y \in m.retired PROVE y.at \in Nat /\ y.id \notin ToSet(packs)
    <3>1. y.at \in Nat /\ y.id \notin ToSet(m.packs) /\ Lists(m, y.id)
      BY DEF IsDoc, Neat, Lists
    <3> QED
      BY <1>8, <3>1 DEF x
  <2> QED
    BY <1>2, <1>8, <2>1 DEF Neat
<1>12. Relists(c, m, n)
  BY <1>2, <1>8 DEF Relists, Lists, x
<1> QED
  BY <1>1, <1>2, <1>5, <1>6, <1>7, <1>8, <1>9, <1>10, <1>11, <1>12 DEF Writes, n, x

LEMMA MergedWrites ==
    ASSUME NEW m, IsDoc(m), NEW i \in Int, NEW j \in Int, 1 <= i, i <= j + 1, j <= Len(m.packs),
           NEW c, c.kind \in {"collect", "repack"}, c.pack \in 1..Len(made),
           ~Lists(m, c.pack), clock \in Nat, \A p \in Pushes : push[p].pack # 0 => push[p].pack # c.pack,
           NEW n, DOMAIN n = DOMAIN NoMan, n.packs = Merged(m, i, j, c.pack).packs, n.refs = m.refs,
           n.retired = Merged(m, i, j, c.pack).retired
    PROVE  Writes(c, m, n)
<1> DEFINE M == Merged(m, i, j, c.pack)
<1>1. /\ DOMAIN M = DOMAIN NoMan /\ M.packs \in Seq(1..Len(made)) /\ M.refs = m.refs
      /\ \A x \in M.retired : x \in m.retired \/ (x.id \in 1..Len(made) /\ x.at = clock)
      /\ \A k : Lists(M, k) <=> Lists(m, k) \/ k = c.pack
      /\ \A k \in ToSet(M.packs) : k \in ToSet(m.packs) \/ k = c.pack
  BY MergedLists
<1> HIDE DEF M
<1>2. n.packs = M.packs /\ n.retired = M.retired
  BY DEF M
<1>3. \A k : Lists(n, k) <=> Lists(m, k) \/ k = c.pack
  BY <1>1, <1>2 DEF Lists
<1>4. Steps(c, m, n)
  BY <1>3 DEF Steps, Offered
<1>5. Neat(n)
  BY <1>2, MergedNeat DEF M, Neat
<1>6. Relists(c, m, n)
  <2>1. /\ m.retired \subseteq n.retired
        /\ \A y \in n.retired : y \in m.retired \/ (y.id \in ToSet(m.packs) /\ y.at = clock)
    BY <1>2, MergedRetires DEF M
  <2>2. \A k \in ToSet(m.packs) : Lists(n, k)
    BY <1>3 DEF Lists
  <2> QED
    BY <1>1, <1>2, <2>1, <2>2 DEF Relists
<1> QED
  BY <1>1, <1>2, <1>3, <1>4, <1>5, <1>6 DEF Writes, IsDoc

LEMMA KeepsWrites ==
    ASSUME NEW m, IsDoc(m), NEW c, c.kind \in {"sweep", "prune"},
           NEW n, DOMAIN n = DOMAIN NoMan, n.packs = m.packs, n.refs = m.refs, n.retired \subseteq m.retired,
           \A x \in m.retired : x \in n.retired \/ \A p \in Pushes : Offered(p) => push[p].pack # x.id,
           \A x \in m.retired : \/ x \in n.retired
                                \/ c.kind = "sweep" /\ x.id \in c.gone /\ \A y \in n.retired : y.id # x.id
    PROVE  Writes(c, m, n)
<1>1. \A k : Lists(n, k) => Lists(m, k)
  BY DEF Lists
<1>2. \A p \in Pushes : Offered(p) /\ Lists(m, push[p].pack) => Lists(n, push[p].pack)
  BY DEF Lists
<1>3. Steps(c, m, n)
  BY <1>1, <1>2 DEF Steps
<1>4. Neat(n) /\ Relists(c, m, n)
  BY DEF IsDoc, Neat, Relists, Lists
<1> QED
  BY <1>1, <1>3, <1>4 DEF Writes, IsDoc

LEMMA RestoredWrites ==
    ASSUME NEW m, IsDoc(m), NEW c, c.kind = "restore", c.ref \in Refs, c.id \in Objs, NEW content,
           Judge([r \in {c.ref} |-> [old |-> Nil, new |-> c.id]], m.refs, {}, content) # {}
    PROVE  Writes(c, m, [m EXCEPT !.refs[c.ref] = c.id])
<1> DEFINE cmds == [r \in {c.ref} |-> [old |-> Nil, new |-> c.id]]
           ok == Judge(cmds, m.refs, {}, content)
           after == [m.refs EXCEPT ![c.ref] = c.id]
           n == [m EXCEPT !.refs = after]
<1>1. DOMAIN m = DOMAIN NoMan /\ m.refs \in [Refs -> Values] /\ NoClashIn(m.refs) /\ m.packs \in Seq(1..Len(made))
  BY DEF IsDoc
<1>2. n = [m EXCEPT !.refs[c.ref] = c.id]
  OBVIOUS
<1>3. /\ DOMAIN n = DOMAIN NoMan /\ n.packs = m.packs /\ n.refs = after /\ n.retired = m.retired
  BY <1>1 DEF NoMan
<1>4. ok = {c.ref} /\ m.refs[c.ref] \in {Nil, c.id}
  <2>1. ok \subseteq DOMAIN cmds /\ \A r \in ok : m.refs[r] \in {cmds[r].old, cmds[r].new}
    BY JudgeLets
  <2> HIDE DEF ok
  <2> QED
    BY <2>1 DEF ok
<1> HIDE DEF n
<1>5. NoClashIn(after)
  <2>1. after = [r \in Refs |-> IF r \in ok THEN cmds[r].new ELSE m.refs[r]]
    <3> HIDE DEF ok
    <3> QED
      BY <1>1, <1>4
  <2>2. DOMAIN cmds \subseteq Refs
    OBVIOUS
  <2> HIDE DEF after, cmds
  <2> QED
    BY <1>1, <2>1, <2>2, JudgeKeepsApart
<1>6. after \in [Refs -> Values]
  BY <1>1 DEF Values
<1> HIDE DEF ok
<1>7. \A k : Lists(n, k) <=> Lists(m, k)
  BY <1>3 DEF Lists
<1>8. Steps(c, m, n)
  BY <1>3, <1>4, <1>7 DEF Steps
<1> HIDE DEF after
<1>10. Neat(n) /\ Relists(c, m, n)
  BY <1>3 DEF IsDoc, Neat, Relists, Lists
<1>9. Writes(c, m, n)
  BY <1>1, <1>3, <1>5, <1>6, <1>7, <1>8, <1>10 DEF Writes
<1> QED
  BY <1>2, <1>9

-------------------------------------------------------------------------------
\* Steps that write no manifest.

SameAsk(p) == /\ push'[p].cmds = push[p].cmds /\ push'[p].objs = push[p].objs
              /\ push'[p].atomic = push[p].atomic /\ push'[p].pack = push[p].pack

\* A push as it was, one that no manifest was written for yet, or one answered.
PushMove(p) ==
    \/ push'[p] = push[p]
    \/ push[p].st \in {"new", "checked", "uploaded"} /\ push'[p].pack \in {push[p].pack, Len(made) + 1}
    \/ /\ push[p].st = "commit" /\ SameAsk(p) /\ push'[p].st = "done"
       /\ push'[p].res = {} \/ \A w \in late : OfPush(w, p) => w.etag # man.writer

\* A call of no push, one as it was, one that begins, or one that goes round again.
CallMove(s) ==
    \/ ~Live(s)'
    \/ Live(s) /\ call'[s] = call[s] /\ mem'[s].m = mem[s].m /\ mem'[s].etag = mem[s].etag
    \/ /\ call'[s].kind = "push" /\ call'[s].st = "try" /\ ~call'[s].tried
       /\ push[call'[s].push].st \in {"checked", "uploaded"}
       /\ push'[call'[s].push].pack = push[call'[s].push].pack
    \/ /\ Live(s) /\ call[s].st = "settle" /\ call'[s].kind = "push" /\ call'[s].st = "try" /\ call'[s].tried
       /\ call'[s].push = call[s].push /\ call'[s].ok = call[s].ok /\ call'[s].pack = call[s].pack
       /\ mem'[s].m = man /\ mem'[s].etag = man.writer

\* A copy as it was, the manifest as it is, none, or one that has to be read again.
CopyMove(s) ==
    /\ call'[s].doc \in {call[s].doc, NoMan}
    /\ \/ mem'[s].m = mem[s].m /\ mem'[s].etag = mem[s].etag
       \/ mem'[s].m = man /\ mem'[s].etag = man.writer
       \/ mem'[s].m = NoMan /\ mem'[s].etag = None
       \/ mem'[s].m = mem[s].m /\ mem'[s].etag = None /\ man.writer # None

QuietMove ==
    /\ man' = man /\ late' = late /\ nonces' = nonces /\ applied' = applied /\ Grows
    /\ clock' = clock \/ \A p \in Pushes : push'[p].st # "commit"
    /\ \A p \in Pushes : PushMove(p)
    /\ \A s \in Servers : CallMove(s) /\ CopyMove(s)

LEMMA ListedMade == ASSUME NEW d, IsDoc(d), NEW k, Lists(d, k) PROVE k \in 1..Len(made)
<1>1. d.packs \in Seq(1..Len(made)) /\ \A x \in d.retired : x.id \in 1..Len(made)
  BY DEF IsDoc
<1>2. CASE k \in ToSet(d.packs)
  BY <1>1, <1>2 DEF ToSet
<1>3. CASE \E x \in d.retired : x.id = k
  BY <1>1, <1>3
<1> QED
  BY <1>2, <1>3 DEF Lists

LEMMA QuietDocs == ASSUME QuietMove PROVE Docs' \subseteq Docs
<1>1. man' = man /\ late' = late /\ NoMan' = NoMan
  BY DEF QuietMove, NoMan
<1>2. ASSUME NEW s \in Servers PROVE mem'[s].m \in Docs /\ call'[s].doc \in Docs
  BY <1>2 DEF QuietMove, CopyMove, Docs
<1> QED
  BY <1>1, <1>2 DEF Docs

LEMMA QuietWritten == ASSUME Inv, QuietMove PROVE Written'
<1>1. Docs' \subseteq Docs
  BY QuietDocs
<1>2. nonces' = nonces /\ Len(made) \in Nat /\ Len(made') \in Nat /\ Len(made) <= Len(made')
  BY DEF QuietMove, Grows, Inv, Shapes
<1>3. 1..Len(made) \subseteq 1..Len(made')
  BY <1>2
<1>4. ASSUME NEW d, IsDoc(d) PROVE IsDoc(d)'
  <2>1. d.packs \in Seq(1..Len(made'))
    BY <1>3, <1>4, SeqMonotonic DEF IsDoc
  <2> QED
    BY <1>2, <1>3, <1>4, <2>1 DEF IsDoc, NoMan
<1> QED
  BY <1>1, <1>4 DEF Inv, Written

LEMMA QuietTags == ASSUME Inv, QuietMove PROVE Tags'
<1>1. man' = man /\ late' = late /\ nonces' = nonces
  BY DEF QuietMove
<1>2. ASSUME NEW s \in Servers
      PROVE  mem'[s].etag \in {mem[s].etag, man.writer, None}
             /\ (mem'[s].etag = mem'[s].m.writer \/ (mem'[s].etag = None /\ man.writer # None))
  <2>1. NoMan.writer = None
    BY DEF NoMan
  <2> QED
    BY <2>1 DEF QuietMove, CopyMove, Inv, Tags
<1> QED
  BY <1>1, <1>2 DEF Inv, Tags

LEMMA QuietUntouched ==
    ASSUME Inv, QuietMove, NEW p \in Pushes, Untouched(p), push'[p].pack \in {push[p].pack, Len(made) + 1}
    PROVE  Untouched(p)'
<1>1. Docs' \subseteq Docs /\ applied' = applied /\ late' = late
  BY QuietDocs DEF QuietMove
<1>2. Len(made) \in Nat
  BY DEF Inv, Shapes
<1>3. \A d \in Docs : ~Lists(d, Len(made) + 1)
  BY <1>2, ListedMade DEF Inv, Written
<1>4. ASSUME push'[p].pack # 0, NEW d \in Docs' PROVE ~Lists(d, push'[p].pack)
  BY <1>1, <1>3, <1>4 DEF Untouched
<1> QED
  BY <1>1, <1>4 DEF Untouched, Lists

\* A push that some manifest was written for asks what it asked.
LEMMA QuietTouched ==
    ASSUME Inv, QuietMove, NEW p \in Pushes, ~Untouched(p)
    PROVE  /\ SameAsk(p)
           /\ \/ push'[p] = push[p]
              \/ /\ push[p].st = "commit" /\ push'[p].st = "done"
                 /\ push'[p].res = {} \/ \A w \in late : OfPush(w, p) => w.etag # man.writer
  BY DEF QuietMove, PushMove, SameAsk, Inv, Early

\* A push that is offered was so, or is in no manifest.
LEMMA QuietOffered ==
    ASSUME Inv, QuietMove, NEW p \in Pushes, Offered(p)'
    PROVE  (Offered(p) /\ push'[p] = push[p]) \/ (Untouched(p) /\ Untouched(p)')
<1>1. CASE Untouched(p) /\ push'[p].pack \in {push[p].pack, Len(made) + 1}
  BY <1>1, QuietUntouched
<1>2. CASE push'[p] = push[p]
  <2>1. Offered(p)
    BY <1>2 DEF Offered
  <2> QED
    BY <1>2, <2>1
<1>3. push[p].st \in {"new", "checked", "uploaded"} => Untouched(p)
  BY DEF Inv, Early
<1> QED
  BY <1>1, <1>2, <1>3 DEF QuietMove, PushMove, Offered

LEMMA QuietEarly == ASSUME Inv, QuietMove, Linked' PROVE Early'
<1>1. ASSUME NEW p \in Pushes, push'[p].st \in {"new", "checked", "uploaded"} PROVE Untouched(p)'
  <2>1. Untouched(p) /\ push'[p].pack \in {push[p].pack, Len(made) + 1}
    BY <1>1 DEF QuietMove, PushMove, Inv, Early
  <2> QED
    BY <2>1, QuietUntouched
<1>2. ASSUME NEW s \in Servers, Live(s)', ~call'[s].tried PROVE Untouched(call[s].push)'
  <2>1. PICK p \in Pushes : p = call'[s].push /\ push'[p].st = "commit"
    BY <1>2 DEF Linked
  <2>2. ASSUME Live(s), call'[s] = call[s] PROVE Untouched(p)'
    <3>1. Untouched(p) /\ push[p].st = "commit"
      BY <1>2, <2>1, <2>2 DEF Inv, Early, Linked
    <3>2. push'[p].pack = push[p].pack
      BY <2>1, <3>1 DEF QuietMove, PushMove, SameAsk
    <3> QED
      BY <3>1, <3>2, QuietUntouched
  <2>3. ASSUME push[p].st \in {"checked", "uploaded"}, push'[p].pack = push[p].pack PROVE Untouched(p)'
    BY <2>3, QuietUntouched DEF Inv, Early
  <2>4. Untouched(p)'
    BY <1>2, <2>1, <2>2, <2>3 DEF QuietMove, CallMove
  <2> QED
    BY <2>1, <2>4 DEF Untouched
<1> QED
  BY <1>1, <1>2 DEF Early

LEMMA QuietLingers == ASSUME Inv, QuietMove PROVE Lingers'
<1>1. Docs' \subseteq Docs /\ man' = man
  BY QuietDocs DEF QuietMove
<1>2. ASSUME NEW p \in Pushes, Offered(p)', NEW d \in Docs', NEW x \in d.retired, x.id = push'[p].pack
      PROVE  x.at = clock'
  <2>1. clock' = clock
    BY <1>2 DEF QuietMove, Offered
  <2>2. CASE Offered(p) /\ push'[p] = push[p]
    BY <1>1, <1>2, <2>1, <2>2 DEF Inv, Lingers
  <2>3. CASE Untouched(p)'
    BY <1>2, <2>3 DEF Untouched, Offered, Lists
  <2> QED
    BY <1>2, <2>2, <2>3, QuietOffered
<1>3. ASSUME NEW p \in Pushes, NEW s \in Servers, Offered(p)', Lists(mem'[s].m, push'[p].pack)
      PROVE  Lists(man, push'[p].pack)
  <2>1. CASE Offered(p) /\ push'[p] = push[p]
    <3>1. ~Lists(NoMan, push[p].pack)
      BY DEF Lists, NoMan, ToSet
    <3>2. mem'[s].m \in {mem[s].m, man, NoMan}
      BY DEF QuietMove, CopyMove
    <3> QED
      BY <1>3, <2>1, <3>1, <3>2 DEF Inv, Lingers
  <2>2. CASE Untouched(p)'
    BY <1>3, <2>2 DEF Untouched, Offered, Docs
  <2> QED
    BY <1>3, <2>1, <2>2, QuietOffered
<1> QED
  BY <1>1, <1>2, <1>3 DEF Lingers, Lists

LEMMA QuietBased == ASSUME Inv, QuietMove PROVE Based'
<1> SUFFICES ASSUME NEW w \in late, w.etag = man.writer PROVE Steps(w.call, man, w.doc)'
  BY DEF Based, QuietMove
<1>1. Steps(w.call, man, w.doc) /\ man' = man
  BY DEF Inv, Based, QuietMove
<1>2. ASSUME w.call.kind = "push" PROVE Moves(w.call.push, w.call.ok, man, w.doc)'
  <2> DEFINE p == w.call.push
  <2>1. p \in Pushes /\ Moves(p, w.call.ok, man, w.doc)
    BY <1>1, <1>2 DEF Steps
  <2>2. ~Untouched(p)
    BY <1>2 DEF Untouched
  <2>3. SameAsk(p)
    BY <2>1, <2>2, QuietTouched
  <2> HIDE DEF p
  <2>4. Verdict(p, man)' = Verdict(p, man)
    <3>1. PICK m : m = man
      OBVIOUS
    <3>2. m.packs \in Seq(1..Len(made)) /\ Grows /\ man' = m
      BY <1>1, <3>1 DEF QuietMove, Inv, Written, IsDoc, Docs
    <3>3. Judge(push'[p].cmds, m.refs, push'[p].objs, Ix(m)') = Verdict(p, m)
      BY <2>3, <3>2, VerdictStands DEF SameAsk
    <3> QED
      BY <3>1, <3>2, <3>3 DEF Verdict, Ix
  <2> QED
    BY <1>1, <2>1, <2>3, <2>4 DEF Moves, SameAsk, Lists, p
<1>3. ASSUME NEW p \in Pushes, Offered(p)'
      PROVE  /\ Lists(man, push'[p].pack) => Lists(w.doc, push'[p].pack)
             /\ Lists(w.doc, push'[p].pack) => Lists(man, push'[p].pack) \/ (w.call.kind = "push" /\ w.call.push = p)
  <2>1. CASE Offered(p) /\ push'[p] = push[p]
    BY <1>1, <2>1 DEF Steps
  <2>2. CASE Untouched(p)'
    BY <1>1, <1>3, <2>2 DEF Untouched, Offered, Docs, QuietMove
  <2> QED
    BY <1>3, <2>1, <2>2, QuietOffered
<1> QED
  BY <1>1, <1>2, <1>3 DEF Steps, Lists

LEMMA QuietLandings == ASSUME Inv, QuietMove PROVE Landings'
<1> USE DEF OfPush
<1>1. man' = man /\ late' = late /\ applied' = applied
  BY DEF QuietMove
<1>2. ASSUME NEW a \in applied PROVE a.push \in Pushes /\ push'[a.push].pack = push[a.push].pack
  BY QuietTouched DEF Inv, Landings, Untouched, SameAsk
<1>3. PackedOnce'
  BY <1>1, <1>2 DEF PackedOnce, Inv, Landings
<1>4. ASSUME NEW w \in late, w.call.kind = "push", w.etag = man.writer
      PROVE  LET p == w.call.push IN
             /\ p \in Pushes
             /\ push'[p].st = "commit" \/ (push'[p].st = "done" /\ push'[p].res = {})
             /\ push'[p].pack # 0 => \A a \in applied : a.push # p
  <2> DEFINE p == w.call.push
  <2>1. /\ p \in Pushes
        /\ push[p].st = "commit" \/ (push[p].st = "done" /\ push[p].res = {})
        /\ push[p].pack # 0 => \A a \in applied : a.push # p
    BY <1>4 DEF Inv, Landings
  <2>2. ~Untouched(p)
    BY <1>4 DEF Untouched
  <2> QED
    BY <1>4, <2>1, <2>2, QuietTouched DEF SameAsk
<1>5. ASSUME NEW p \in Pushes, Offered(p)' PROVE Lists(man, push'[p].pack) <=> \E a \in applied : a.push = p
  <2>1. CASE Offered(p) /\ push'[p] = push[p]
    BY <2>1 DEF Inv, Landings
  <2>2. CASE Untouched(p)'
    BY <1>1, <1>5, <2>2 DEF Untouched, Offered, Docs
  <2> QED
    BY <1>5, <2>1, <2>2, QuietOffered
<1> QED
  BY <1>1, <1>2, <1>3, <1>4, <1>5 DEF Landings, Lists

LEMMA QuietInformed == ASSUME Inv, QuietMove, Linked' PROVE Informed'
<1>1. man' = man /\ late' = late /\ applied' = applied
  BY DEF QuietMove
<1> SUFFICES ASSUME NEW s \in Servers, Live(s)' PROVE OnCall(s)'
  BY DEF Informed
<1>a. PICK c : c = call'[s]
  OBVIOUS
<1>b. PICK m : m = mem'[s].m
  OBVIOUS
<1>c. PICK p \in Pushes : p = c.push /\ push'[p].st = "commit" /\ push'[p].pack = c.pack
  BY <1>a DEF Linked
<1>2. c = call'[s] /\ m = mem'[s].m /\ p = c.push /\ push'[p].st = "commit" /\ push'[p].pack = c.pack
  BY <1>a, <1>b, <1>c
<1>3. SUFFICES
        /\ c.st = "settle" =>
              /\ c.ok \subseteq DOMAIN push'[p].cmds
              /\ man.writer = c.doc.writer => \E a \in applied : a.push = p /\ a.ok = c.ok
              /\ \A w \in late : w.doc.writer = c.doc.writer => OfPush(w, p) /\ w.call.ok = c.ok
              /\ \A w \in late : OfPush(w, p) =>
                    w.etag < c.doc.writer /\ (w.etag = man.writer => w.call.ok = c.ok)
              /\ c.pack # 0 => \A a \in applied : a.push = p => a.ok = c.ok
        /\ c.st = "try" =>
              /\ \A w \in late : OfPush(w, p) /\ w.etag = man.writer => mem'[s].etag = man.writer
              /\ c.pack # 0 => \A a \in applied : a.push = p =>
                    a.ok = IF Lists(m, c.pack) THEN c.ok ELSE Verdict(p, m)'
  BY <1>1, <1>2 DEF OnCall, OfPush, Lists, Verdict, Ix
<1>4. CASE Live(s) /\ call'[s] = call[s] /\ mem'[s].m = mem[s].m /\ mem'[s].etag = mem[s].etag
  <2>1. OnCall(s) /\ push[p].st = "commit"
    BY <1>2, <1>4 DEF Inv, Informed, Linked
  <2>2. push'[p] = push[p]
    BY <1>2, <2>1 DEF QuietMove, PushMove
  <2>3. Verdict(p, m)' = Verdict(p, m)
    <3>1. m.packs \in Seq(1..Len(made)) /\ Grows
      BY <1>2, <1>4 DEF Inv, Written, IsDoc, Docs, QuietMove
    <3>2. Judge(push'[p].cmds, m.refs, push'[p].objs, Ix(m)') = Verdict(p, m)
      BY <2>2, <3>1, VerdictStands
    <3> QED
      BY <3>2 DEF Verdict
  <2> QED
    BY <1>2, <1>4, <2>1, <2>2, <2>3 DEF OnCall
<1>5. CASE c.st = "try" /\ ~c.tried /\ push[p].st \in {"checked", "uploaded"}
  <2>1. Untouched(p)
    BY <1>5 DEF Inv, Early
  <2> QED
    BY <1>5, <2>1 DEF Untouched, OfPush
<1>6. CASE /\ Live(s) /\ call[s].st = "settle" /\ c.st = "try"
           /\ p = call[s].push /\ c.ok = call[s].ok /\ c.pack = call[s].pack
           /\ m = man /\ mem'[s].etag = man.writer
  <2>1. OnCall(s) /\ push[p].st = "commit" /\ push[p].pack = call[s].pack
    BY <1>6 DEF Inv, Informed, Linked
  <2>2. ASSUME NEW a \in applied, a.push = p, c.pack # 0 PROVE a.ok = c.ok /\ Lists(man, c.pack)
    <3>1. a.ok = c.ok
      BY <1>6, <2>1, <2>2 DEF OnCall
    <3>2. Offered(p)
      BY <1>6, <2>1, <2>2 DEF Offered
    <3> QED
      BY <1>6, <2>1, <2>2, <3>1, <3>2 DEF Inv, Landings
  <2> QED
    BY <1>6, <2>2
<1> QED
  BY <1>2, <1>4, <1>5, <1>6 DEF QuietMove, CallMove

LEMMA QuietInv == ASSUME Inv, QuietMove, Shapes', Linked', Apart' PROVE Inv'
  BY QuietWritten, QuietTags, QuietEarly, QuietLingers, QuietBased, QuietLandings, QuietInformed DEF Inv

-------------------------------------------------------------------------------
\* Steps of one server that is in no push's call.

\* A call that is not a push's, in good order.
CallOk(c) ==
    /\ DOMAIN c = DOMAIN NoCall /\ c.st \in {"try", "settle", "cleanup"}
    /\ c.kind = "push" => c.st = "cleanup"
    /\ c.kind = "restore" => c.ref \in Refs /\ c.id \in Objs
    /\ c.kind \in {"collect", "repack"} =>
          /\ c.pack \in 0..Len(made) /\ (c.st # "cleanup" => c.pack # 0)
          /\ \A p \in Pushes : push[p].pack # 0 => push[p].pack # c.pack
    /\ c.kind = "sweep" =>
          /\ c.gone \subseteq 1..Len(made)
          /\ \A p \in Pushes : push[p].st \in {"uploaded", "commit"} => push[p].pack \notin c.gone

\* Only s's copy, call and job change, if they do.
OnlyAt(s) ==
    /\ man' = man /\ late' = late /\ nonces' = nonces /\ applied' = applied /\ clock' = clock
    /\ DOMAIN mem' = Servers /\ DOMAIN call' = Servers /\ DOMAIN job' = Servers
    /\ DOMAIN mem'[s] = DOMAIN NoMem /\ job'[s].sources \in Seq(Nat)
    /\ \A r \in Servers \ {s} : mem'[r] = mem[r] /\ call'[r] = call[r] /\ job'[r] = job[r]

LEMMA CallStands == ASSUME Inv, NEW s \in Servers, ~Live(s) PROVE CallOk(call[s])
  BY DEF Inv, Shapes, Linked, Apart, CallOk, Live

LEMMA GrowsMore == ASSUME Inv, Grows
    PROVE  Len(made) \in Nat /\ Len(made') \in Nat /\ 1..Len(made) \subseteq 1..Len(made')
           /\ 0..Len(made) \subseteq 0..Len(made') /\ Len(made) <= Len(made')
  BY DEF Inv, Shapes, Grows

LEMMA ShapesAt ==
    ASSUME Inv, NEW s \in Servers, OnlyAt(s), Grows, DOMAIN call'[s] = DOMAIN NoCall,
           DOMAIN push' = Pushes,
           \A p \in Pushes :
              \/ push'[p] = push[p]
              \/ /\ DOMAIN push'[p] = DOMAIN NoPush
                 /\ push'[p].st \in {"checked", "uploaded", "commit", "done"}
                 /\ push'[p].pack \in 0..Len(made') /\ (push'[p].st = "checked" => push'[p].pack = 0)
                 /\ push'[p].st # "done" => push'[p].res = {}
                 /\ push'[p].s \in Servers /\ AskOk(push'[p].cmds)
    PROVE  Shapes'
<1> USE GrowsMore
<1>1. nonces' \in Nat /\ nonces' > 0 /\ clock' \in Nat /\ made' \in Seq(ToSet(made')) /\ (late' # {} => LatePuts)
  BY DEF Inv, Shapes, OnlyAt, Grows
<1>2. ASSUME NEW r \in Servers
      PROVE  DOMAIN mem'[r] = DOMAIN NoMem /\ job'[r].sources \in Seq(Nat) /\ DOMAIN call'[r] = DOMAIN NoCall
  <2>1. DOMAIN mem[r] = DOMAIN NoMem /\ job[r].sources \in Seq(Nat) /\ DOMAIN call[r] = DOMAIN NoCall
    BY DEF Inv, Shapes
  <2> QED
    BY <2>1 DEF OnlyAt
<1>3. ASSUME NEW p \in Pushes
      PROVE  /\ DOMAIN push'[p] = DOMAIN NoPush
             /\ push'[p].st \in {"new", "checked", "uploaded", "commit", "done"}
             /\ push'[p].pack \in 0..Len(made')
             /\ push'[p].st \in {"new", "checked"} => push'[p].pack = 0
             /\ push'[p].st # "done" => push'[p].res = {}
             /\ IF push'[p].st = "new" THEN push'[p] = NoPush ELSE push'[p].s \in Servers /\ AskOk(push'[p].cmds)
  BY DEF Inv, Shapes
<1>4. (NoMem = NoMem') /\ (NoCall = NoCall') /\ NoPush' = NoPush
  BY DEF NoMem, NoCall, NoPush, NoMan
<1> QED
  BY <1>1, <1>2, <1>3, <1>4 DEF Shapes, OnlyAt, AskOk

\* No push changes.
LEMMA IdleInv ==
    ASSUME Inv, NEW s \in Servers, ~Live(s), OnlyAt(s), push' = push, Grows, CopyMove(s),
           NEW c, call'[s] = c, CallOk(c)'
    PROVE  Inv'
<1> USE GrowsMore
<1>0. NoCall' = NoCall /\ NoMem' = NoMem
  BY DEF NoCall, NoMan, NoMem
<1>1. Shapes'
  <2>1. DOMAIN call'[s] = DOMAIN NoCall /\ DOMAIN push' = Pushes
    BY <1>0 DEF CallOk, Inv, Shapes
  <2> QED
    BY <2>1, ShapesAt
<1>2. ~Live(s)' /\ \A r \in Servers \ {s} : call'[r] = call[r]
  BY DEF CallOk, Live, OnlyAt
<1>3. \A r \in Servers : Live(r)' => r # s /\ Live(r) /\ call'[r] = call[r] /\ mem'[r] = mem[r]
  BY <1>2 DEF Live, OnlyAt
<1>4. \A r \in Servers : Live(r) => Live(r)' /\ call'[r] = call[r]
  BY <1>2 DEF Live
<1>5. QuietMove
  <2>1. \A r \in Servers : CallMove(r)
    BY <1>3 DEF CallMove
  <2>2. \A r \in Servers \ {s} : CopyMove(r)
    BY DEF CopyMove, OnlyAt
  <2> QED
    BY <2>1, <2>2 DEF QuietMove, PushMove, OnlyAt
<1>6. Linked'
  <2>1. ASSUME NEW r \in Servers
        PROVE  /\ call'[r].st \in {"try", "settle", "cleanup"}
               /\ Live(r)' => /\ call'[r].push \in Pushes /\ push[call'[r].push].st = "commit"
                              /\ push[call'[r].push].s = r /\ push[call'[r].push].pack = call'[r].pack
                              /\ call'[r].st = "settle" => call'[r].tried
               /\ call'[r].kind = "restore" => call'[r].ref \in Refs /\ call'[r].id \in Objs
    <3>1. CASE r = s
      BY <1>2, <3>1 DEF CallOk
    <3>2. CASE r # s
      BY <1>2, <1>3, <3>2 DEF Inv, Linked
    <3> QED
      BY <3>1, <3>2
  <2>2. ASSUME NEW p \in Pushes, push[p].st = "commit" PROVE Live(push[p].s)' /\ call'[push[p].s].push = p
    <3>1. Live(push[p].s) /\ call[push[p].s].push = p /\ push[p].s \in Servers
      BY <2>2 DEF Inv, Linked, Shapes
    <3> QED
      BY <3>1, <1>4
  <2> QED
    BY <2>1, <2>2 DEF Linked, Live
<1>7. Apart'
  <2>1. ASSUME NEW r \in Servers
        PROVE  /\ call'[r].kind \in {"collect", "repack"} =>
                     /\ call'[r].pack \in 0..Len(made') /\ (call'[r].st # "cleanup" => call'[r].pack # 0)
                     /\ \A p \in Pushes : push[p].pack # 0 => push[p].pack # call'[r].pack
               /\ call'[r].kind = "sweep" =>
                     /\ call'[r].gone \subseteq 1..Len(made')
                     /\ \A p \in Pushes : push[p].st \in {"uploaded", "commit"} => push[p].pack \notin call'[r].gone
    <3>1. CASE r = s
      BY <3>1 DEF CallOk
    <3>2. CASE r # s
      BY <1>2, <3>2 DEF Inv, Apart
    <3> QED
      BY <3>1, <3>2
  <2> QED
    BY <2>1 DEF Apart, Inv
<1> QED
  BY <1>1, <1>5, <1>6, <1>7, QuietInv

\* What the parts of those steps do.
LEMMA BecomeIs ==
    ASSUME Inv, NEW s \in Servers, NEW ms, Become(s, ms)
    PROVE  DOMAIN mem' = Servers /\ mem'[s] = ms /\ \A r \in Servers \ {s} : mem'[r] = mem[r]
  BY DEF Become, Inv, Shapes

\* A copy that was revalidated is the manifest as it is.
LEMMA RevalidatedIs ==
    ASSUME Inv, NEW s \in Servers
    PROVE  LET ms == Revalidated(mem[s]) IN
           DOMAIN ms = DOMAIN NoMem /\ ms.m = man /\ ms.etag = man.writer /\ man.packs \in Seq(1..Len(made))
<1>1. DOMAIN mem[s] = DOMAIN NoMem
  BY DEF Inv, Shapes
<1>2. ASSUME man.writer = mem[s].etag PROVE mem[s].m = man
  BY <1>2 DEF Inv, Tags, Written, Docs
<1>3. man.packs \in Seq(1..Len(made))
  BY DEF Inv, Written, IsDoc, Docs
<1> QED
  BY <1>1, <1>2, <1>3 DEF Revalidated, Apply, NoMem

LEMMA BecomeRevalidated ==
    ASSUME Inv, NEW s \in Servers, Become(s, Revalidated(mem[s]))
    PROVE  /\ DOMAIN mem' = Servers /\ \A r \in Servers \ {s} : mem'[r] = mem[r]
           /\ DOMAIN mem'[s] = DOMAIN NoMem /\ mem'[s].m = man /\ mem'[s].etag = man.writer
<1> DEFINE ms == Revalidated(mem[s])
<1>1. DOMAIN ms = DOMAIN NoMem /\ ms.m = man /\ ms.etag = man.writer
  BY RevalidatedIs
<1> HIDE DEF ms
<1>2. PICK x : x = ms
  OBVIOUS
<1>3. DOMAIN mem' = Servers /\ mem'[s] = ms /\ \A r \in Servers \ {s} : mem'[r] = mem[r]
  BY DEF Become, Inv, Shapes, ms
<1> QED
  BY <1>1, <1>3

\* The calls that come by themselves.
NextCalls == {NoCall, Call("orphans"), Call("consider"), Call("merge")}

LEMMA PlainCallOk ==
    ASSUME NEW c, DOMAIN c = DOMAIN NoCall, c.st \in {"try", "settle", "cleanup"},
           c.kind \notin {"push", "restore", "collect", "repack", "sweep"}
    PROVE  CallOk(c)' /\ CallOk(c)
<1>1. NoCall' = NoCall
  BY DEF NoCall, NoMan
<1> QED
  BY <1>1 DEF CallOk

LEMMA NextCallsOk ==
    ASSUME NEW c \in NextCalls
    PROVE  CallOk(c)' /\ CallOk(c) /\ c.doc = NoMan /\ c.kind # "push" /\ c.pack = 0
<1>1. /\ DOMAIN c = DOMAIN NoCall /\ c.st = "try" /\ c.doc = NoMan /\ c.pack = 0
      /\ c.kind \in {"none", "orphans", "consider", "merge"}
  BY DEF NextCalls, Call, NoCall
<1> QED
  BY <1>1, PlainCallOk

LEMMA DoneIs ==
    ASSUME Inv, NEW s \in Servers, Done(s)
    PROVE  DOMAIN call' = Servers /\ call'[s] \in NextCalls /\ \A r \in Servers \ {s} : call'[r] = call[r]
  BY DEF Done, NextCalls, Inv, Shapes

-------------------------------------------------------------------------------
\* What of a server such a step may change, and how.

Rest == /\ man' = man /\ late' = late /\ nonces' = nonces /\ clock' = clock /\ applied' = applied
        /\ push' = push
MemAt(s) ==
    /\ DOMAIN mem' = Servers /\ DOMAIN mem'[s] = DOMAIN NoMem /\ \A r \in Servers \ {s} : mem'[r] = mem[r]
    /\ \/ mem'[s].m = mem[s].m /\ mem'[s].etag = mem[s].etag
       \/ mem'[s].m = man /\ mem'[s].etag = man.writer
       \/ mem'[s].m = NoMan /\ mem'[s].etag = None
       \/ mem'[s].m = mem[s].m /\ mem'[s].etag = None /\ man.writer # None
JobAt(s) ==
    DOMAIN job' = Servers /\ job'[s].sources \in Seq(Nat) /\ \A r \in Servers \ {s} : job'[r] = job[r]
CallAt(s) ==
    /\ DOMAIN call' = Servers /\ \A r \in Servers \ {s} : call'[r] = call[r]
    /\ \E c : call'[s] = c /\ CallOk(c)' /\ c.doc \in {call[s].doc, NoMan}

LEMMA IdleAt ==
    ASSUME Inv, NEW s \in Servers, ~Live(s), Rest, Grows, MemAt(s), JobAt(s), CallAt(s)
    PROVE  Inv'
<1>1. PICK c : call'[s] = c /\ CallOk(c)' /\ c.doc \in {call[s].doc, NoMan}
  BY DEF CallAt
<1>2. OnlyAt(s)
  BY DEF OnlyAt, Rest, MemAt, JobAt, CallAt
<1>3. CopyMove(s)
  BY <1>1 DEF CopyMove, MemAt
<1> QED
  BY <1>1, <1>2, <1>3, IdleInv DEF Rest

LEMMA MemStays == ASSUME Inv, NEW s \in Servers, mem' = mem PROVE MemAt(s)
  BY DEF Inv, Shapes, MemAt

LEMMA MemBecomes ==
    ASSUME Inv, NEW s \in Servers, NEW ms, Become(s, ms), DOMAIN ms = DOMAIN NoMem,
           \/ ms.m = man /\ ms.etag = man.writer
           \/ ms.m = mem[s].m /\ ms.etag = None /\ man.writer # None
    PROVE  MemAt(s)
  BY BecomeIs DEF MemAt

LEMMA MemRevalidated == ASSUME Inv, NEW s \in Servers, Become(s, Revalidated(mem[s])) PROVE MemAt(s)
  BY BecomeRevalidated DEF MemAt

LEMMA JobStays == ASSUME Inv, NEW s \in Servers, job' = job PROVE JobAt(s)
  BY DEF Inv, Shapes, JobAt

LEMMA JobEnds == ASSUME Inv, NEW s \in Servers, job' = [job EXCEPT ![s] = NoJob] PROVE JobAt(s)
<1>1. NoJob.sources = <<>> /\ <<>> \in Seq(Nat)
  BY DEF NoJob
<1> QED
  BY <1>1 DEF Inv, Shapes, JobAt

LEMMA CallOkStays == ASSUME Inv, NEW c, CallOk(c), push' = push, Grows PROVE CallOk(c)'
<1>1. NoCall' = NoCall
  BY DEF NoCall, NoMan
<1>2. 1..Len(made) \subseteq 1..Len(made') /\ 0..Len(made) \subseteq 0..Len(made')
  BY GrowsMore
<1> QED
  BY <1>1, <1>2 DEF CallOk

LEMMA CallStays ==
    ASSUME Inv, NEW s \in Servers, ~Live(s), call' = call, push' = push, Grows PROVE CallAt(s)
<1>1. PICK c : c = call[s]
  OBVIOUS
<1>2. CallOk(c)'
  BY <1>1, CallStands, CallOkStays
<1> QED
  BY <1>1, <1>2 DEF CallAt, Inv, Shapes

LEMMA CallBecomes ==
    ASSUME Inv, NEW s \in Servers, NEW c, call' = [call EXCEPT ![s] = c], CallOk(c), push' = push, Grows,
           c.doc \in {call[s].doc, NoMan}
    PROVE  CallAt(s)
<1>1. CallOk(c)'
  BY CallOkStays
<1>2. call'[s] = c /\ DOMAIN call' = Servers /\ \A r \in Servers \ {s} : call'[r] = call[r]
  BY DEF Inv, Shapes
<1> QED
  BY <1>1, <1>2 DEF CallAt

LEMMA CallDone == ASSUME Inv, NEW s \in Servers, Done(s) PROVE CallAt(s)
<1>1. PICK c \in NextCalls : call'[s] = c
  BY DoneIs
<1>2. CallOk(c)' /\ c.doc = NoMan
  BY NextCallsOk
<1> QED
  BY <1>1, <1>2, DoneIs DEF CallAt

\* A call that gives up.
LEMMA CallGivesUp ==
    ASSUME Inv, NEW s \in Servers, ~Live(s), GiveUp(s), call[s].kind # "push"
    PROVE  push' = push /\ JobAt(s) /\ (push' = push /\ Grows => CallAt(s))
<1>1. push' = push
  BY DEF GiveUp
<1>2. JobAt(s)
  BY JobStays, JobEnds DEF GiveUp
<1>3. ASSUME Grows PROVE CallAt(s)
  <2>1. CASE Done(s)
    BY <2>1, CallDone
  <2>2. CASE call' = [call EXCEPT ![s].st = "cleanup"]
    <3>1. PICK c : c = [call[s] EXCEPT !.st = "cleanup"]
      OBVIOUS
    <3>2. CallOk(call[s]) /\ DOMAIN call[s] = DOMAIN NoCall
      BY CallStands DEF CallOk
    <3>3. DOMAIN c = DOMAIN NoCall /\ c.st = "cleanup" /\ c.doc = call[s].doc /\ c.kind = call[s].kind
          /\ c.ref = call[s].ref /\ c.id = call[s].id /\ c.gone = call[s].gone /\ c.pack = call[s].pack
      BY <3>1, <3>2 DEF NoCall
    <3>4. CallOk(c)
      BY <3>2, <3>3 DEF CallOk
    <3>5. call' = [call EXCEPT ![s] = c]
      BY <2>2, <3>1
    <3> QED
      BY <1>1, <1>3, <3>3, <3>4, <3>5, CallBecomes
  <2> QED
    BY <2>1, <2>2 DEF GiveUp
<1> QED
  BY <1>1, <1>2, <1>3

LEMMA MadeStays == ASSUME Inv, made' = made PROVE Grows
  BY SameGrows DEF Inv, Shapes

LEMMA FreeIdle == ASSUME NEW s, Free(s) PROVE ~Live(s) /\ call[s].kind = "none"
  BY DEF Free, Live, NoCall

-------------------------------------------------------------------------------
\* The copy, fetches, and requests.

LEMMA LoadInv == ASSUME Inv, NEW s \in Servers, Load(s) PROVE Inv'
<1> USE DEF Load
<1>1. ~Live(s) /\ Grows /\ Rest
  BY FreeIdle, MadeStays DEF Rest
<1>2. MemAt(s)
  BY DEF Inv, Shapes, MemAt, NoMem
<1> QED
  BY <1>1, <1>2, JobStays, CallStays, IdleAt DEF Rest

LEMMA LookInv == ASSUME Inv, NEW s \in Servers, Look(s) PROVE Inv'
<1> USE DEF Look
<1>1. ~Live(s) /\ Grows /\ Rest
  BY FreeIdle, MadeStays DEF Rest
<1> QED
  BY <1>1, MemRevalidated, JobStays, CallStays, IdleAt DEF Rest

LEMMA ResetInv == ASSUME Inv, NEW s \in Servers, Reset(s) PROVE Inv'
<1> USE DEF Reset
<1>1. ~Live(s) /\ Grows /\ Rest
  BY FreeIdle, MadeStays DEF Rest
<1>2. MemAt(s)
  BY DEF Inv, Shapes, MemAt, NoMem
<1> QED
  BY <1>1, <1>2, JobStays, CallStays, IdleAt DEF Rest

LEMMA FetchInv == ASSUME Inv, NEW s \in Servers, FetchStart(s) \/ FetchEnd(s) PROVE Inv'
<1>1. /\ ~Live(s) /\ Rest
      /\ made' = made /\ mem' = mem /\ job' = job /\ call' = call
  BY FreeIdle DEF FetchStart, FetchEnd, Open, Rest
<1> QED
  BY <1>1, MadeStays, MemStays, JobStays, CallStays, IdleAt DEF Rest

LEMMA RequestInv == ASSUME Inv, NEW s \in Servers, NEW kind, Request(s, kind) PROVE Inv'
<1>1. /\ ~Live(s) /\ Rest
      /\ made' = made /\ mem' = mem /\ job' = job /\ call' = call
  BY FreeIdle DEF Request, Open, Rest
<1> QED
  BY <1>1, MadeStays, MemStays, JobStays, CallStays, IdleAt DEF Rest

LEMMA RestoreInv == ASSUME Inv, NEW s \in Servers, NEW r \in Refs, NEW o \in Objs, Restore(s, r, o) PROVE Inv'
<1> DEFINE c == [Call("restore") EXCEPT !.ref = r, !.id = o]
<1>1. /\ ~Live(s) /\ Rest
      /\ made' = made /\ mem' = mem /\ job' = job /\ call' = [call EXCEPT ![s] = c]
  BY FreeIdle DEF Restore, Open, Rest
<1>2. CallOk(c) /\ c.doc = NoMan
  BY DEF CallOk, Call, NoCall
<1> HIDE DEF c
<1>3. CallAt(s)
  BY <1>1, <1>2, MadeStays, CallBecomes DEF Rest
<1> QED
  BY <1>1, <1>3, MadeStays, MemStays, JobStays, IdleAt

\* A call that has nothing to do is over.
LEMMA NothingInv ==
    ASSUME Inv, NEW s \in Servers, ~Live(s), Done(s), Rest, made' = made, mem' = mem,
           job' = job \/ job' = [job EXCEPT ![s] = NoJob]
    PROVE  Inv'
  BY MadeStays, MemStays, JobStays, JobEnds, CallDone, IdleAt

LEMMA JobLandedInv == ASSUME Inv, NEW s \in Servers, ~Live(s), JobLanded(s) PROVE Inv'
  BY NothingInv DEF JobLanded, Rest

LEMMA JobGivesUpInv == ASSUME Inv, NEW s \in Servers, ~Live(s), call[s].kind # "push", JobGivesUp(s) PROVE Inv'
<1>1. man' = man /\ made' = made /\ late' = late /\ nonces' = nonces /\ clock' = clock /\ mem' = mem
      /\ applied' = applied /\ GiveUp(s)
  BY DEF JobGivesUp
<1> QED
  BY <1>1, CallGivesUp, MadeStays, MemStays, IdleAt DEF Rest

LEMMA CleanupInv == ASSUME Inv, NEW s \in Servers, Cleanup(s) PROVE Inv'
<1>1. ~Live(s) /\ Rest /\ made' = made /\ job' = job /\ Done(s)
  BY DEF Cleanup, Live, Rest
<1>2. MemAt(s)
  BY MemStays, MemRevalidated DEF Cleanup
<1> QED
  BY <1>1, <1>2, MadeStays, JobStays, CallDone, IdleAt

-------------------------------------------------------------------------------
\* Background work.

LEMMA ManTyped == ASSUME Inv PROVE IsDoc(man) /\ man \in Docs /\ man.packs \in Seq(1..Len(made)) /\ man.packs \in Seq(Nat)
<1>1. IsDoc(man) /\ man \in Docs
  BY DEF Inv, Written, Docs
<1>2. man.packs \in Seq(1..Len(made)) /\ 1..Len(made) \subseteq Nat
  BY <1>1 DEF IsDoc
<1>3. man.packs \in Seq(Nat)
  BY <1>2, SeqMonotonic
<1> QED
  BY <1>1, <1>2, <1>3

LEMMA CollectStartInv == ASSUME Inv, NEW s \in Servers, CollectStart(s) PROVE Inv'
<1> DEFINE ms == Revalidated(mem[s])
           prune == [Call("prune") EXCEPT !.cut = Cutoff(FALSE)]
<1>1. ~Live(s) /\ Rest /\ made' = made
  BY FreeIdle DEF CollectStart, Resting, Rest
<1>2. MemAt(s)
  BY MemStays, MemRevalidated DEF CollectStart
<1>3. ms.m = man
  BY RevalidatedIs
<1> HIDE DEF ms
<1>4. JobAt(s)
  <2>1. ASSUME NEW j, job' = [job EXCEPT ![s] = j], j.sources = man.packs PROVE JobAt(s)
    BY <2>1, ManTyped DEF Inv, Shapes, JobAt
  <2> DEFINE ix == Ix(ms.m)
             cut == Cutoff("purge" \in want[s])
  <2>3. PICK j : j = [kind |-> "collect", sources |-> ms.m.packs, keep |-> Closure(ix, Tips(ms.m, cut)),
                      cut |-> cut, gen |-> ms.gen, load |-> ms.load]
    OBVIOUS
  <2>4. j.sources = ms.m.packs
    BY <2>3
  <2>2. job' = job \/ job' = [job EXCEPT ![s] = j]
    BY <2>3 DEF CollectStart, ms
  <2> QED
    BY <1>3, <2>1, <2>2, <2>4, JobStays
<1>5. CallAt(s)
  <2>1. DOMAIN prune = DOMAIN NoCall /\ prune.st = "try" /\ prune.kind = "prune" /\ prune.doc = NoMan
    BY DEF Call, NoCall
  <2>2. CallOk(prune)
    BY <2>1, PlainCallOk
  <2>3. call' = call \/ call' = [call EXCEPT ![s] = prune]
    BY DEF CollectStart
  <2> HIDE DEF prune
  <2>4. Grows /\ push' = push
    BY <1>1, MadeStays DEF Rest
  <2> QED
    BY <1>1, <2>1, <2>2, <2>3, <2>4, CallStays, CallBecomes
<1> QED
  BY <1>1, <1>2, <1>4, <1>5, MadeStays, IdleAt

LEMMA JobUploadInv ==
    ASSUME Inv, NEW s \in Servers, NEW kind \in {"collect", "repack"}, NEW readable, NEW objs,
           JobUpload(s, kind, readable, objs)
    PROVE  Inv'
<1>1. ~Live(s) /\ Rest /\ mem' = mem
  BY FreeIdle DEF JobUpload, Rest
<1>2. MemAt(s)
  BY <1>1, MemStays
<1>3. ASSUME NEW c, DOMAIN c = DOMAIN NoCall, c.kind = kind, c.doc = NoMan, Grows,
             c.pack \in 0..Len(made'), (c.st = "try" /\ c.pack # 0) \/ c.st = "cleanup",
             \A p \in Pushes : push[p].pack # 0 => push[p].pack # c.pack,
             call' = [call EXCEPT ![s] = c]
      PROVE  CallAt(s)
  <2>1. NoCall' = NoCall
    BY DEF NoCall, NoMan
  <2>2. CallOk(c)'
    BY <1>1, <1>3, <2>1 DEF CallOk, Rest
  <2>3. call'[s] = c /\ DOMAIN call' = Servers /\ \A r \in Servers \ {s} : call'[r] = call[r]
    BY <1>3 DEF Inv, Shapes
  <2> QED
    BY <1>3, <2>2, <2>3 DEF CallAt
<1>4. CASE Upload(objs) /\ call' = [call EXCEPT ![s] = [Call(kind) EXCEPT !.pack = NewPack]] /\ job' = job
  <2>1. Grows /\ Len(made') = Len(made) + 1 /\ Len(made) \in Nat
    <3>1. made \in Seq(ToSet(made))
      BY DEF Inv, Shapes
    <3> QED
      BY <1>4, <3>1, UploadGrows
  <2>2. \A p \in Pushes : push[p].pack \in 0..Len(made)
    BY DEF Inv, Shapes
  <2>3. NewPack \in 0..Len(made') /\ NewPack # 0 /\ \A p \in Pushes : push[p].pack # NewPack
    BY <2>1, <2>2 DEF NewPack
  <2>4. PICK c : c = [Call(kind) EXCEPT !.pack = NewPack]
    OBVIOUS
  <2>a. DOMAIN c = DOMAIN NoCall /\ c.kind = kind /\ c.doc = NoMan /\ c.st = "try" /\ c.pack = NewPack
    BY <2>4 DEF Call, NoCall
  <2>5. CallAt(s)
    BY <1>3, <1>4, <2>1, <2>3, <2>4, <2>a
  <2> QED
    BY <1>1, <1>2, <1>4, <2>1, <2>5, JobStays, IdleAt
<1>5. CASE Abandon(s) /\ made' = made /\ job[s].kind = kind
  <2>1. PICK c : c = [Call(kind) EXCEPT !.st = "cleanup"]
    OBVIOUS
  <2>2. DOMAIN c = DOMAIN NoCall /\ c.kind = kind /\ c.doc = NoMan /\ c.st = "cleanup" /\ c.pack = 0
    BY <2>1 DEF Call, NoCall
  <2>a. Grows /\ call' = [call EXCEPT ![s] = c] /\ 0 \in 0..Len(made')
    BY <1>5, <2>1, MadeStays, GrowsMore DEF Abandon
  <2>3. CallAt(s)
    BY <1>3, <2>2, <2>a
  <2>4. JobAt(s)
    BY <1>5, JobEnds DEF Abandon
  <2> QED
    BY <1>1, <1>2, <2>3, <2>4, <2>a, IdleAt
<1> QED
  BY <1>4, <1>5 DEF JobUpload

LEMMA RepackStartInv == ASSUME Inv, NEW s \in Servers, RepackStart(s) PROVE Inv'
<1> DEFINE ms == Revalidated(mem[s])
           start == Mergeable(ms.m)
           sources == SubSeq(ms.m.packs, start, Len(ms.m.packs))
<1>1. ~Live(s) /\ Rest /\ made' = made /\ call' = call
  BY FreeIdle DEF RepackStart, Resting, Rest
<1>2. MemAt(s)
  BY MemStays, MemRevalidated DEF RepackStart
<1>3. ms.m = man
  BY RevalidatedIs
<1> HIDE DEF ms
<1>4. start \in 0..Len(man.packs)
  <2> DEFINE lens == [i \in DOMAIN man.packs |-> Cardinality(made[man.packs[i]].objs)]
  <2>1. Len(lens) = Len(man.packs) /\ Len(lens) \in Nat
    BY ManTyped
  <2>2. start = Pick(lens)
    BY <1>3 DEF Mergeable
  <2> HIDE DEF lens, start
  <2> QED
    BY <2>1, <2>2, PickInRange
<1> HIDE DEF start
<1>5. start # 0 => sources \in Seq(Nat)
  <2> SUFFICES ASSUME start # 0 PROVE sources \in Seq(Nat)
    OBVIOUS
  <2>1. man.packs \in Seq(Nat) /\ start \in 1..Len(man.packs)
    BY <1>4, ManTyped
  <2>2. \A i \in start..Len(man.packs) : man.packs[i] \in Nat
    BY <2>1
  <2>3. SubSeq(man.packs, start, Len(man.packs)) \in Seq(Nat)
    BY <2>1, <2>2, SubSeqProperties
  <2> QED
    BY <1>3, <2>3
<1>6. JobAt(s)
  <2>1. job' = job \/ (start # 0 /\ job' = [job EXCEPT ![s] = [NoJob EXCEPT !.kind = "repack", !.sources = sources]])
    BY DEF RepackStart, ms, start
  <2>2. PICK q : q = sources
    OBVIOUS
  <2> HIDE DEF sources
  <2>3. [NoJob EXCEPT !.kind = "repack", !.sources = q].sources = q
    BY DEF NoJob
  <2>4. PICK j : j = [NoJob EXCEPT !.kind = "repack", !.sources = q]
    OBVIOUS
  <2>5. ASSUME start # 0, job' = [job EXCEPT ![s] = j] PROVE JobAt(s)
    BY <1>5, <2>2, <2>3, <2>4, <2>5 DEF Inv, Shapes, JobAt
  <2> QED
    BY <2>1, <2>2, <2>4, <2>5, JobStays
<1> QED
  BY <1>1, <1>2, <1>6, MadeStays, CallStays, IdleAt DEF Rest

LEMMA CallPlain ==
    ASSUME Inv, NEW s \in Servers, Rest, made' = made, NEW c, call' = [call EXCEPT ![s] = c],
           DOMAIN c = DOMAIN NoCall, c.st = "try", c.doc \in {call[s].doc, NoMan},
           c.kind \notin {"push", "restore", "collect", "repack", "sweep"}
    PROVE  CallAt(s)
<1>1. CallOk(c)
  BY PlainCallOk
<1> QED
  BY <1>1, CallBecomes, MadeStays DEF Rest

LEMMA RoundInv == ASSUME Inv, NEW s \in Servers, Round(s) PROVE Inv'
<1>1. ~Live(s) /\ Rest /\ made' = made /\ mem' = mem /\ job' = job
  BY FreeIdle DEF Round, Resting, Rest
<1>2. CallAt(s)
  <2>1. PICK c : c = Call("sweep")
    OBVIOUS
  <2>2. CallOk(c) /\ c.doc = NoMan
    BY <2>1 DEF CallOk, Call, NoCall
  <2>3. call' = [call EXCEPT ![s] = c]
    BY <2>1 DEF Round
  <2> QED
    BY <1>1, <2>2, <2>3, MadeStays, CallBecomes DEF Rest
<1> QED
  BY <1>1, <1>2, MadeStays, MemStays, JobStays, IdleAt

\* What a sweep deletes is no pack of a push that is still to be listed.
LEMMA SweepableApart ==
    ASSUME Inv, NEW spared
    PROVE  LET gone == Sweepable(man, spared) IN
           /\ gone \subseteq 1..Len(made)
           /\ \A p \in Pushes : push[p].st \in {"uploaded", "commit"} => push[p].pack \notin gone
<1> DEFINE gone == Sweepable(man, spared)
<1>1. ASSUME NEW k \in gone PROVE k \in 1..Len(made) /\ \E x \in man.retired : x.id = k /\ x.at <= clock - Grace
  BY ManTyped DEF Sweepable, IsDoc
<1>2. ASSUME NEW p \in Pushes, push[p].st \in {"uploaded", "commit"}, push[p].pack \in gone PROVE FALSE
  <2>1. push[p].pack # 0 /\ Lists(man, push[p].pack)
    BY <1>1, <1>2 DEF Lists
  <2>2. CASE push[p].st = "uploaded"
    BY <2>1, <2>2, ManTyped DEF Inv, Early, Untouched
  <2>3. CASE push[p].st = "commit"
    <3>1. PICK x \in man.retired : x.id = push[p].pack /\ x.at <= clock - Grace
      BY <1>1, <1>2
    <3>2. x.at = clock
      BY <2>1, <2>3, <3>1, ManTyped DEF Inv, Lingers, Offered
    <3>3. clock \in Nat /\ Grace \in Nat /\ Grace > 0
      BY GraceAssumption, ConstantsAssumption DEF Inv, Shapes
    <3> QED
      BY <3>1, <3>2, <3>3
  <2> QED
    BY <1>2, <2>2, <2>3
<1> QED
  BY <1>1, <1>2

LEMMA SweepInv == ASSUME Inv, NEW s \in Servers, Sweep(s) PROVE Inv'
<1> DEFINE ms == Revalidated(mem[s])
           old == Sweepable(ms.m, HeldAfter(s, ms))
<1>1. ~Live(s) /\ Rest /\ made' = made /\ job' = job /\ call[s].kind = "sweep" /\ call[s].st = "try"
  BY DEF Sweep, Live, Rest
<1>2. MemAt(s)
  BY MemStays, MemRevalidated DEF Sweep
<1>3. Done(s) \/ call' = [call EXCEPT ![s].gone = old]
  BY DEF Sweep
<1>4. /\ old \subseteq 1..Len(made)
      /\ \A p \in Pushes : push[p].st \in {"uploaded", "commit"} => push[p].pack \notin old
  <2>1. PICK spared : spared = HeldAfter(s, ms)
    OBVIOUS
  <2>2. ms.m = man
    BY RevalidatedIs
  <2> HIDE DEF ms
  <2>3. old = Sweepable(man, spared)
    BY <2>1, <2>2
  <2> HIDE DEF old
  <2> QED
    BY <2>3, SweepableApart
<1>5. CASE call' = [call EXCEPT ![s].gone = old]
  <2>1. PICK c : c = [call[s] EXCEPT !.gone = old]
    OBVIOUS
  <2>2. CallOk(call[s]) /\ DOMAIN call[s] = DOMAIN NoCall
    BY <1>1, CallStands DEF CallOk
  <2>3. PICK o : o = old
    OBVIOUS
  <2> HIDE DEF old
  <2>4. DOMAIN c = DOMAIN NoCall /\ c.st = "try" /\ c.doc = call[s].doc /\ c.kind = "sweep" /\ c.gone = o
    BY <1>1, <2>1, <2>2, <2>3 DEF NoCall
  <2>5. CallOk(c)
    BY <1>4, <2>2, <2>3, <2>4 DEF CallOk
  <2>6. call' = [call EXCEPT ![s] = c]
    BY <1>5, <2>1
  <2>7. CallAt(s)
    BY <1>1, <2>4, <2>5, <2>6, MadeStays, CallBecomes DEF Rest
  <2> QED
    BY <1>1, <1>2, <2>7, MadeStays, JobStays, IdleAt
<1>6. CASE Done(s)
  BY <1>1, <1>2, <1>6, MadeStays, JobStays, CallDone, IdleAt
<1> QED
  BY <1>3, <1>5, <1>6

LEMMA OrphansInv == ASSUME Inv, NEW s \in Servers, Orphans(s) PROVE Inv'
<1>1. ~Live(s) /\ Rest /\ made' = made /\ job' = job /\ call[s].kind = "orphans"
  BY DEF Orphans, Live, Rest
<1>2. MemAt(s)
  BY MemStays, MemRevalidated DEF Orphans
<1>3. PICK g : Done(s) \/ call' = [call EXCEPT ![s].gone = g]
  BY DEF Orphans
<1>4. CASE call' = [call EXCEPT ![s].gone = g]
  <2>1. PICK c : c = [call[s] EXCEPT !.gone = g]
    OBVIOUS
  <2>2. DOMAIN call[s] = DOMAIN NoCall /\ call[s].st \in {"try", "settle", "cleanup"}
    BY DEF Inv, Shapes, Linked
  <2>3. DOMAIN c = DOMAIN NoCall /\ c.st = call[s].st /\ c.doc = call[s].doc /\ c.kind = "orphans"
    BY <1>1, <2>1, <2>2 DEF NoCall
  <2>4. call' = [call EXCEPT ![s] = c]
    BY <1>4, <2>1
  <2>5. CallOk(c)
    BY <2>2, <2>3, PlainCallOk
  <2>6. CallAt(s)
    BY <1>1, <2>3, <2>4, <2>5, MadeStays, CallBecomes DEF Rest
  <2> QED
    BY <1>1, <1>2, <2>6, MadeStays, JobStays, IdleAt
<1>5. CASE Done(s)
  BY <1>1, <1>2, <1>5, MadeStays, JobStays, CallDone, IdleAt
<1> QED
  BY <1>3, <1>4, <1>5

LEMMA ConsiderInv == ASSUME Inv, NEW s \in Servers, Consider(s) PROVE Inv'
<1> DEFINE prune == [Call("prune") EXCEPT !.cut = clock - Keep, !.round = TRUE]
<1>1. ~Live(s) /\ Rest /\ made' = made /\ mem' = mem /\ job' = job
  BY DEF Consider, Live, Rest
<1>2. PICK c \in {NoCall, Call("merge"), prune} : call' = [call EXCEPT ![s] = c]
  BY DEF Consider
<1>3. DOMAIN c = DOMAIN NoCall /\ c.st = "try" /\ c.doc = NoMan /\ c.kind \in {"none", "merge", "prune"}
  <2>1. CASE c = NoCall
    BY <2>1 DEF NoCall
  <2>2. CASE c = Call("merge")
    BY <2>2 DEF NoCall, Call
  <2>3. CASE c = prune
    BY <2>3 DEF NoCall, Call
  <2> QED
    BY <2>1, <2>2, <2>3
<1>4. CallAt(s)
  BY <1>1, <1>2, <1>3, CallPlain
<1> QED
  BY <1>1, <1>4, MadeStays, MemStays, JobStays, IdleAt

LEMMA MergeInv == ASSUME Inv, NEW s \in Servers, Merge(s) PROVE Inv'
<1>1. ~Live(s) /\ Done(s) /\ Rest /\ made' = made /\ mem' = mem /\ job' = job
  BY DEF Merge, Live, Rest
<1> QED
  BY <1>1, NothingInv

\* A write that was read back, of anything but a push.
LEMMA SettleInv == ASSUME Inv, NEW s \in Servers, Settle(s), call[s].kind # "push" PROVE Inv'
<1> DEFINE c == call[s]
           r == ReadBack(c.first, man, c.doc.writer)
<1>1. /\ ~Live(s) /\ made' = made /\ c.st = "settle"
      /\ man' = man /\ late' = late /\ nonces' = nonces /\ clock' = clock /\ applied' = applied
  BY DEF Settle, Live
<1>2. CASE r = "ok" /\ Succeed(s, c, c.doc)
  <2>1. man.writer = c.doc.writer /\ man.writer # None
    BY <1>2 DEF ReadBack
  <2>2. c.doc = man
    BY <2>1 DEF Inv, Written, Docs
  <2>3. push' = push /\ Done(s)
    BY <1>2 DEF Succeed
  <2>4. JobAt(s)
    BY <1>2, JobStays, JobEnds DEF Succeed
  <2>5. DOMAIN mem[s] = DOMAIN NoMem
    BY DEF Inv, Shapes
  <2>6. ASSUME Become(s, Apply(mem[s], c.doc)) PROVE MemAt(s)
    <3>1. PICK ms : ms = Apply(mem[s], c.doc)
      OBVIOUS
    <3>2. DOMAIN ms = DOMAIN NoMem /\ ms.m = man /\ ms.etag = man.writer
      BY <2>2, <2>5, <3>1 DEF Apply, NoMem
    <3> QED
      BY <2>6, <3>1, <3>2, MemBecomes
  <2>7. ASSUME Become(s, [mem[s] EXCEPT !.stale = TRUE, !.etag = None]) PROVE MemAt(s)
    <3>1. PICK ms : ms = [mem[s] EXCEPT !.stale = TRUE, !.etag = None]
      OBVIOUS
    <3>2. DOMAIN ms = DOMAIN NoMem /\ ms.m = mem[s].m /\ ms.etag = None
      BY <2>5, <3>1 DEF NoMem
    <3> QED
      BY <2>1, <2>7, <3>1, <3>2, MemBecomes
  <2>8. ASSUME Become(s, [mem[s] EXCEPT !.m = c.doc, !.etag = c.doc.writer]) PROVE MemAt(s)
    <3>1. PICK ms : ms = [mem[s] EXCEPT !.m = c.doc, !.etag = c.doc.writer]
      OBVIOUS
    <3>2. DOMAIN ms = DOMAIN NoMem /\ ms.m = man /\ ms.etag = man.writer
      BY <2>2, <2>5, <3>1 DEF NoMem
    <3> QED
      BY <2>8, <3>1, <3>2, MemBecomes
  <2>9. MemAt(s)
    BY <1>2, <2>6, <2>7, <2>8 DEF Succeed
  <2> QED
    BY <1>1, <2>3, <2>4, <2>9, MadeStays, CallDone, IdleAt DEF Rest
<1>3. CASE /\ Become(s, Revalidated(mem[s]))
           /\ call' = [call EXCEPT ![s] = [c EXCEPT !.st = "try", !.attempt = @ + 1,
                                                    !.doc = NoMan, !.first = "none"]]
           /\ push' = push /\ job' = job
  <2>1. PICK d : d = [c EXCEPT !.st = "try", !.attempt = @ + 1, !.doc = NoMan, !.first = "none"]
    OBVIOUS
  <2>2. CallOk(c) /\ DOMAIN c = DOMAIN NoCall
    BY <1>1, CallStands DEF CallOk
  <2> HIDE DEF c
  <2>3. DOMAIN d = DOMAIN NoCall /\ d.st = "try" /\ d.doc = NoMan /\ d.kind = c.kind
        /\ d.ref = c.ref /\ d.id = c.id /\ d.gone = c.gone /\ d.pack = c.pack
    BY <2>1, <2>2 DEF NoCall
  <2>4. CallOk(d)
    BY <1>1, <2>2, <2>3 DEF CallOk, c
  <2>5. call' = [call EXCEPT ![s] = d]
    BY <1>3, <2>1
  <2>6. CallAt(s)
    BY <1>1, <1>3, <2>3, <2>4, <2>5, MadeStays, CallBecomes
  <2> QED
    BY <1>1, <1>3, <2>6, MadeStays, JobStays, MemRevalidated, IdleAt DEF Rest
<1>4. CASE GiveUp(s) /\ mem' = mem
  BY <1>1, <1>4, CallGivesUp, MadeStays, MemStays, IdleAt DEF Rest
<1> QED
  BY <1>2, <1>3, <1>4 DEF Settle

-------------------------------------------------------------------------------
\* Steps of pushes that write no manifest.

Fixed == man' = man /\ late' = late /\ nonces' = nonces /\ clock' = clock /\ applied' = applied

\* A push before its commit: it begins, its pack is uploaded, or it fails.
LEMMA EarlyInv ==
    ASSUME Inv, Fixed, Grows, mem' = mem, job' = job, call' = call,
           NEW p \in Pushes, push[p].st \in {"new", "checked", "uploaded"},
           NEW x, push' = [push EXCEPT ![p] = x],
           DOMAIN x = DOMAIN NoPush, x.st \in {"checked", "uploaded", "done"},
           x.pack \in 0..Len(made'), x.pack = push[p].pack \/ x.pack = Len(made) + 1,
           x.st = "checked" => x.pack = 0, x.st = "uploaded" => x.pack = Len(made) + 1,
           x.st # "done" => x.res = {}, x.s \in Servers, AskOk(x.cmds)
    PROVE  Inv'
<1> USE GrowsMore DEF Fixed
<1>1. push'[p] = x /\ DOMAIN push' = Pushes /\ \A q \in Pushes \ {p} : push'[q] = push[q]
  BY DEF Inv, Shapes
<1>2. \A q \in Pushes : push[q].st = "commit" \/ push'[q].st = "commit" => q # p /\ push'[q] = push[q]
  BY <1>1
<1>3. Shapes'
  <2>1. NoMem' = NoMem /\ NoCall' = NoCall /\ NoPush' = NoPush
    BY DEF NoMem, NoCall, NoPush, NoMan
  <2>2. made' \in Seq(ToSet(made'))
    BY DEF Grows
  <2>3. ASSUME NEW q \in Pushes
        PROVE  /\ DOMAIN push'[q] = DOMAIN NoPush
               /\ push'[q].st \in {"new", "checked", "uploaded", "commit", "done"}
               /\ push'[q].pack \in 0..Len(made')
               /\ push'[q].st \in {"new", "checked"} => push'[q].pack = 0
               /\ push'[q].st # "done" => push'[q].res = {}
               /\ IF push'[q].st = "new" THEN push'[q] = NoPush ELSE push'[q].s \in Servers /\ AskOk(push'[q].cmds)
    <3>1. CASE q = p
      BY <1>1, <3>1
    <3>2. CASE q # p
      BY <1>1, <3>2 DEF Inv, Shapes
    <3> QED
      BY <3>1, <3>2
  <2> QED
    BY <1>1, <2>1, <2>2, <2>3 DEF Inv, Shapes, AskOk
<1>4. \A s \in Servers : Live(s)' <=> Live(s)
  BY DEF Live
<1>5. Linked'
  <2>1. ASSUME NEW s \in Servers, Live(s)
        PROVE  /\ call[s].push \in Pushes /\ push'[call[s].push].st = "commit"
               /\ push'[call[s].push].s = s /\ push'[call[s].push].pack = call[s].pack
    BY <1>2, <2>1 DEF Inv, Linked
  <2>2. ASSUME NEW q \in Pushes, push'[q].st = "commit"
        PROVE  \E r \in Servers : push'[q].s = r /\ Live(r)' /\ call[r].push = q
    <3>1. PICK r \in Servers : push'[q].s = r /\ push[q].s = r /\ push[q].st = "commit"
      BY <1>2, <2>2 DEF Inv, Shapes
    <3> QED
      BY <1>4, <2>2, <3>1 DEF Inv, Linked
  <2> QED
    BY <1>4, <2>1, <2>2 DEF Inv, Linked, Live
<1>6. Apart'
  <2>1. \A q \in Pushes : push[q].pack \in 0..Len(made)
    BY DEF Inv, Shapes
  <2>2. ASSUME NEW q \in Pushes, NEW r \in Pushes, push'[q].pack = push'[r].pack, push'[q].pack # 0 PROVE q = r
    BY <1>1, <2>1, <2>2 DEF Inv, Apart
  <2>3. ASSUME NEW s \in Servers, call[s].kind \in {"collect", "repack"}
        PROVE  /\ call[s].pack \in 0..Len(made') /\ (call[s].st # "cleanup" => call[s].pack # 0)
               /\ \A q \in Pushes : push'[q].pack # 0 => push'[q].pack # call[s].pack
    <3>1. call[s].pack \in 0..Len(made) /\ (call[s].st # "cleanup" => call[s].pack # 0)
          /\ \A q \in Pushes : push[q].pack # 0 => push[q].pack # call[s].pack
      BY <2>3 DEF Inv, Apart
    <3> QED
      BY <1>1, <3>1
  <2>4. ASSUME NEW s \in Servers, call[s].kind = "sweep"
        PROVE  /\ call[s].gone \subseteq 1..Len(made')
               /\ \A q \in Pushes : push'[q].st \in {"uploaded", "commit"} => push'[q].pack \notin call[s].gone
    <3>1. /\ call[s].gone \subseteq 1..Len(made)
          /\ \A q \in Pushes : push[q].st \in {"uploaded", "commit"} => push[q].pack \notin call[s].gone
      BY <2>4 DEF Inv, Apart
    <3>2. Len(made) + 1 \notin call[s].gone
      BY <3>1
    <3> QED
      BY <1>1, <3>1, <3>2
  <2> QED
    BY <2>2, <2>3, <2>4 DEF Apart
<1>7. QuietMove
  <2>1. \A q \in Pushes : PushMove(q)
    BY <1>1 DEF PushMove
  <2>2. \A s \in Servers : CallMove(s) /\ CopyMove(s)
    BY <1>4 DEF CallMove, CopyMove
  <2> QED
    BY <2>1, <2>2 DEF QuietMove
<1> QED
  BY <1>3, <1>5, <1>6, <1>7, QuietInv

\* Pushes that a server answers, and all of them that it commits.
LEMMA EndedInv ==
    ASSUME Inv, Fixed, made' = made, NEW s \in Servers, OnlyAt(s), CopyMove(s),
           NEW c, call'[s] = c, CallOk(c)', DOMAIN push' = Pushes,
           \A p \in Pushes :
              \/ push'[p] = push[p] /\ (push[p].s = s => push[p].st # "commit")
              \/ /\ push[p].s = s /\ push[p].st \in {"checked", "uploaded", "commit"}
                 /\ DOMAIN push'[p] = DOMAIN NoPush /\ push'[p].st = "done" /\ push'[p].s = s
                 /\ SameAsk(p)
                 /\ push'[p].res = {} \/ \A w \in late : OfPush(w, p) => w.etag # man.writer
    PROVE  Inv'
<1> USE DEF Fixed
<1>0. Grows
  BY MadeStays
<1> USE <1>0, GrowsMore
<1>1. ~Live(s)' /\ DOMAIN c = DOMAIN NoCall
  <2>1. NoCall' = NoCall
    BY DEF NoCall, NoMan
  <2> QED
    BY <2>1 DEF CallOk, Live
<1>2. \A r \in Servers \ {s} : (Live(r)' <=> Live(r)) /\ call'[r] = call[r] /\ mem'[r] = mem[r]
  BY DEF Live, OnlyAt
<1>3. \A p \in Pushes : push'[p].st = "commit" => push'[p] = push[p] /\ push[p].s # s
  OBVIOUS
<1>4. Shapes'
  <2>1. ASSUME NEW p \in Pushes, push'[p] # push[p]
        PROVE  /\ DOMAIN push'[p] = DOMAIN NoPush
               /\ push'[p].st \in {"checked", "uploaded", "commit", "done"}
               /\ push'[p].pack \in 0..Len(made') /\ (push'[p].st = "checked" => push'[p].pack = 0)
               /\ push'[p].st # "done" => push'[p].res = {}
               /\ push'[p].s \in Servers /\ AskOk(push'[p].cmds)
    <3>1. push[p].pack \in 0..Len(made) /\ AskOk(push[p].cmds)
      BY <2>1 DEF Inv, Shapes
    <3> QED
      BY <2>1, <3>1 DEF SameAsk
  <2> QED
    BY <1>1, <2>1, ShapesAt
<1>5. Linked'
  <2>1. ASSUME NEW r \in Servers
        PROVE  /\ call'[r].st \in {"try", "settle", "cleanup"}
               /\ Live(r)' => /\ call'[r].push \in Pushes /\ push'[call'[r].push].st = "commit"
                              /\ push'[call'[r].push].s = r /\ push'[call'[r].push].pack = call'[r].pack
                              /\ call'[r].st = "settle" => call'[r].tried
               /\ call'[r].kind = "restore" => call'[r].ref \in Refs /\ call'[r].id \in Objs
    <3>1. CASE r = s
      BY <1>1, <3>1 DEF CallOk
    <3>2. CASE r # s
      BY <1>2, <3>2 DEF Inv, Linked
    <3> QED
      BY <3>1, <3>2
  <2>2. ASSUME NEW p \in Pushes, push'[p].st = "commit"
        PROVE  \E r \in Servers : push'[p].s = r /\ Live(r)' /\ call'[r].push = p
    <3>1. PICK r \in Servers \ {s} : push'[p].s = r /\ push[p].s = r /\ push[p].st = "commit"
      BY <1>3, <2>2 DEF Inv, Shapes
    <3> QED
      BY <1>2, <2>2, <3>1 DEF Inv, Linked
  <2> QED
    BY <2>1, <2>2 DEF Linked, Live
<1>6. \A p \in Pushes : push'[p].pack = push[p].pack /\ (push'[p].st \in {"uploaded", "commit"} => push'[p].st = push[p].st)
  BY DEF SameAsk
<1>7. Apart'
  <2>1. ASSUME NEW r \in Servers
        PROVE  /\ call'[r].kind \in {"collect", "repack"} =>
                     /\ call'[r].pack \in 0..Len(made') /\ (call'[r].st # "cleanup" => call'[r].pack # 0)
                     /\ \A p \in Pushes : push'[p].pack # 0 => push'[p].pack # call'[r].pack
               /\ call'[r].kind = "sweep" =>
                     /\ call'[r].gone \subseteq 1..Len(made')
                     /\ \A p \in Pushes : push'[p].st \in {"uploaded", "commit"} => push'[p].pack \notin call'[r].gone
    <3>1. CASE r = s
      BY <3>1 DEF CallOk
    <3>2. CASE r # s
      BY <1>2, <1>6, <3>2 DEF Inv, Apart
    <3> QED
      BY <3>1, <3>2
  <2> QED
    BY <1>6, <2>1 DEF Apart, Inv
<1>8. QuietMove
  <2>1. \A p \in Pushes : PushMove(p)
    BY DEF PushMove, SameAsk
  <2>2. \A r \in Servers \ {s} : CallMove(r) /\ CopyMove(r)
    BY <1>2 DEF CallMove, CopyMove
  <2>3. CallMove(s)
    BY <1>1 DEF CallMove
  <2> QED
    BY <1>3, <2>1, <2>2, <2>3 DEF QuietMove
<1> QED
  BY <1>4, <1>5, <1>7, <1>8, QuietInv

LEMMA PushStartIs ==
    ASSUME NEW p \in Pushes, NEW s \in Servers, PushStart(p, s)
    PROVE  \E x : /\ push' = [push EXCEPT ![p] = x]
                  /\ DOMAIN x = DOMAIN NoPush /\ x.st = "checked" /\ x.s = s /\ x.pack = 0 /\ x.res = {}
                  /\ AskOk(x.cmds) /\ x.atomic \in BOOLEAN
<1>2. PICK cmds \in CmdSets : \E atomic \in BOOLEAN : \E objs :
         push' = [push EXCEPT ![p] = [NoPush EXCEPT !.st = "checked", !.s = s, !.cmds = cmds,
                                         !.atomic = atomic, !.objs = objs, !.gen = mem[s].gen]]
  <2>1. PICK cmds \in CmdSets, atomic \in BOOLEAN :
           \E sent \in Sendable(cmds), thin \in SUBSET (IF ThinBases THEN Held(Ix(mem[s].m)) ELSE {}) :
              LET ix == Ix(mem[s].m)
                  objs == sent \cup thin
              IN /\ Cardinality(DOMAIN cmds) = 1 => ~atomic
                 /\ sent = {} => thin = {}
                 /\ Connected(objs, ix)
                 /\ GoesAhead(cmds, atomic, Judge(cmds, mem[s].m.refs, objs, ix))
                 /\ push' = [push EXCEPT ![p] = [NoPush EXCEPT !.st = "checked", !.s = s, !.cmds = cmds,
                                                     !.atomic = atomic, !.objs = objs, !.gen = mem[s].gen]]
    BY DEF PushStart
  <2>2. PICK sent, thin :
           push' = [push EXCEPT ![p] = [NoPush EXCEPT !.st = "checked", !.s = s, !.cmds = cmds,
                                           !.atomic = atomic, !.objs = sent \cup thin, !.gen = mem[s].gen]]
    BY <2>1, Zenon
  <2> QED
    BY <2>2, Zenon
<1>a. PICK atomic \in BOOLEAN : \E objs :
         push' = [push EXCEPT ![p] = [NoPush EXCEPT !.st = "checked", !.s = s, !.cmds = cmds,
                                         !.atomic = atomic, !.objs = objs, !.gen = mem[s].gen]]
  BY <1>2
<1>b. PICK objs :
         push' = [push EXCEPT ![p] = [NoPush EXCEPT !.st = "checked", !.s = s, !.cmds = cmds,
                                         !.atomic = atomic, !.objs = objs, !.gen = mem[s].gen]]
  BY <1>a
<1>3. AskOk(cmds)
  <2>1. PICK rs \in SUBSET Refs : rs # {} /\ cmds \in [rs -> {c \in [old : Values, new : Values] : c.old # c.new}]
    BY DEF CmdSets
  <2>2. DOMAIN cmds = rs /\ cmds \in [rs -> [old : Values, new : Values]]
    BY <2>1
  <2> QED
    BY <2>1, <2>2 DEF AskOk
<1>4. PICK x : x = [NoPush EXCEPT !.st = "checked", !.s = s, !.cmds = cmds,
                                  !.atomic = atomic, !.objs = objs, !.gen = mem[s].gen]
  OBVIOUS
<1>5. /\ DOMAIN x = DOMAIN NoPush /\ x.st = "checked" /\ x.s = s /\ x.cmds = cmds /\ x.pack = 0 /\ x.res = {}
      /\ x.atomic = atomic
  BY <1>4 DEF NoPush
<1>6. push' = [push EXCEPT ![p] = x]
  BY <1>b, <1>4
<1> QED
  BY <1>3, <1>5, <1>6

LEMMA PushStartInv == ASSUME Inv, NEW p \in Pushes, NEW s \in Servers, PushStart(p, s) PROVE Inv'
<1>1. push[p] = NoPush /\ Fixed /\ made' = made /\ mem' = mem /\ job' = job /\ call' = call
  BY DEF PushStart, Fixed
<1>5. PICK x : /\ push' = [push EXCEPT ![p] = x]
               /\ DOMAIN x = DOMAIN NoPush /\ x.st = "checked" /\ x.s = s /\ x.pack = 0 /\ x.res = {}
               /\ AskOk(x.cmds)
  BY PushStartIs
<1>6. push[p].st = "new" /\ push[p].pack = 0
  BY <1>1 DEF NoPush
<1>7. Grows /\ 0 \in 0..Len(made')
  BY <1>1, MadeStays, GrowsMore
<1>9. /\ push[p].st \in {"new", "checked", "uploaded"} /\ x.st \in {"checked", "uploaded", "done"}
      /\ x.pack \in 0..Len(made') /\ x.pack = push[p].pack /\ (x.st = "checked" => x.pack = 0)
      /\ (x.st = "uploaded" => x.pack = Len(made) + 1) /\ x.s \in Servers /\ AskOk(x.cmds)
  BY <1>5, <1>6, <1>7
<1> QED
  BY <1>1, <1>5, <1>7, <1>9, EarlyInv

LEMMA AnswerIs ==
    ASSUME Inv, NEW p \in Pushes, NEW res, push' = Answer(p, res)
    PROVE  /\ DOMAIN push' = Pushes /\ \A q \in Pushes \ {p} : push'[q] = push[q]
           /\ DOMAIN push'[p] = DOMAIN NoPush /\ push'[p].st = "done" /\ push'[p].res = res
           /\ push'[p].s = push[p].s /\ SameAsk(p)
<1>1. DOMAIN push = Pushes /\ DOMAIN push[p] = DOMAIN NoPush
  BY DEF Inv, Shapes
<1>2. PICK x : x = [push[p] EXCEPT !.st = "done", !.res = res]
  OBVIOUS
<1>3. push' = [push EXCEPT ![p] = x]
  BY <1>2 DEF Answer
<1>4. DOMAIN x = DOMAIN NoPush /\ x.st = "done" /\ x.res = res /\ x.s = push[p].s /\ x.cmds = push[p].cmds
      /\ x.objs = push[p].objs /\ x.atomic = push[p].atomic /\ x.pack = push[p].pack
  BY <1>1, <1>2 DEF NoPush
<1> QED
  BY <1>1, <1>3, <1>4 DEF SameAsk

LEMMA PushUploadInv == ASSUME Inv, NEW p \in Pushes, PushUpload(p) PROVE Inv'
<1>1. push[p].st = "checked" /\ Fixed /\ mem' = mem /\ job' = job /\ call' = call
  BY DEF PushUpload, Fixed
<1>2. push[p].pack = 0 /\ push[p].s \in Servers /\ AskOk(push[p].cmds) /\ push[p].res = {}
      /\ DOMAIN push[p] = DOMAIN NoPush /\ made \in Seq(ToSet(made))
  BY <1>1 DEF Inv, Shapes
<1>3. CASE Upload(push[p].objs) /\ push' = [push EXCEPT ![p] = [@ EXCEPT !.st = "uploaded", !.pack = NewPack]]
  <2>1. Grows /\ Len(made') = Len(made) + 1 /\ Len(made) \in Nat
    BY <1>2, <1>3, UploadGrows
  <2>2. PICK x : x = [push[p] EXCEPT !.st = "uploaded", !.pack = NewPack]
    OBVIOUS
  <2>3. DOMAIN x = DOMAIN NoPush /\ x.st = "uploaded" /\ x.pack = Len(made) + 1 /\ x.res = {}
        /\ x.s = push[p].s /\ x.cmds = push[p].cmds
    BY <1>2, <2>2 DEF NewPack, NoPush
  <2>4. push' = [push EXCEPT ![p] = x]
    BY <1>3, <2>2
  <2>5. x.pack \in 0..Len(made')
    BY <2>1, <2>3
  <2> QED
    BY <1>1, <1>2, <2>1, <2>3, <2>4, <2>5, EarlyInv
<1>4. CASE (Upload(push[p].objs) \/ made' = made) /\ push' = Answer(p, {})
  <2>1. Grows
    BY <1>2, <1>4, UploadGrows, MadeStays
  <2>2. PICK x : x = [push[p] EXCEPT !.st = "done", !.res = {}]
    OBVIOUS
  <2>3. DOMAIN x = DOMAIN NoPush /\ x.st = "done" /\ x.pack = 0 /\ x.res = {}
        /\ x.s = push[p].s /\ x.cmds = push[p].cmds
    BY <1>2, <2>2 DEF NoPush
  <2>4. push' = [push EXCEPT ![p] = x]
    BY <1>4, <2>2 DEF Answer
  <2>5. 0 \in 0..Len(made')
    BY <2>1, GrowsMore
  <2> QED
    BY <1>1, <1>2, <2>1, <2>3, <2>4, <2>5, EarlyInv
<1> QED
  BY <1>3, <1>4 DEF PushUpload

\* The commit of a push begins.
LEMMA CommitInv ==
    ASSUME Inv, Fixed, made' = made, mem' = mem, job' = job, NEW p \in Pushes, NEW s \in Servers,
           push[p].s = s, push[p].st \in {"checked", "uploaded"}, ~Live(s), push' = [push EXCEPT ![p].st = "commit"],
           NEW c, call' = [call EXCEPT ![s] = c], DOMAIN c = DOMAIN NoCall, c.kind = "push", c.st = "try",
           ~c.tried, c.push = p, c.pack = push[p].pack, c.doc = NoMan
    PROVE  Inv'
<1> USE DEF Fixed
<1>0. Grows
  BY MadeStays
<1>1. /\ DOMAIN push' = Pushes /\ DOMAIN push'[p] = DOMAIN NoPush /\ push'[p].st = "commit" /\ push'[p].s = s
      /\ SameAsk(p) /\ push'[p].res = {} /\ \A q \in Pushes \ {p} : push'[q] = push[q]
  <2>1. DOMAIN push = Pushes /\ DOMAIN push[p] = DOMAIN NoPush /\ push[p].res = {}
    BY DEF Inv, Shapes
  <2>2. PICK x : x = [push[p] EXCEPT !.st = "commit"]
    OBVIOUS
  <2>3. DOMAIN x = DOMAIN NoPush /\ x.st = "commit" /\ x.res = {} /\ x.s = push[p].s /\ x.cmds = push[p].cmds
        /\ x.objs = push[p].objs /\ x.atomic = push[p].atomic /\ x.pack = push[p].pack
    BY <2>1, <2>2 DEF NoPush
  <2>4. push' = [push EXCEPT ![p] = x]
    BY <2>2
  <2> QED
    BY <2>1, <2>3, <2>4 DEF SameAsk
<1>2. call'[s] = c /\ DOMAIN call' = Servers /\ \A r \in Servers \ {s} : call'[r] = call[r]
  BY DEF Inv, Shapes
<1>3. Live(s)' /\ \A r \in Servers \ {s} : Live(r)' <=> Live(r)
  BY <1>2 DEF Live
<1>4. OnlyAt(s)
  BY <1>2 DEF OnlyAt, Inv, Shapes
<1>5. Shapes'
  <2>1. push'[p].pack \in 0..Len(made') /\ AskOk(push'[p].cmds)
    BY <1>1 DEF Inv, Shapes, SameAsk
  <2> QED
    BY <1>0, <1>1, <1>2, <1>4, <2>1, ShapesAt
<1>6. Linked'
  <2>1. ASSUME NEW r \in Servers
        PROVE  /\ call'[r].st \in {"try", "settle", "cleanup"}
               /\ Live(r)' => /\ call'[r].push \in Pushes /\ push'[call'[r].push].st = "commit"
                              /\ push'[call'[r].push].s = r /\ push'[call'[r].push].pack = call'[r].pack
                              /\ call'[r].st = "settle" => call'[r].tried
               /\ call'[r].kind = "restore" => call'[r].ref \in Refs /\ call'[r].id \in Objs
    <3>1. CASE r = s
      BY <1>1, <1>2, <3>1 DEF SameAsk
    <3>2. CASE r # s
      BY <1>1, <1>2, <1>3, <3>2 DEF Inv, Linked
    <3> QED
      BY <3>1, <3>2
  <2>2. ASSUME NEW q \in Pushes, push'[q].st = "commit"
        PROVE  \E r \in Servers : push'[q].s = r /\ Live(r)' /\ call'[r].push = q
    <3>1. CASE q = p
      BY <1>1, <1>2, <1>3, <3>1
    <3>2. CASE q # p
      <4>1. push'[q] = push[q]
        BY <1>1, <3>2
      <4>2. PICK r \in Servers : r = push[q].s
        BY <2>2, <4>1 DEF Inv, Shapes
      <4>3. Live(r) /\ call[r].push = q
        <5>1. push[q].st = "commit" /\ push[q].s = r
          BY <2>2, <4>1, <4>2
        <5>2. Live(push[q].s) /\ call[push[q].s].push = q
          BY <5>1 DEF Inv, Linked
        <5> QED
          BY <5>1, <5>2
      <4>4. r \in Servers \ {s} /\ push'[q].s = r
        BY <4>1, <4>2, <4>3
      <4> QED
        BY <1>2, <1>3, <4>3, <4>4
    <3> QED
      BY <3>1, <3>2
  <2> QED
    BY <2>1, <2>2 DEF Linked, Live
<1>7. Apart'
  <2>0. \A q \in Pushes : push'[q].pack = push[q].pack
    BY <1>1 DEF SameAsk
  <2>1. ASSUME NEW r \in Servers
        PROVE  /\ call'[r].kind \in {"collect", "repack"} =>
                     /\ call'[r].pack \in 0..Len(made') /\ (call'[r].st # "cleanup" => call'[r].pack # 0)
                     /\ \A q \in Pushes : push'[q].pack # 0 => push'[q].pack # call'[r].pack
               /\ call'[r].kind = "sweep" =>
                     /\ call'[r].gone \subseteq 1..Len(made')
                     /\ \A q \in Pushes : push'[q].st \in {"uploaded", "commit"} => push'[q].pack \notin call'[r].gone
    <3>1. CASE r = s
      BY <1>2, <3>1
    <3>2. CASE r # s
      <4>1. push[p].st = "checked" => push[p].pack = 0
        BY DEF Inv, Shapes
      <4> QED
        BY <1>1, <1>2, <2>0, <3>2, <4>1 DEF Inv, Apart
    <3> QED
      BY <3>1, <3>2
  <2> QED
    BY <2>0, <2>1 DEF Apart, Inv
<1>8. QuietMove
  <2>1. \A q \in Pushes : PushMove(q)
    BY <1>1 DEF PushMove, SameAsk
  <2>2. \A r \in Servers \ {s} : CallMove(r) /\ CopyMove(r)
    BY <1>2, <1>3 DEF CallMove, CopyMove
  <2>3. CallMove(s) /\ CopyMove(s)
    BY <1>1, <1>2 DEF CallMove, CopyMove, SameAsk
  <2> QED
    BY <1>0, <2>1, <2>2, <2>3 DEF QuietMove
<1> QED
  BY <1>5, <1>6, <1>7, <1>8, QuietInv

LEMMA PushCommitInv == ASSUME Inv, NEW p \in Pushes, PushCommit(p) PROVE Inv'
<1> DEFINE x == push[p]
           c0 == [Call("push") EXCEPT !.push = p, !.pack = x.pack, !.gen = x.gen]
<1>1. Fixed /\ made' = made /\ mem' = mem /\ job' = job /\ Free(x.s) /\ x.st \in {"checked", "uploaded"}
  BY DEF PushCommit, Fixed
<1>2. PICK s \in Servers : s = x.s
  BY <1>1 DEF Inv, Shapes
<1>3. ~Live(s) /\ call[s] = NoCall
  BY <1>1, <1>2, FreeIdle DEF Free
<1>4. PICK c : c = c0
  OBVIOUS
<1>5. DOMAIN c = DOMAIN NoCall /\ c.kind = "push" /\ c.st = "try" /\ c.tried = FALSE /\ c.push = p
      /\ c.pack = x.pack /\ c.doc = NoMan
  BY <1>4 DEF Call, NoCall
<1>6. CASE mem[x.s].up
  BY <1>1, <1>2, <1>3, <1>4, <1>5, <1>6, CommitInv DEF PushCommit
<1>7. CASE ~mem[x.s].up
  <2>1. push' = Answer(p, {})
    BY <1>7 DEF PushCommit
  <2>2. PICK d : /\ d \in {NoCall, [c EXCEPT !.st = "cleanup"]}
                 /\ (call' = call /\ d = NoCall) \/ call' = [call EXCEPT ![s] = d]
    BY <1>2, <1>4, <1>7 DEF PushCommit
  <2>3. /\ DOMAIN d = DOMAIN NoCall /\ d.doc = NoMan
        /\ (d.kind = "none" /\ d.st = "try") \/ (d.kind = "push" /\ d.st = "cleanup")
    <3>1. CASE d = NoCall
      BY <3>1 DEF NoCall
    <3>2. CASE d = [c EXCEPT !.st = "cleanup"]
      BY <1>5, <3>2 DEF NoCall
    <3> QED
      BY <2>2, <3>1, <3>2
  <2>4. CallOk(d)'
    <3>1. NoCall' = NoCall
      BY DEF NoCall, NoMan
    <3> QED
      BY <2>3, <3>1 DEF CallOk
  <2>5. call'[s] = d /\ DOMAIN call' = Servers /\ \A r \in Servers \ {s} : call'[r] = call[r]
    BY <1>3, <2>2 DEF Inv, Shapes
  <2>6. OnlyAt(s)
    BY <1>1, <2>5 DEF OnlyAt, Fixed, Inv, Shapes
  <2>7. CopyMove(s)
    BY <1>1, <2>3, <2>5 DEF CopyMove
  <2>8. ASSUME NEW q \in Pushes, push[q].s = s PROVE push[q].st # "commit"
    BY <1>3, <2>8 DEF Inv, Linked
  <2>9. /\ DOMAIN push' = Pushes /\ \A q \in Pushes \ {p} : push'[q] = push[q]
        /\ DOMAIN push'[p] = DOMAIN NoPush /\ push'[p].st = "done" /\ push'[p].res = {}
        /\ push'[p].s = s /\ SameAsk(p)
    BY <1>2, <2>1, AnswerIs
  <2> HIDE DEF x, c0
  <2>10. \A q \in Pushes :
            \/ push'[q] = push[q] /\ (push[q].s = s => push[q].st # "commit")
            \/ /\ push[q].s = s /\ push[q].st \in {"checked", "uploaded", "commit"}
               /\ DOMAIN push'[q] = DOMAIN NoPush /\ push'[q].st = "done" /\ push'[q].s = s
               /\ SameAsk(q)
               /\ push'[q].res = {} \/ \A w \in late : OfPush(w, q) => w.etag # man.writer
    BY <1>1, <1>2, <2>8, <2>9 DEF x
  <2> QED
    BY <1>1, <2>4, <2>5, <2>6, <2>7, <2>9, <2>10, EndedInv
<1> QED
  BY <1>6, <1>7

LEMMA CrashInv == ASSUME Inv, NEW s \in Servers, Crash(s) PROVE Inv'
<1>1. Fixed /\ made' = made /\ mem' = [mem EXCEPT ![s] = NoMem] /\ call' = [call EXCEPT ![s] = NoCall]
      /\ job' = [job EXCEPT ![s] = NoJob]
  BY DEF Crash, Fixed
<1>2. CallOk(NoCall)' /\ NoCall.doc = NoMan
  BY NextCallsOk DEF NextCalls, NoCall
<1>3. /\ call'[s] = NoCall /\ DOMAIN call' = Servers /\ \A r \in Servers \ {s} : call'[r] = call[r]
      /\ mem'[s] = NoMem /\ DOMAIN mem' = Servers /\ \A r \in Servers \ {s} : mem'[r] = mem[r]
  BY <1>1 DEF Inv, Shapes
<1>4. DOMAIN job' = Servers /\ job'[s].sources \in Seq(Nat) /\ \A r \in Servers \ {s} : job'[r] = job[r]
  BY <1>1, JobEnds DEF JobAt
<1>5. OnlyAt(s)
  BY <1>1, <1>3, <1>4 DEF OnlyAt, Fixed
<1>6. CopyMove(s)
  <2>1. NoMem.m = NoMan /\ NoMem.etag = None
    BY DEF NoMem
  <2> QED
    BY <1>2, <1>3, <2>1 DEF CopyMove
<1>7. DOMAIN push' = Pushes
  BY DEF Crash
<1>8. ASSUME NEW p \in Pushes
      PROVE  \/ push'[p] = push[p] /\ (push[p].s = s => push[p].st # "commit")
             \/ /\ push[p].s = s /\ push[p].st \in {"checked", "uploaded", "commit"}
                /\ DOMAIN push'[p] = DOMAIN NoPush /\ push'[p].st = "done" /\ push'[p].s = s
                /\ SameAsk(p) /\ push'[p].res = {}
  <2>1. CASE push[p].s = s /\ push[p].st # "done"
    <3>1. PICK x : x = [push[p] EXCEPT !.st = "done"]
      OBVIOUS
    <3>2. DOMAIN push[p] = DOMAIN NoPush /\ push[p].res = {}
      BY <2>1 DEF Inv, Shapes
    <3>3. DOMAIN x = DOMAIN NoPush /\ x.st = "done" /\ x.res = {} /\ x.s = push[p].s /\ x.cmds = push[p].cmds
        /\ x.objs = push[p].objs /\ x.atomic = push[p].atomic /\ x.pack = push[p].pack
      BY <3>1, <3>2 DEF NoPush
    <3>4. push'[p] = x
      BY <2>1, <3>1 DEF Crash
    <3>5. push[p].st # "new"
      <4>1. push[p].st = "new" => push[p] = NoPush
        BY DEF Inv, Shapes
      <4> QED
        BY <2>1, <4>1, ServersAssumption DEF NoPush
    <3>6. push[p].st \in {"checked", "uploaded", "commit"}
      BY <2>1, <3>5 DEF Inv, Shapes
    <3> QED
      BY <2>1, <3>3, <3>4, <3>6 DEF SameAsk
  <2>2. CASE ~(push[p].s = s /\ push[p].st # "done")
    BY <2>2 DEF Crash
  <2> QED
    BY <2>1, <2>2
<1> QED
  BY <1>1, <1>2, <1>3, <1>5, <1>6, <1>7, <1>8, EndedInv

LEMMA TickInv == ASSUME Inv, Tick PROVE Inv'
<1>1. /\ man' = man /\ made' = made /\ late' = late /\ nonces' = nonces /\ job' = job /\ call' = call
      /\ applied' = applied /\ push' = push /\ clock' = clock + 1
      /\ mem' = [s \in Servers |-> [mem[s] EXCEPT !.fresh = FALSE]] /\ \A s \in Servers : Free(s)
  BY DEF Tick, Timely
<1>2. \A s \in Servers : ~Live(s) /\ ~Live(s)'
  BY <1>1, FreeIdle DEF Live
<1>3. ASSUME NEW s \in Servers PROVE DOMAIN mem'[s] = DOMAIN NoMem /\ mem'[s].m = mem[s].m /\ mem'[s].etag = mem[s].etag
  <2>1. DOMAIN mem[s] = DOMAIN NoMem
    BY DEF Inv, Shapes
  <2> QED
    BY <1>1, <2>1 DEF NoMem
<1>4. Shapes'
  <2>1. NoMem' = NoMem /\ NoCall' = NoCall /\ NoPush' = NoPush
    BY DEF NoMem, NoCall, NoPush, NoMan
  <2>2. DOMAIN mem' = Servers /\ clock' \in Nat
    BY <1>1 DEF Inv, Shapes
  <2> QED
    BY <1>1, <1>3, <2>1, <2>2 DEF Inv, Shapes, AskOk
<1>5. Linked'
  <2>1. \A p \in Pushes : push[p].st # "commit"
    BY <1>2 DEF Inv, Linked, Shapes
  <2> QED
    BY <1>1, <1>2, <2>1 DEF Inv, Linked
<1>6. Apart'
  BY <1>1 DEF Inv, Apart
<1>7. QuietMove
  <2>1. \A s \in Servers : CallMove(s) /\ CopyMove(s)
    BY <1>1, <1>2, <1>3 DEF CallMove, CopyMove
  <2>2. \A p \in Pushes : PushMove(p) /\ push[p].st # "commit"
    BY <1>1, <1>2 DEF PushMove, Inv, Linked, Shapes
  <2> QED
    BY <1>1, <2>1, <2>2, MadeStays DEF QuietMove
<1> QED
  BY <1>4, <1>5, <1>6, <1>7, QuietInv

\* A call that commits a push ends, and answers it.
LEMMA LiveEnds ==
    ASSUME Inv, NEW s \in Servers, Live(s), Fixed, made' = made, MemAt(s), job' = job,
           NEW res, push' = Answer(call[s].push, res),
           res = {} \/ \A w \in late : OfPush(w, call[s].push) => w.etag # man.writer,
           Done(s) \/ call' = [call EXCEPT ![s].st = "cleanup"]
    PROVE  Inv'
<1>1. PICK p \in Pushes : p = call[s].push /\ push[p].st = "commit" /\ push[p].s = s
  BY DEF Inv, Linked
<1>2. /\ DOMAIN push' = Pushes /\ \A q \in Pushes \ {p} : push'[q] = push[q]
      /\ DOMAIN push'[p] = DOMAIN NoPush /\ push'[p].st = "done" /\ push'[p].res = res
      /\ push'[p].s = s /\ SameAsk(p)
  BY <1>1, AnswerIs
<1>3. PICK c : /\ call'[s] = c /\ CallOk(c)' /\ c.doc \in {call[s].doc, NoMan}
               /\ DOMAIN call' = Servers /\ \A r \in Servers \ {s} : call'[r] = call[r]
  <2>1. CASE Done(s)
    <3>1. PICK c \in NextCalls : call'[s] = c
      BY <2>1, DoneIs
    <3>2. CallOk(c)' /\ c.doc = NoMan
      BY NextCallsOk
    <3> QED
      BY <2>1, <3>1, <3>2, DoneIs
  <2>2. CASE call' = [call EXCEPT ![s].st = "cleanup"]
    <3>1. PICK c : c = [call[s] EXCEPT !.st = "cleanup"]
      OBVIOUS
    <3>2. DOMAIN call[s] = DOMAIN NoCall /\ call[s].kind = "push" /\ DOMAIN call = Servers
      BY DEF Inv, Shapes, Live
    <3>3. DOMAIN c = DOMAIN NoCall /\ c.st = "cleanup" /\ c.doc = call[s].doc /\ c.kind = "push"
      BY <3>1, <3>2 DEF NoCall
    <3>4. NoCall' = NoCall
      BY DEF NoCall, NoMan
    <3>5. CallOk(c)'
      BY <3>3, <3>4 DEF CallOk
    <3>6. call' = [call EXCEPT ![s] = c]
      BY <2>2, <3>1
    <3> QED
      BY <3>2, <3>3, <3>5, <3>6
  <2> QED
    BY <2>1, <2>2
<1>4. OnlyAt(s)
  BY <1>3, JobStays DEF OnlyAt, Fixed, MemAt, JobAt
<1>5. CopyMove(s)
  BY <1>3 DEF CopyMove, MemAt
<1>6. ASSUME NEW q \in Pushes, push[q].st = "commit", push[q].s = s PROVE q = p
  BY <1>1, <1>6 DEF Inv, Linked
<1>7. \A q \in Pushes :
         \/ push'[q] = push[q] /\ (push[q].s = s => push[q].st # "commit")
         \/ /\ push[q].s = s /\ push[q].st \in {"checked", "uploaded", "commit"}
            /\ DOMAIN push'[q] = DOMAIN NoPush /\ push'[q].st = "done" /\ push'[q].s = s
            /\ SameAsk(q)
            /\ push'[q].res = {} \/ \A w \in late : OfPush(w, q) => w.etag # man.writer
  BY <1>1, <1>2, <1>6
<1> QED
  BY <1>2, <1>3, <1>4, <1>5, <1>7, EndedInv

\* A call that commits a push goes round again.
LEMMA LiveAgain ==
    ASSUME Inv, NEW s \in Servers, Live(s), call[s].st = "settle", Fixed, made' = made, job' = job, push' = push,
           Become(s, Revalidated(mem[s])),
           NEW c, call' = [call EXCEPT ![s] = c], DOMAIN c = DOMAIN NoCall, c.kind = "push", c.st = "try",
           c.push = call[s].push, c.pack = call[s].pack, c.ok = call[s].ok, c.tried = call[s].tried, c.doc = NoMan
    PROVE  Inv'
<1>0. Grows
  BY MadeStays
<1>1. call'[s] = c /\ DOMAIN call' = Servers /\ \A r \in Servers \ {s} : call'[r] = call[r]
  BY DEF Inv, Shapes
<1>2. /\ DOMAIN mem' = Servers /\ \A r \in Servers \ {s} : mem'[r] = mem[r]
      /\ DOMAIN mem'[s] = DOMAIN NoMem /\ mem'[s].m = man /\ mem'[s].etag = man.writer
  BY BecomeRevalidated
<1>3. Live(s)' /\ \A r \in Servers \ {s} : Live(r)' <=> Live(r)
  BY <1>1 DEF Live
<1>4. OnlyAt(s)
  BY <1>1, <1>2 DEF OnlyAt, Fixed, Inv, Shapes
<1>5. Shapes'
  <2>1. DOMAIN push' = Pushes
    BY DEF Inv, Shapes
  <2> QED
    BY <1>0, <1>1, <1>4, <2>1, ShapesAt
<1>6. call[s].tried
  BY DEF Inv, Linked
<1>7. Linked'
  <2>1. ASSUME NEW r \in Servers
        PROVE  /\ call'[r].st \in {"try", "settle", "cleanup"}
               /\ Live(r)' => /\ call'[r].push \in Pushes /\ push[call'[r].push].st = "commit"
                              /\ push[call'[r].push].s = r /\ push[call'[r].push].pack = call'[r].pack
                              /\ call'[r].st = "settle" => call'[r].tried
               /\ call'[r].kind = "restore" => call'[r].ref \in Refs /\ call'[r].id \in Objs
    <3>1. CASE r = s
      BY <1>1, <3>1 DEF Inv, Linked
    <3>2. CASE r # s
      BY <1>1, <1>3, <3>2 DEF Inv, Linked
    <3> QED
      BY <3>1, <3>2
  <2>2. ASSUME NEW q \in Pushes, push[q].st = "commit"
        PROVE  \E r \in Servers : push[q].s = r /\ Live(r)' /\ call'[r].push = q
    <3>1. PICK r \in Servers : r = push[q].s
      BY <2>2 DEF Inv, Shapes
    <3>2. Live(push[q].s) /\ call[push[q].s].push = q
      BY <2>2 DEF Inv, Linked
    <3>3. Live(r) /\ call[r].push = q
      BY <3>1, <3>2
    <3>4. Live(r)' /\ call'[r].push = q
      <4>1. CASE r = s
        BY <1>1, <1>3, <3>3, <4>1
      <4>2. CASE r # s
        BY <1>1, <1>3, <3>3, <4>2
      <4> QED
        BY <4>1, <4>2
    <3> QED
      BY <3>1, <3>4
  <2> QED
    BY <2>1, <2>2 DEF Linked, Live
<1>8. Apart'
  <2>1. ASSUME NEW r \in Servers
        PROVE  /\ call'[r].kind \in {"collect", "repack"} =>
                     /\ call'[r].pack \in 0..Len(made) /\ (call'[r].st # "cleanup" => call'[r].pack # 0)
                     /\ \A p \in Pushes : push[p].pack # 0 => push[p].pack # call'[r].pack
               /\ call'[r].kind = "sweep" =>
                     /\ call'[r].gone \subseteq 1..Len(made)
                     /\ \A p \in Pushes : push[p].st \in {"uploaded", "commit"} => push[p].pack \notin call'[r].gone
    <3>1. CASE r = s
      BY <1>1, <3>1
    <3>2. CASE r # s
      BY <1>1, <3>2 DEF Inv, Apart
    <3> QED
      BY <3>1, <3>2
  <2> QED
    BY <2>1 DEF Apart, Inv
<1>9. QuietMove
  <2>1. \A r \in Servers \ {s} : CallMove(r) /\ CopyMove(r)
    BY <1>1, <1>2, <1>3 DEF CallMove, CopyMove
  <2>2. CopyMove(s)
    BY <1>1, <1>2 DEF CopyMove
  <2>3. CallMove(s)
    BY <1>1, <1>2, <1>6 DEF CallMove
  <2> QED
    BY <1>0, <2>1, <2>2, <2>3 DEF QuietMove, PushMove, Fixed
<1> QED
  BY <1>5, <1>7, <1>8, <1>9, QuietInv

LEMMA SettlePushInv == ASSUME Inv, NEW s \in Servers, Settle(s), call[s].kind = "push" PROVE Inv'
<1> DEFINE c == call[s]
           r == ReadBack(c.first, man, c.doc.writer)
<1>1. Live(s) /\ Fixed /\ made' = made /\ c.st = "settle"
  BY DEF Settle, Live, Fixed
<1>2. PICK p \in Pushes : p = c.push /\ DOMAIN c = DOMAIN NoCall /\ DOMAIN mem[s] = DOMAIN NoMem
  BY <1>1 DEF Inv, Linked, Shapes
<1>3. CASE r = "ok" /\ Succeed(s, c, c.doc)
  <2>1. man.writer = c.doc.writer
    BY <1>3 DEF ReadBack
  <2>2. c.doc = man
    BY <2>1 DEF Inv, Written, Docs
  <2>3. Done(s) /\ job' = job /\ push' = Answer(p, c.ok)
        /\ Become(s, [mem[s] EXCEPT !.m = c.doc, !.etag = c.doc.writer, !.fresh = TRUE])
    BY <1>2, <1>3 DEF Succeed
  <2>4. MemAt(s)
    <3>1. PICK ms : ms = [mem[s] EXCEPT !.m = c.doc, !.etag = c.doc.writer, !.fresh = TRUE]
      OBVIOUS
    <3>2. DOMAIN ms = DOMAIN NoMem /\ ms.m = man /\ ms.etag = man.writer
      BY <1>2, <2>2, <3>1 DEF NoMem
    <3> QED
      BY <2>3, <3>1, <3>2, MemBecomes
  <2>5. ASSUME NEW w \in late, OfPush(w, p) PROVE w.etag # man.writer
    <3>1. w.etag < c.doc.writer
      BY <1>1, <1>2, <2>5 DEF Inv, Informed, OnCall
    <3>2. w.etag \in Nat /\ man.writer \in Nat
      BY ManTyped DEF Inv, Tags, IsDoc
    <3> QED
      BY <2>1, <3>1, <3>2
  <2> QED
    BY <1>1, <1>2, <2>3, <2>4, <2>5, LiveEnds
<1>4. CASE /\ Become(s, Revalidated(mem[s]))
           /\ call' = [call EXCEPT ![s] = [c EXCEPT !.st = "try", !.attempt = @ + 1,
                                                    !.doc = NoMan, !.first = "none"]]
           /\ push' = push /\ job' = job
  <2>1. PICK d : d = [c EXCEPT !.st = "try", !.attempt = @ + 1, !.doc = NoMan, !.first = "none"]
    OBVIOUS
  <2>2. call' = [call EXCEPT ![s] = d]
    BY <1>4, <2>1
  <2>3. c.kind = "push"
    OBVIOUS
  <2> HIDE DEF c
  <2>4. DOMAIN d = DOMAIN NoCall /\ d.st = "try" /\ d.doc = NoMan /\ d.kind = "push"
        /\ d.push = c.push /\ d.pack = c.pack /\ d.ok = c.ok /\ d.tried = c.tried
    BY <1>2, <2>1, <2>3 DEF NoCall
  <2> QED
    BY <1>1, <1>4, <2>2, <2>4, LiveAgain DEF c
<1>5. CASE GiveUp(s) /\ mem' = mem
  <2>1. push' = Answer(p, {}) /\ job' = job /\ (Done(s) \/ call' = [call EXCEPT ![s].st = "cleanup"])
    BY <1>2, <1>5 DEF GiveUp
  <2> QED
    BY <1>1, <1>2, <1>5, <2>1, MemStays, LiveEnds
<1> QED
  BY <1>3, <1>4, <1>5 DEF Settle

\* A push whose pack is listed already cannot land again.
LEMMA LandedOnce ==
    ASSUME Inv, NEW s \in Servers, Live(s), LandedBefore(s), NEW w \in late, OfPush(w, call[s].push)
    PROVE  w.etag # man.writer
<1>1. PICK p \in Pushes : p = call[s].push /\ push[p].st = "commit" /\ push[p].pack = call[s].pack
  BY DEF Inv, Linked
<1>2. Offered(p) /\ Lists(mem[s].m, push[p].pack)
  BY <1>1 DEF LandedBefore, Offered
<1>3. Lists(man, push[p].pack)
  BY <1>2 DEF Inv, Lingers
<1>4. \E a \in applied : a.push = p
  BY <1>2, <1>3 DEF Inv, Landings
<1> QED
  BY <1>1, <1>2, <1>4 DEF Inv, Landings, OfPush, Offered

LEMMA TryPushAnswers ==
    ASSUME Inv, NEW s \in Servers, Live(s), made' = made, Fixed, mem' = mem, job' = job,
           \/ LandedBefore(s) /\ push' = Answer(call[s].push, call[s].ok) /\ Done(s)
           \/ GiveUp(s)
    PROVE  Inv'
<1>1. call[s].kind = "push"
  BY DEF Live
<1>2. CASE LandedBefore(s) /\ push' = Answer(call[s].push, call[s].ok) /\ Done(s)
  BY <1>2, LandedOnce, MemStays, LiveEnds
<1>3. CASE GiveUp(s)
  BY <1>1, <1>3, MemStays, LiveEnds DEF GiveUp
<1> QED
  BY <1>2, <1>3

-------------------------------------------------------------------------------
\* A manifest is replaced: by a save, or by a PUT that was late.

LEMMA CopyIsMan ==
    ASSUME Inv, NEW s \in Servers, man.writer = mem[s].etag PROVE mem[s].m = man
<1>1. mem[s].etag = mem[s].m.writer
  BY DEF Inv, Tags
<1>2. mem[s].m \in Docs /\ man \in Docs
  BY DEF Docs
<1> QED
  BY <1>1, <1>2 DEF Inv, Written

\* What changes when doc takes the place of the manifest for the call c.
Lands(c, doc) ==
    /\ man' = doc /\ applied' = Landed(c, doc) /\ late' \subseteq late
    /\ made' = made /\ clock' = clock /\ nonces' \in Nat /\ nonces <= nonces'
    /\ Steps(c, man, doc)
    /\ c.kind = "push" /\ push[c.push].pack # 0 => \A a \in applied : a.push # c.push
    /\ doc.writer # None /\ \A v \in late' : v.etag # doc.writer /\ v.doc.writer # doc.writer
    /\ Docs' \subseteq Docs \cup {doc}
    /\ \A x \in doc.retired : x.at = clock \/ \E d \in Docs : x \in d.retired
    /\ \A p \in Pushes : push'[p] = push[p] \/ (push'[p].st = "done" /\ SameAsk(p))
    /\ \A r \in Servers : \/ mem'[r].m = mem[r].m /\ mem'[r].etag \in {mem[r].etag, None}
                          \/ mem'[r].m = doc /\ mem'[r].etag = doc.writer

LEMMA LandsOffered ==
    ASSUME NEW c, NEW doc, Lands(c, doc), NEW p \in Pushes
    PROVE  push'[p].pack = push[p].pack /\ (Offered(p)' => Offered(p) /\ push'[p] = push[p])
  BY DEF Lands, Offered, SameAsk

LEMMA LandsTags == ASSUME Inv, NEW c, NEW doc, Lands(c, doc) PROVE Tags'
<1>1. ASSUME NEW s \in Servers
      PROVE  mem'[s].etag = mem'[s].m.writer \/ (mem'[s].etag = None /\ man'.writer # None)
  BY DEF Inv, Tags, Lands
<1>2. ASSUME NEW w \in late'
      PROVE  /\ w.etag \in 0..nonces' /\ w.doc.writer \notin {None, man'.writer}
             /\ \A s \in Servers : mem'[s].etag # w.doc.writer
             /\ \A v \in late' : v.etag # w.doc.writer /\ (v.doc.writer = w.doc.writer => v = w)
  <2>1. w \in late /\ late' \subseteq late
    BY DEF Lands
  <2>2. /\ w.etag \in 0..nonces /\ w.doc.writer # None /\ \A s \in Servers : mem[s].etag # w.doc.writer
        /\ \A v \in late : v.etag # w.doc.writer /\ (v.doc.writer = w.doc.writer => v = w)
    BY <2>1 DEF Inv, Tags
  <2>3. w.etag \in 0..nonces'
    BY <2>2 DEF Lands, Inv, Shapes
  <2> QED
    BY <2>1, <2>2, <2>3 DEF Lands
<1> QED
  BY <1>1, <1>2 DEF Tags

LEMMA LandsLingers == ASSUME Inv, NEW c, NEW doc, Lands(c, doc) PROVE Lingers'
<1>1. ASSUME NEW p \in Pushes, Offered(p)', NEW d \in Docs', NEW x \in d.retired, x.id = push'[p].pack
      PROVE  x.at = clock'
  <2>1. Offered(p) /\ push'[p] = push[p] /\ clock' = clock
    BY <1>1, LandsOffered DEF Lands
  <2>2. x.at = clock \/ \E e \in Docs : x \in e.retired
    BY <1>1 DEF Lands
  <2> QED
    BY <1>1, <2>1, <2>2 DEF Inv, Lingers
<1>2. ASSUME NEW p \in Pushes, NEW s \in Servers, Offered(p)', Lists(mem'[s].m, push'[p].pack)
      PROVE  Lists(doc, push'[p].pack)
  <2>1. Offered(p) /\ push'[p] = push[p]
    BY <1>2, LandsOffered
  <2>2. mem'[s].m \in {mem[s].m, doc}
    BY DEF Lands
  <2>3. Lists(mem[s].m, push[p].pack) => Lists(man, push[p].pack)
    BY <2>1 DEF Inv, Lingers
  <2>4. Lists(man, push[p].pack) => Lists(doc, push[p].pack)
    BY <2>1 DEF Lands, Steps
  <2> QED
    BY <1>2, <2>1, <2>2, <2>3, <2>4
<1>3. man' = doc
  BY DEF Lands
<1> QED
  BY <1>1, <1>2, <1>3 DEF Lingers, Lists

LEMMA LandsBased == ASSUME NEW c, NEW doc, Lands(c, doc) PROVE Based'
  BY DEF Lands, Based

LEMMA LandsLandings == ASSUME Inv, NEW c, NEW doc, Lands(c, doc) PROVE Landings'
<1> DEFINE e == [push |-> c.push, ok |-> c.ok, moved |-> c.moved, writer |-> doc.writer]
<1>1. man' = doc /\ applied' = IF c.kind = "push" THEN applied \cup {e} ELSE applied
  BY DEF Lands, Landed
<1>2. c.kind = "push" => e.push = c.push /\ c.push \in Pushes
  BY DEF Lands, Steps
<1> HIDE DEF e
<1>3. \A a \in applied' : a.push \in Pushes
  BY <1>1, <1>2 DEF Inv, Landings
<1>4. PackedOnce'
  <2> SUFFICES ASSUME NEW a \in applied', NEW b \in applied', a.push = b.push, push'[a.push].pack # 0
               PROVE  a = b
    BY DEF PackedOnce
  <2>1. push[a.push].pack # 0
    BY <1>3, LandsOffered
  <2>2. CASE a \in applied /\ b \in applied
    BY <2>1, <2>2 DEF PackedOnce, Inv, Landings
  <2>3. CASE c.kind = "push" /\ (a = e \/ b = e)
    <3>1. \A z \in applied : z.push # c.push
      BY <1>2, <2>1, <2>3 DEF Lands
    <3> QED
      BY <1>1, <1>2, <2>3, <3>1
  <2> QED
    BY <1>1, <2>2, <2>3
<1>5. ASSUME NEW w \in late' PROVE w.etag # man'.writer
  BY <1>1 DEF Lands
<1>6. ASSUME NEW p \in Pushes, Offered(p)' PROVE Lists(doc, push'[p].pack) <=> \E a \in applied' : a.push = p
  <2>1. Offered(p) /\ push'[p] = push[p] /\ push[p].pack # 0
    BY <1>6, LandsOffered DEF Offered
  <2>2. Lists(man, push[p].pack) <=> \E a \in applied : a.push = p
    BY <2>1 DEF Inv, Landings
  <2>3. CASE c.kind = "push" /\ c.push = p
    <3>1. Lists(doc, push[p].pack)
      BY <2>1, <2>3 DEF Lands, Steps, Moves
    <3> QED
      BY <1>1, <1>2, <2>1, <2>3, <3>1
  <2>4. CASE ~(c.kind = "push" /\ c.push = p)
    <3>1. Lists(doc, push[p].pack) <=> Lists(man, push[p].pack)
      BY <2>1, <2>4 DEF Lands, Steps
    <3> QED
      BY <1>1, <1>2, <2>1, <2>2, <2>4, <3>1
  <2> QED
    BY <2>3, <2>4
<1> QED
  BY <1>1, <1>3, <1>4, <1>5, <1>6 DEF Landings, Lists

\* A push that no manifest was written for is untouched by one for another.
LEMMA LandsUntouched ==
    ASSUME Inv, NEW c, NEW doc, Lands(c, doc), NEW p \in Pushes, Untouched(p), ~(c.kind = "push" /\ c.push = p),
           push[p].pack # 0 => ~Lists(doc, push[p].pack)
    PROVE  Untouched(p)'
<1>1. \A a \in applied' : a.push # p
  BY DEF Lands, Landed, Untouched
<1>2. late' \subseteq late /\ Docs' \subseteq Docs \cup {doc} /\ push'[p].pack = push[p].pack
  BY LandsOffered DEF Lands
<1> QED
  BY <1>1, <1>2 DEF Untouched, Lists

-------------------------------------------------------------------------------
\* A save.  c is the call of s with what its round decided, doc what is written.

SameCall(s, c) ==
    /\ call[s].st = "try" /\ DOMAIN c = DOMAIN NoCall /\ c.kind = call[s].kind /\ c.push = call[s].push
    /\ c.pack = call[s].pack /\ c.ref = call[s].ref /\ c.id = call[s].id /\ c.gone = call[s].gone
Saves(s, c, doc) ==
    /\ SameCall(s, c) /\ Writes(c, mem[s].m, doc) /\ doc.writer = nonces + 1
    /\ nonces' = nonces + 1 /\ made' = made /\ clock' = clock

Put(s, c, doc) == [etag |-> mem[s].etag, doc |-> doc, call |-> c]

\* The call goes on to settle the write.
ToSettle(s, c, doc) ==
    /\ mem' = mem /\ push' = push /\ job' = job
    /\ \E d : /\ call' = [call EXCEPT ![s] = d] /\ DOMAIN d = DOMAIN NoCall
              /\ d.st = "settle" /\ d.tried /\ d.doc = doc /\ d.ok = c.ok
              /\ d.kind = c.kind /\ d.push = c.push /\ d.pack = c.pack /\ d.ref = c.ref /\ d.id = c.id
              /\ d.gone = c.gone

\* The write is known to have succeeded.
Succeeded(s, c, doc) ==
    /\ DOMAIN call' = Servers /\ call'[s] \in NextCalls /\ \A r \in Servers \ {s} : call'[r] = call[r]
    /\ DOMAIN mem' = Servers /\ DOMAIN mem'[s] = DOMAIN NoMem /\ \A r \in Servers \ {s} : mem'[r] = mem[r]
    /\ \/ mem'[s].m = doc /\ mem'[s].etag = doc.writer
       \/ mem'[s].m = mem[s].m /\ mem'[s].etag = None
    /\ JobAt(s)
    /\ IF c.kind = "push" THEN push' = Answer(c.push, c.ok) ELSE push' = push

Replaced(c, doc) == man' = doc /\ applied' = Landed(c, doc) /\ late' = late
Kept == man' = man /\ applied' = applied

LEMMA SucceedIs ==
    ASSUME Inv, NEW s \in Servers, NEW c, NEW doc, Succeed(s, c, doc), DOMAIN doc = DOMAIN NoMan
    PROVE  Succeeded(s, c, doc)
<1>1. DOMAIN call' = Servers /\ call'[s] \in NextCalls /\ \A r \in Servers \ {s} : call'[r] = call[r]
  BY DoneIs DEF Succeed
<1>2. JobAt(s)
  BY JobStays, JobEnds DEF Succeed
<1>3. IF c.kind = "push" THEN push' = Answer(c.push, c.ok) ELSE push' = push
  BY DEF Succeed
<1>4. DOMAIN mem[s] = DOMAIN NoMem
  BY DEF Inv, Shapes
<1>5. PICK ms : Become(s, ms) /\ ms \in {Apply(mem[s], doc),
                                        [mem[s] EXCEPT !.m = doc, !.etag = doc.writer, !.fresh = TRUE],
                                        [mem[s] EXCEPT !.m = doc, !.etag = doc.writer],
                                        [mem[s] EXCEPT !.stale = TRUE, !.etag = None]}
  BY DEF Succeed
<1>6. DOMAIN ms = DOMAIN NoMem /\ ((ms.m = doc /\ ms.etag = doc.writer) \/ (ms.m = mem[s].m /\ ms.etag = None))
  <2>1. CASE ms = Apply(mem[s], doc)
    BY <1>4, <2>1 DEF Apply, NoMem
  <2>2. CASE ms = [mem[s] EXCEPT !.m = doc, !.etag = doc.writer, !.fresh = TRUE]
    BY <1>4, <2>2 DEF NoMem
  <2>3. CASE ms = [mem[s] EXCEPT !.m = doc, !.etag = doc.writer]
    BY <1>4, <2>3 DEF NoMem
  <2>4. CASE ms = [mem[s] EXCEPT !.stale = TRUE, !.etag = None]
    BY <1>4, <2>4 DEF NoMem
  <2> QED
    BY <1>5, <2>1, <2>2, <2>3, <2>4
<1>7. DOMAIN mem' = Servers /\ mem'[s] = ms /\ \A r \in Servers \ {s} : mem'[r] = mem[r]
  BY <1>5, BecomeIs
<1> QED
  BY <1>1, <1>2, <1>3, <1>6, <1>7 DEF Succeeded

\* What a save does, as the proofs below use it.
LEMMA SaveIs ==
    ASSUME Inv, NEW s \in Servers, NEW c, SameCall(s, c), NEW m, Writes(c, mem[s].m, m), Save(s, c, m)
    PROVE  \E doc :
             /\ Saves(s, c, doc)
             /\ \/ Accepts(man, mem[s].etag) /\ Replaced(c, doc)
                   /\ (Succeeded(s, c, doc) \/ ToSettle(s, c, doc))
                \/ ~Accepts(man, mem[s].etag) /\ Kept /\ late' = late /\ ToSettle(s, c, doc)
                \/ /\ Kept /\ ToSettle(s, c, doc)
                   /\ late' = late \/ (LatePuts /\ late' = late \cup {Put(s, c, doc)})
<1>1. PICK doc : doc = [m EXCEPT !.rev = @ + 1, !.writer = nonces + 1]
  OBVIOUS
<1>2. DOMAIN m = DOMAIN NoMan
  BY DEF Writes
<1>3. /\ DOMAIN doc = DOMAIN NoMan /\ doc.writer = nonces + 1 /\ doc.packs = m.packs /\ doc.refs = m.refs
      /\ doc.retired = m.retired
  BY <1>1, <1>2 DEF NoMan
<1>4. Writes(c, mem[s].m, doc)
  <2>1. \A k : Lists(doc, k) <=> Lists(m, k)
    BY <1>3 DEF Lists
  <2>2. Steps(c, mem[s].m, doc)
    BY <1>3, <2>1 DEF Writes, Steps, Moves
  <2>3. Neat(doc) /\ Relists(c, mem[s].m, doc)
    BY <1>3, <2>1 DEF Writes, Neat, Relists
  <2> QED
    BY <1>3, <2>1, <2>2, <2>3 DEF Writes
<1>5. nonces' = nonces + 1 /\ made' = made /\ clock' = clock
  BY DEF Save
<1>6. Saves(s, c, doc)
  BY <1>3, <1>4, <1>5 DEF Saves
<1>7. ASSUME NEW first,
             call' = [call EXCEPT ![s] = [c EXCEPT !.st = "settle", !.tried = TRUE, !.doc = doc, !.first = first]],
             mem' = mem, push' = push, job' = job
      PROVE  ToSettle(s, c, doc)
  <2>1. PICK d : d = [c EXCEPT !.st = "settle", !.tried = TRUE, !.doc = doc, !.first = first]
    OBVIOUS
  <2>2. DOMAIN c = DOMAIN NoCall
    BY DEF SameCall
  <2>3. /\ DOMAIN d = DOMAIN NoCall /\ d.st = "settle" /\ d.tried /\ d.doc = doc /\ d.ok = c.ok
        /\ d.kind = c.kind /\ d.push = c.push /\ d.pack = c.pack /\ d.ref = c.ref /\ d.id = c.id /\ d.gone = c.gone
    BY <2>1, <2>2 DEF NoCall
  <2> QED
    BY <1>7, <2>1, <2>3 DEF ToSettle
<1>8. \/ /\ Accepts(man, mem[s].etag) /\ man' = doc /\ applied' = Landed(c, doc) /\ late' = late
         /\ Succeed(s, c, doc) \/ \E first : /\ call' = [call EXCEPT ![s] = [c EXCEPT !.st = "settle",
                                                   !.tried = TRUE, !.doc = doc, !.first = first]]
                                             /\ mem' = mem /\ push' = push /\ job' = job
      \/ /\ ~Accepts(man, mem[s].etag) /\ man' = man /\ applied' = applied /\ late' = late
         /\ \E first : /\ call' = [call EXCEPT ![s] = [c EXCEPT !.st = "settle",
                                                   !.tried = TRUE, !.doc = doc, !.first = first]]
                       /\ mem' = mem /\ push' = push /\ job' = job
      \/ /\ man' = man /\ applied' = applied
         /\ late' = late \/ (LatePuts /\ late' = late \cup {[etag |-> mem[s].etag, doc |-> doc, call |-> c]})
         /\ \E first : /\ call' = [call EXCEPT ![s] = [c EXCEPT !.st = "settle",
                                                   !.tried = TRUE, !.doc = doc, !.first = first]]
                       /\ mem' = mem /\ push' = push /\ job' = job
  BY <1>1 DEF Save
<1>9. Succeed(s, c, doc) => Succeeded(s, c, doc)
  BY <1>3, SucceedIs
<1> QED
  BY <1>6, <1>7, <1>8, <1>9 DEF Replaced, Kept, Put

\* What holds of a save however it goes: the push of a call that is over is answered.
SaveMoves(s, c, doc) ==
    /\ Saves(s, c, doc)
    /\ man' \in {man, doc} /\ late' \subseteq late \cup {Put(s, c, doc)} /\ applied' \in {applied, Landed(c, doc)}
    /\ late' # late => LatePuts
    /\ JobAt(s)
    /\ DOMAIN mem' = Servers /\ DOMAIN mem'[s] = DOMAIN NoMem /\ \A r \in Servers \ {s} : mem'[r] = mem[r]
    /\ mem'[s].m \in {mem[s].m, doc}
    /\ DOMAIN call' = Servers /\ \A r \in Servers \ {s} : call'[r] = call[r]
    /\ call'[s].doc \in {NoMan, doc}
    /\ \/ call'[s] \in NextCalls /\ IF c.kind = "push" THEN push' = Answer(c.push, c.ok) ELSE push' = push
       \/ /\ push' = push /\ DOMAIN call'[s] = DOMAIN NoCall /\ call'[s].st = "settle" /\ call'[s].tried
          /\ call'[s].kind = c.kind /\ call'[s].push = c.push /\ call'[s].pack = c.pack
          /\ call'[s].ref = c.ref /\ call'[s].id = c.id /\ call'[s].gone = c.gone

LEMMA ToSettleIs ==
    ASSUME Inv, NEW s \in Servers, NEW c, NEW doc, ToSettle(s, c, doc)
    PROVE  /\ mem' = mem /\ push' = push /\ job' = job
           /\ DOMAIN call' = Servers /\ \A r \in Servers \ {s} : call'[r] = call[r]
           /\ DOMAIN call'[s] = DOMAIN NoCall /\ call'[s].st = "settle" /\ call'[s].tried /\ call'[s].doc = doc
           /\ call'[s].ok = c.ok /\ call'[s].kind = c.kind /\ call'[s].push = c.push /\ call'[s].pack = c.pack
           /\ call'[s].ref = c.ref /\ call'[s].id = c.id /\ call'[s].gone = c.gone
<1>1. PICK d : /\ call' = [call EXCEPT ![s] = d] /\ DOMAIN d = DOMAIN NoCall
              /\ d.st = "settle" /\ d.tried /\ d.doc = doc /\ d.ok = c.ok
              /\ d.kind = c.kind /\ d.push = c.push /\ d.pack = c.pack /\ d.ref = c.ref /\ d.id = c.id
              /\ d.gone = c.gone
  BY DEF ToSettle
<1>2. DOMAIN call' = Servers /\ call'[s] = d /\ \A r \in Servers \ {s} : call'[r] = call[r]
  BY <1>1 DEF Inv, Shapes
<1> QED
  BY <1>1, <1>2 DEF ToSettle

LEMMA ToSettleMoves ==
    ASSUME Inv, NEW s \in Servers, NEW c, NEW doc, Saves(s, c, doc), ToSettle(s, c, doc),
           man' \in {man, doc}, late' = late \/ (LatePuts /\ late' = late \cup {Put(s, c, doc)}),
           applied' \in {applied, Landed(c, doc)}
    PROVE  SaveMoves(s, c, doc)
<1>1. JobAt(s)
  BY JobStays DEF ToSettle
<1>2. DOMAIN mem = Servers /\ DOMAIN mem[s] = DOMAIN NoMem
  BY DEF Inv, Shapes
<1> QED
  BY <1>1, <1>2, ToSettleIs DEF SaveMoves

LEMMA SucceededMoves ==
    ASSUME Inv, NEW s \in Servers, NEW c, NEW doc, Saves(s, c, doc), Succeeded(s, c, doc), Replaced(c, doc)
    PROVE  SaveMoves(s, c, doc)
  BY NextCallsOk DEF SaveMoves, Succeeded, Replaced

LEMMA SaveKind ==
    ASSUME Inv, NEW s \in Servers, NEW c, SameCall(s, c)
    PROVE  /\ Live(s) <=> c.kind = "push"
           /\ Live(s) => /\ c.push \in Pushes /\ push[c.push].st = "commit" /\ push[c.push].s = s
                         /\ push[c.push].pack = c.pack
           /\ \A p \in Pushes : push[p].st = "commit" /\ push[p].s = s => Live(s) /\ p = c.push
<1>1. Live(s) <=> c.kind = "push"
  BY DEF SameCall, Live
<1> QED
  BY <1>1 DEF Inv, Linked, SameCall

LEMMA SavePushes ==
    ASSUME Inv, NEW s \in Servers, NEW c, NEW doc, SaveMoves(s, c, doc), NEW p \in Pushes
    PROVE  /\ DOMAIN push' = Pushes /\ SameAsk(p)
           /\ \/ push'[p] = push[p]
              \/ /\ push[p].st = "commit" /\ push[p].s = s /\ c.kind = "push" /\ p = c.push
                 /\ DOMAIN push'[p] = DOMAIN NoPush /\ push'[p].st = "done" /\ push'[p].s = s
<1>0. SameCall(s, c)
  BY DEF SaveMoves, Saves
<1>1. CASE push' = push
  BY <1>1 DEF Inv, Shapes, SameAsk
<1>2. CASE c.kind = "push" /\ push' = Answer(c.push, c.ok)
  <2>1. PICK q \in Pushes : q = c.push /\ push[q].st = "commit" /\ push[q].s = s
    BY <1>0, <1>2, SaveKind
  <2>2. /\ DOMAIN push' = Pushes /\ \A r \in Pushes \ {q} : push'[r] = push[r]
        /\ DOMAIN push'[q] = DOMAIN NoPush /\ push'[q].st = "done"
        /\ push'[q].s = push[q].s
    BY <1>2, <2>1, AnswerIs
  <2>3. push'[q].cmds = push[q].cmds /\ push'[q].objs = push[q].objs
        /\ push'[q].atomic = push[q].atomic /\ push'[q].pack = push[q].pack
    BY <1>2, <2>1, AnswerIs DEF SameAsk
  <2> QED
    BY <1>2, <2>1, <2>2, <2>3 DEF SameAsk
<1> QED
  BY <1>1, <1>2 DEF SaveMoves

LEMMA SaveDocs ==
    ASSUME Inv, NEW s \in Servers, NEW c, NEW doc, SaveMoves(s, c, doc)
    PROVE  /\ Docs' \subseteq Docs \cup {doc} /\ nonces \in Nat
           /\ \A d \in Docs : d.writer \in 0..nonces
           /\ \A w \in late : w.etag \in 0..nonces
           /\ mem[s].etag \in 0..nonces
<1>1. nonces \in Nat
  BY DEF Inv, Shapes
<1>2. ASSUME NEW d \in Docs' PROVE d \in Docs \cup {doc}
  <2>1. NoMan' = NoMan
    BY DEF NoMan
  <2>2. CASE d \in {NoMan, man'}
    BY <2>2 DEF Docs, SaveMoves
  <2>3. ASSUME NEW r \in Servers, d = mem'[r].m PROVE d \in Docs \cup {doc}
    BY <2>3 DEF Docs, SaveMoves
  <2>4. ASSUME NEW r \in Servers, d = call'[r].doc PROVE d \in Docs \cup {doc}
    BY <2>4 DEF Docs, SaveMoves
  <2>5. ASSUME NEW w \in late', d = w.doc PROVE d \in Docs \cup {doc}
    BY <2>5 DEF Docs, SaveMoves, Put
  <2> QED
    BY <2>1, <2>2, <2>3, <2>4, <2>5 DEF Docs
<1>3. \A d \in Docs : d.writer \in 0..nonces
  BY DEF Inv, Written, IsDoc
<1>4. mem[s].etag \in 0..nonces
  <2>1. mem[s].m \in Docs
    BY DEF Docs
  <2> QED
    BY <1>1, <1>3, <2>1 DEF Inv, Tags, None
<1> QED
  BY <1>1, <1>2, <1>3, <1>4 DEF Inv, Tags

LEMMA SaveWritten ==
    ASSUME Inv, NEW s \in Servers, NEW c, NEW doc, SaveMoves(s, c, doc)
    PROVE  Written'
<1>1. /\ Docs' \subseteq Docs \cup {doc} /\ nonces \in Nat
      /\ \A d \in Docs : d.writer \in 0..nonces
  BY SaveDocs
<1>2. doc.writer = nonces + 1 /\ nonces' = nonces + 1 /\ made' = made /\ Writes(c, mem[s].m, doc)
  BY DEF SaveMoves, Saves
<1>3. IsDoc(mem[s].m)
  BY DEF Inv, Written, Docs
<1>4. ASSUME NEW d, IsDoc(d) PROVE IsDoc(d)'
  BY <1>1, <1>2, <1>4 DEF IsDoc, NoMan
<1>5. IsDoc(doc)'
  BY <1>1, <1>2, <1>3 DEF IsDoc, NoMan, Writes
<1>6. ASSUME NEW d \in Docs', NEW e \in Docs', d.writer = e.writer PROVE d = e
  BY <1>1, <1>2, <1>6 DEF Inv, Written
<1> QED
  BY <1>1, <1>4, <1>5, <1>6 DEF Inv, Written

LEMMA SaveShapes ==
    ASSUME Inv, NEW s \in Servers, NEW c, NEW doc, SaveMoves(s, c, doc)
    PROVE  Shapes'
<1>1. /\ nonces' = nonces + 1 /\ made' = made /\ clock' = clock /\ (late' # {} => LatePuts)
  BY DEF SaveMoves, Saves, Inv, Shapes
<1>2. NoMem' = NoMem /\ NoCall' = NoCall /\ NoPush' = NoPush
  BY DEF NoMem, NoCall, NoPush, NoMan
<1>3. DOMAIN call'[s] = DOMAIN NoCall
  BY NextCallsOk DEF SaveMoves, CallOk
<1>4. ASSUME NEW r \in Servers
      PROVE  DOMAIN mem'[r] = DOMAIN NoMem /\ DOMAIN call'[r] = DOMAIN NoCall /\ job'[r].sources \in Seq(Nat)
  BY <1>3 DEF SaveMoves, JobAt, Inv, Shapes
<1>5. DOMAIN mem' = Servers /\ DOMAIN call' = Servers /\ DOMAIN job' = Servers
  BY DEF SaveMoves, JobAt
<1>6. DOMAIN push' = Pushes
  BY DEF SaveMoves, Answer, Inv, Shapes
<1>7. ASSUME NEW p \in Pushes
      PROVE  /\ DOMAIN push'[p] = DOMAIN NoPush
             /\ push'[p].st \in {"new", "checked", "uploaded", "commit", "done"}
             /\ push'[p].pack \in 0..Len(made')
             /\ push'[p].st \in {"new", "checked"} => push'[p].pack = 0
             /\ push'[p].st # "done" => push'[p].res = {}
             /\ IF push'[p].st = "new" THEN push'[p] = NoPush ELSE push'[p].s \in Servers /\ AskOk(push'[p].cmds)
  <2>1. /\ DOMAIN push[p] = DOMAIN NoPush
        /\ push[p].st \in {"new", "checked", "uploaded", "commit", "done"}
        /\ push[p].pack \in 0..Len(made)
        /\ push[p].st \in {"new", "checked"} => push[p].pack = 0
        /\ push[p].st # "done" => push[p].res = {}
        /\ IF push[p].st = "new" THEN push[p] = NoPush ELSE push[p].s \in Servers /\ AskOk(push[p].cmds)
    BY DEF Inv, Shapes
  <2>2. CASE push'[p] = push[p]
    BY <1>1, <2>1, <2>2
  <2>3. CASE push'[p] # push[p]
    BY <1>1, <2>1, <2>3, SavePushes DEF SameAsk
  <2> QED
    BY <2>2, <2>3
<1> QED
  BY <1>1, <1>2, <1>4, <1>5, <1>6, <1>7 DEF Inv, Shapes, AskOk

\* The call after a save: a push's, that settles, or one of no push.
LEMMA SaveCall ==
    ASSUME Inv, NEW s \in Servers, NEW c, NEW doc, SaveMoves(s, c, doc)
    PROVE  /\ \A r \in Servers \ {s} : (Live(r)' <=> Live(r)) /\ call'[r] = call[r]
           /\ \/ /\ Live(s) /\ Live(s)' /\ push' = push /\ c.kind = "push"
                 /\ call'[s].st = "settle" /\ call'[s].tried /\ call'[s].kind = "push"
                 /\ call'[s].push = c.push /\ call'[s].pack = c.pack
              \/ ~Live(s)' /\ \E d : call'[s] = d /\ CallOk(d)
<1>0. SameCall(s, c)
  BY DEF SaveMoves, Saves
<1>1. \A r \in Servers \ {s} : (Live(r)' <=> Live(r)) /\ call'[r] = call[r]
  BY DEF SaveMoves, Live
<1>2. CASE call'[s] \in NextCalls
  <2>1. CallOk(call'[s]) /\ call'[s].kind # "push"
    BY <1>2, NextCallsOk
  <2> QED
    BY <1>1, <2>1 DEF Live
<1>3. CASE /\ push' = push /\ DOMAIN call'[s] = DOMAIN NoCall /\ call'[s].st = "settle" /\ call'[s].tried
           /\ call'[s].kind = c.kind /\ call'[s].push = c.push /\ call'[s].pack = c.pack
           /\ call'[s].ref = c.ref /\ call'[s].id = c.id /\ call'[s].gone = c.gone
  <2>1. CASE c.kind = "push"
    BY <1>0, <1>1, <1>3, <2>1, SaveKind DEF Live
  <2>2. CASE c.kind # "push"
    <3>1. CallOk(call[s])
      BY <1>0, <2>2, SaveKind, CallStands
    <3>2. CallOk(call'[s])
      BY <1>0, <1>3, <2>2, <3>1 DEF CallOk, SameCall
    <3> QED
      BY <1>1, <1>3, <2>2, <3>2 DEF Live
  <2> QED
    BY <2>1, <2>2
<1> QED
  BY <1>2, <1>3 DEF SaveMoves

LEMMA SaveLinked ==
    ASSUME Inv, NEW s \in Servers, NEW c, NEW doc, SaveMoves(s, c, doc)
    PROVE  Linked'
<1>0. SameCall(s, c)
  BY DEF SaveMoves, Saves
<1>1. ASSUME NEW r \in Servers
      PROVE  /\ call'[r].st \in {"try", "settle", "cleanup"}
             /\ Live(r)' => /\ call'[r].push \in Pushes /\ push'[call'[r].push].st = "commit"
                            /\ push'[call'[r].push].s = r /\ push'[call'[r].push].pack = call'[r].pack
                            /\ call'[r].st = "settle" => call'[r].tried
             /\ call'[r].kind = "restore" => call'[r].ref \in Refs /\ call'[r].id \in Objs
  <2>1. CASE r = s
    <3>1. CASE ~Live(s)' /\ \E d : call'[s] = d /\ CallOk(d)
      BY <2>1, <3>1 DEF CallOk
    <3>2. CASE /\ Live(s) /\ Live(s)' /\ push' = push /\ c.kind = "push"
               /\ call'[s].st = "settle" /\ call'[s].tried /\ call'[s].kind = "push"
               /\ call'[s].push = c.push /\ call'[s].pack = c.pack
      BY <1>0, <2>1, <3>2, SaveKind
    <3> QED
      BY <3>1, <3>2, SaveCall
  <2>2. CASE r # s
    <3>1. call'[r] = call[r] /\ (Live(r)' <=> Live(r))
      BY <2>2, SaveCall
    <3>2. ASSUME NEW p \in Pushes, push[p].s = r PROVE push'[p] = push[p]
      BY <2>2, <3>2, SavePushes
    <3> QED
      BY <3>1, <3>2 DEF Inv, Linked
  <2> QED
    BY <2>1, <2>2
<1>2. ASSUME NEW p \in Pushes, push'[p].st = "commit"
      PROVE  \E r \in Servers : push'[p].s = r /\ Live(r)' /\ call'[r].push = p
  <2>1. push'[p] = push[p]
    BY <1>2, SavePushes
  <2>2. PICK r \in Servers : r = push[p].s
    BY <1>2, <2>1 DEF Inv, Shapes
  <2>3. Live(r) /\ call[r].push = p
    <3>1. Live(push[p].s) /\ call[push[p].s].push = p
      BY <1>2, <2>1 DEF Inv, Linked
    <3> QED
      BY <2>2, <3>1
  <2>4. CASE r # s
    BY <2>1, <2>2, <2>3, <2>4, SaveCall
  <2>5. CASE r = s
    <3>1. Live(s) /\ p = c.push /\ c.kind = "push"
      <4>1. push[p].st = "commit" /\ push[p].s = s
        BY <1>2, <2>1, <2>2, <2>5
      <4> QED
        BY <1>0, <4>1, SaveKind
    <3>2. Live(s)' => call'[s].push = p
      BY <3>1, SaveCall
    <3>3. ASSUME ~Live(s)' PROVE FALSE
      <4>1. push' = Answer(p, c.ok)
        BY <3>1, <3>3 DEF SaveMoves, Live
      <4>2. push'[p].st = "done"
        BY <4>1, AnswerIs
      <4> QED
        BY <1>2, <4>2
    <3> QED
      BY <2>1, <2>2, <2>5, <3>2, <3>3
  <2> QED
    BY <2>4, <2>5
<1> QED
  BY <1>1, <1>2 DEF Linked, Live

LEMMA SaveApart ==
    ASSUME Inv, NEW s \in Servers, NEW c, NEW doc, SaveMoves(s, c, doc)
    PROVE  Apart'
<1>1. ASSUME NEW p \in Pushes
      PROVE  push'[p].pack = push[p].pack /\ (push'[p].st \in {"uploaded", "commit"} => push'[p].st = push[p].st)
  BY SavePushes DEF SameAsk
<1>2. made' = made
  BY DEF SaveMoves, Saves
<1>3. ASSUME NEW r \in Servers
      PROVE  /\ call'[r].kind \in {"collect", "repack"} =>
                   /\ call'[r].pack \in 0..Len(made) /\ (call'[r].st # "cleanup" => call'[r].pack # 0)
                   /\ \A p \in Pushes : push[p].pack # 0 => push[p].pack # call'[r].pack
             /\ call'[r].kind = "sweep" =>
                   /\ call'[r].gone \subseteq 1..Len(made)
                   /\ \A p \in Pushes : push[p].st \in {"uploaded", "commit"} => push[p].pack \notin call'[r].gone
  <2>1. CASE r = s
    BY <2>1, SaveCall DEF CallOk
  <2>2. CASE r # s
    BY <2>2, SaveCall DEF Inv, Apart
  <2> QED
    BY <2>1, <2>2
<1> QED
  BY <1>1, <1>2, <1>3 DEF Apart, Inv

LEMMA SaveUntouched ==
    ASSUME Inv, NEW s \in Servers, NEW c, NEW doc, SaveMoves(s, c, doc), NEW p \in Pushes, Untouched(p),
           ~(c.kind = "push" /\ c.push = p)
    PROVE  Untouched(p)'
<1>1. push'[p].pack = push[p].pack
  BY SavePushes DEF SameAsk
<1>2. \A a \in applied' : a.push # p
  BY DEF SaveMoves, Landed, Untouched
<1>3. \A w \in late' : w.call.kind = "push" => w.call.push # p
  BY DEF SaveMoves, Put, Untouched
<1>4. ASSUME push[p].pack # 0, NEW d \in Docs' PROVE ~Lists(d, push[p].pack)
  <2>1. d \in Docs \cup {doc}
    BY <1>4, SaveDocs
  <2>2. mem[s].m \in Docs
    BY DEF Docs
  <2>3. ~Lists(doc, push[p].pack)
    BY <1>4, <2>2 DEF Untouched, SaveMoves, Saves, Writes
  <2> QED
    BY <1>4, <2>1, <2>3 DEF Untouched
<1> QED
  BY <1>1, <1>2, <1>3, <1>4 DEF Untouched, Lists

LEMMA SaveEarly ==
    ASSUME Inv, NEW s \in Servers, NEW c, NEW doc, SaveMoves(s, c, doc)
    PROVE  Early'
<1>0. SameCall(s, c)
  BY DEF SaveMoves, Saves
<1>1. ASSUME NEW p \in Pushes, push'[p].st \in {"new", "checked", "uploaded"} PROVE Untouched(p)'
  <2>1. push'[p] = push[p]
    BY <1>1, SavePushes
  <2>2. Untouched(p)
    BY <1>1, <2>1 DEF Inv, Early
  <2>3. ~(c.kind = "push" /\ c.push = p)
    BY <1>0, <1>1, <2>1, SaveKind
  <2> QED
    BY <2>2, <2>3, SaveUntouched
<1>2. ASSUME NEW r \in Servers, Live(r)', ~call'[r].tried PROVE Untouched(call[r].push)' /\ call'[r].push = call[r].push
  <2>1. r # s
    BY <1>2, SaveCall
  <2>2. Live(r) /\ call'[r] = call[r]
    BY <1>2, <2>1, SaveCall
  <2>3. PICK p \in Pushes : p = call[r].push /\ push[p].s = r /\ Untouched(p)
    BY <1>2, <2>2 DEF Inv, Linked, Early
  <2>4. ~(c.kind = "push" /\ c.push = p)
    BY <1>0, <2>1, <2>3, SaveKind
  <2>5. Untouched(p)'
    BY <2>3, <2>4, SaveUntouched
  <2> QED
    BY <2>2, <2>3, <2>5 DEF Untouched
<1> QED
  BY <1>1, <1>2 DEF Early, Untouched

\* What a push's save finds where it writes on the manifest as it is.
LEMMA SaveFirst ==
    ASSUME Inv, NEW s \in Servers, NEW c, NEW doc, SaveMoves(s, c, doc), man.writer = mem[s].etag
    PROVE  /\ Steps(c, man, doc)
           /\ c.kind = "push" => /\ c.push \in Pushes /\ push[c.push].st = "commit"
                                 /\ push[c.push].pack # 0 => \A a \in applied : a.push # c.push
<1>1. mem[s].m = man /\ Steps(c, man, doc)
  BY CopyIsMan DEF SaveMoves, Saves, Writes
<1>2. ASSUME c.kind = "push"
      PROVE  /\ c.push \in Pushes /\ push[c.push].st = "commit"
             /\ push[c.push].pack # 0 => \A a \in applied : a.push # c.push
  <2>1. PICK p \in Pushes : p = c.push /\ push[p].st = "commit"
    BY <1>2, SaveKind DEF SaveMoves, Saves
  <2>2. push[p].pack # 0 => ~Lists(man, push[p].pack)
    BY <1>1, <1>2, <2>1 DEF Steps, Moves
  <2>3. push[p].pack # 0 => \A a \in applied : a.push # p
    BY <2>1, <2>2 DEF Inv, Landings, Offered
  <2> QED
    BY <2>1, <2>3
<1> QED
  BY <1>1, <1>2

LEMMA SaveLands ==
    ASSUME Inv, NEW s \in Servers, NEW c, NEW doc, SaveMoves(s, c, doc), Replaced(c, doc),
           man.writer = mem[s].etag, mem' = mem \/ Succeeded(s, c, doc)
    PROVE  Lands(c, doc)
<1>1. man' = doc /\ applied' = Landed(c, doc) /\ late' \subseteq late /\ late' = late
  BY DEF Replaced
<1>2. made' = made /\ clock' = clock /\ nonces' = nonces + 1 /\ doc.writer = nonces + 1 /\ nonces \in Nat
  BY SaveDocs DEF SaveMoves, Saves
<1>3. doc.writer # None /\ nonces' \in Nat /\ nonces <= nonces'
  BY <1>2 DEF None
<1>4. ASSUME NEW v \in late' PROVE v.etag # doc.writer /\ v.doc.writer # doc.writer
  <2>1. v \in late /\ v.doc \in Docs
    BY <1>1 DEF Docs
  <2>2. v.etag \in 0..nonces /\ v.doc.writer \in 0..nonces
    BY <2>1, SaveDocs
  <2> QED
    BY <1>2, <2>2
<1>5. ASSUME NEW x \in doc.retired PROVE x.at = clock \/ \E d \in Docs : x \in d.retired
  <2>1. mem[s].m \in Docs
    BY DEF Docs
  <2> QED
    BY <2>1 DEF SaveMoves, Saves, Writes
<1>6. ASSUME NEW p \in Pushes PROVE push'[p] = push[p] \/ (push'[p].st = "done" /\ SameAsk(p))
  BY SavePushes
<1>7. ASSUME NEW r \in Servers
      PROVE  \/ mem'[r].m = mem[r].m /\ mem'[r].etag \in {mem[r].etag, None}
             \/ mem'[r].m = doc /\ mem'[r].etag = doc.writer
  BY DEF Succeeded
<1>8. Docs' \subseteq Docs \cup {doc}
  BY SaveDocs
<1> QED
  BY <1>1, <1>2, <1>3, <1>4, <1>5, <1>6, <1>7, <1>8, SaveFirst DEF Lands

\* A save that does not take effect, or not yet.
Waits(s, c, doc) ==
    /\ SaveMoves(s, c, doc) /\ Kept /\ ToSettle(s, c, doc)
    /\ late' = late \/ late' = late \cup {Put(s, c, doc)}

LEMMA WaitsTags == ASSUME Inv, NEW s \in Servers, NEW c, NEW doc, Waits(s, c, doc) PROVE Tags'
<1>1. man' = man /\ mem' = mem /\ nonces' = nonces + 1 /\ doc.writer = nonces + 1
  BY DEF Waits, Kept, ToSettle, SaveMoves, Saves
<1>2. nonces \in Nat /\ mem[s].etag \in 0..nonces /\ man.writer \in 0..nonces
  BY SaveDocs DEF Waits, Docs
<1>3. \A r \in Servers : mem[r].etag \in 0..nonces
  <2>1. ASSUME NEW r \in Servers PROVE mem[r].etag \in 0..nonces
    <3>1. mem[r].m.writer \in 0..nonces
      BY SaveDocs DEF Docs, Waits
    <3> QED
      BY <1>2, <3>1 DEF Inv, Tags, None
  <2> QED
    BY <2>1
<1>4. \A v \in late : v.etag \in 0..nonces /\ v.doc.writer \in 0..nonces
  BY SaveDocs DEF Docs, Waits
<1>5. PICK w : w = Put(s, c, doc)
  OBVIOUS
<1>6. w.etag = mem[s].etag /\ w.doc = doc
  BY <1>5 DEF Put
<1>7. ASSUME NEW v \in late'
      PROVE  /\ v.etag \in 0..nonces' /\ v.doc.writer \notin {None, man.writer}
             /\ \A r \in Servers : mem[r].etag # v.doc.writer
             /\ \A u \in late' : u.etag # v.doc.writer /\ (u.doc.writer = v.doc.writer => u = v)
  <2>0. late' \subseteq late \cup {w}
    BY <1>5 DEF Waits
  <2>1. CASE v = w
    <3>1. v.etag \in 0..nonces' /\ v.doc.writer \notin {None, man.writer}
      BY <1>1, <1>2, <1>6, <2>1 DEF None
    <3>2. \A r \in Servers : mem[r].etag # v.doc.writer
      BY <1>1, <1>2, <1>3, <1>6, <2>1
    <3>3. ASSUME NEW u \in late' PROVE u.etag # v.doc.writer /\ (u.doc.writer = v.doc.writer => u = v)
      <4>1. CASE u \in late
        BY <1>1, <1>2, <1>4, <1>6, <2>1, <4>1
      <4>2. CASE u = w
        BY <1>1, <1>2, <1>6, <2>1, <4>2
      <4> QED
        BY <2>0, <4>1, <4>2
    <3> QED
      BY <3>1, <3>2, <3>3
  <2>2. CASE v \in late
    <3>1. /\ v.etag \in 0..nonces /\ v.doc.writer \notin {None, man.writer}
          /\ \A r \in Servers : mem[r].etag # v.doc.writer
          /\ \A u \in late : u.etag # v.doc.writer /\ (u.doc.writer = v.doc.writer => u = v)
      BY <2>2 DEF Inv, Tags
    <3>2. w.etag # v.doc.writer /\ w.doc.writer # v.doc.writer
      BY <1>1, <1>2, <1>4, <1>6, <2>2, <3>1
    <3>3. v.etag \in 0..nonces'
      BY <1>1, <1>2, <3>1
    <3> QED
      BY <2>0, <3>1, <3>2, <3>3
  <2> QED
    BY <2>0, <2>1, <2>2
<1> QED
  BY <1>1, <1>7 DEF Tags, Inv

LEMMA WaitsLingers == ASSUME Inv, NEW s \in Servers, NEW c, NEW doc, Waits(s, c, doc) PROVE Lingers'
<1>1. man' = man /\ mem' = mem /\ push' = push /\ clock' = clock
  BY DEF Waits, Kept, ToSettle, SaveMoves, Saves
<1>2. Docs' \subseteq Docs \cup {doc}
  BY SaveDocs DEF Waits
<1>3. \A x \in doc.retired : x.at = clock \/ x \in mem[s].m.retired
  BY DEF Waits, SaveMoves, Saves, Writes
<1>4. mem[s].m \in Docs
  BY DEF Docs
<1>5. ASSUME NEW p \in Pushes, Offered(p), NEW d \in Docs', NEW x \in d.retired, x.id = push[p].pack
      PROVE  x.at = clock
  BY <1>2, <1>3, <1>4, <1>5 DEF Inv, Lingers
<1> QED
  BY <1>1, <1>5 DEF Lingers, Inv, Offered, Lists

LEMMA StepsStay == ASSUME made' = made, push' = push, man' = man, NEW c, NEW doc, Steps(c, man, doc)
                   PROVE  Steps(c, man, doc)'
<1>1. PICK o : o = man
  OBVIOUS
<1>2. (o = man)'
  BY <1>1
<1>3. Steps(c, o, doc)
  BY <1>1
<1>4. \A p : Verdict(p, o)' = Verdict(p, o)
  BY DEF Verdict, Ix
<1>5. \A p : Offered(p)' <=> Offered(p)
  BY SMTT(30) DEF Offered
<1>6. c.kind = "push" => c.push \in Pushes /\ Moves(c.push, c.ok, o, doc)'
  BY <1>3, <1>4 DEF Steps, Moves
<1>7. \A p \in Pushes : Offered(p)' /\ Lists(o, push[p].pack)' => Lists(doc, push[p].pack)'
  BY <1>3, <1>5 DEF Steps, Lists
<1>8. \A p \in Pushes : Offered(p)' /\ Lists(doc, push[p].pack)' =>
          Lists(o, push[p].pack)' \/ (c.kind = "push" /\ c.push = p)
  BY <1>3, <1>5 DEF Steps, Lists
<1>9. Steps(c, o, doc)'
  BY <1>3, <1>6, <1>7, <1>8 DEF Steps
<1> QED
  BY <1>2, <1>9

LEMMA WaitsBased == ASSUME Inv, NEW s \in Servers, NEW c, NEW doc, Waits(s, c, doc) PROVE Based'
<1>1. man' = man /\ push' = push /\ made' = made /\ clock' = clock
  BY DEF Waits, Kept, ToSettle, SaveMoves, Saves
<1>2. ASSUME NEW w \in late', w.etag = man.writer PROVE Steps(w.call, man, w.doc)
  <2>1. CASE w \in late
    BY <1>2, <2>1 DEF Inv, Based
  <2>2. CASE w = Put(s, c, doc)
    <3>1. w.etag = mem[s].etag /\ w.doc = doc /\ w.call = c
      BY <2>2 DEF Put
    <3> QED
      BY <1>2, <3>1, SaveFirst DEF Waits
  <2> QED
    BY <2>1, <2>2 DEF Waits
<1>3. ASSUME NEW w, Steps(w.call, man, w.doc) PROVE Steps(w.call, man, w.doc)'
  BY <1>1, <1>3, StepsStay
<1> QED
  BY <1>1, <1>2, <1>3 DEF Based

LEMMA WaitsLandings == ASSUME Inv, NEW s \in Servers, NEW c, NEW doc, Waits(s, c, doc) PROVE Landings'
<1>1. man' = man /\ push' = push /\ applied' = applied
  BY DEF Waits, Kept, ToSettle
<1>2. ASSUME NEW w \in late', w.call.kind = "push", w.etag = man.writer
      PROVE  /\ w.call.push \in Pushes
             /\ push[w.call.push].st = "commit" \/ (push[w.call.push].st = "done" /\ push[w.call.push].res = {})
             /\ push[w.call.push].pack # 0 => \A a \in applied : a.push # w.call.push
  <2>1. CASE w \in late
    BY <1>2, <2>1 DEF Inv, Landings
  <2>2. CASE w = Put(s, c, doc)
    <3>1. w.etag = mem[s].etag /\ w.doc = doc /\ w.call = c
      BY <2>2 DEF Put
    <3> QED
      BY <1>2, <3>1, SaveFirst DEF Waits
  <2> QED
    BY <2>1, <2>2 DEF Waits
<1> QED
  BY <1>1, <1>2 DEF Landings, Inv, PackedOnce, Offered, Lists

LEMMA SaveOthers ==
    ASSUME Inv, NEW s \in Servers, NEW c, NEW doc, SaveMoves(s, c, doc),
           man' = man \/ man' = doc, applied' = applied \/ applied' = Landed(c, doc),
           NEW r \in Servers, r # s, Live(r)
    PROVE  OnCall(r)'
<1>1. call'[r] = call[r] /\ mem'[r] = mem[r] /\ made' = made /\ doc.writer = nonces + 1
  BY DEF SaveMoves, Saves
<1>a. PICK k : k = call[r]
  OBVIOUS
<1>b. PICK m : m = mem[r].m
  OBVIOUS
<1>2. PICK p \in Pushes : p = k.push /\ push[p].st = "commit" /\ push[p].s = r
  BY <1>a DEF Inv, Linked
<1>3. push'[p] = push[p] /\ ~(c.kind = "push" /\ c.push = p)
  <2>1. ~(c.kind = "push" /\ c.push = p)
    BY <1>2, SaveKind DEF SaveMoves, Saves
  <2> QED
    BY <1>2, <2>1, SavePushes
<1>4. OnCall(r)
  BY DEF Inv, Informed
<1>5. \A a \in applied' : a.push = p => a \in applied
  BY <1>3 DEF Landed
<1>6. \A a \in applied : a \in applied'
  BY DEF Landed
<1>7. \A w \in late' : w \in late \/ (w.doc.writer = nonces + 1 /\ ~OfPush(w, p))
  BY <1>1, <1>3 DEF SaveMoves, Put, OfPush
<1>8. nonces \in Nat /\ k.doc.writer \in 0..nonces /\ \A w \in late : w.etag \in 0..nonces
  BY <1>a, SaveDocs DEF Docs
<1>9. Verdict(p, m)' = Verdict(p, m)
  BY <1>1, <1>3 DEF Verdict, Ix
<1>10. man'.writer = man.writer \/ man'.writer = nonces + 1
  BY <1>1
<1>11. SUFFICES
        /\ k.st = "settle" =>
              /\ k.ok \subseteq DOMAIN push'[p].cmds
              /\ man'.writer = k.doc.writer => \E a \in applied' : a.push = p /\ a.ok = k.ok
              /\ \A w \in late' : w.doc.writer = k.doc.writer => OfPush(w, p) /\ w.call.ok = k.ok
              /\ \A w \in late' : OfPush(w, p) =>
                    w.etag < k.doc.writer /\ (w.etag = man'.writer => w.call.ok = k.ok)
              /\ k.pack # 0 => \A a \in applied' : a.push = p => a.ok = k.ok
        /\ k.st = "try" =>
              /\ \A w \in late' : OfPush(w, p) /\ w.etag = man'.writer => mem'[r].etag = man'.writer
              /\ k.pack # 0 => \A a \in applied' : a.push = p =>
                    a.ok = IF Lists(m, k.pack) THEN k.ok ELSE Verdict(p, m)'
  BY <1>1, <1>a, <1>b, <1>2 DEF OnCall, OfPush, Lists, Verdict, Ix
<1>12. ASSUME k.st = "settle"
       PROVE  /\ k.ok \subseteq DOMAIN push[p].cmds
              /\ man.writer = k.doc.writer => \E a \in applied : a.push = p /\ a.ok = k.ok
              /\ \A w \in late : w.doc.writer = k.doc.writer => OfPush(w, p) /\ w.call.ok = k.ok
              /\ \A w \in late : OfPush(w, p) =>
                    w.etag < k.doc.writer /\ (w.etag = man.writer => w.call.ok = k.ok)
              /\ k.pack # 0 => \A a \in applied : a.push = p => a.ok = k.ok
  BY <1>a, <1>2, <1>4, <1>12 DEF OnCall
<1>13. ASSUME k.st = "try"
       PROVE  /\ \A w \in late : OfPush(w, p) /\ w.etag = man.writer => mem[r].etag = man.writer
              /\ k.pack # 0 => \A a \in applied : a.push = p =>
                    a.ok = IF Lists(m, k.pack) THEN k.ok ELSE Verdict(p, m)
  BY <1>a, <1>b, <1>2, <1>4, <1>13 DEF OnCall
<1>14. nonces + 1 \notin 0..nonces
  BY <1>8
<1>15. ASSUME k.st = "settle"
       PROVE  /\ k.ok \subseteq DOMAIN push'[p].cmds
              /\ man'.writer = k.doc.writer => \E a \in applied' : a.push = p /\ a.ok = k.ok
              /\ \A w \in late' : w.doc.writer = k.doc.writer => OfPush(w, p) /\ w.call.ok = k.ok
              /\ \A w \in late' : OfPush(w, p) =>
                    w.etag < k.doc.writer /\ (w.etag = man'.writer => w.call.ok = k.ok)
              /\ k.pack # 0 => \A a \in applied' : a.push = p => a.ok = k.ok
  <2>1. k.ok \subseteq DOMAIN push'[p].cmds
    BY <1>3, <1>12, <1>15
  <2>2. man'.writer = k.doc.writer => \E a \in applied' : a.push = p /\ a.ok = k.ok
    BY <1>6, <1>8, <1>10, <1>12, <1>14, <1>15
  <2>3. \A w \in late' : w.doc.writer = k.doc.writer => OfPush(w, p) /\ w.call.ok = k.ok
    BY <1>7, <1>8, <1>12, <1>14, <1>15
  <2>4. \A w \in late' : OfPush(w, p) =>
                    w.etag < k.doc.writer /\ (w.etag = man'.writer => w.call.ok = k.ok)
    BY <1>7, <1>8, <1>10, <1>12, <1>14, <1>15
  <2>5. k.pack # 0 => \A a \in applied' : a.push = p => a.ok = k.ok
    BY <1>5, <1>12, <1>15
  <2> QED
    BY <2>1, <2>2, <2>3, <2>4, <2>5
<1>16. ASSUME k.st = "try"
       PROVE  /\ \A w \in late' : OfPush(w, p) /\ w.etag = man'.writer => mem'[r].etag = man'.writer
              /\ k.pack # 0 => \A a \in applied' : a.push = p =>
                    a.ok = IF Lists(m, k.pack) THEN k.ok ELSE Verdict(p, m)'
  <2>1. \A w \in late' : OfPush(w, p) /\ w.etag = man'.writer => mem'[r].etag = man'.writer
    BY <1>1, <1>7, <1>8, <1>10, <1>13, <1>14, <1>16
  <2>2. k.pack # 0 => \A a \in applied' : a.push = p =>
                    a.ok = IF Lists(m, k.pack) THEN k.ok ELSE Verdict(p, m)'
    BY <1>5, <1>9, <1>13, <1>16
  <2> QED
    BY <2>1, <2>2
<1> QED
  BY <1>15, <1>16

\* What the push's call knows when it goes on to settle.
LEMMA SettlesInformed ==
    ASSUME Inv, NEW s \in Servers, NEW c, NEW doc, SaveMoves(s, c, doc), ToSettle(s, c, doc), Live(s),
           \/ man.writer = mem[s].etag /\ Replaced(c, doc)
           \/ man.writer # mem[s].etag /\ Kept /\ late' = late
           \/ Waits(s, c, doc)
    PROVE  OnCall(s)'
<1>1. /\ call'[s].st = "settle" /\ call'[s].ok = c.ok /\ call'[s].push = c.push /\ call'[s].pack = c.pack
      /\ call'[s].doc = doc /\ push' = push /\ mem' = mem
  BY ToSettleIs
<1>2. PICK p \in Pushes : p = c.push /\ c.kind = "push" /\ push[p].st = "commit" /\ push[p].pack = c.pack /\ call[s].push = p
  BY SaveKind DEF SaveMoves, Saves, SameCall
<1>3. doc.writer = nonces + 1 /\ nonces \in Nat /\ man.writer \in 0..nonces /\ call[s].st = "try" /\ call[s].pack = c.pack
      /\ \A w \in late : w.etag \in 0..nonces /\ w.doc.writer \in 0..nonces
  BY SaveDocs DEF Docs, SaveMoves, Saves, SameCall
<1>4. mem[s].etag \in 0..nonces
  BY SaveDocs
<1>5. OnCall(s)
  BY DEF Inv, Informed
<1>6. Moves(p, c.ok, mem[s].m, doc)
  BY <1>2, SMTT(30) DEF SaveMoves, Saves, Writes, Steps
<1>7. c.ok \subseteq DOMAIN push[p].cmds /\ c.ok = Verdict(p, mem[s].m)
      /\ (c.pack # 0 => ~Lists(mem[s].m, c.pack))
  BY <1>2, <1>6 DEF Moves
<1>8. /\ \A w \in late : OfPush(w, p) /\ w.etag = man.writer => mem[s].etag = man.writer
      /\ c.pack # 0 => \A a \in applied : a.push = p => a.ok = c.ok
  BY <1>2, <1>3, <1>5, <1>7 DEF OnCall
<1>9. SUFFICES
        /\ man'.writer = doc.writer => \E a \in applied' : a.push = p /\ a.ok = c.ok
        /\ \A w \in late' : w.doc.writer = doc.writer => OfPush(w, p) /\ w.call.ok = c.ok
        /\ \A w \in late' : OfPush(w, p) =>
              w.etag < doc.writer /\ (w.etag = man'.writer => w.call.ok = c.ok)
        /\ c.pack # 0 => \A a \in applied' : a.push = p => a.ok = c.ok
  BY <1>1, <1>2, <1>7 DEF OnCall, OfPush
<1>10. CASE man.writer = mem[s].etag /\ Replaced(c, doc)
  <2>1. man' = doc /\ late' = late
        /\ applied' = applied \cup {[push |-> c.push, ok |-> c.ok, moved |-> c.moved, writer |-> doc.writer]}
    BY <1>2, <1>10 DEF Replaced, Landed
  <2>2. push[p].pack # 0 => \A a \in applied : a.push # p
    BY <1>2, <1>10, SaveFirst
  <2>3. PICK e : e = [push |-> c.push, ok |-> c.ok, moved |-> c.moved, writer |-> doc.writer]
    OBVIOUS
  <2>4. e.push = p /\ e.ok = c.ok /\ applied' = applied \cup {e}
    BY <1>2, <2>1, <2>3
  <2>5. \E a \in applied' : a.push = p /\ a.ok = c.ok
    BY <2>4
  <2>6. c.pack # 0 => \A a \in applied' : a.push = p => a.ok = c.ok
    BY <1>2, <2>2, <2>4
  <2>7. \A w \in late' : w.doc.writer # doc.writer /\ w.etag < doc.writer /\ w.etag # man'.writer
    BY <1>3, <2>1
  <2> QED
    BY <2>5, <2>6, <2>7
<1>11. CASE man.writer # mem[s].etag /\ Kept /\ late' = late
  <2>1. man' = man /\ applied' = applied /\ man.writer # doc.writer
    BY <1>3, <1>11 DEF Kept
  <2> QED
    BY <1>3, <1>8, <1>11, <2>1
<1>12. CASE Waits(s, c, doc)
  <2>1. man' = man /\ applied' = applied /\ man.writer # doc.writer
    BY <1>3, <1>12 DEF Waits, Kept
  <2>2. ASSUME NEW w \in late' PROVE w \in late \/ (w.doc = doc /\ w.etag = mem[s].etag /\ OfPush(w, p) /\ w.call.ok = c.ok)
    BY <1>2, <1>12 DEF Waits, Put, OfPush
  <2>3. ASSUME NEW w \in late, OfPush(w, p), w.etag = man.writer PROVE w.call.ok = c.ok
    <3>1. mem[s].m = man
      BY <1>8, <2>3, CopyIsMan
    <3>2. w.call.ok = Verdict(p, man)
      BY <2>3 DEF Inv, Based, Steps, Moves, OfPush
    <3> QED
      BY <1>7, <3>1, <3>2
  <2>4. \A w \in late' : w.doc.writer = doc.writer => OfPush(w, p) /\ w.call.ok = c.ok
    BY <1>3, <2>2
  <2>5. \A w \in late' : OfPush(w, p) => w.etag < doc.writer /\ (w.etag = man'.writer => w.call.ok = c.ok)
    BY <1>3, <1>4, <2>1, <2>2, <2>3
  <2> QED
    BY <1>8, <2>1, <2>4, <2>5
<1> QED
  BY <1>10, <1>11, <1>12

LEMMA SaveInv ==
    ASSUME Inv, NEW s \in Servers, NEW c, SameCall(s, c), NEW m, Writes(c, mem[s].m, m), Save(s, c, m)
    PROVE  Inv'
<1>1. PICK doc :
        /\ Saves(s, c, doc)
        /\ \/ Accepts(man, mem[s].etag) /\ Replaced(c, doc)
              /\ (Succeeded(s, c, doc) \/ ToSettle(s, c, doc))
           \/ ~Accepts(man, mem[s].etag) /\ Kept /\ late' = late /\ ToSettle(s, c, doc)
           \/ /\ Kept /\ ToSettle(s, c, doc)
              /\ late' = late \/ (LatePuts /\ late' = late \cup {Put(s, c, doc)})
  BY SaveIs
<1>2. SaveMoves(s, c, doc)
  BY <1>1, SucceededMoves, ToSettleMoves DEF Replaced, Kept
<1>3. Written' /\ Shapes' /\ Linked' /\ Apart' /\ Early'
  BY <1>2, SaveWritten, SaveShapes, SaveLinked, SaveApart, SaveEarly
<1>4. ASSUME ToSettle(s, c, doc) \/ ~Live(s)',
             Live(s) /\ ToSettle(s, c, doc) =>
                \/ man.writer = mem[s].etag /\ Replaced(c, doc)
                \/ man.writer # mem[s].etag /\ Kept /\ late' = late
                \/ Waits(s, c, doc),
             Replaced(c, doc) \/ Kept
      PROVE  Informed'
  <2>1. ASSUME NEW r \in Servers, r # s, Live(r)' PROVE OnCall(r)'
    <3>1. Live(r)
      BY <1>2, <2>1, SaveCall
    <3> QED
      BY <1>2, <1>4, <2>1, <3>1, SaveOthers DEF Replaced, Kept
  <2>2. ASSUME Live(s)' PROVE OnCall(s)'
    <3>1. ToSettle(s, c, doc) /\ Live(s)
      BY <1>2, <1>4, <2>2, SaveCall
    <3> QED
      BY <1>2, <1>4, <3>1, SettlesInformed
  <2> QED
    BY <2>1, <2>2 DEF Informed
<1>5. CASE Accepts(man, mem[s].etag) /\ Replaced(c, doc) /\ (Succeeded(s, c, doc) \/ ToSettle(s, c, doc))
  <2>1. man.writer = mem[s].etag
    BY <1>5 DEF Accepts
  <2>2. Lands(c, doc)
    BY <1>2, <1>5, <2>1, SaveLands DEF ToSettle
  <2>3. ToSettle(s, c, doc) \/ ~Live(s)'
    BY <1>5, NextCallsOk DEF Succeeded, Live
  <2> QED
    BY <1>3, <1>4, <1>5, <2>1, <2>2, <2>3, LandsTags, LandsLingers, LandsBased, LandsLandings DEF Inv
<1>6. CASE /\ Kept /\ ToSettle(s, c, doc)
           /\ late' = late \/ (LatePuts /\ late' = late \cup {Put(s, c, doc)})
  <2>1. Waits(s, c, doc)
    BY <1>2, <1>6 DEF Waits
  <2> QED
    BY <1>3, <1>4, <1>6, <2>1, WaitsTags, WaitsLingers, WaitsBased, WaitsLandings DEF Inv
<1> QED
  BY <1>1, <1>5, <1>6

-------------------------------------------------------------------------------
\* The rounds of the save loops.

LEMMA SameCallOf == ASSUME Inv, NEW s \in Servers, call[s].st = "try" PROVE SameCall(s, call[s])
  BY DEF SameCall, Inv, Shapes

LEMMA CopyTyped == ASSUME Inv, NEW s \in Servers PROVE IsDoc(mem[s].m) /\ mem[s].m \in Docs
  BY DEF Inv, Written, Docs

\* A round ends in a write.
Saving(s) == \E c, m : SameCall(s, c) /\ Writes(c, mem[s].m, m) /\ Save(s, c, m)

LEMMA IsSaving ==
    ASSUME NEW s \in Servers, NEW c, SameCall(s, c), NEW m, Writes(c, mem[s].m, m), Save(s, c, m)
    PROVE  Saving(s)
  BY DEF Saving

LEMMA TryPushIs ==
    ASSUME Inv, NEW s \in Servers, TryPush(s)
    PROVE  \/ /\ LandedBefore(s) /\ push' = Answer(call[s].push, call[s].ok) /\ Done(s)
              /\ UNCHANGED <<man, made, stored, late, nonces, clock, mem, fetch, held, job, failed,
                             applied, spent>>
           \/ /\ GiveUp(s)
              /\ UNCHANGED <<man, made, stored, late, nonces, clock, mem, fetch, held, want, applied,
                             spent>>
           \/ Saving(s)
<1> DEFINE c == call[s]
           x == push[c.push]
           m == mem[s].m
           ok == Judge(x.cmds, m.refs, x.objs, Ix(m))
           d0 == [c EXCEPT !.gen = mem[s].gen, !.ok = ok, !.moved = {r \in ok : m.refs[r] = x.cmds[r].old}]
<1>1. Live(s) /\ c.kind = "push" /\ c.st = "try"
  BY DEF TryPush, Live
<1>2. PICK p \in Pushes : p = c.push /\ push[p].st = "commit" /\ push[p].pack = c.pack
  BY <1>1 DEF Inv, Linked
<1>3. CASE LandedBefore(s) /\ push' = Answer(c.push, c.ok) /\ Done(s) /\ UNCHANGED <<man, made, stored, late, nonces,
             clock, mem, fetch, held, job, failed, applied, spent>>
  BY <1>3
<1>4. CASE GiveUp(s) /\ UNCHANGED <<man, made, stored, late, nonces, clock, mem, fetch, held, want, applied, spent>>
  BY <1>4
<1>5. CASE ~LandedBefore(s) /\ GoesAhead(x.cmds, x.atomic, ok) /\ Save(s, d0, Pushed(m, c.push, ok))
  <2>1. ok = Verdict(p, m) /\ ok # {} /\ (push[p].atomic => ok = DOMAIN push[p].cmds)
    BY <1>2, <1>5 DEF GoesAhead, Verdict
  <2>2. PICK d : d = d0
    OBVIOUS
  <2>3. Save(s, d, Pushed(m, p, ok))
    BY <1>2, <1>5, <2>2
  <2>4. DOMAIN c = DOMAIN NoCall
    BY DEF Inv, Shapes
  <2>5. PICK v : v = ok
    OBVIOUS
  <2>6. d = [c EXCEPT !.gen = mem[s].gen, !.ok = v, !.moved = {r \in v : m.refs[r] = x.cmds[r].old}]
    BY <2>2, <2>5
  <2> HIDE DEF ok, d0
  <2>7. DOMAIN d = DOMAIN NoCall /\ d.kind = c.kind /\ d.push = c.push /\ d.pack = c.pack /\ d.ref = c.ref
        /\ d.id = c.id /\ d.gone = c.gone /\ d.ok = v
    BY <2>4, <2>6 DEF NoCall
  <2>8. SameCall(s, d)
    BY <1>1, <2>7 DEF SameCall
  <2>9. IsDoc(m) /\ m \in Docs /\ made \in Seq(ToSet(made)) /\ AskOk(push[p].cmds) /\ push[p].pack \in 0..Len(made)
    BY <1>2, CopyTyped DEF Inv, Shapes
  <2>10. push[p].pack # 0 => ~Lists(m, push[p].pack)
    <3>1. CASE c.tried
      BY <1>2, <1>5, <3>1 DEF LandedBefore
    <3>2. CASE ~c.tried
      BY <1>1, <1>2, <2>9, <3>2 DEF Inv, Early, Untouched
    <3> QED
      BY <3>1, <3>2
  <2>11. \A q \in Pushes : push[p].pack = push[q].pack /\ push[p].pack # 0 => p = q
    BY DEF Inv, Apart
  <2>12. d.kind = "push" /\ d.push = p /\ d.ok = v /\ d.pack = push[p].pack
    BY <1>1, <1>2, <2>7
  <2>13. v = Verdict(p, m) /\ v # {} /\ (push[p].atomic => v = DOMAIN push[p].cmds) /\ Save(s, d, Pushed(m, p, v))
    BY <2>1, <2>3, <2>5
  <2>14. Writes(d, m, Pushed(m, p, v))
    <3> HIDE DEF m
    <3> QED
      BY <2>9, <2>10, <2>11, <2>12, <2>13, PushedWrites
  <2> QED
    BY <2>8, <2>13, <2>14, IsSaving
<1> QED
  BY <1>3, <1>4, <1>5 DEF TryPush

LEMMA TryRestoreIs ==
    ASSUME Inv, NEW s \in Servers, TryRestore(s)
    PROVE  \/ /\ Done(s)
              /\ UNCHANGED <<man, made, stored, late, nonces, clock, mem, fetch, held, push, job, want,
                                       failed, applied, spent>>
           \/ Saving(s)
<1> DEFINE c == call[s]
           m == mem[s].m
<1>1. ~Live(s) /\ c.kind = "restore" /\ c.st = "try"
  BY DEF TryRestore, Live
<1>2. CASE Done(s) /\ UNCHANGED <<man, made, stored, late, nonces, clock, mem, fetch, held, push, job, want,
                         failed, applied, spent>>
  BY <1>2
<1>3. CASE /\ Judge([r \in {c.ref} |-> [old |-> Nil, new |-> c.id]], m.refs, {}, Ix(m)) # {}
           /\ Save(s, c, [m EXCEPT !.refs[c.ref] = c.id])
  <2>1. c.ref \in Refs /\ c.id \in Objs
    BY <1>1 DEF Inv, Linked
  <2>2. Writes(c, m, [m EXCEPT !.refs[c.ref] = c.id])
    BY <1>1, <1>3, <2>1, CopyTyped, RestoredWrites
  <2> QED
    BY <1>1, <1>3, <2>2, SameCallOf, IsSaving
<1> QED
  BY <1>2, <1>3 DEF TryRestore

LEMMA TryCollectIs ==
    ASSUME Inv, NEW s \in Servers, TryCollect(s)
    PROVE  JobLanded(s) \/ JobGivesUp(s) \/ Saving(s)
<1> DEFINE c == call[s]
           m == mem[s].m
           j == Len(job[s].sources)
           dropped == Unexpired(m, job[s].cut)
           n0 == [Merged(m, 1, j, c.pack) EXCEPT !.dropped = dropped]
<1>1. ~Live(s) /\ c.kind = "collect" /\ c.st = "try"
  BY DEF TryCollect, Live
<1>2. CASE JobLanded(s)
  BY <1>2
<1>3. CASE JobGivesUp(s)
  BY <1>3
<1>4. CASE ~Lists(m, c.pack) /\ IsPrefix(job[s].sources, m.packs) /\ Save(s, c, n0)
  <2>1. IsDoc(m) /\ clock \in Nat /\ j \in Nat /\ j <= Len(m.packs)
    BY <1>4, CopyTyped DEF IsPrefix, Inv, Shapes
  <2>2. c.pack \in 1..Len(made) /\ \A p \in Pushes : push[p].pack # 0 => push[p].pack # c.pack
    <3>1. c.pack \in 0..Len(made) /\ c.pack # 0
      BY <1>1 DEF Inv, Apart
    <3> QED
      BY <1>1, <3>1 DEF Inv, Apart
  <2>3. PICK d : d = dropped
    OBVIOUS
  <2>4. PICK n : n = [Merged(m, 1, j, c.pack) EXCEPT !.dropped = d]
    OBVIOUS
  <2>5. Save(s, c, n)
    BY <1>4, <2>3, <2>4
  <2> HIDE DEF c, m, j, dropped, n0
  <2>6. LET M == Merged(m, 1, j, c.pack) IN
        DOMAIN n = DOMAIN NoMan /\ n.packs = M.packs /\ n.refs = m.refs /\ n.retired = M.retired
    <3>1. PICK M : M = Merged(m, 1, j, c.pack)
      OBVIOUS
    <3>2. DOMAIN M = DOMAIN NoMan /\ M.refs = m.refs
      BY <2>1, <3>1 DEF Merged, IsDoc, NoMan
    <3>3. n = [M EXCEPT !.dropped = d]
      BY <2>4, <3>1
    <3>4. DOMAIN n = DOMAIN NoMan /\ n.packs = M.packs /\ n.refs = m.refs /\ n.retired = M.retired
      BY <3>2, <3>3 DEF NoMan
    <3> QED
      BY <3>1, <3>4
  <2>7. c.kind \in {"collect", "repack"} /\ 1 \in Int /\ j \in Int /\ 1 <= 1 /\ 1 <= j + 1
    BY <1>1, <2>1 DEF c
  <2>8. Writes(c, m, n)
    BY <1>4, <2>1, <2>2, <2>6, <2>7, MergedWrites
  <2> QED
    BY <1>1, <2>5, <2>8, SameCallOf, IsSaving DEF c, m
<1> QED
  BY <1>2, <1>3, <1>4 DEF TryCollect

LEMMA TryRepackIs ==
    ASSUME Inv, NEW s \in Servers, TryRepack(s)
    PROVE  JobLanded(s) \/ JobGivesUp(s) \/ Saving(s)
<1> DEFINE c == call[s]
           m == mem[s].m
           k == Len(job[s].sources)
<1>1. ~Live(s) /\ c.kind = "repack" /\ c.st = "try"
  BY DEF TryRepack, Live
<1>2. CASE JobLanded(s)
  BY <1>2
<1>3. CASE JobGivesUp(s)
  BY <1>3
<1>4. ASSUME ~Lists(m, c.pack), NEW i \in 1..Len(m.packs), i + k - 1 <= Len(m.packs), Save(s, c, Merged(m, i, i + k - 1, c.pack))
      PROVE  Saving(s)
  <2>1. IsDoc(m) /\ clock \in Nat /\ k \in Nat
    BY CopyTyped DEF Inv, Shapes
  <2>2. c.pack \in 1..Len(made) /\ \A p \in Pushes : push[p].pack # 0 => push[p].pack # c.pack
    <3>1. c.pack \in 0..Len(made) /\ c.pack # 0
      BY <1>1 DEF Inv, Apart
    <3> QED
      BY <1>1, <3>1 DEF Inv, Apart
  <2>3. PICK j \in Int : j = i + k - 1
    <3>1. i + k - 1 \in Int
      BY <2>1
    <3> HIDE DEF k
    <3> QED
      BY <3>1
  <2>4. PICK n : n = Merged(m, i, j, c.pack)
    OBVIOUS
  <2>5. Save(s, c, n) /\ j <= Len(m.packs)
    BY <1>4, <2>3, <2>4
  <2>6. DOMAIN n = DOMAIN NoMan /\ n.refs = m.refs
    BY <2>1, <2>4 DEF Merged, IsDoc, NoMan
  <2>7. c.kind \in {"collect", "repack"} /\ i \in Int /\ 1 <= i /\ i <= j + 1
    BY <1>1, <2>1, <2>3
  <2> HIDE DEF c, m, k
  <2>8. n.packs = Merged(m, i, j, c.pack).packs /\ n.retired = Merged(m, i, j, c.pack).retired
    BY <2>4
  <2>9. Writes(c, m, n)
    BY <1>4, <2>1, <2>2, <2>5, <2>6, <2>7, <2>8, MergedWrites
  <2> QED
    BY <1>1, <2>5, <2>9, SameCallOf, IsSaving DEF c, m
<1>5. JobLanded(s) \/ JobGivesUp(s) \/
      \E i \in 1..Len(m.packs) : ~Lists(m, c.pack) /\ i + k - 1 <= Len(m.packs) /\ Save(s, c, Merged(m, i, i + k - 1, c.pack))
  BY DEF TryRepack
<1> QED
  BY <1>2, <1>3, <1>4, <1>5

LEMMA TrySweepIs ==
    ASSUME Inv, NEW s \in Servers, TrySweep(s)
    PROVE  \/ /\ Done(s)
              /\ UNCHANGED <<man, made, stored, late, nonces, clock, mem, fetch, held, push, job, want,
                                       failed, applied, spent>>
           \/ Saving(s)
<1> DEFINE c == call[s]
           m == mem[s].m
           rest == {x \in m.retired : x.id \notin c.gone}
<1>1. ~Live(s) /\ c.kind = "sweep" /\ c.st = "try"
  BY DEF TrySweep, Live
<1>2. CASE Done(s) /\ UNCHANGED <<man, made, stored, late, nonces, clock, mem, fetch, held, push, job, want,
                         failed, applied, spent>>
  BY <1>2
<1>3. CASE Save(s, c, [m EXCEPT !.retired = rest])
  <2>1. IsDoc(m)
    BY CopyTyped
  <2>2. \A p \in Pushes : Offered(p) => push[p].pack \notin c.gone
    BY <1>1 DEF Inv, Apart, Offered
  <2>3. PICK y : y = rest
    OBVIOUS
  <2>4. PICK n : n = [m EXCEPT !.retired = y]
    OBVIOUS
  <2>5. Save(s, c, n)
    BY <1>3, <2>3, <2>4
  <2>6. DOMAIN n = DOMAIN NoMan /\ n.packs = m.packs /\ n.refs = m.refs /\ n.retired = y
    BY <2>1, <2>4 DEF IsDoc, NoMan
  <2>7. /\ y \subseteq m.retired
        /\ \A x \in m.retired : x \in y \/ \A p \in Pushes : Offered(p) => push[p].pack # x.id
        /\ \A x \in m.retired : x \in y \/ (x.id \in c.gone /\ \A z \in y : z.id # x.id)
    BY <2>2, <2>3
  <2> HIDE DEF m, rest
  <2>8. Writes(c, m, n)
    BY <1>1, <2>1, <2>6, <2>7, KeepsWrites
  <2> QED
    BY <1>1, <2>5, <2>8, SameCallOf, IsSaving DEF m
<1> QED
  BY <1>2, <1>3 DEF TrySweep

LEMMA TryPruneIs ==
    ASSUME Inv, NEW s \in Servers, TryPrune(s)
    PROVE  \/ /\ Done(s)
              /\ UNCHANGED <<man, made, stored, late, nonces, clock, mem, fetch, held, push, job, want,
                                       failed, applied, spent>>
           \/ Saving(s)
<1> DEFINE c == call[s]
           m == mem[s].m
           rest == Unexpired(m, c.cut)
<1>1. ~Live(s) /\ c.kind = "prune" /\ c.st = "try"
  BY DEF TryPrune, Live
<1>2. CASE Done(s) /\ UNCHANGED <<man, made, stored, late, nonces, clock, mem, fetch, held, push, job, want,
                         failed, applied, spent>>
  BY <1>2
<1>3. CASE Save(s, c, [m EXCEPT !.dropped = rest])
  <2>1. IsDoc(m)
    BY CopyTyped
  <2>3. PICK y : y = rest
    OBVIOUS
  <2>4. PICK n : n = [m EXCEPT !.dropped = y]
    OBVIOUS
  <2>5. Save(s, c, n)
    BY <1>3, <2>3, <2>4
  <2>6. DOMAIN n = DOMAIN NoMan /\ n.packs = m.packs /\ n.refs = m.refs /\ n.retired = m.retired
    BY <2>1, <2>4 DEF IsDoc, NoMan
  <2> HIDE DEF m, rest
  <2>8. Writes(c, m, n)
    BY <1>1, <2>1, <2>6, KeepsWrites
  <2> QED
    BY <1>1, <2>5, <2>8, SameCallOf, IsSaving DEF m
<1> QED
  BY <1>2, <1>3 DEF TryPrune

\* These rounds, and what else they come to, keep the invariant.
LEMMA SavingInv == ASSUME Inv, NEW s \in Servers, Saving(s) PROVE Inv'
<1>1. PICK c, m : SameCall(s, c) /\ Writes(c, mem[s].m, m) /\ Save(s, c, m)
  BY DEF Saving
<1> QED
  BY <1>1, SaveInv

LEMMA TryPushInv == ASSUME Inv, NEW s \in Servers, TryPush(s) PROVE Inv'
<1>1. Live(s) /\ call[s].st = "try"
  BY DEF TryPush, Live
<1>2. CASE LandedBefore(s) /\ push' = Answer(call[s].push, call[s].ok) /\ Done(s) /\ UNCHANGED <<man, made, stored,
             late, nonces, clock, mem, fetch, held, job, failed, applied, spent>>
  BY <1>1, <1>2, TryPushAnswers DEF Fixed
<1>3. CASE GiveUp(s) /\ UNCHANGED <<man, made, stored, late, nonces, clock, mem, fetch, held, want, applied, spent>>
  <2>1. job' = job
    BY <1>1, <1>3 DEF GiveUp, Live
  <2> QED
    BY <1>1, <1>3, <2>1, TryPushAnswers DEF Fixed
<1> QED
  BY <1>2, <1>3, TryPushIs, SavingInv

LEMMA TryJobInv == ASSUME Inv, NEW s \in Servers, TryCollect(s) \/ TryRepack(s) PROVE Inv'
<1>1. ~Live(s) /\ call[s].kind # "push"
  BY DEF TryCollect, TryRepack, Live
<1>2. JobLanded(s) \/ JobGivesUp(s) \/ Saving(s)
  BY TryCollectIs, TryRepackIs
<1> QED
  BY <1>1, <1>2, JobLandedInv, JobGivesUpInv, SavingInv

LEMMA TryOtherInv == ASSUME Inv, NEW s \in Servers, TryRestore(s) \/ TrySweep(s) \/ TryPrune(s) PROVE Inv'
<1>1. ~Live(s)
  BY DEF TryRestore, TrySweep, TryPrune, Live
<1>2. CASE Done(s) /\ UNCHANGED <<man, made, stored, late, nonces, clock, mem, fetch, held, push, job, want,
                         failed, applied, spent>>
  BY <1>1, <1>2, NothingInv DEF Rest
<1> QED
  BY <1>2, TryRestoreIs, TrySweepIs, TryPruneIs, SavingInv

-------------------------------------------------------------------------------
\* A PUT that nobody waits for arrives.

Arrives(w) ==
    /\ w \in late /\ late' = late \ {w} /\ made' = made /\ nonces' = nonces /\ clock' = clock
    /\ mem' = mem /\ push' = push /\ job' = job /\ call' = call
    /\ \/ man.writer = w.etag /\ man' = w.doc /\ applied' = Landed(w.call, w.doc)
       \/ Kept

LEMMA ArrivesLands ==
    ASSUME Inv, NEW w, Arrives(w), man.writer = w.etag, man' = w.doc, applied' = Landed(w.call, w.doc)
    PROVE  Lands(w.call, w.doc)
<1>1. w \in late /\ late' = late \ {w} /\ w.doc \in Docs /\ made' = made /\ clock' = clock /\ nonces' = nonces
      /\ nonces \in Nat /\ push' = push /\ mem' = mem /\ call' = call
  BY DEF Arrives, Docs, Inv, Shapes
<1>2. Steps(w.call, man, w.doc)
  BY <1>1 DEF Inv, Based
<1>3. w.call.kind = "push" /\ push[w.call.push].pack # 0 => \A a \in applied : a.push # w.call.push
  BY <1>1 DEF Inv, Landings
<1>4. w.doc.writer # None /\ \A v \in late' : v.etag # w.doc.writer /\ v.doc.writer # w.doc.writer
  BY <1>1 DEF Inv, Tags
<1>5. Docs' \subseteq Docs \cup {w.doc}
  <2>1. NoMan' = NoMan
    BY DEF NoMan
  <2> QED
    BY <1>1, <2>1 DEF Docs
<1> QED
  BY <1>1, <1>2, <1>3, <1>4, <1>5 DEF Lands

LEMMA ArrivesInformed == ASSUME Inv, NEW w, Arrives(w) PROVE Informed'
<1>1. w \in late /\ late' = late \ {w} /\ made' = made /\ push' = push /\ mem' = mem /\ call' = call
  BY DEF Arrives
<1> SUFFICES ASSUME NEW r \in Servers, Live(r) PROVE OnCall(r)'
  BY <1>1 DEF Informed, Live
<1>a. PICK k : k = call[r]
  OBVIOUS
<1>b. PICK m : m = mem[r].m
  OBVIOUS
<1>2. PICK p \in Pushes : p = k.push /\ push[p].st = "commit" /\ push[p].s = r /\ push[p].pack = k.pack
  BY <1>a DEF Inv, Linked
<1>3. Verdict(p, m)' = Verdict(p, m)
  BY <1>1 DEF Verdict, Ix
<1>4. OnCall(r)
  BY DEF Inv, Informed
<1>5. SUFFICES
        /\ k.st = "settle" =>
              /\ k.ok \subseteq DOMAIN push[p].cmds
              /\ man'.writer = k.doc.writer => \E a \in applied' : a.push = p /\ a.ok = k.ok
              /\ \A v \in late' : v.doc.writer = k.doc.writer => OfPush(v, p) /\ v.call.ok = k.ok
              /\ \A v \in late' : OfPush(v, p) =>
                    v.etag < k.doc.writer /\ (v.etag = man'.writer => v.call.ok = k.ok)
              /\ k.pack # 0 => \A a \in applied' : a.push = p => a.ok = k.ok
        /\ k.st = "try" =>
              /\ \A v \in late' : OfPush(v, p) /\ v.etag = man'.writer => mem[r].etag = man'.writer
              /\ k.pack # 0 => \A a \in applied' : a.push = p =>
                    a.ok = IF Lists(m, k.pack) THEN k.ok ELSE Verdict(p, m)
  BY <1>1, <1>3, <1>a, <1>b, <1>2 DEF OnCall, OfPush, Lists, Verdict, Ix
<1>6. ASSUME k.st = "settle"
      PROVE  /\ k.ok \subseteq DOMAIN push[p].cmds
             /\ man.writer = k.doc.writer => \E a \in applied : a.push = p /\ a.ok = k.ok
             /\ \A v \in late : v.doc.writer = k.doc.writer => OfPush(v, p) /\ v.call.ok = k.ok
             /\ \A v \in late : OfPush(v, p) =>
                   v.etag < k.doc.writer /\ (v.etag = man.writer => v.call.ok = k.ok)
             /\ k.pack # 0 => \A a \in applied : a.push = p => a.ok = k.ok
  BY <1>a, <1>2, <1>4, <1>6 DEF OnCall
<1>7. ASSUME k.st = "try"
      PROVE  /\ \A v \in late : OfPush(v, p) /\ v.etag = man.writer => mem[r].etag = man.writer
             /\ k.pack # 0 => \A a \in applied : a.push = p =>
                   a.ok = IF Lists(m, k.pack) THEN k.ok ELSE Verdict(p, m)
  BY <1>a, <1>b, <1>2, <1>4, <1>7 DEF OnCall
<1>8. CASE Kept
  <2>1. man' = man /\ applied' = applied /\ late' \subseteq late
    BY <1>1, <1>8 DEF Kept
  <2> QED
    BY <1>6, <1>7, <2>1
<1>9. CASE man.writer = w.etag /\ man' = w.doc /\ applied' = Landed(w.call, w.doc)
  <2>1. PICK e : e = [push |-> w.call.push, ok |-> w.call.ok, moved |-> w.call.moved, writer |-> w.doc.writer]
    OBVIOUS
  <2>2. e.push = w.call.push /\ e.ok = w.call.ok
        /\ applied' = IF w.call.kind = "push" THEN applied \cup {e} ELSE applied
    BY <1>9, <2>1 DEF Landed
  <2>3. ASSUME NEW a \in applied', a.push = p, a \notin applied PROVE a.ok = w.call.ok /\ OfPush(w, p)
    BY <2>2, <2>3 DEF OfPush
  <2>4. \A v \in late' : v \in late /\ v.etag # man'.writer
    BY <1>1, <1>9 DEF Inv, Tags
  <2>5. ASSUME k.st = "settle", man'.writer = k.doc.writer PROVE \E a \in applied' : a.push = p /\ a.ok = k.ok
    <3>1. OfPush(w, p) /\ w.call.ok = k.ok
      BY <1>1, <1>6, <1>9, <2>5
    <3> QED
      BY <2>2, <3>1 DEF OfPush
  <2>6. ASSUME k.st = "settle", k.pack # 0, NEW a \in applied', a.push = p PROVE a.ok = k.ok
    BY <1>1, <1>6, <1>9, <2>3, <2>6
  <2>7. ASSUME k.st = "try", k.pack # 0, NEW a \in applied', a.push = p
        PROVE  a.ok = IF Lists(m, k.pack) THEN k.ok ELSE Verdict(p, m)
    <3>1. CASE a \in applied
      BY <1>7, <2>7, <3>1
    <3>2. CASE a \notin applied
      <4>1. a.ok = w.call.ok /\ OfPush(w, p)
        BY <2>3, <2>7, <3>2
      <4>2. m = man
        BY <1>1, <1>7, <1>9, <1>b, <2>7, <4>1, CopyIsMan
      <4>3. Moves(p, w.call.ok, man, w.doc)
        BY <1>1, <1>9, <4>1 DEF Inv, Based, Steps, OfPush
      <4> QED
        BY <1>2, <2>7, <4>1, <4>2, <4>3 DEF Moves
    <3> QED
      BY <3>1, <3>2
  <2>8. ASSUME k.st = "settle"
        PROVE  /\ k.ok \subseteq DOMAIN push[p].cmds
               /\ \A v \in late' : v.doc.writer = k.doc.writer => OfPush(v, p) /\ v.call.ok = k.ok
               /\ \A v \in late' : OfPush(v, p) =>
                     v.etag < k.doc.writer /\ (v.etag = man'.writer => v.call.ok = k.ok)
    BY <1>6, <2>4, <2>8
  <2> QED
    BY <2>4, <2>5, <2>6, <2>7, <2>8
<1> QED
  BY <1>8, <1>9 DEF Arrives

LEMMA ArrivesEarly == ASSUME Inv, NEW w, Arrives(w), Docs' \subseteq Docs PROVE Early'
<1>1. w \in late /\ late' \subseteq late /\ push' = push /\ call' = call
  BY DEF Arrives
<1>2. ASSUME NEW p \in Pushes, Untouched(p) PROVE Untouched(p)'
  <2>1. \A a \in applied' : a.push # p
    BY <1>1, <1>2 DEF Arrives, Kept, Landed, Untouched
  <2> QED
    BY <1>1, <1>2, <2>1 DEF Untouched, Lists
<1>3. ASSUME NEW r \in Servers, Live(r), ~call[r].tried PROVE Untouched(call[r].push)'
  <2>1. PICK p \in Pushes : p = call[r].push /\ Untouched(p)
    BY <1>3 DEF Inv, Early, Linked
  <2>2. Untouched(p)'
    BY <1>2, <2>1
  <2> QED
    BY <1>1, <2>1, <2>2 DEF Untouched
<1> QED
  BY <1>1, <1>2, <1>3 DEF Early, Live, Inv, Untouched

LEMMA ArriveInv == ASSUME Inv, NEW w \in late, Arrive(w) PROVE Inv'
<1>1. Arrives(w)
  BY DEF Arrive, Arrives, Accepts, Kept
<1>2. late' \subseteq late /\ made' = made /\ nonces' = nonces /\ clock' = clock
      /\ mem' = mem /\ push' = push /\ job' = job /\ call' = call
  BY <1>1 DEF Arrives
<1>3. NoMem' = NoMem /\ NoCall' = NoCall /\ NoPush' = NoPush /\ NoMan' = NoMan
  BY DEF NoMem, NoCall, NoPush, NoMan
<1>4. Docs' \subseteq Docs
  BY <1>1, <1>2, <1>3 DEF Docs, Arrives, Kept
<1>5. Shapes'
  BY <1>2, <1>3 DEF Inv, Shapes, AskOk
<1>6. Written'
  BY <1>2, <1>3, <1>4 DEF Inv, Written, IsDoc
<1>7. Linked' /\ Apart'
  BY <1>2 DEF Inv, Linked, Apart, Live
<1>8. Early' /\ Informed'
  BY <1>1, <1>4, ArrivesEarly, ArrivesInformed
<1>9. CASE man.writer = w.etag /\ man' = w.doc /\ applied' = Landed(w.call, w.doc)
  <2>1. Lands(w.call, w.doc)
    BY <1>1, <1>9, ArrivesLands
  <2> QED
    BY <1>5, <1>6, <1>7, <1>8, <2>1, LandsTags, LandsLingers, LandsBased, LandsLandings DEF Inv
<1>10. CASE Kept
  <2>1. man' = man /\ applied' = applied
    BY <1>10 DEF Kept
  <2>2. Tags'
    BY <1>2, <2>1 DEF Inv, Tags
  <2>3. Lingers'
    BY <1>2, <1>4, <2>1 DEF Inv, Lingers, Offered, Lists
  <2>4. Based'
    <3>1. ASSUME NEW v, Steps(v.call, man, v.doc) PROVE Steps(v.call, man, v.doc)'
      BY <1>2, <2>1, <3>1, StepsStay
    <3> QED
      BY <1>2, <2>1, <3>1 DEF Inv, Based
  <2>5. Landings'
    BY <1>2, <2>1 DEF Inv, Landings, PackedOnce, Offered, Lists
  <2> QED
    BY <1>5, <1>6, <1>7, <1>8, <2>2, <2>3, <2>4, <2>5 DEF Inv
<1> QED
  BY <1>1, <1>9, <1>10 DEF Arrives

-------------------------------------------------------------------------------
\* The invariant.

LEMMA SeededIs ==
    ASSUME Init
    PROVE  /\ man = NoMan \/ /\ DOMAIN man = DOMAIN NoMan /\ man.writer = 1 /\ man.refs = SeedRefs
                             /\ man.packs = [i \in DOMAIN Seed |-> i] /\ man.retired = {}
           /\ Len(made) = Len(Seed) /\ Len(Seed) \in Nat /\ made \in Seq(ToSet(made))
<1>1. PICK d : d = SetToSeq({[id |-> o, at |-> 0] : o \in SeedDrops})
  OBVIOUS
<1>2. PICK q : q = [i \in DOMAIN Seed |-> i]
  OBVIOUS
<1>3. man = IF Seed = <<>> THEN NoMan
            ELSE [NoMan EXCEPT !.rev = Len(Seed) + 1, !.writer = 1, !.refs = SeedRefs,
                      !.packs = q, !.dropped = d]
  BY <1>1, <1>2 DEF Init
<1>4. man = NoMan \/ /\ DOMAIN man = DOMAIN NoMan /\ man.writer = 1 /\ man.refs = SeedRefs
                     /\ man.packs = q /\ man.retired = {}
  <2>1. PICK m : m = [NoMan EXCEPT !.rev = Len(Seed) + 1, !.writer = 1, !.refs = SeedRefs,
                          !.packs = q, !.dropped = d]
    OBVIOUS
  <2>2. DOMAIN m = DOMAIN NoMan /\ m.writer = 1 /\ m.refs = SeedRefs /\ m.packs = q /\ m.retired = {}
    BY <2>1 DEF NoMan
  <2> QED
    BY <1>3, <2>1, <2>2
<1>5. Seed \in Seq(SUBSET Objs) /\ Len(Seed) \in Nat /\ DOMAIN Seed = 1..Len(Seed)
  BY ConstantsAssumption
<1>6. made = [i \in 1..Len(Seed) |-> [objs |-> Seed[i], at |-> 0]]
  BY <1>5 DEF Init
<1>7. Len(made) = Len(Seed) /\ DOMAIN made = 1..Len(Seed)
  BY <1>5, <1>6
<1>8. \A i \in 1..Len(Seed) : made[i] \in ToSet(made)
  BY <1>7 DEF ToSet
<1>9. made \in Seq(ToSet(made))
  <2>1. PICK T : T = ToSet(made)
    OBVIOUS
  <2>2. made \in [1..Len(Seed) -> T]
    BY <1>6, <1>8, <2>1
  <2> QED
    BY <1>5, <2>1, <2>2
<1> QED
  BY <1>2, <1>4, <1>5, <1>7, <1>9

LEMMA InitInv == Init => Inv
<1> SUFFICES ASSUME Init PROVE Inv
  OBVIOUS
<1>1. /\ made \in Seq(ToSet(made)) /\ late = {} /\ nonces = 1 /\ clock = 0
      /\ mem = [s \in Servers |-> NoMem] /\ push = [p \in Pushes |-> NoPush]
      /\ job = [s \in Servers |-> NoJob] /\ call = [s \in Servers |-> NoCall] /\ applied = {}
      /\ Len(made) = Len(Seed) /\ Len(Seed) \in Nat
  BY SeededIs DEF Init
<1>2. NoMem.m = NoMan /\ NoMem.etag = None /\ NoMan.writer = None
  BY DEF NoMem, NoMan
<1>3. /\ NoCall.doc = NoMan /\ NoCall.kind = "none" /\ NoCall.st = "try"
      /\ NoPush.st = "new" /\ NoPush.pack = 0 /\ NoPush.res = {} /\ NoJob.sources = <<>>
  BY DEF NoCall, NoPush, NoJob
<1>4. \A s \in Servers : mem[s] = NoMem /\ call[s] = NoCall /\ job[s] = NoJob /\ ~Live(s)
  BY <1>1, <1>3 DEF Live
<1>5. \A p \in Pushes : push[p] = NoPush
  BY <1>1
<1>6. Docs \subseteq {NoMan, man}
  BY <1>1, <1>2, <1>3, <1>4 DEF Docs
<1>7. IsDoc(NoMan)
  BY <1>1, NilAssumption DEF IsDoc, NoMan, NoClashIn, Values, None, Neat, ToSet
<1>8. IsDoc(man) /\ (man = NoMan \/ man.writer = 1)
  <2>1. CASE man = NoMan
    BY <1>7, <2>1
  <2>2. CASE man # NoMan
    <3>1. /\ DOMAIN man = DOMAIN NoMan /\ man.writer = 1 /\ man.refs = SeedRefs
          /\ man.packs = [i \in DOMAIN Seed |-> i] /\ man.retired = {}
      BY <2>2, SeededIs
    <3>2. SeedRefs \in [Refs -> Values]
      <4>1. SeedRefs \in [Refs -> Held(Seed) \cup {Nil}] /\ Seed \in Seq(SUBSET Objs)
        BY ConstantsAssumption
      <4>2. Held(Seed) \subseteq Objs
        BY <4>1 DEF Held
      <4> QED
        BY <4>1, <4>2 DEF Values
    <3>3. man.packs \in Seq(1..Len(made))
      <4>1. DOMAIN Seed = 1..Len(Seed)
        BY ConstantsAssumption
      <4>2. man.packs \in [1..Len(Seed) -> 1..Len(made)]
        BY <1>1, <3>1, <4>1
      <4> QED
        BY <1>1, <4>2
    <3>4. Neat(man)
      BY <1>1, <3>1, ConstantsAssumption DEF Neat
    <3> QED
      BY <1>1, <3>1, <3>2, <3>3, <3>4, SeedAssumption DEF IsDoc, NoClashIn
  <2> QED
    BY <2>1, <2>2
<1>9. Written
  BY <1>2, <1>6, <1>7, <1>8 DEF Written, None
<1>10. Shapes
  <2>1. <<>> \in Seq(Nat)
    OBVIOUS
  <2>2. DOMAIN mem = Servers /\ DOMAIN job = Servers /\ DOMAIN call = Servers /\ DOMAIN push = Pushes
    BY <1>1
  <2>3. \A s \in Servers : DOMAIN mem[s] = DOMAIN NoMem /\ DOMAIN call[s] = DOMAIN NoCall /\ job[s].sources \in Seq(Nat)
    BY <1>3, <1>4, <2>1
  <2>4. 0 \in 0..Len(made)
    BY <1>1
  <2>5. ASSUME NEW p \in Pushes
        PROVE  /\ DOMAIN push[p] = DOMAIN NoPush
               /\ push[p].st \in {"new", "checked", "uploaded", "commit", "done"}
               /\ push[p].pack \in 0..Len(made)
               /\ push[p].st \in {"new", "checked"} => push[p].pack = 0
               /\ push[p].st # "done" => push[p].res = {}
               /\ IF push[p].st = "new" THEN push[p] = NoPush
                  ELSE push[p].s \in Servers /\ AskOk(push[p].cmds)
    BY <1>3, <1>5, <2>4
  <2> QED
    BY <1>1, <2>2, <2>3, <2>5 DEF Shapes
<1>11. Linked
  BY <1>3, <1>4, <1>5 DEF Linked
<1>12. Apart
  BY <1>3, <1>4, <1>5 DEF Apart
<1>13. Early
  BY <1>1, <1>3, <1>4, <1>5 DEF Early, Untouched
<1>14. Tags
  BY <1>1, <1>2, <1>4 DEF Tags
<1>15. Lingers /\ Based /\ Landings /\ Informed
  BY <1>1, <1>3, <1>4, <1>5 DEF Lingers, Based, Landings, Informed, Offered, PackedOnce
<1> QED
  BY <1>9, <1>10, <1>11, <1>12, <1>13, <1>14, <1>15 DEF Inv

LEMMA StutterInv == ASSUME Inv, UNCHANGED vars PROVE Inv'
<1>1. /\ man' = man /\ made' = made /\ late' = late /\ nonces' = nonces /\ clock' = clock /\ mem' = mem
      /\ push' = push /\ job' = job /\ call' = call /\ applied' = applied
  BY DEF vars
<1>2. NoMem' = NoMem /\ NoCall' = NoCall /\ NoPush' = NoPush /\ NoMan' = NoMan
  BY DEF NoMem, NoCall, NoPush, NoMan
<1>3. Docs' = Docs
  BY <1>1, <1>2 DEF Docs
<1>4. ASSUME NEW w, Steps(w.call, man, w.doc) PROVE Steps(w.call, man, w.doc)'
  BY <1>1, <1>4, StepsStay
<1>5. Shapes' /\ Written' /\ Linked' /\ Apart'
  BY <1>1, <1>2, <1>3 DEF Inv, Shapes, AskOk, Written, IsDoc, Linked, Apart, Live
<1>6. Tags' /\ Lingers' /\ Based' /\ Landings'
  BY <1>1, <1>3, <1>4 DEF Inv, Tags, Lingers, Based, Landings, Offered, Lists, PackedOnce
<1>7. Early'
  BY <1>1, <1>3 DEF Inv, Early, Untouched, Live, Lists
<1>8. Informed'
  BY <1>1 DEF Inv, Informed, OnCall, Live, OfPush, Lists, Verdict, Ix
<1> QED
  BY <1>5, <1>6, <1>7, <1>8 DEF Inv

LEMMA NextInv == Inv /\ [Next]_vars => Inv'
<1> SUFFICES ASSUME Inv, [Next]_vars PROVE Inv'
  OBVIOUS
<1>1. CASE Common
  BY <1>1, LoadInv, LookInv, ResetInv, CrashInv, CleanupInv, SettleInv, SettlePushInv, ArriveInv, TickInv DEF Common
<1>2. CASE Serve
  BY <1>2, PushUploadInv, PushCommitInv, PushStartInv, TryPushInv, FetchInv, TryOtherInv, RestoreInv DEF Serve
<1>3. CASE Maintain
  <2>1. ASSUME NEW s \in Servers, CollectUpload(s) PROVE Inv'
    <3>1. PICK objs : objs = job[s].keep
      OBVIOUS
    <3>2. PICK readable : readable = (Unmoved(s) /\ ToSet(job[s].sources) \subseteq stored)
      OBVIOUS
    <3>3. JobUpload(s, "collect", readable, objs)
      BY <2>1, <3>1, <3>2 DEF CollectUpload
    <3> QED
      BY <3>3, JobUploadInv
  <2>2. ASSUME NEW s \in Servers, RepackUpload(s) PROVE Inv'
    <3>1. PICK objs : objs = UNION {made[k].objs : k \in ToSet(job[s].sources)}
      OBVIOUS
    <3>2. PICK readable : readable = (ToSet(job[s].sources) \subseteq stored)
      OBVIOUS
    <3>3. JobUpload(s, "repack", readable, objs)
      BY <2>2, <3>1, <3>2 DEF RepackUpload
    <3> QED
      BY <3>3, JobUploadInv
  <2> QED
    BY <1>3, <2>1, <2>2, RequestInv, CollectStartInv, TryJobInv, RepackStartInv, RoundInv,
       SweepInv, TryOtherInv, OrphansInv, ConsiderInv, MergeInv DEF Maintain
<1>4. CASE UNCHANGED vars
  BY <1>4, StutterInv
<1> QED
  BY <1>1, <1>2, <1>3, <1>4 DEF Next

\* Manifests are told apart by their writers, and every manifest PUT that is on its
\* way or under settlement is known to the call that waits for it (save_manifest,
\* put_sealed_once and the save loops of push.rs, gc.rs, maint.rs and api.rs).
THEOREM Invariant == Spec => []Inv
<1> QED
  BY InitInv, NextInv, PTL DEF Spec

\* No ref is beneath another, which no clone could store: the judgement of a push
\* holds against the manifest it replaces, however many servers push (check and
\* commit of push.rs, judge of git/receive.rs; restore of api.rs).
THEOREM ClashFree == Spec => []NoClash
<1>1. Inv => NoClash
  BY ManTyped DEF IsDoc, NoClashIn, NoClash
<1> QED
  BY <1>1, Invariant, PTL

\* A push that brings objects moves refs by one manifest write at most, however often
\* its commit retries, and whatever became of the writes before (commit of push.rs).
THEOREM OneWritePerPack == Spec => []PackedOnce
<1>1. Inv => PackedOnce
  BY DEF Inv, Landings
<1> QED
  BY <1>1, Invariant, PTL

-------------------------------------------------------------------------------
\* The book of refs: its state, and its steps in those terms.

Asks == [p \in Pushes |-> push[p].cmds]
Wholes == [p \in Pushes |-> push[p].atomic]
Took == [p \in Pushes |-> UNION {a.ok : a \in {x \in applied : x.push = p}}]
Told == [p \in Pushes |-> IF push[p].st = "done" THEN push[p].res ELSE {Nil}]

Awaits(p) == Asks[p] # <<>> /\ Told[p] = {Nil}

LEMMA BookAsk ==
    ASSUME NEW p \in Pushes, Asks[p] = <<>>, NEW rs \in (SUBSET Refs) \ {{}}, NEW all \in BOOLEAN,
           NEW f \in [rs -> [old : Values, new : Values]],
           Asks' = [Asks EXCEPT ![p] = f], Wholes' = [Wholes EXCEPT ![p] = all],
           man'.refs = man.refs, Took' = Took, Told' = Told
    PROVE  Book!Ask(p)
<1>1. Asks' \in {[Asks EXCEPT ![p] = g] : g \in [rs -> [old : Objs \cup {Nil}, new : Objs \cup {Nil}]]}
  BY DEF Values
<1>2. \E ss \in (SUBSET Refs) \ {{}}, any \in BOOLEAN :
         /\ Asks' \in {[Asks EXCEPT ![p] = g] :
                          g \in [ss -> [old : Objs \cup {Nil}, new : Objs \cup {Nil}]]}
         /\ Wholes' = [Wholes EXCEPT ![p] = any]
  BY <1>1
<1> QED
  BY <1>2, Zenon DEF Book!Ask, Asks, Wholes, Took, Told

LEMMA BookMove ==
    ASSUME NEW p \in Pushes, Awaits(p) \/ (LatePuts /\ Told[p] = {}),
           NEW rs, rs \subseteq DOMAIN Asks[p], rs # {}, Wholes[p] => rs = DOMAIN Asks[p],
           \A r \in rs : man.refs[r] \in {Asks[p][r].old, Asks[p][r].new},
           man'.refs = [r \in Refs |-> IF r \in rs THEN Asks[p][r].new ELSE man.refs[r]],
           Took' = [Took EXCEPT ![p] = @ \cup rs],
           Told' = Told \/ (Awaits(p) /\ Told' = [Told EXCEPT ![p] = rs]),
           Asks' = Asks, Wholes' = Wholes
    PROVE  Book!Move(p)
<1>1. \E ss \in (SUBSET DOMAIN Asks[p]) \ {{}} :
         /\ Wholes[p] => ss = DOMAIN Asks[p]
         /\ \A r \in ss : man.refs[r] \in {Asks[p][r].old, Asks[p][r].new}
         /\ man'.refs = [r \in Refs |-> IF r \in ss THEN Asks[p][r].new ELSE man.refs[r]]
         /\ Took' = [Took EXCEPT ![p] = @ \cup ss]
         /\ Told' = Told \/ (Awaits(p) /\ Told' = [Told EXCEPT ![p] = ss])
  OBVIOUS
<1> QED
  BY <1>1, Zenon DEF Book!Move, Book!Pending, Awaits, Asks, Wholes, Took, Told

LEMMA BookTell ==
    ASSUME NEW p \in Pushes, Awaits(p), NEW rs, rs \subseteq Took[p], Told' = [Told EXCEPT ![p] = rs],
           man'.refs = man.refs, Asks' = Asks, Wholes' = Wholes, Took' = Took
    PROVE  Book!Tell(p)
<1>1. \E ss \in SUBSET Took[p] : Told' = [Told EXCEPT ![p] = ss]
  OBVIOUS
<1> QED
  BY <1>1, Zenon DEF Book!Tell, Book!Pending, Awaits, Asks, Wholes, Took, Told

LEMMA BookDie ==
    ASSUME NEW ps, ps \subseteq {p \in Pushes : Awaits(p)},
           Told' = [p \in Pushes |-> IF p \in ps THEN {} ELSE Told[p]],
           man'.refs = man.refs, Asks' = Asks, Wholes' = Wholes, Took' = Took
    PROVE  Book!Die
<1>1. \E qs \in SUBSET {p \in Pushes : Awaits(p)} :
         Told' = [p \in Pushes |-> IF p \in qs THEN {} ELSE Told[p]]
  OBVIOUS
<1> QED
  BY <1>1, Zenon DEF Book!Die, Book!Pending, Awaits, Asks, Wholes, Took, Told

LEMMA BookRestored ==
    ASSUME NEW r \in Refs, man.refs[r] = Nil, NEW o \in Objs, man'.refs = [man.refs EXCEPT ![r] = o],
           Asks' = Asks, Wholes' = Wholes, Took' = Took, Told' = Told
    PROVE  Book!Restored(r)
  BY Zenon DEF Book!Restored, Asks, Wholes, Took, Told

LEMMA BookStays ==
    ASSUME man'.refs = man.refs, Asks' = Asks, Wholes' = Wholes, Took' = Took, Told' = Told
    PROVE  UNCHANGED Book!bookVars
  BY Zenon DEF Book!bookVars, Asks, Wholes, Took, Told

-------------------------------------------------------------------------------
\* How the pushes and what was applied show in it.

BookStep == [Book!BookNext]_(Book!bookVars)

\* The pushes ask what they asked.
LEMMA AsksStay ==
    ASSUME \A p \in Pushes : push'[p].cmds = push[p].cmds /\ push'[p].atomic = push[p].atomic
    PROVE  Asks' = Asks /\ Wholes' = Wholes
  BY DEF Asks, Wholes

LEMMA TookStays == ASSUME applied' = applied PROVE Took' = Took
  BY Zenon DEF Took

LEMMA TookGrows ==
    ASSUME NEW c, NEW doc, c.kind = "push", c.push \in Pushes, applied' = Landed(c, doc)
    PROVE  Took' = [Took EXCEPT ![c.push] = @ \cup c.ok]
<1>1. PICK e : e = [push |-> c.push, ok |-> c.ok, moved |-> c.moved, writer |-> doc.writer]
  OBVIOUS
<1>2. e.push = c.push /\ e.ok = c.ok
  BY <1>1
<1>3. applied' = applied \cup {e}
  BY <1>1 DEF Landed
<1>4. ASSUME NEW p \in Pushes
      PROVE  UNION {a.ok : a \in {x \in applied' : x.push = p}} = IF p = c.push THEN Took[p] \cup c.ok ELSE Took[p]
  <2>1. Took[p] = UNION {a.ok : a \in {x \in applied : x.push = p}}
    BY DEF Took
  <2>2. CASE p = c.push
    <3>1. {x \in applied' : x.push = p} = {x \in applied : x.push = p} \cup {e}
      BY <1>2, <1>3, <2>2
    <3>2. UNION {a.ok : a \in {x \in applied : x.push = p} \cup {e}}
             = (UNION {a.ok : a \in {x \in applied : x.push = p}}) \cup e.ok
      OBVIOUS
    <3> QED
      BY <1>2, <2>1, <2>2, <3>1, <3>2
  <2>3. CASE p # c.push
    <3>1. {x \in applied' : x.push = p} = {x \in applied : x.push = p}
      BY <1>2, <1>3, <2>3
    <3> QED
      BY <2>1, <2>3, <3>1
  <2> QED
    BY <2>2, <2>3
<1>5. Took' = [p \in Pushes |-> UNION {a.ok : a \in {x \in applied' : x.push = p}}]
  BY DEF Took
<1>6. DOMAIN Took = Pushes
  BY DEF Took
<1>7. Took' = [p \in Pushes |-> IF p = c.push THEN Took[p] \cup c.ok ELSE Took[p]]
  BY <1>4, <1>5
<1>8. Took = [p \in Pushes |-> Took[p]]
  BY DEF Took
<1> QED
  BY <1>7, <1>8

LEMMA ToldStays ==
    ASSUME \A p \in Pushes : \/ push'[p].st = push[p].st /\ push'[p].res = push[p].res
                             \/ push[p].st # "done" /\ push'[p].st # "done"
    PROVE  Told' = Told
<1>1. \A p \in Pushes : (IF push'[p].st = "done" THEN push'[p].res ELSE {Nil})
                          = IF push[p].st = "done" THEN push[p].res ELSE {Nil}
  OBVIOUS
<1> QED
  BY <1>1 DEF Told

\* A push under way is open.
LEMMA UnderWay ==
    ASSUME Inv, NEW p \in Pushes, push[p].st \notin {"new", "done"}
    PROVE  Awaits(p)
<1>1. DOMAIN push[p].cmds # {}
  BY DEF Inv, Shapes, AskOk
<1>2. push[p].cmds # <<>>
  BY <1>1
<1> QED
  BY <1>2 DEF Awaits, Asks, Told

\* A push is answered.
LEMMA Answered ==
    ASSUME Inv, NEW p \in Pushes, push[p].st \notin {"new", "done"}, NEW res, push' = Answer(p, res)
    PROVE  Awaits(p) /\ Asks' = Asks /\ Wholes' = Wholes /\ Told' = [Told EXCEPT ![p] = res]
<1>1. /\ \A q \in Pushes \ {p} : push'[q] = push[q]
      /\ push'[p].st = "done" /\ push'[p].res = res
      /\ push'[p].cmds = push[p].cmds /\ push'[p].atomic = push[p].atomic
  BY AnswerIs DEF SameAsk
<1>2. Asks' = Asks /\ Wholes' = Wholes
  BY <1>1, AsksStay
<1>3. Told' = [q \in Pushes |-> IF q = p THEN res ELSE Told[q]]
  BY <1>1 DEF Told
<1>4. Told = [q \in Pushes |-> Told[q]]
  BY DEF Told
<1>5. Told' = [Told EXCEPT ![p] = res]
  BY <1>3, <1>4
<1> QED
  BY <1>2, <1>5, UnderWay

-------------------------------------------------------------------------------
\* Every step of the repository is a step of the book, or none.

LEMMA NothingBook == ASSUME man' = man, applied' = applied, push' = push PROVE BookStep
<1>1. Asks' = Asks /\ Wholes' = Wholes
  BY AsksStay
<1>2. Took' = Took /\ Told' = Told
  BY TookStays, ToldStays
<1> QED
  BY <1>1, <1>2, BookStays DEF BookStep

LEMMA AnsweredBook ==
    ASSUME Inv, man' = man, applied' = applied, NEW p \in Pushes, push[p].st \notin {"new", "done"},
           NEW res, push' = Answer(p, res), res # {} => \E a \in applied : a.push = p /\ a.ok = res
    PROVE  BookStep
<1>1. Awaits(p) /\ Asks' = Asks /\ Wholes' = Wholes /\ Told' = [Told EXCEPT ![p] = res]
  BY Answered
<1>2. Took' = Took /\ res \subseteq Took[p]
  BY TookStays DEF Took
<1>3. Book!Tell(p)
  BY <1>1, <1>2, BookTell
<1> QED
  BY <1>3 DEF BookStep, Book!BookNext

\* A manifest takes the place of the one it was built on.
LEMMA ReplacedBook ==
    ASSUME Inv, NEW c, NEW doc, Steps(c, man, doc), man' = doc, applied' = Landed(c, doc),
           Asks' = Asks, Wholes' = Wholes,
           c.kind = "push" => Awaits(c.push) \/ (LatePuts /\ Told[c.push] = {}),
           Told' = Told \/ (c.kind = "push" /\ Awaits(c.push) /\ Told' = [Told EXCEPT ![c.push] = c.ok])
    PROVE  BookStep
<1>1. CASE c.kind = "push"
  <2>1. PICK p \in Pushes : p = c.push /\ Moves(p, c.ok, man, doc)
    BY <1>1 DEF Steps
  <2>2. Asks[p] = push[p].cmds /\ Wholes[p] = push[p].atomic
    BY DEF Asks, Wholes
  <2>3. PICK rs : rs = c.ok
    OBVIOUS
  <2>4. /\ rs \subseteq DOMAIN Asks[p] /\ rs # {} /\ (Wholes[p] => rs = DOMAIN Asks[p])
        /\ \A r \in rs : man.refs[r] \in {Asks[p][r].old, Asks[p][r].new}
        /\ man'.refs = [r \in Refs |-> IF r \in rs THEN Asks[p][r].new ELSE man.refs[r]]
    BY <2>1, <2>2, <2>3 DEF Moves
  <2>5. Took' = [Took EXCEPT ![p] = @ \cup rs]
    BY <1>1, <2>1, <2>3, TookGrows
  <2>6. Awaits(p) \/ (LatePuts /\ Told[p] = {})
    BY <1>1, <2>1
  <2>7. Told' = Told \/ (Awaits(p) /\ Told' = [Told EXCEPT ![p] = rs])
    BY <2>1, <2>3
  <2>8. Book!Move(p)
    BY <2>4, <2>5, <2>6, <2>7, BookMove
  <2> QED
    BY <2>8 DEF BookStep, Book!BookNext
<1>2. CASE c.kind # "push"
  <2>1. applied' = applied /\ Took' = Took /\ Told' = Told
    BY <1>2, TookStays DEF Landed
  <2>2. man.refs \in [Refs -> Values]
    BY ManTyped DEF IsDoc
  <2>3. CASE c.kind = "restore"
    <3>1. c.ref \in Refs /\ c.id \in Objs /\ man.refs[c.ref] \in {Nil, c.id}
          /\ man'.refs = [man.refs EXCEPT ![c.ref] = c.id]
      BY <2>3 DEF Steps
    <3>2. CASE man.refs[c.ref] = Nil
      <4>1. Book!Restored(c.ref)
        BY <2>1, <3>1, <3>2, BookRestored
      <4> QED
        BY <3>1, <4>1 DEF BookStep, Book!BookNext
    <3>3. CASE man.refs[c.ref] = c.id
      <4>1. man'.refs = man.refs
        BY <2>2, <3>1, <3>3
      <4> QED
        BY <2>1, <4>1, BookStays DEF BookStep
    <3> QED
      BY <3>1, <3>2, <3>3
  <2>4. CASE c.kind # "restore"
    <3>1. man'.refs = man.refs
      BY <1>2, <2>4 DEF Steps
    <3> QED
      BY <2>1, <3>1, BookStays DEF BookStep
  <2> QED
    BY <2>3, <2>4
<1> QED
  BY <1>1, <1>2

LEMMA SavingBook == ASSUME Inv, NEW s \in Servers, Saving(s) PROVE BookStep
<1>1. PICK c, m : SameCall(s, c) /\ Writes(c, mem[s].m, m) /\ Save(s, c, m)
  BY DEF Saving
<1>2. PICK doc :
             /\ Saves(s, c, doc)
             /\ \/ Accepts(man, mem[s].etag) /\ Replaced(c, doc)
                   /\ (Succeeded(s, c, doc) \/ ToSettle(s, c, doc))
                \/ ~Accepts(man, mem[s].etag) /\ Kept /\ late' = late /\ ToSettle(s, c, doc)
                \/ /\ Kept /\ ToSettle(s, c, doc)
                   /\ late' = late \/ (LatePuts /\ late' = late \cup {Put(s, c, doc)})
  BY <1>1, SaveIs
<1>3. CASE Kept /\ ToSettle(s, c, doc)
  BY <1>3, NothingBook DEF Kept, ToSettle
<1>4. CASE Accepts(man, mem[s].etag) /\ Replaced(c, doc) /\ (Succeeded(s, c, doc) \/ ToSettle(s, c, doc))
  <2>1. SaveMoves(s, c, doc)
    BY <1>2, <1>4, SucceededMoves, ToSettleMoves DEF Replaced
  <2>2. Steps(c, man, doc) /\ (c.kind = "push" => c.push \in Pushes /\ push[c.push].st = "commit")
    BY <1>4, <2>1, SaveFirst DEF Accepts
  <2>3. c.kind = "push" => Awaits(c.push)
    BY <2>2, UnderWay
  <2>4. man' = doc /\ applied' = Landed(c, doc)
    BY <1>4 DEF Replaced
  <2>5. CASE push' = push
    <3>1. Asks' = Asks /\ Wholes' = Wholes /\ Told' = Told
      BY <2>5, AsksStay, ToldStays
    <3> QED
      BY <2>2, <2>3, <2>4, <3>1, ReplacedBook
  <2>6. CASE c.kind = "push" /\ push' = Answer(c.push, c.ok)
    <3>1. Asks' = Asks /\ Wholes' = Wholes /\ Told' = [Told EXCEPT ![c.push] = c.ok]
      BY <2>2, <2>6, Answered
    <3> QED
      BY <2>2, <2>3, <2>4, <2>6, <3>1, ReplacedBook
  <2> QED
    BY <1>4, <2>5, <2>6 DEF Succeeded, ToSettle
<1> QED
  BY <1>2, <1>3, <1>4

LEMMA ArriveBook == ASSUME Inv, NEW w \in late, Arrive(w) PROVE BookStep
<1>1. push' = push
  BY DEF Arrive
<1>2. CASE man' = man /\ applied' = applied
  BY <1>1, <1>2, NothingBook
<1>3. CASE Accepts(man, w.etag) /\ man' = w.doc /\ applied' = Landed(w.call, w.doc)
  <2>1. w.etag = man.writer /\ Steps(w.call, man, w.doc) /\ LatePuts
    BY <1>3 DEF Accepts, Inv, Based, Shapes
  <2>2. ASSUME w.call.kind = "push" PROVE Awaits(w.call.push) \/ (LatePuts /\ Told[w.call.push] = {})
    <3>1. PICK p \in Pushes : p = w.call.push /\ (push[p].st = "commit" \/ (push[p].st = "done" /\ push[p].res = {}))
      BY <2>1, <2>2 DEF Inv, Landings
    <3>2. CASE push[p].st = "commit"
      BY <3>1, <3>2, UnderWay
    <3>3. CASE push[p].st = "done" /\ push[p].res = {}
      BY <2>1, <3>1, <3>3 DEF Told
    <3> QED
      BY <3>1, <3>2, <3>3
  <2>3. Asks' = Asks /\ Wholes' = Wholes /\ Told' = Told
    BY <1>1, AsksStay, ToldStays
  <2> QED
    BY <1>3, <2>1, <2>2, <2>3, ReplacedBook
<1> QED
  BY <1>2, <1>3 DEF Arrive

\* A call that gives up tells its client of an error.
LEMMA GivesUpBook ==
    ASSUME Inv, NEW s \in Servers, call[s].st \in {"try", "settle"}, man' = man, applied' = applied, GiveUp(s)
    PROVE  BookStep
<1>1. CASE call[s].kind = "push"
  <2>1. PICK p \in Pushes : p = call[s].push /\ push[p].st = "commit"
    BY <1>1 DEF Inv, Linked, Live
  <2>2. push' = Answer(p, {})
    BY <1>1, <2>1 DEF GiveUp
  <2> QED
    BY <2>1, <2>2, AnsweredBook
<1>2. CASE call[s].kind # "push"
  BY <1>2, NothingBook DEF GiveUp
<1> QED
  BY <1>1, <1>2

LEMMA TryPushBook == ASSUME Inv, NEW s \in Servers, TryPush(s) PROVE BookStep
<1>1. Live(s) /\ call[s].st = "try"
  BY DEF TryPush, Live
<1>2. CASE LandedBefore(s) /\ push' = Answer(call[s].push, call[s].ok) /\ man' = man /\ applied' = applied
  <2>1. PICK p \in Pushes : p = call[s].push /\ push[p].st = "commit" /\ push[p].pack = call[s].pack
    BY <1>1 DEF Inv, Linked
  <2>2. call[s].pack # 0 /\ Lists(mem[s].m, call[s].pack)
    BY <1>2 DEF LandedBefore
  <2>3. Offered(p) /\ Lists(man, push[p].pack)
    BY <2>1, <2>2 DEF Offered, Inv, Lingers
  <2>4. PICK a \in applied : a.push = p
    BY <2>3 DEF Inv, Landings
  <2>5. a.ok = call[s].ok
    BY <1>1, <2>1, <2>2, <2>4 DEF Inv, Informed, OnCall
  <2> QED
    BY <1>2, <2>1, <2>4, <2>5, AnsweredBook
<1>3. CASE GiveUp(s) /\ man' = man /\ applied' = applied
  BY <1>1, <1>3, GivesUpBook
<1> QED
  BY <1>2, <1>3, TryPushIs, SavingBook

LEMMA SettleBook == ASSUME Inv, NEW s \in Servers, Settle(s) PROVE BookStep
<1> DEFINE c == call[s]
           r == ReadBack(c.first, man, c.doc.writer)
<1>1. man' = man /\ applied' = applied /\ c.st = "settle"
  BY DEF Settle
<1>2. CASE r = "ok" /\ Succeed(s, c, c.doc)
  <2>1. man.writer = c.doc.writer
    BY <1>2 DEF ReadBack
  <2>2. CASE c.kind = "push"
    <3>1. Live(s)
      BY <1>1, <2>2 DEF Live
    <3>2. PICK p \in Pushes : p = c.push /\ push[p].st = "commit"
      BY <3>1 DEF Inv, Linked
    <3>3. \E a \in applied : a.push = p /\ a.ok = c.ok
      BY <1>1, <2>1, <3>1, <3>2 DEF Inv, Informed, OnCall
    <3>4. push' = Answer(p, c.ok)
      BY <1>2, <2>2, <3>2 DEF Succeed
    <3> QED
      BY <1>1, <3>2, <3>3, <3>4, AnsweredBook
  <2>3. CASE c.kind # "push"
    <3>1. push' = push
      BY <1>2, <2>3 DEF Succeed
    <3> QED
      BY <1>1, <3>1, NothingBook
  <2> QED
    BY <2>2, <2>3
<1>3. CASE push' = push
  BY <1>1, <1>3, NothingBook
<1>4. CASE GiveUp(s)
  BY <1>1, <1>4, GivesUpBook
<1> QED
  BY <1>2, <1>3, <1>4 DEF Settle

LEMMA CrashBook == ASSUME Inv, NEW s \in Servers, Crash(s) PROVE BookStep
<1>1. man' = man /\ applied' = applied
      /\ push' = [p \in Pushes |-> IF push[p].s = s /\ push[p].st # "done"
                                   THEN [push[p] EXCEPT !.st = "done"] ELSE push[p]]
  BY DEF Crash
<1>2. PICK ps : ps = {p \in Pushes : push[p].s = s /\ push[p].st # "done"}
  OBVIOUS
<1>3. ASSUME NEW p \in ps PROVE Awaits(p) /\ push[p].res = {}
  <2>1. push[p].st # "new"
    BY <1>2, ServersAssumption DEF Inv, Shapes, NoPush
  <2> QED
    BY <1>2, <2>1, UnderWay DEF Inv, Shapes
<1>4. ASSUME NEW p \in Pushes
      PROVE  /\ push'[p].cmds = push[p].cmds /\ push'[p].atomic = push[p].atomic
             /\ push'[p].res = push[p].res /\ push'[p].st = IF p \in ps THEN "done" ELSE push[p].st
  <2>1. DOMAIN push[p] = DOMAIN NoPush
    BY DEF Inv, Shapes
  <2>2. CASE p \in ps
    <3>1. push'[p] = [push[p] EXCEPT !.st = "done"]
      BY <1>1, <1>2, <2>2
    <3> QED
      BY <2>1, <2>2, <3>1 DEF NoPush
  <2>3. CASE p \notin ps
    BY <1>1, <1>2, <2>3
  <2> QED
    BY <2>2, <2>3
<1>5. Asks' = Asks /\ Wholes' = Wholes /\ Took' = Took
  BY <1>1, <1>4, AsksStay, TookStays
<1>6. Told' = [p \in Pushes |-> IF p \in ps THEN {} ELSE Told[p]]
  BY <1>3, <1>4 DEF Told
<1>7. ps \subseteq {p \in Pushes : Awaits(p)}
  BY <1>2, <1>3
<1>8. Book!Die
  BY <1>1, <1>5, <1>6, <1>7, BookDie
<1> QED
  BY <1>8 DEF BookStep, Book!BookNext

LEMMA PushStartBook == ASSUME Inv, NEW p \in Pushes, NEW s \in Servers, PushStart(p, s) PROVE BookStep
<1>1. push[p] = NoPush /\ man' = man /\ applied' = applied
  BY DEF PushStart
<1>2. PICK x : /\ push' = [push EXCEPT ![p] = x] /\ x.st = "checked" /\ AskOk(x.cmds) /\ x.atomic \in BOOLEAN
  BY PushStartIs
<1>3. push'[p] = x /\ \A q \in Pushes \ {p} : push'[q] = push[q]
  BY <1>2 DEF Inv, Shapes
<1>4. push[p].st = "new" /\ push[p].cmds = <<>>
  BY <1>1 DEF NoPush
<1>5. PICK f : f = x.cmds
  OBVIOUS
<1>6. PICK rs : rs = DOMAIN f
  OBVIOUS
<1>7. rs \in (SUBSET Refs) \ {{}} /\ f \in [rs -> [old : Values, new : Values]]
  BY <1>2, <1>5, <1>6 DEF AskOk
<1>8. Asks' = [Asks EXCEPT ![p] = f]
  <2>1. Asks' = [q \in Pushes |-> IF q = p THEN f ELSE push[q].cmds]
    BY <1>3, <1>5 DEF Asks
  <2> QED
    BY <2>1 DEF Asks
<1>9. Wholes' = [Wholes EXCEPT ![p] = x.atomic]
  <2>1. Wholes' = [q \in Pushes |-> IF q = p THEN x.atomic ELSE push[q].atomic]
    BY <1>3 DEF Wholes
  <2> QED
    BY <2>1 DEF Wholes
<1>10. Took' = Took /\ Told' = Told
  <2>1. \A q \in Pushes : \/ push'[q].st = push[q].st /\ push'[q].res = push[q].res
                          \/ push[q].st # "done" /\ push'[q].st # "done"
    BY <1>2, <1>3, <1>4
  <2> QED
    BY <1>1, <2>1, TookStays, ToldStays
<1>11. Asks[p] = <<>>
  BY <1>4 DEF Asks
<1>12. Book!Ask(p)
  BY <1>1, <1>2, <1>7, <1>8, <1>9, <1>10, <1>11, BookAsk
<1> QED
  BY <1>12 DEF BookStep, Book!BookNext

\* A push that goes on, unanswered.
LEMMA GoesOnBook ==
    ASSUME Inv, man' = man, applied' = applied, NEW p \in Pushes, push[p].st # "done", NEW x,
           push' = [push EXCEPT ![p] = x], x.st # "done", x.cmds = push[p].cmds, x.atomic = push[p].atomic
    PROVE  BookStep
<1>1. push'[p] = x /\ \A q \in Pushes \ {p} : push'[q] = push[q]
  BY DEF Inv, Shapes
<1>2. Asks' = Asks /\ Wholes' = Wholes
  BY <1>1, AsksStay
<1>3. \A q \in Pushes : \/ push'[q].st = push[q].st /\ push'[q].res = push[q].res
                        \/ push[q].st # "done" /\ push'[q].st # "done"
  BY <1>1
<1>4. Took' = Took /\ Told' = Told
  BY <1>3, TookStays, ToldStays
<1> QED
  BY <1>2, <1>4, BookStays DEF BookStep

LEMMA PushUploadBook == ASSUME Inv, NEW p \in Pushes, PushUpload(p) PROVE BookStep
<1>1. push[p].st = "checked" /\ man' = man /\ applied' = applied /\ DOMAIN push[p] = DOMAIN NoPush
  BY DEF PushUpload, Inv, Shapes
<1>2. CASE push' = [push EXCEPT ![p] = [@ EXCEPT !.st = "uploaded", !.pack = NewPack]]
  <2>1. PICK x : x = [push[p] EXCEPT !.st = "uploaded", !.pack = NewPack]
    OBVIOUS
  <2>2. x.st = "uploaded" /\ x.cmds = push[p].cmds /\ x.atomic = push[p].atomic
    BY <1>1, <2>1 DEF NoPush
  <2>3. push' = [push EXCEPT ![p] = x]
    BY <1>2, <2>1
  <2> QED
    BY <1>1, <2>2, <2>3, GoesOnBook
<1>3. CASE push' = Answer(p, {})
  BY <1>1, <1>3, AnsweredBook
<1> QED
  BY <1>2, <1>3 DEF PushUpload

LEMMA PushCommitBook == ASSUME Inv, NEW p \in Pushes, PushCommit(p) PROVE BookStep
<1>1. push[p].st \in {"checked", "uploaded"} /\ man' = man /\ applied' = applied /\ DOMAIN push[p] = DOMAIN NoPush
  BY DEF PushCommit, Inv, Shapes
<1>2. CASE push' = [push EXCEPT ![p].st = "commit"]
  <2>1. PICK x : x = [push[p] EXCEPT !.st = "commit"]
    OBVIOUS
  <2>2. x.st = "commit" /\ x.cmds = push[p].cmds /\ x.atomic = push[p].atomic
    BY <1>1, <2>1 DEF NoPush
  <2>3. push' = [push EXCEPT ![p] = x]
    BY <1>2, <2>1
  <2> QED
    BY <1>1, <2>2, <2>3, GoesOnBook
<1>3. CASE push' = Answer(p, {})
  BY <1>1, <1>3, AnsweredBook
<1> QED
  BY <1>2, <1>3 DEF PushCommit

LEMMA JobBook ==
    ASSUME Inv, NEW s \in Servers, \/ CollectStart(s) \/ CollectUpload(s) \/ TryCollect(s)
                                   \/ RepackStart(s) \/ RepackUpload(s) \/ TryRepack(s)
    PROVE  BookStep
<1>1. CASE CollectStart(s) \/ RepackStart(s)
  BY <1>1, NothingBook DEF CollectStart, RepackStart
<1>2. CASE CollectUpload(s) \/ RepackUpload(s)
  <2>1. man' = man /\ applied' = applied /\ push' = push
    BY <1>2 DEF CollectUpload, RepackUpload, JobUpload
  <2> QED
    BY <2>1, NothingBook
<1>3. CASE TryCollect(s) \/ TryRepack(s)
  <2>1. JobLanded(s) \/ JobGivesUp(s) \/ Saving(s)
    BY <1>3, TryCollectIs, TryRepackIs
  <2>2. call[s].st = "try"
    BY <1>3 DEF TryCollect, TryRepack
  <2>3. CASE JobLanded(s)
    BY <2>3, NothingBook DEF JobLanded
  <2>4. CASE JobGivesUp(s)
    BY <2>2, <2>4, GivesUpBook DEF JobGivesUp
  <2> QED
    BY <2>1, <2>3, <2>4, SavingBook
<1> QED
  BY <1>1, <1>2, <1>3

LEMMA RoundBook ==
    ASSUME Inv, NEW s \in Servers, \/ Round(s) \/ Sweep(s) \/ TrySweep(s) \/ Orphans(s) \/ Consider(s)
                                   \/ TryPrune(s) \/ Merge(s)
    PROVE  BookStep
<1>1. CASE Round(s) \/ Sweep(s) \/ Orphans(s) \/ Consider(s) \/ Merge(s)
  BY <1>1, NothingBook DEF Round, Sweep, Orphans, Consider, Merge
<1>2. CASE TrySweep(s) \/ TryPrune(s)
  <2>1. (man' = man /\ applied' = applied /\ push' = push) \/ Saving(s)
    BY <1>2, TrySweepIs, TryPruneIs
  <2> QED
    BY <2>1, NothingBook, SavingBook
<1> QED
  BY <1>1, <1>2

LEMMA CommonBook == ASSUME Inv, Common PROVE BookStep
<1>1. ASSUME NEW s \in Servers, Load(s) \/ Look(s) \/ Reset(s) \/ Cleanup(s) PROVE BookStep
  BY <1>1, NothingBook DEF Load, Look, Reset, Cleanup
<1>2. ASSUME Tick PROVE BookStep
  BY <1>2, NothingBook DEF Tick
<1> QED
  BY <1>1, <1>2, CrashBook, SettleBook, ArriveBook DEF Common

LEMMA ServeBook == ASSUME Inv, Serve PROVE BookStep
<1>1. ASSUME NEW s \in Servers, FetchStart(s) \/ FetchEnd(s) PROVE BookStep
  BY <1>1, NothingBook DEF FetchStart, FetchEnd
<1>2. ASSUME NEW s \in Servers, NEW r \in Refs, NEW o \in Objs, Restore(s, r, o) PROVE BookStep
  BY <1>2, NothingBook DEF Restore
<1>3. ASSUME NEW s \in Servers, TryRestore(s) PROVE BookStep
  <2>1. (man' = man /\ applied' = applied /\ push' = push) \/ Saving(s)
    BY <1>3, TryRestoreIs
  <2> QED
    BY <2>1, NothingBook, SavingBook
<1> QED
  BY <1>1, <1>2, <1>3, PushStartBook, PushUploadBook, PushCommitBook, TryPushBook DEF Serve

LEMMA MaintainBook == ASSUME Inv, Maintain PROVE BookStep
<1>1. ASSUME NEW s \in Servers, NEW kind, Request(s, kind) PROVE BookStep
  BY <1>1, NothingBook DEF Request
<1> QED
  BY <1>1, JobBook, RoundBook DEF Maintain

LEMMA InitBook == Init => Book!BookInit
<1> SUFFICES ASSUME Init PROVE Book!BookInit
  OBVIOUS
<1>1. push = [p \in Pushes |-> NoPush] /\ applied = {}
  BY DEF Init
<1>2. NoPush.st = "new" /\ NoPush.cmds = <<>> /\ NoPush.atomic = FALSE
  BY DEF NoPush
<1>3. Asks = [p \in Pushes |-> <<>>] /\ Wholes = [p \in Pushes |-> FALSE]
  BY <1>1, <1>2 DEF Asks, Wholes
<1>4. Told = [p \in Pushes |-> {Nil}]
  BY <1>1, <1>2 DEF Told
<1>5. Took = [p \in Pushes |-> {}]
  BY <1>1 DEF Took
<1>6. man.refs \in [Refs -> Objs \cup {Nil}]
  BY InitInv, ManTyped DEF IsDoc, Values
<1> QED
  BY <1>3, <1>4, <1>5, <1>6, Zenon DEF Book!BookInit, Asks, Wholes, Took, Told

\* The refs are one book, moved by whole pushes in one step each, and a client is told
\* of what was done and nothing else: Depot implements RefBook.
THEOREM Refinement == Spec => OneRefBook
<1>1. Init => Book!BookInit
  BY InitBook
<1>2. ASSUME Inv, [Next]_vars PROVE [Book!BookNext]_(Book!bookVars)
  <2>1. CASE Next
    BY <1>2, <2>1, CommonBook, ServeBook, MaintainBook DEF Next, BookStep
  <2>2. CASE UNCHANGED vars
    BY <2>2, NothingBook DEF vars, BookStep
  <2> QED
    BY <1>2, <2>1, <2>2
<1> QED
  BY <1>1, <1>2, Invariant, PTL DEF Spec, OneRefBook, Book!BookSpec

\* What holds of the repository holds of one without background work.
LEMMA ServesOnly == ServeSpec => Spec
<1>1. [Common \/ Serve]_vars => [Next]_vars
  BY DEF Next
<1> QED
  BY <1>1, PTL DEF ServeSpec, Spec

-------------------------------------------------------------------------------
(***************************************************************************)
(* No pack of the manifest is ever missing from the bucket.                *)
(***************************************************************************)

\* The inductive invariant.

\* A call that commits the pack of a job, and one that may still list it.
OfJob(s) == call[s].kind \in {"collect", "repack"}
Committing(s) == OfJob(s) /\ call[s].st # "cleanup"

\* A pack under way: uploaded, and it may still be listed.
Borne(k) == /\ k # 0
            /\ \/ \E p \in Pushes : push[p].st \in {"uploaded", "commit"} /\ push[p].pack = k
               \/ \E s \in Servers : Committing(s) /\ call[s].pack = k

\* What was ever stored was made, at some time.
Dated == /\ \A k \in 1..Len(made) : made[k].at \in Nat
         /\ stored \subseteq 1..Len(made)

\* A pack under way is in the bucket, too young for an orphan, and was not retired
\* before this tick.
Carried ==
    /\ \A k \in 1..Len(made) : Borne(k) => k \in stored /\ ~(made[k].at <= clock - OrphanAge)
    /\ \A s \in Servers : Committing(s) =>
          \A x \in man.retired : x.id = call[s].pack => x.at = clock

\* No two jobs have one pack, and only pushes and jobs have one.
JobsApart ==
    /\ \A s, r \in Servers : OfJob(s) /\ OfJob(r) /\ call[s].pack = call[r].pack => s = r \/ call[s].pack = 0
    /\ \A s \in Servers : ~OfJob(s) /\ call[s].kind # "push" => call[s].pack = 0

\* A pack to be looked into after a failure is under way no more, and unlisted if it was
\* never offered.
Cleaning ==
    \A s \in Servers : call[s].st = "cleanup" =>
       /\ call[s].pack \in 0..Len(made) /\ \A k \in 1..Len(made) : Borne(k) => call[s].pack # k
       /\ call[s].kind = "push" /\ ~call[s].tried => call[s].pack \notin ToSet(man.packs)

\* Packs about to be deleted, or just deleted, are neither live nor under way.
Orphaning ==
    \A s \in Servers : call[s].kind \in {"orphans", "sweep"} =>
       \A k \in call[s].gone : k \in 1..Len(made) /\ k \notin ToSet(man.packs) /\ ~Borne(k)

PackInv == Dated /\ Carried /\ JobsApart /\ Cleaning /\ Orphaning /\ ListedStored

-------------------------------------------------------------------------------
\* What a step may do to the packs.

LEMMA BorneMade == ASSUME Inv, NEW k, Borne(k) PROVE k \in 1..Len(made) /\ Len(made) \in Nat
<1>1. Len(made) \in Nat
  BY DEF Inv, Shapes
<1>2. ASSUME NEW p \in Pushes, push[p].pack = k PROVE k \in 0..Len(made)
  BY <1>2 DEF Inv, Shapes
<1>3. ASSUME NEW s \in Servers, Committing(s), call[s].pack = k PROVE k \in 0..Len(made)
  BY <1>3 DEF Committing, OfJob, Inv, Apart
<1> QED
  BY <1>1, <1>2, <1>3 DEF Borne

\* The call that s has next.
CallFits(s) ==
    LET c == call'[s] IN
    /\ c.kind \in {"collect", "repack"} =>
          c.pack = 0 \/ c.pack = Len(made) + 1 \/ (OfJob(s) /\ c.pack = call[s].pack)
    /\ c.kind \in {"collect", "repack"} /\ c.st # "cleanup" =>
          c.pack = Len(made) + 1 \/ (Committing(s) /\ c.pack = call[s].pack)
    /\ c.kind \notin {"push", "collect", "repack"} => c.pack = 0
    /\ c.st = "cleanup" =>
          /\ c.pack \in 0..Len(made) /\ \A k : Borne(k)' => c.pack # k
          /\ c.kind = "push" /\ ~c.tried => c.pack \notin ToSet(man'.packs)
    /\ c.kind \in {"orphans", "sweep"} =>
          \A k \in c.gone : k \in 1..Len(made) /\ k \notin ToSet(man.packs) /\ ~Borne(k)

\* A step of s uploads one pack at most, lists none but those under way, and deletes
\* neither those nor what is listed.
PackStep(s) ==
    /\ Grows /\ clock' = clock
    /\ \A k \in (Len(made) + 1)..Len(made') : made'[k].at = clock
    /\ stored' \subseteq stored \cup 1..Len(made')
    /\ \A k : Borne(k)' => Borne(k) \/ (k = Len(made) + 1 /\ k \in 1..Len(made') /\ k \in stored')
    /\ \A k \in ToSet(man'.packs) : k \in ToSet(man.packs) \/ Borne(k)
    /\ \A x \in man'.retired : x \in man.retired \/ x.at = clock
    /\ \A k \in stored : k \in stored' \/ (~Borne(k) /\ k \notin ToSet(man.packs))
    /\ \A r \in Servers \ {s} : call'[r] = call[r]
    /\ CallFits(s)

LEMMA StepDated == ASSUME Inv, PackInv, NEW s \in Servers, PackStep(s) PROVE Dated'
<1>1. Len(made) \in Nat /\ Len(made') \in Nat /\ Len(made) <= Len(made') /\ clock \in Nat
  BY GrowsMore DEF PackStep, Inv, Shapes
<1>2. ASSUME NEW k \in 1..Len(made') PROVE made'[k].at \in Nat
  <2>1. k \in 1..Len(made) \/ k \in (Len(made) + 1)..Len(made')
    BY <1>1
  <2>2. CASE k \in 1..Len(made)
    <3>1. made'[k] = made[k]
      BY <2>2 DEF PackStep, Grows
    <3> QED
      BY <2>2, <3>1 DEF PackInv, Dated
  <2>3. CASE k \in (Len(made) + 1)..Len(made')
    BY <1>1, <2>3 DEF PackStep
  <2> QED
    BY <2>1, <2>2, <2>3
<1>3. stored' \subseteq 1..Len(made')
  BY <1>1 DEF PackStep, PackInv, Dated
<1> QED
  BY <1>2, <1>3 DEF Dated

LEMMA StepCarried == ASSUME Inv, PackInv, NEW s \in Servers, PackStep(s) PROVE Carried'
<1>1. Len(made) \in Nat /\ clock \in Nat /\ clock' = clock /\ OrphanAge \in Nat /\ OrphanAge > 0
  BY GraceAssumption, ConstantsAssumption DEF PackStep, Inv, Shapes
<1>2. ASSUME NEW k \in 1..Len(made'), Borne(k)' PROVE k \in stored' /\ ~(made'[k].at <= clock - OrphanAge)
  <2>1. CASE Borne(k)
    <3>1. k \in 1..Len(made)
      BY <2>1, BorneMade
    <3>2. k \in stored /\ ~(made[k].at <= clock - OrphanAge)
      BY <2>1, <3>1 DEF PackInv, Carried
    <3>3. made'[k] = made[k]
      BY <3>1 DEF PackStep, Grows
    <3> QED
      BY <2>1, <3>2, <3>3 DEF PackStep
  <2>2. CASE k = Len(made) + 1 /\ k \in 1..Len(made') /\ k \in stored'
    <3>1. made'[k].at = clock
      BY <1>1, <2>2 DEF PackStep
    <3> QED
      BY <1>1, <2>2, <3>1
  <2> QED
    BY <1>2, <2>1, <2>2 DEF PackStep
<1>3. ASSUME NEW r \in Servers, Committing(r)', NEW x \in man'.retired, x.id = call'[r].pack PROVE x.at = clock
  <2>1. CASE x \notin man.retired
    BY <2>1 DEF PackStep
  <2>2. CASE x \in man.retired /\ Committing(r) /\ call'[r].pack = call[r].pack
    BY <1>3, <2>2 DEF PackInv, Carried
  <2>3. CASE x \in man.retired /\ call'[r].pack = Len(made) + 1
    <3>1. x.id \in 1..Len(made)
      BY <2>3, ManTyped DEF IsDoc
    <3> QED
      BY <1>1, <1>3, <2>3, <3>1
  <2>4. (Committing(r) /\ call'[r].pack = call[r].pack) \/ call'[r].pack = Len(made) + 1
    <3>1. CASE r = s
      BY <1>3, <3>1 DEF PackStep, CallFits, Committing, OfJob
    <3>2. CASE r # s
      BY <1>3, <3>2 DEF PackStep, Committing, OfJob
    <3> QED
      BY <3>1, <3>2
  <2> QED
    BY <2>1, <2>2, <2>3, <2>4
<1> QED
  BY <1>1, <1>2, <1>3 DEF Carried

LEMMA StepJobs == ASSUME Inv, PackInv, NEW s \in Servers, PackStep(s) PROVE JobsApart'
<1>1. Len(made) \in Nat
  BY DEF Inv, Shapes
<1>2. ASSUME NEW r \in Servers, OfJob(r)
      PROVE  call[r].pack \in 0..Len(made) /\ call[r].pack # Len(made) + 1
  BY <1>1, <1>2 DEF OfJob, Inv, Apart
<1>3. ASSUME NEW r \in Servers \ {s} PROVE call'[r] = call[r] /\ (OfJob(r)' <=> OfJob(r))
  BY DEF PackStep, OfJob
<1>4. ASSUME NEW r \in Servers \ {s}, OfJob(s)', OfJob(r)', call'[s].pack = call'[r].pack PROVE call'[s].pack = 0
  <2>1. OfJob(r) /\ call'[r].pack = call[r].pack
    BY <1>3, <1>4
  <2>2. call'[s].pack = 0 \/ call'[s].pack = Len(made) + 1 \/ (OfJob(s) /\ call'[s].pack = call[s].pack)
    BY <1>4 DEF PackStep, CallFits, OfJob
  <2> QED
    BY <1>2, <1>4, <2>1, <2>2 DEF PackInv, JobsApart
<1>5. ASSUME NEW r \in Servers, NEW q \in Servers, OfJob(r)', OfJob(q)', call'[r].pack = call'[q].pack
      PROVE  r = q \/ call'[r].pack = 0
  <2>1. CASE r # s /\ q # s
    BY <1>3, <1>5, <2>1 DEF PackInv, JobsApart
  <2>2. CASE r = s \/ q = s
    BY <1>4, <1>5, <2>2
  <2> QED
    BY <2>1, <2>2
<1>6. ASSUME NEW r \in Servers, ~OfJob(r)', call'[r].kind # "push" PROVE call'[r].pack = 0
  <2>1. CASE r = s
    BY <1>6, <2>1 DEF PackStep, CallFits, OfJob
  <2>2. CASE r # s
    BY <1>3, <1>6, <2>2 DEF PackInv, JobsApart
  <2> QED
    BY <2>1, <2>2
<1> QED
  BY <1>5, <1>6 DEF JobsApart

LEMMA StepCleaning == ASSUME Inv, PackInv, NEW s \in Servers, PackStep(s) PROVE Cleaning'
<1>1. Len(made) \in Nat /\ Len(made') \in Nat /\ Len(made) <= Len(made')
  BY GrowsMore DEF PackStep
<1>2. ASSUME NEW r \in Servers, call'[r].st = "cleanup"
      PROVE  /\ call'[r].pack \in 0..Len(made) /\ \A k : Borne(k)' => call'[r].pack # k
             /\ call'[r].kind = "push" /\ ~call'[r].tried => call'[r].pack \notin ToSet(man'.packs)
  <2>1. CASE r = s
    BY <1>2, <2>1 DEF PackStep, CallFits
  <2>2. CASE r # s
    <3>1. call'[r] = call[r]
      BY <2>2 DEF PackStep
    <3>2. call[r].pack \in 0..Len(made)
      BY <1>2, <3>1 DEF PackInv, Cleaning
    <3>3. ASSUME NEW k, Borne(k) PROVE call[r].pack # k
      BY <1>2, <3>1, <3>3, BorneMade DEF PackInv, Cleaning
    <3>4. ASSUME NEW k, Borne(k)' PROVE call[r].pack # k
      BY <1>1, <3>2, <3>3, <3>4 DEF PackStep
    <3>5. ASSUME call[r].kind = "push", ~call[r].tried PROVE call[r].pack \notin ToSet(man'.packs)
      BY <1>2, <3>1, <3>3, <3>5 DEF PackStep, PackInv, Cleaning
    <3> QED
      BY <3>1, <3>2, <3>4, <3>5
  <2> QED
    BY <2>1, <2>2
<1>3. 0..Len(made) \subseteq 0..Len(made')
  BY <1>1
<1> QED
  BY <1>2, <1>3 DEF Cleaning

LEMMA StepOrphaning == ASSUME Inv, PackInv, NEW s \in Servers, PackStep(s) PROVE Orphaning'
<1>1. Len(made) \in Nat /\ Len(made') \in Nat /\ Len(made) <= Len(made')
  BY GrowsMore DEF PackStep
<1>2. ASSUME NEW r \in Servers, call'[r].kind \in {"orphans", "sweep"}, NEW k \in call'[r].gone
      PROVE  k \in 1..Len(made) /\ k \notin ToSet(man.packs) /\ ~Borne(k)
  <2>1. CASE r = s
    BY <1>2, <2>1 DEF PackStep, CallFits
  <2>2. CASE r # s
    BY <1>2, <2>2 DEF PackStep, PackInv, Orphaning
  <2> QED
    BY <2>1, <2>2
<1>3. ASSUME NEW k \in 1..Len(made), k \notin ToSet(man.packs), ~Borne(k)
      PROVE  k \in 1..Len(made') /\ k \notin ToSet(man'.packs) /\ ~Borne(k)'
  BY <1>1, <1>3 DEF PackStep
<1> QED
  BY <1>2, <1>3 DEF Orphaning

LEMMA StepKeeps == ASSUME Inv, PackInv, NEW s \in Servers, PackStep(s) PROVE PackInv'
<1>1. ListedStored'
  <2>1. ASSUME NEW k \in ToSet(man'.packs) PROVE k \in stored'
    <3>1. CASE k \in ToSet(man.packs)
      BY <3>1 DEF PackStep, PackInv, ListedStored
    <3>2. CASE Borne(k)
      <4>1. k \in stored
        BY <3>2, BorneMade DEF PackInv, Carried
      <4> QED
        BY <3>2, <4>1 DEF PackStep
    <3> QED
      BY <3>1, <3>2 DEF PackStep
  <2> QED
    BY <2>1 DEF ListedStored
<1> QED
  BY <1>1, StepDated, StepCarried, StepJobs, StepCleaning, StepOrphaning DEF PackInv

-------------------------------------------------------------------------------
\* Steps that upload nothing and leave the manifest as it is.

\* The push bears no more than it did.
Eased(p) ==
    push'[p].st \in {"uploaded", "commit"} =>
       push'[p].pack = 0 \/ (push[p].st \in {"uploaded", "commit"} /\ push'[p].pack = push[p].pack)

\* What such a step of s leaves alone, and what it may delete.
Ease(s) ==
    /\ man' = man /\ made' = made /\ clock' = clock
    /\ stored' \subseteq stored
    /\ \A k \in stored : k \in stored' \/ (~Borne(k) /\ k \notin ToSet(man.packs))
    /\ \A r \in Servers \ {s} : call'[r] = call[r]
    /\ \A p \in Pushes : Eased(p)

\* A call that brings nothing with it.
Plain(c) == /\ c.st # "cleanup" /\ c.kind \notin {"collect", "repack"}
            /\ c.kind # "push" => c.pack = 0
            /\ c.kind \in {"orphans", "sweep"} => c.gone = {}

LEMMA BorneEases ==
    ASSUME \A p \in Pushes : Eased(p),
           \A r \in Servers : Committing(r)' => Committing(r) /\ call'[r].pack = call[r].pack,
           NEW k, Borne(k)'
    PROVE  Borne(k)
<1>1. k # 0
  BY DEF Borne
<1>2. ASSUME NEW p \in Pushes, push'[p].st \in {"uploaded", "commit"}, push'[p].pack = k PROVE Borne(k)
  BY <1>1, <1>2 DEF Borne, Eased
<1>3. ASSUME NEW r \in Servers, Committing(r)', call'[r].pack = k PROVE Borne(k)
  BY <1>1, <1>3 DEF Borne
<1> QED
  BY <1>2, <1>3 DEF Borne

LEMMA EaseKeeps ==
    ASSUME Inv, PackInv, NEW s \in Servers, Ease(s), CallFits(s),
           Committing(s)' => Committing(s) /\ call'[s].pack = call[s].pack
    PROVE  PackInv'
<1>1. Grows /\ Len(made) \in Nat
  BY MadeStays DEF Ease, Inv, Shapes
<1>2. ASSUME NEW r \in Servers, Committing(r)' PROVE Committing(r) /\ call'[r].pack = call[r].pack
  <2>1. CASE r = s
    BY <1>2, <2>1
  <2>2. CASE r # s
    BY <1>2, <2>2 DEF Ease, Committing, OfJob
  <2> QED
    BY <2>1, <2>2
<1>3. \A k : Borne(k)' => Borne(k)
  BY <1>2, BorneEases DEF Ease
<1>4. (Len(made) + 1)..Len(made') = {}
  BY <1>1 DEF Ease
<1>5. PackStep(s)
  BY <1>1, <1>3, <1>4 DEF PackStep, Ease
<1> QED
  BY <1>5, StepKeeps

LEMMA PlainKeeps == ASSUME Inv, PackInv, NEW s \in Servers, Ease(s), Plain(call'[s]) PROVE PackInv'
<1>1. CallFits(s)
  BY DEF Plain, CallFits
<1>2. ~Committing(s)'
  BY DEF Plain, Committing, OfJob
<1> QED
  BY <1>1, <1>2, EaseKeeps

LEMMA PlainNext == ASSUME NEW c \in NextCalls PROVE Plain(c)
<1>1. /\ c.st = "try" /\ c.pack = 0 /\ c.gone = {}
      /\ c.kind \in {"none", "orphans", "consider", "merge"}
  BY DEF NextCalls, Call, NoCall
<1> QED
  BY <1>1 DEF Plain

LEMMA PlainFree == ASSUME NEW s \in Servers, Free(s) PROVE Plain(call[s]) /\ ~Committing(s)
<1>1. NoCall \in NextCalls
  BY DEF NextCalls
<1>2. Plain(NoCall)
  BY <1>1, PlainNext
<1> QED
  BY <1>2 DEF Free, Plain, Committing, OfJob

LEMMA DonePlain == ASSUME Inv, NEW s \in Servers, Done(s) PROVE Plain(call'[s]) /\ \A r \in Servers \ {s} : call'[r] = call[r]
  BY DoneIs, PlainNext

LEMMA PushStaysEased == ASSUME push' = push PROVE \A p \in Pushes : Eased(p)
  BY DEF Eased

LEMMA AnswerEased == ASSUME Inv, NEW p \in Pushes, NEW res, push' = Answer(p, res) PROVE \A q \in Pushes : Eased(q)
<1>1. push'[p].st = "done" /\ \A q \in Pushes \ {p} : push'[q] = push[q]
  BY AnswerIs
<1> QED
  BY <1>1 DEF Eased

\* The bucket and the manifest as they are.
Still == man' = man /\ made' = made /\ clock' = clock /\ stored' = stored

LEMMA StillEase ==
    ASSUME NEW s \in Servers, Still, \A r \in Servers \ {s} : call'[r] = call[r], \A p \in Pushes : Eased(p)
    PROVE  Ease(s)
  BY DEF Ease, Still

\* Nothing but the copy, or a push that is not uploaded, and no call.
LEMMA FreeKeeps ==
    ASSUME Inv, PackInv, NEW s \in Servers, Free(s), Still, call' = call, \A p \in Pushes : Eased(p)
    PROVE  PackInv'
<1>1. Ease(s) /\ Plain(call'[s])
  BY StillEase, PlainFree
<1> QED
  BY <1>1, PlainKeeps

\* A call begins.
LEMMA BeginsKeeps ==
    ASSUME Inv, PackInv, NEW s \in Servers, Still, NEW c, call' = [call EXCEPT ![s] = c], Plain(c),
           \A p \in Pushes : Eased(p)
    PROVE  PackInv'
<1>1. call'[s] = c /\ \A r \in Servers \ {s} : call'[r] = call[r]
  BY DEF Inv, Shapes
<1> QED
  BY <1>1, StillEase, PlainKeeps

\* A call is over.
LEMMA DoneKeeps ==
    ASSUME Inv, PackInv, NEW s \in Servers, Still, Done(s), \A p \in Pushes : Eased(p)
    PROVE  PackInv'
  BY DonePlain, StillEase, PlainKeeps

-------------------------------------------------------------------------------
\* The copy, requests, and the round.

LEMMA CopyPacks ==
    ASSUME Inv, PackInv, NEW s \in Servers, Load(s) \/ Look(s) \/ Reset(s) \/ FetchStart(s) \/ FetchEnd(s)
    PROVE  PackInv'
<1>1. Free(s) /\ Still /\ call' = call /\ push' = push
  BY DEF Load, Look, Reset, FetchStart, FetchEnd, Open, Still
<1> QED
  BY <1>1, PushStaysEased, FreeKeeps

LEMMA RequestPacks == ASSUME Inv, PackInv, NEW s \in Servers, NEW kind, Request(s, kind) PROVE PackInv'
<1>1. Free(s) /\ Still /\ call' = call /\ push' = push
  BY DEF Request, Open, Still
<1> QED
  BY <1>1, PushStaysEased, FreeKeeps

LEMMA RepackStartPacks == ASSUME Inv, PackInv, NEW s \in Servers, RepackStart(s) PROVE PackInv'
<1>1. Free(s) /\ Still /\ call' = call /\ push' = push
  BY DEF RepackStart, Resting, Still
<1> QED
  BY <1>1, PushStaysEased, FreeKeeps

LEMMA RestorePacks ==
    ASSUME Inv, PackInv, NEW s \in Servers, NEW r \in Refs, NEW o \in Objs, Restore(s, r, o) PROVE PackInv'
<1>1. PICK c : c = [Call("restore") EXCEPT !.ref = r, !.id = o]
  OBVIOUS
<1>2. Plain(c)
  BY <1>1 DEF Plain, Call, NoCall
<1>3. Still /\ call' = [call EXCEPT ![s] = c] /\ push' = push
  BY <1>1 DEF Restore, Still
<1> QED
  BY <1>2, <1>3, PushStaysEased, BeginsKeeps

LEMMA CollectStartPacks == ASSUME Inv, PackInv, NEW s \in Servers, CollectStart(s) PROVE PackInv'
<1>1. PICK c : c = [Call("prune") EXCEPT !.cut = Cutoff(FALSE)]
  OBVIOUS
<1>2. Plain(c)
  BY <1>1 DEF Plain, Call, NoCall
<1>3. Free(s) /\ Still /\ push' = push /\ (call' = call \/ call' = [call EXCEPT ![s] = c])
  BY <1>1 DEF CollectStart, Resting, Still
<1> QED
  BY <1>2, <1>3, PushStaysEased, BeginsKeeps, FreeKeeps

LEMMA RoundPacks == ASSUME Inv, PackInv, NEW s \in Servers, Round(s) PROVE PackInv'
<1>1. PICK c : c = Call("sweep")
  OBVIOUS
<1>2. Plain(c)
  BY <1>1 DEF Plain, Call, NoCall
<1>3. Still /\ call' = [call EXCEPT ![s] = c] /\ push' = push
  BY <1>1 DEF Round, Still
<1> QED
  BY <1>2, <1>3, PushStaysEased, BeginsKeeps

LEMMA ConsiderPacks == ASSUME Inv, PackInv, NEW s \in Servers, Consider(s) PROVE PackInv'
<1>1. PICK d : d = [Call("prune") EXCEPT !.cut = clock - Keep, !.round = TRUE]
  OBVIOUS
<1>2. PICK c \in {NoCall, Call("merge"), d} : call' = [call EXCEPT ![s] = c]
  BY <1>1 DEF Consider
<1>3. Plain(d)
  BY <1>1 DEF Plain, Call, NoCall
<1>4. Plain(c)
  BY <1>2, <1>3, PlainNext DEF NextCalls
<1>5. Still /\ push' = push
  BY DEF Consider, Still
<1> QED
  BY <1>2, <1>4, <1>5, PushStaysEased, BeginsKeeps

LEMMA MergePacks == ASSUME Inv, PackInv, NEW s \in Servers, Merge(s) PROVE PackInv'
  BY PushStaysEased, DoneKeeps DEF Merge, Still

LEMMA CrashPacks == ASSUME Inv, PackInv, NEW s \in Servers, Crash(s) PROVE PackInv'
<1>1. Still /\ call' = [call EXCEPT ![s] = NoCall]
  BY DEF Crash, Still
<1>2. Plain(NoCall)
  BY PlainNext DEF NextCalls
<1>3. ASSUME NEW p \in Pushes PROVE Eased(p)
  <2>1. push'[p] = push[p] \/ push'[p] = [push[p] EXCEPT !.st = "done"]
    BY DEF Crash
  <2>2. PICK x : x = [push[p] EXCEPT !.st = "done"]
    OBVIOUS
  <2>3. x.st = "done"
    BY <2>2 DEF Inv, Shapes, NoPush
  <2> QED
    BY <2>1, <2>2, <2>3 DEF Eased
<1> QED
  BY <1>1, <1>2, <1>3, BeginsKeeps

-------------------------------------------------------------------------------
\* Packs are deleted.

\* A pack to be looked into is deleted if a manifest read afresh does not list it, or
\* at once if none ever did.
LEMMA CleanupPacks == ASSUME Inv, PackInv, NEW s \in Servers, Cleanup(s) PROVE PackInv'
<1> DEFINE ms == Revalidated(mem[s])
           k == call[s].pack
<1>1. call[s].st = "cleanup" /\ Done(s) /\ man' = man /\ made' = made /\ clock' = clock /\ push' = push
  BY DEF Cleanup
<1>2. ms.m = man
  BY RevalidatedIs
<1> HIDE DEF ms
<1>3. ~Borne(k)
  BY <1>1, BorneMade DEF PackInv, Cleaning
<1>4. \/ stored' = stored
      \/ stored' = stored \ {k} /\ k \notin ToSet(man.packs)
  <2>1. CASE call[s].kind = "push" /\ ~call[s].tried /\ stored' = stored \ {k}
    BY <1>1, <2>1 DEF PackInv, Cleaning
  <2>2. CASE stored' = IF Lists(ms.m, k) THEN stored ELSE stored \ {k}
    BY <1>2, <2>2 DEF Lists
  <2> QED
    BY <2>1, <2>2 DEF Cleanup, ms
<1>5. Ease(s)
  BY <1>1, <1>3, <1>4, DonePlain, PushStaysEased DEF Ease
<1> QED
  BY <1>1, <1>5, DonePlain, PlainKeeps

\* What was retired long enough ago is under way no more.
LEMMA SweepableIdle ==
    ASSUME Inv, PackInv, NEW spared, NEW k \in Sweepable(man, spared)
    PROVE  k \notin ToSet(man.packs) /\ ~Borne(k)
<1>1. k \notin ToSet(man.packs)
  BY DEF Sweepable
<1>2. \A p \in Pushes : push[p].st \in {"uploaded", "commit"} => push[p].pack # k
  BY SweepableApart
<1>3. ASSUME NEW s \in Servers, Committing(s), call[s].pack = k PROVE FALSE
  <2>1. PICK x \in man.retired : x.id = k /\ x.at <= clock - Grace
    BY DEF Sweepable
  <2>2. x.at = clock
    BY <1>3, <2>1 DEF PackInv, Carried
  <2>3. clock \in Nat /\ Grace \in Nat /\ Grace > 0
    BY GraceAssumption, ConstantsAssumption DEF Inv, Shapes
  <2> QED
    BY <2>1, <2>2, <2>3
<1> QED
  BY <1>1, <1>2, <1>3 DEF Borne

LEMMA SweepPacks == ASSUME Inv, PackInv, NEW s \in Servers, Sweep(s) PROVE PackInv'
<1> DEFINE ms == Revalidated(mem[s])
           old == Sweepable(ms.m, HeldAfter(s, ms))
<1>1. /\ call[s].kind = "sweep" /\ call[s].st = "try"
      /\ man' = man /\ made' = made /\ clock' = clock /\ push' = push
  BY DEF Sweep
<1>2. stored' \subseteq stored /\ stored \ stored' \subseteq old
  BY DEF Sweep
<1>3. Done(s) \/ call' = [call EXCEPT ![s].gone = old]
  BY DEF Sweep
<1>4. ASSUME NEW k \in old PROVE k \notin ToSet(man.packs) /\ ~Borne(k)
  <2>1. PICK spared : spared = HeldAfter(s, ms)
    OBVIOUS
  <2>2. ms.m = man
    BY RevalidatedIs
  <2> HIDE DEF ms
  <2>3. k \in Sweepable(man, spared)
    BY <2>1, <2>2
  <2> QED
    BY <2>3, SweepableIdle
<1>5. CASE Done(s)
  <2> HIDE DEF old
  <2>1. Ease(s)
    BY <1>1, <1>2, <1>4, <1>5, DonePlain, PushStaysEased DEF Ease
  <2> QED
    BY <1>5, <2>1, DonePlain, PlainKeeps
<1>6. CASE call' = [call EXCEPT ![s].gone = old]
  <2>1. PICK g : g = old
    OBVIOUS
  <2>2. ASSUME NEW k \in g PROVE k \in 1..Len(made) /\ k \notin ToSet(man.packs) /\ ~Borne(k)
    <3>1. ms.m = man
      BY RevalidatedIs
    <3>2. \E x \in man.retired : x.id = k
      BY <2>1, <2>2, <3>1 DEF Sweepable
    <3>3. k \in 1..Len(made)
      BY <3>2, ManTyped DEF IsDoc
    <3> HIDE DEF old
    <3> QED
      BY <1>4, <2>1, <2>2, <3>3
  <2> HIDE DEF old, ms
  <2>3. PICK c : c = [call[s] EXCEPT !.gone = g]
    OBVIOUS
  <2>4. call'[s] = c /\ \A r \in Servers \ {s} : call'[r] = call[r]
    BY <1>6, <2>1, <2>3 DEF Inv, Shapes
  <2>5. c.kind = "sweep" /\ c.gone = g /\ c.pack = call[s].pack /\ c.st = "try"
    BY <1>1, <2>3 DEF Inv, Shapes, NoCall
  <2>6. call[s].pack = 0
    BY <1>1 DEF PackInv, JobsApart, OfJob
  <2>7. ~Committing(s)'
    BY <2>4, <2>5 DEF Committing, OfJob
  <2>8. Ease(s)
    BY <1>1, <1>2, <1>4, <2>4, PushStaysEased DEF Ease
  <2>9. CallFits(s)
    BY <2>2, <2>4, <2>5, <2>6 DEF CallFits
  <2> QED
    BY <2>7, <2>8, <2>9, EaseKeeps
<1> QED
  BY <1>3, <1>5, <1>6

LEMMA OrphansPacks == ASSUME Inv, PackInv, NEW s \in Servers, Orphans(s) PROVE PackInv'
<1> DEFINE ms == Revalidated(mem[s])
<1>1. /\ call[s].kind = "orphans" /\ man' = man /\ made' = made /\ clock' = clock /\ push' = push
  BY DEF Orphans
<1>2. ms.m = man
  BY RevalidatedIs
<1>3. ASSUME NEW k \in call[s].gone PROVE k \in 1..Len(made) /\ k \notin ToSet(man.packs) /\ ~Borne(k)
  BY <1>1 DEF PackInv, Orphaning
<1>4. CASE Done(s)
  <2>1. stored' \subseteq stored /\ stored \ stored' \subseteq call[s].gone
    BY <1>1, <1>4 DEF Orphans
  <2>2. Ease(s)
    BY <1>1, <1>3, <2>1, <1>4, DonePlain, PushStaysEased DEF Ease
  <2> QED
    BY <1>4, <2>2, DonePlain, PlainKeeps
<1>5. CASE call[s].gone = {} /\ call' = [call EXCEPT ![s].gone = Orphaned(ms.m)] /\ stored' = stored
  <2>1. PICK g : g = Orphaned(ms.m)
    OBVIOUS
  <2> HIDE DEF ms
  <2>2. ASSUME NEW k \in g PROVE k \in 1..Len(made) /\ k \notin ToSet(man.packs) /\ ~Borne(k)
    <3>1. k \in stored /\ ~Lists(man, k) /\ made[k].at <= clock - OrphanAge
      BY <1>2, <2>1 DEF Orphaned
    <3> QED
      BY <3>1 DEF PackInv, Dated, Carried, Lists
  <2>3. PICK c : c = [call[s] EXCEPT !.gone = g]
    OBVIOUS
  <2>4. call'[s] = c /\ \A r \in Servers \ {s} : call'[r] = call[r]
    BY <1>5, <2>1, <2>3 DEF Inv, Shapes
  <2>5. c.kind = "orphans" /\ c.gone = g /\ c.pack = call[s].pack /\ c.st = call[s].st /\ c.tried = call[s].tried
    BY <1>1, <2>3 DEF Inv, Shapes, NoCall
  <2>6. call[s].pack = 0
    BY <1>1 DEF PackInv, JobsApart, OfJob
  <2>7. ~Committing(s)'
    BY <2>4, <2>5 DEF Committing, OfJob
  <2>8. Ease(s)
    BY <1>1, <1>5, <2>4, PushStaysEased DEF Ease
  <2>9. CallFits(s)
    <3>1. \A k : Borne(k)' => k # 0
      BY DEF Borne
    <3>2. 0 \in 0..Len(made)
      BY DEF Inv, Shapes
    <3> QED
      BY <2>2, <2>4, <2>5, <2>6, <3>1, <3>2 DEF CallFits
  <2> QED
    BY <2>7, <2>8, <2>9, EaseKeeps
<1>6. Done(s) \/ (call[s].gone = {} /\ call' = [call EXCEPT ![s].gone = Orphaned(ms.m)] /\ stored' = stored)
  BY DEF Orphans
<1> QED
  BY <1>4, <1>5, <1>6

-------------------------------------------------------------------------------
\* A call gives up: its pack is under way no more.

LEMMA GiveUpPacks ==
    ASSUME Inv, PackInv, NEW s \in Servers, call[s].st \in {"try", "settle"}, GiveUp(s), Still
    PROVE  PackInv'
<1>1. \A p \in Pushes : Eased(p)
  <2>1. CASE call[s].kind = "push"
    <3>1. PICK p \in Pushes : p = call[s].push
      BY <2>1 DEF Inv, Linked, Live
    <3>2. push' = Answer(p, {})
      BY <2>1, <3>1 DEF GiveUp
    <3> QED
      BY <3>2, AnswerEased
  <2>2. CASE call[s].kind # "push"
    BY <2>2, PushStaysEased DEF GiveUp
  <2> QED
    BY <2>1, <2>2
<1>2. CASE Done(s)
  BY <1>1, <1>2, DoneKeeps
<1>3. CASE call[s].pack # 0 /\ call' = [call EXCEPT ![s].st = "cleanup"]
  <2>1. PICK c : c = [call[s] EXCEPT !.st = "cleanup"]
    OBVIOUS
  <2>2. call'[s] = c /\ \A r \in Servers \ {s} : call'[r] = call[r]
    BY <1>3, <2>1 DEF Inv, Shapes
  <2>3. c.st = "cleanup" /\ c.kind = call[s].kind /\ c.pack = call[s].pack /\ c.tried = call[s].tried
    BY <2>1 DEF Inv, Shapes, NoCall
  <2>4. c.kind \in {"push", "collect", "repack"}
    BY <1>3, <2>3 DEF PackInv, JobsApart, OfJob
  <2>5. Ease(s) /\ ~Committing(s)'
    BY <1>1, <2>2, <2>3, StillEase DEF Committing
  <2>6. /\ c.pack \in 0..Len(made)
        /\ \A p \in Pushes : push'[p].st \in {"uploaded", "commit"} => push'[p].pack # c.pack
        /\ \A r \in Servers \ {s} : Committing(r) => call[r].pack # c.pack
        /\ c.kind = "push" /\ ~c.tried => c.pack \notin ToSet(man.packs)
    <3>1. CASE c.kind = "push"
      <4>1. Live(s)
        BY <2>3, <3>1 DEF Live
      <4>2. PICK p \in Pushes : p = call[s].push /\ push[p].pack = c.pack /\ c.pack # 0
        BY <1>3, <2>3, <4>1 DEF Inv, Linked
      <4>3. push' = Answer(p, {})
        BY <2>3, <3>1, <4>2 DEF GiveUp
      <4>4. push'[p].st = "done" /\ \A q \in Pushes \ {p} : push'[q] = push[q]
        BY <4>3, AnswerIs
      <4>5. \A q \in Pushes : push[q].pack = c.pack => q = p
        BY <4>2 DEF Inv, Apart
      <4>6. \A r \in Servers \ {s} : Committing(r) => call[r].pack # c.pack
        BY <4>2 DEF Inv, Apart, Committing, OfJob
      <4>7. ASSUME ~c.tried PROVE c.pack \notin ToSet(man.packs)
        <5>1. Untouched(p)
          BY <2>3, <4>1, <4>2, <4>7 DEF Inv, Early
        <5> QED
          BY <4>2, <5>1, ManTyped DEF Untouched, Lists
      <4>8. push[p].pack \in 0..Len(made)
        BY DEF Inv, Shapes
      <4> QED
        BY <4>2, <4>4, <4>5, <4>6, <4>7, <4>8
    <3>2. CASE c.kind \in {"collect", "repack"}
      <4>1. /\ c.pack \in 0..Len(made)
            /\ \A p \in Pushes : push[p].pack # 0 => push[p].pack # c.pack
        BY <2>3, <3>2 DEF Inv, Apart
      <4>2. push' = push
        BY <2>3, <3>2 DEF GiveUp
      <4>3. \A r \in Servers \ {s} : Committing(r) => call[r].pack # c.pack
        BY <1>3, <2>3, <3>2 DEF PackInv, JobsApart, Committing, OfJob
      <4> QED
        BY <1>3, <2>3, <3>2, <4>1, <4>2, <4>3
    <3> QED
      BY <2>4, <3>1, <3>2
  <2>7. ASSUME NEW k, Borne(k)' PROVE c.pack # k
    <3>1. ASSUME NEW p \in Pushes, push'[p].st \in {"uploaded", "commit"}, push'[p].pack = k PROVE c.pack # k
      BY <2>6, <3>1
    <3>2. ASSUME NEW r \in Servers, Committing(r)', call'[r].pack = k PROVE c.pack # k
      <4>1. r # s /\ call'[r] = call[r]
        BY <2>2, <2>5, <3>2
      <4>2. Committing(r)
        BY <3>2, <4>1 DEF Committing, OfJob
      <4> QED
        BY <2>6, <3>2, <4>1, <4>2
    <3> QED
      BY <2>7, <3>1, <3>2 DEF Borne
  <2>8. CallFits(s)
    BY <2>2, <2>3, <2>4, <2>6, <2>7 DEF CallFits, OfJob, Still
  <2> QED
    BY <2>5, <2>8, EaseKeeps
<1> QED
  BY <1>2, <1>3 DEF GiveUp

LEMMA JobEndsPacks ==
    ASSUME Inv, PackInv, NEW s \in Servers, call[s].st = "try", JobLanded(s) \/ JobGivesUp(s)
    PROVE  PackInv'
<1>1. CASE JobLanded(s)
  BY <1>1, DoneKeeps, PushStaysEased DEF JobLanded, Still
<1>2. CASE JobGivesUp(s)
  BY <1>2, GiveUpPacks DEF JobGivesUp, Still
<1> QED
  BY <1>1, <1>2

-------------------------------------------------------------------------------
\* Packs are uploaded.

\* A pack that was made is stored, new, and under way if it is to be.
LEMMA UploadKeeps ==
    ASSUME Inv, PackInv, NEW s \in Servers, NEW objs, Upload(objs), man' = man, clock' = clock,
           \A r \in Servers \ {s} : call'[r] = call[r], CallFits(s),
           \A p \in Pushes : Eased(p) \/ push'[p].pack = Len(made) + 1,
           Committing(s)' => call'[s].pack = Len(made) + 1
    PROVE  PackInv'
<1>1. Grows /\ Len(made') = Len(made) + 1 /\ Len(made) \in Nat
  <2>1. made \in Seq(ToSet(made)) /\ Len(made) \in Nat
    BY DEF Inv, Shapes
  <2> QED
    BY <2>1, UploadGrows
<1>2. made' = Append(made, [objs |-> objs, at |-> clock]) /\ stored' = stored \cup {Len(made) + 1}
  BY DEF Upload
<1>3. made'[Len(made) + 1].at = clock
  <2>1. PICK e : e = [objs |-> objs, at |-> clock]
    OBVIOUS
  <2>2. made \in Seq(ToSet(made)) /\ made' = Append(made, e) /\ e.at = clock
    BY <1>2, <2>1 DEF Inv, Shapes
  <2> QED
    BY <2>2, AppendProperties
<1>4. \A k \in (Len(made) + 1)..Len(made') : made'[k].at = clock
  <2>1. \A k \in (Len(made) + 1)..Len(made') : k = Len(made) + 1
    BY <1>1
  <2> QED
    BY <1>3, <2>1
<1>5. ASSUME NEW k, Borne(k)' PROVE Borne(k) \/ k = Len(made) + 1
  <2>1. ASSUME NEW p \in Pushes, push'[p].st \in {"uploaded", "commit"}, push'[p].pack = k
        PROVE  Borne(k) \/ k = Len(made) + 1
    BY <1>5, <2>1 DEF Borne, Eased
  <2>2. ASSUME NEW r \in Servers, Committing(r)', call'[r].pack = k PROVE Borne(k) \/ k = Len(made) + 1
    <3>1. CASE r = s
      BY <2>2, <3>1
    <3>2. CASE r # s
      <4>1. call'[r] = call[r]
        BY <3>2
      <4>2. Committing(r)
        BY <2>2, <4>1 DEF Committing, OfJob
      <4> QED
        BY <1>5, <2>2, <4>1, <4>2 DEF Borne
    <3> QED
      BY <3>1, <3>2
  <2> QED
    BY <1>5, <2>1, <2>2 DEF Borne
<1>6. Len(made) + 1 \in 1..Len(made') /\ Len(made) + 1 \in stored'
  BY <1>1, <1>2
<1>7. stored' \subseteq stored \cup 1..Len(made')
  BY <1>2, <1>6
<1>8. PackStep(s)
  BY <1>1, <1>2, <1>4, <1>5, <1>6, <1>7 DEF PackStep
<1> QED
  BY <1>8, StepKeeps

LEMMA JobUploadPacks ==
    ASSUME Inv, PackInv, NEW s \in Servers, NEW kind \in {"collect", "repack"}, NEW readable, NEW objs,
           JobUpload(s, kind, readable, objs)
    PROVE  PackInv'
<1>1. Free(s) /\ man' = man /\ clock' = clock /\ push' = push
  BY DEF JobUpload
<1>2. CASE Upload(objs) /\ call' = [call EXCEPT ![s] = [Call(kind) EXCEPT !.pack = NewPack]]
  <2>1. PICK c : c = [Call(kind) EXCEPT !.pack = NewPack]
    OBVIOUS
  <2>2. call'[s] = c /\ \A r \in Servers \ {s} : call'[r] = call[r]
    BY <1>2, <2>1 DEF Inv, Shapes
  <2>3. c.kind = kind /\ c.st = "try" /\ c.pack = Len(made) + 1
    BY <2>1 DEF Call, NoCall, NewPack
  <2>4. CallFits(s)
    BY <2>2, <2>3 DEF CallFits
  <2> QED
    BY <1>1, <1>2, <2>2, <2>3, <2>4, PushStaysEased, UploadKeeps
<1>3. CASE Abandon(s) /\ made' = made /\ stored' = stored /\ job[s].kind = kind
  <2>1. PICK c : c = [Call(kind) EXCEPT !.st = "cleanup"]
    OBVIOUS
  <2>2. call'[s] = c /\ \A r \in Servers \ {s} : call'[r] = call[r]
    BY <1>3, <2>1 DEF Abandon, Inv, Shapes
  <2>3. c.kind = kind /\ c.st = "cleanup" /\ c.pack = 0
    BY <2>1 DEF Call, NoCall
  <2>4. \A k : Borne(k)' => k # 0
    BY DEF Borne
  <2>5. CallFits(s)
    BY <2>2, <2>3, <2>4 DEF CallFits, Inv, Shapes
  <2>6. ~Committing(s)'
    BY <2>2, <2>3 DEF Committing
  <2>7. Ease(s)
    BY <1>1, <1>3, <2>2, PushStaysEased, StillEase DEF Still
  <2> QED
    BY <2>5, <2>6, <2>7, EaseKeeps
<1> QED
  BY <1>2, <1>3 DEF JobUpload

-------------------------------------------------------------------------------
\* Pushes.

LEMMA PushStartPacks == ASSUME Inv, PackInv, NEW p \in Pushes, NEW s \in Servers, PushStart(p, s) PROVE PackInv'
<1>1. Free(s) /\ Still /\ call' = call
  BY DEF PushStart, Still
<1>2. PICK x : push' = [push EXCEPT ![p] = x] /\ x.st = "checked"
  BY PushStartIs
<1>3. \A q \in Pushes : Eased(q)
  BY <1>2 DEF Eased, Inv, Shapes
<1> QED
  BY <1>1, <1>3, FreeKeeps

LEMMA PushUploadPacks == ASSUME Inv, PackInv, NEW p \in Pushes, PushUpload(p) PROVE PackInv'
<1>1. PICK s \in Servers : s = push[p].s /\ Free(s)
  BY DEF PushUpload, Inv, Shapes
<1>2. man' = man /\ clock' = clock /\ call' = call /\ push[p].st = "checked"
  BY DEF PushUpload
<1>3. Plain(call'[s]) /\ ~Committing(s)'
  BY <1>1, <1>2, PlainFree DEF Committing, OfJob
<1>4. CallFits(s)
  BY <1>3 DEF Plain, CallFits
<1>5. ASSUME Upload(push[p].objs), push' = [push EXCEPT ![p] = [@ EXCEPT !.st = "uploaded", !.pack = NewPack]]
      PROVE  PackInv'
  <2>1. PICK x : x = [push[p] EXCEPT !.st = "uploaded", !.pack = NewPack]
    OBVIOUS
  <2>2. x.pack = Len(made) + 1
    BY <2>1 DEF NewPack, Inv, Shapes, NoPush
  <2>3. push'[p] = x /\ \A q \in Pushes \ {p} : push'[q] = push[q]
    BY <1>5, <2>1 DEF Inv, Shapes
  <2>4. \A q \in Pushes : Eased(q) \/ push'[q].pack = Len(made) + 1
    BY <2>2, <2>3 DEF Eased
  <2> QED
    BY <1>2, <1>3, <1>4, <1>5, <2>4, UploadKeeps
<1>6. ASSUME Upload(push[p].objs), push' = Answer(p, {}) PROVE PackInv'
  BY <1>2, <1>3, <1>4, <1>6, AnswerEased, UploadKeeps
<1>7. ASSUME made' = made, stored' = stored, push' = Answer(p, {}) PROVE PackInv'
  BY <1>1, <1>2, <1>7, AnswerEased, FreeKeeps DEF Still
<1> QED
  BY <1>5, <1>6, <1>7 DEF PushUpload

LEMMA PushCommitPacks == ASSUME Inv, PackInv, NEW p \in Pushes, PushCommit(p) PROVE PackInv'
<1> DEFINE x == push[p]
<1>1. PICK s \in Servers : s = x.s /\ Free(s)
  BY DEF PushCommit, Inv, Shapes
<1>2. Still /\ x.st \in {"checked", "uploaded"}
  BY DEF PushCommit, Still
<1>3. PICK c : c = [Call("push") EXCEPT !.push = p, !.pack = x.pack, !.gen = x.gen]
  OBVIOUS
<1>4. DOMAIN c = DOMAIN NoCall /\ c.kind = "push" /\ c.st = "try" /\ c.pack = x.pack /\ ~c.tried
  BY <1>3 DEF Call, NoCall
<1>5. CASE call' = [call EXCEPT ![s] = c] /\ push' = [push EXCEPT ![p].st = "commit"]
  <2>1. PICK y : y = [push[p] EXCEPT !.st = "commit"]
    OBVIOUS
  <2>2. y.pack = x.pack
    BY <2>1 DEF Inv, Shapes, NoPush
  <2>3. push'[p] = y /\ \A q \in Pushes \ {p} : push'[q] = push[q]
    BY <1>5, <2>1 DEF Inv, Shapes
  <2>4. x.st = "checked" => x.pack = 0
    BY DEF Inv, Shapes
  <2>5. \A q \in Pushes : Eased(q)
    BY <1>2, <2>2, <2>3, <2>4 DEF Eased
  <2>6. Plain(c)
    BY <1>4 DEF Plain
  <2> QED
    BY <1>2, <1>5, <2>5, <2>6, BeginsKeeps
<1>6. CASE call' = call /\ push' = Answer(p, {})
  BY <1>1, <1>2, <1>6, AnswerEased, FreeKeeps
<1>7. CASE x.pack # 0 /\ call' = [call EXCEPT ![s] = [c EXCEPT !.st = "cleanup"]] /\ push' = Answer(p, {})
  <2>1. PICK d : d = [c EXCEPT !.st = "cleanup"]
    OBVIOUS
  <2>2. d.kind = "push" /\ d.st = "cleanup" /\ d.pack = x.pack
    BY <1>4, <2>1 DEF NoCall
  <2>3. call'[s] = d /\ \A r \in Servers \ {s} : call'[r] = call[r]
    BY <1>7, <2>1 DEF Inv, Shapes
  <2>4. push'[p].st = "done" /\ \A q \in Pushes \ {p} : push'[q] = push[q]
    BY <1>7, AnswerIs
  <2>5. x.pack \in 0..Len(made) /\ x.pack \notin ToSet(man.packs)
    <3>1. Untouched(p)
      BY <1>2 DEF Inv, Early
    <3> QED
      BY <1>7, <3>1, ManTyped DEF Untouched, Lists, Inv, Shapes
  <2>6. ~Committing(s)'
    BY <2>2, <2>3 DEF Committing
  <2>7. ASSUME NEW k, Borne(k)' PROVE x.pack # k
    <3>1. ASSUME NEW q \in Pushes, push'[q].st \in {"uploaded", "commit"}, push'[q].pack = k PROVE x.pack # k
      <4>1. q # p /\ push'[q] = push[q]
        BY <2>4, <3>1
      <4> QED
        BY <1>7, <3>1, <4>1 DEF Inv, Apart
    <3>2. ASSUME NEW r \in Servers, Committing(r)', call'[r].pack = k PROVE x.pack # k
      <4>1. r # s /\ call'[r] = call[r]
        BY <2>3, <2>6, <3>2
      <4>2. OfJob(r)
        BY <3>2, <4>1 DEF Committing, OfJob
      <4> QED
        BY <1>7, <3>2, <4>1, <4>2 DEF Inv, Apart, OfJob
    <3> QED
      BY <2>7, <3>1, <3>2 DEF Borne
  <2>8. CallFits(s)
    BY <1>2, <2>2, <2>3, <2>5, <2>7 DEF CallFits, Still
  <2>9. Ease(s)
    BY <1>2, <1>7, <2>3, AnswerEased, StillEase
  <2> QED
    BY <2>6, <2>8, <2>9, EaseKeeps
<1> QED
  BY <1>1, <1>3, <1>5, <1>6, <1>7 DEF PushCommit

-------------------------------------------------------------------------------
\* Saves, and how they are settled.

\* A call's pack is under way as long as a round may write it.
LEMMA TryBorne ==
    ASSUME Inv, NEW s \in Servers, call[s].st = "try", call[s].kind \in {"push", "collect", "repack"},
           call[s].pack # 0
    PROVE  Borne(call[s].pack)
<1>1. CASE call[s].kind = "push"
  <2>1. PICK p \in Pushes : p = call[s].push /\ push[p].st = "commit" /\ push[p].pack = call[s].pack
    BY <1>1 DEF Inv, Linked, Live
  <2> QED
    BY <2>1 DEF Borne
<1>2. CASE call[s].kind \in {"collect", "repack"}
  BY <1>2 DEF Borne, Committing, OfJob
<1> QED
  BY <1>1, <1>2

\* A call that goes on, to be settled or to another round, has what it had.
LEMMA GoesOnFits ==
    ASSUME Inv, PackInv, NEW s \in Servers, call[s].st \in {"try", "settle"}, call'[s].st \in {"try", "settle"},
           call'[s].kind = call[s].kind, call'[s].pack = call[s].pack, call'[s].gone = call[s].gone
    PROVE  CallFits(s) /\ (Committing(s)' => Committing(s) /\ call'[s].pack = call[s].pack)
<1>1. call[s].kind \notin {"push", "collect", "repack"} => call[s].pack = 0
  BY DEF PackInv, JobsApart, OfJob
<1>2. Committing(s)' => Committing(s)
  BY DEF Committing, OfJob
<1> QED
  BY <1>1, <1>2 DEF CallFits, Committing, OfJob, PackInv, Orphaning

LEMMA SavingPacks == ASSUME Inv, PackInv, NEW s \in Servers, Saving(s) PROVE PackInv'
<1>1. PICK c, m : SameCall(s, c) /\ Writes(c, mem[s].m, m) /\ Save(s, c, m)
  BY DEF Saving
<1>2. PICK doc : /\ Saves(s, c, doc)
                 /\ \/ Accepts(man, mem[s].etag) /\ Replaced(c, doc)
                       /\ (Succeeded(s, c, doc) \/ ToSettle(s, c, doc))
                    \/ ~Accepts(man, mem[s].etag) /\ Kept /\ late' = late /\ ToSettle(s, c, doc)
                    \/ /\ Kept /\ ToSettle(s, c, doc)
                       /\ late' = late \/ (LatePuts /\ late' = late \cup {Put(s, c, doc)})
  BY <1>1, SaveIs
<1>3. SaveMoves(s, c, doc)
  <2>1. CASE Succeeded(s, c, doc) /\ Replaced(c, doc)
    BY <1>2, <2>1, SucceededMoves
  <2>2. CASE ToSettle(s, c, doc)
    BY <1>2, <2>2, ToSettleMoves DEF Replaced, Kept
  <2> QED
    BY <1>2, <2>1, <2>2
<1>4. stored' = stored /\ made' = made /\ clock' = clock
  BY <1>1 DEF Save
<1>5. SameCall(s, c) /\ Writes(c, mem[s].m, doc)
  BY <1>2 DEF Saves
<1>6. man' = man \/ (man' = doc /\ mem[s].m = man)
  <2>1. ASSUME Accepts(man, mem[s].etag) PROVE mem[s].m = man
    BY <2>1, CopyIsMan DEF Accepts
  <2> QED
    BY <1>2, <2>1 DEF Replaced, Kept
<1>7. \A k \in ToSet(man'.packs) : k \in ToSet(man.packs) \/ Borne(k)
  <2>1. ASSUME NEW k \in ToSet(doc.packs), mem[s].m = man, k \notin ToSet(man.packs) PROVE Borne(k)
    <3>1. c.kind \in {"push", "collect", "repack"} /\ k = c.pack
      BY <1>5, <2>1 DEF Writes, Relists
    <3>2. doc.packs \in Seq(1..Len(made))
      BY <1>5 DEF Writes
    <3>3. k # 0
      BY <3>2 DEF ToSet
    <3> QED
      BY <1>5, <3>1, <3>3, TryBorne DEF SameCall
  <2> QED
    BY <1>6, <2>1
<1>8. \A x \in man'.retired : x \in man.retired \/ x.at = clock
  BY <1>5, <1>6 DEF Writes
<1>9. \A p \in Pushes : Eased(p)
  <2>1. ASSUME NEW p \in Pushes PROVE Eased(p)
    <3>1. push'[p] = push[p] \/ push'[p].st = "done"
      BY <1>3, SavePushes
    <3> QED
      BY <3>1 DEF Eased
  <2> QED
    BY <2>1
<1>10. CallFits(s) /\ (Committing(s)' => Committing(s) /\ call'[s].pack = call[s].pack)
  <2>1. CASE call'[s] \in NextCalls
    BY <2>1, PlainNext DEF Plain, CallFits, Committing, OfJob
  <2>2. CASE call'[s].st = "settle" /\ call'[s].kind = c.kind /\ call'[s].pack = c.pack /\ call'[s].gone = c.gone
    BY <1>5, <2>2, GoesOnFits DEF SameCall
  <2> QED
    BY <1>3, <2>1, <2>2 DEF SaveMoves
<1>11. \A r \in Servers \ {s} : call'[r] = call[r]
  BY <1>3 DEF SaveMoves
<1>12. \A k : Borne(k)' => Borne(k)
  <2>1. \A r \in Servers : Committing(r)' => Committing(r) /\ call'[r].pack = call[r].pack
    BY <1>10, <1>11 DEF Committing, OfJob
  <2> QED
    BY <1>9, <2>1, BorneEases
<1>13. Grows /\ (Len(made) + 1)..Len(made') = {}
  <2>1. Len(made) \in Nat
    BY DEF Inv, Shapes
  <2> QED
    BY <1>4, <2>1, MadeStays
<1>14. PackStep(s)
  BY <1>4, <1>7, <1>8, <1>10, <1>11, <1>12, <1>13 DEF PackStep
<1> QED
  BY <1>14, StepKeeps

LEMMA TryPushPacks == ASSUME Inv, PackInv, NEW s \in Servers, TryPush(s) PROVE PackInv'
<1>1. call[s].kind = "push" /\ call[s].st = "try"
  BY DEF TryPush
<1>2. PICK p \in Pushes : p = call[s].push
  BY <1>1 DEF Inv, Linked, Live
<1>3. CASE LandedBefore(s) /\ push' = Answer(call[s].push, call[s].ok) /\ Done(s) /\ UNCHANGED <<man, made, stored,
             late, nonces, clock, mem, fetch, held, job, failed, applied, spent>>
  <2>1. \A q \in Pushes : Eased(q)
    BY <1>2, <1>3, AnswerEased
  <2> QED
    BY <1>3, <2>1, DoneKeeps DEF Still
<1>4. CASE GiveUp(s) /\ UNCHANGED <<man, made, stored, late, nonces, clock, mem, fetch, held, want, applied, spent>>
  BY <1>1, <1>4, GiveUpPacks DEF Still
<1> QED
  BY <1>3, <1>4, TryPushIs, SavingPacks

LEMMA TryJobPacks == ASSUME Inv, PackInv, NEW s \in Servers, TryCollect(s) \/ TryRepack(s) PROVE PackInv'
<1>1. call[s].st = "try"
  BY DEF TryCollect, TryRepack
<1>2. JobLanded(s) \/ JobGivesUp(s) \/ Saving(s)
  BY TryCollectIs, TryRepackIs
<1> QED
  BY <1>1, <1>2, JobEndsPacks, SavingPacks

LEMMA TryOtherPacks ==
    ASSUME Inv, PackInv, NEW s \in Servers, TryRestore(s) \/ TrySweep(s) \/ TryPrune(s) PROVE PackInv'
<1>1. CASE Done(s) /\ UNCHANGED <<man, made, stored, late, nonces, clock, mem, fetch, held, push, job, want,
                         failed, applied, spent>>
  BY <1>1, DoneKeeps, PushStaysEased DEF Still
<1> QED
  BY <1>1, TryRestoreIs, TrySweepIs, TryPruneIs, SavingPacks

LEMMA SettlePacks == ASSUME Inv, PackInv, NEW s \in Servers, Settle(s) PROVE PackInv'
<1> DEFINE c == call[s]
<1>1. c.st = "settle" /\ Still
  BY DEF Settle, Still
<1>2. CASE Succeed(s, c, c.doc)
  <2>1. Done(s)
    BY <1>2 DEF Succeed
  <2>2. \A p \in Pushes : Eased(p)
    <3>1. CASE c.kind = "push"
      <4>1. PICK p \in Pushes : p = c.push
        BY <1>1, <3>1 DEF Inv, Linked, Live
      <4>2. push' = Answer(p, c.ok)
        BY <1>2, <3>1, <4>1 DEF Succeed
      <4> QED
        BY <4>2, AnswerEased
    <3>2. CASE c.kind # "push"
      <4>1. push' = push
        BY <1>2, <3>2 DEF Succeed
      <4> QED
        BY <4>1, PushStaysEased
    <3> QED
      BY <3>1, <3>2
  <2> QED
    BY <1>1, <2>1, <2>2, DoneKeeps
<1>3. CASE /\ call' = [call EXCEPT ![s] = [c EXCEPT !.st = "try", !.attempt = @ + 1,
                                                    !.doc = NoMan, !.first = "none"]]
           /\ push' = push
  <2>1. PICK d : d = [c EXCEPT !.st = "try", !.attempt = @ + 1, !.doc = NoMan, !.first = "none"]
    OBVIOUS
  <2>2. DOMAIN c = DOMAIN NoCall
    BY DEF Inv, Shapes
  <2> HIDE DEF c
  <2>3. d.st = "try" /\ d.kind = c.kind /\ d.gone = c.gone /\ d.pack = c.pack
    BY <2>1, <2>2 DEF NoCall
  <2>4. call'[s] = d /\ \A r \in Servers \ {s} : call'[r] = call[r]
    BY <1>3, <2>1 DEF Inv, Shapes
  <2>5. CallFits(s) /\ (Committing(s)' => Committing(s) /\ call'[s].pack = call[s].pack)
    BY <1>1, <2>3, <2>4, GoesOnFits DEF c
  <2>6. Ease(s)
    BY <1>1, <1>3, <2>4, StillEase, PushStaysEased
  <2> QED
    BY <2>5, <2>6, EaseKeeps
<1>4. CASE GiveUp(s)
  BY <1>1, <1>4, GiveUpPacks
<1> QED
  BY <1>2, <1>3, <1>4 DEF Settle

-------------------------------------------------------------------------------
\* The clock, and the behaviour as a whole.

LEMMA TickPacks == ASSUME Inv, PackInv, Tick PROVE PackInv'
<1>1. /\ man' = man /\ made' = made /\ stored' = stored /\ call' = call /\ push' = push
      /\ clock' = clock + 1 /\ Timely
  BY DEF Tick
<1>2. \A s \in Servers : Plain(call[s]) /\ ~Committing(s) /\ ~Live(s)
  BY <1>1, PlainFree, FreeIdle DEF Timely
<1>3. \A k : Borne(k)' <=> Borne(k)
  BY <1>1 DEF Borne, Committing, OfJob
<1>4. ASSUME NEW k \in 1..Len(made), Borne(k) PROVE ~(made[k].at <= clock + 1 - OrphanAge)
  <2>1. PICK p \in Pushes : push[p].st \in {"uploaded", "commit"} /\ push[p].pack = k
    BY <1>2, <1>4 DEF Borne
  <2>2. push[p].st # "commit"
    BY <1>2, <2>1 DEF Inv, Linked, Shapes
  <2>3. clock + 1 - made[k].at < OrphanAge
    BY <1>1, <2>1, <2>2 DEF Timely
  <2>4. made[k].at \in Nat /\ clock \in Nat /\ OrphanAge \in Nat
    BY ConstantsAssumption DEF PackInv, Dated, Inv, Shapes
  <2>5. PICK a \in Nat : a = made[k].at
    BY <2>4
  <2> QED
    BY <2>3, <2>4, <2>5
<1>5. Dated'
  BY <1>1 DEF PackInv, Dated
<1>6. Carried'
  <2>1. \A s \in Servers : ~Committing(s)'
    BY <1>1, <1>2 DEF Committing, OfJob
  <2>2. ASSUME NEW k \in 1..Len(made), Borne(k)
        PROVE  k \in stored /\ ~(made[k].at <= clock + 1 - OrphanAge)
    BY <1>4, <2>2 DEF PackInv, Carried
  <2>3. ASSUME NEW k \in 1..Len(made'), Borne(k)'
        PROVE  k \in stored' /\ ~(made'[k].at <= clock' - OrphanAge)
    <3>1. k \in 1..Len(made) /\ Borne(k)
      BY <1>1, <1>3, <2>3
    <3>2. k \in stored /\ ~(made[k].at <= clock + 1 - OrphanAge)
      BY <2>2, <3>1
    <3>3. PICK a, c : a = made[k].at /\ c = clock + 1 - OrphanAge
      OBVIOUS
    <3>4. clock \in Nat /\ OrphanAge \in Nat
      BY ConstantsAssumption DEF Inv, Shapes
    <3>5. made'[k].at = a
      BY <1>1, <3>3
    <3>6. made'[k].at = a /\ clock' - OrphanAge = c
      BY <1>1, <3>4, <3>5, <3>3
    <3>7. k \in stored' /\ ~(a <= c)
      BY <1>1, <3>2, <3>3
    <3> QED
      BY <3>6, <3>7
  <2> QED
    BY <2>1, <2>3 DEF Carried
<1>7. JobsApart'
  BY <1>1 DEF PackInv, JobsApart, OfJob
<1>8. Cleaning' /\ Orphaning'
  BY <1>1, <1>2 DEF Cleaning, Orphaning, Plain
<1>9. ListedStored'
  BY <1>1 DEF PackInv, ListedStored
<1> QED
  BY <1>5, <1>6, <1>7, <1>8, <1>9 DEF PackInv

LEMMA StutterPacks == ASSUME Inv, PackInv, UNCHANGED vars PROVE PackInv'
<1>1. man' = man /\ made' = made /\ stored' = stored /\ call' = call /\ push' = push /\ clock' = clock
  BY DEF vars
<1>2. \A k : Borne(k)' <=> Borne(k)
  BY <1>1 DEF Borne, Committing, OfJob
<1>3. Dated' /\ JobsApart' /\ ListedStored'
  BY <1>1 DEF PackInv, Dated, JobsApart, OfJob, ListedStored
<1>4. Carried'
  BY <1>1, <1>2 DEF PackInv, Carried, Committing, OfJob
<1>5. Cleaning' /\ Orphaning'
  BY <1>1, <1>2 DEF PackInv, Cleaning, Orphaning
<1> QED
  BY <1>3, <1>4, <1>5 DEF PackInv

LEMMA InitPacks == Init => PackInv
<1> SUFFICES ASSUME Init PROVE PackInv
  OBVIOUS
<1>1. /\ \A s \in Servers : call[s] = NoCall
      /\ \A p \in Pushes : push[p] = NoPush
  BY DEF Init
<1>2. \A s \in Servers : Plain(call[s]) /\ ~Committing(s)
  BY <1>1, PlainFree DEF Free
<1>3. \A k : ~Borne(k)
  BY <1>1, <1>2 DEF Borne, NoPush
<1>4. Seed \in Seq(SUBSET Objs) /\ Len(Seed) \in Nat /\ DOMAIN Seed = 1..Len(Seed)
  BY ConstantsAssumption
<1>5. /\ made = [i \in 1..Len(Seed) |-> [objs |-> Seed[i], at |-> 0]] /\ stored = 1..Len(Seed)
      /\ Len(made) = Len(Seed)
  BY <1>4, SeededIs DEF Init
<1>6. Dated
  BY <1>4, <1>5 DEF Dated
<1>7. Carried /\ Cleaning /\ Orphaning
  BY <1>2, <1>3 DEF Carried, Cleaning, Orphaning, Plain
<1>8. JobsApart
  BY <1>1 DEF JobsApart, OfJob, NoCall
<1>9. ListedStored
  <2>1. CASE man = NoMan
    BY <2>1 DEF ListedStored, ToSet, NoMan
  <2>2. CASE man.packs = [i \in DOMAIN Seed |-> i]
    BY <1>4, <1>5, <2>2 DEF ListedStored, ToSet
  <2> QED
    BY <2>1, <2>2, SeededIs
<1> QED
  BY <1>6, <1>7, <1>8, <1>9 DEF PackInv

LEMMA NextPacks == ASSUME LatePuts = FALSE, Inv, PackInv, [Next]_vars PROVE PackInv'
<1>1. CASE Common
  <2>1. late = {}
    BY DEF Inv, Shapes
  <2> QED
    BY <1>1, <2>1, CopyPacks, CrashPacks, CleanupPacks, SettlePacks, TickPacks DEF Common
<1>2. CASE Serve
  BY <1>2, PushUploadPacks, PushCommitPacks, PushStartPacks, TryPushPacks, CopyPacks, TryOtherPacks,
     RestorePacks DEF Serve
<1>3. CASE Maintain
  <2>1. ASSUME NEW s \in Servers, CollectUpload(s) PROVE PackInv'
    <3>1. PICK objs : objs = job[s].keep
      OBVIOUS
    <3>2. PICK readable : readable = (Unmoved(s) /\ ToSet(job[s].sources) \subseteq stored)
      OBVIOUS
    <3>3. JobUpload(s, "collect", readable, objs)
      BY <2>1, <3>1, <3>2 DEF CollectUpload
    <3> QED
      BY <3>3, JobUploadPacks
  <2>2. ASSUME NEW s \in Servers, RepackUpload(s) PROVE PackInv'
    <3>1. PICK objs : objs = UNION {made[k].objs : k \in ToSet(job[s].sources)}
      OBVIOUS
    <3>2. PICK readable : readable = (ToSet(job[s].sources) \subseteq stored)
      OBVIOUS
    <3>3. JobUpload(s, "repack", readable, objs)
      BY <2>2, <3>1, <3>2 DEF RepackUpload
    <3> QED
      BY <3>3, JobUploadPacks
  <2> QED
    BY <1>3, <2>1, <2>2, RequestPacks, CollectStartPacks, TryJobPacks, RepackStartPacks, RoundPacks,
       SweepPacks, TryOtherPacks, OrphansPacks, ConsiderPacks, MergePacks DEF Maintain
<1>4. CASE UNCHANGED vars
  BY <1>4, StutterPacks
<1> QED
  BY <1>1, <1>2, <1>3, <1>4 DEF Next

\* Every live pack of the manifest is in the bucket, where no PUT takes effect after its
\* sender settled it: no cleanup of a push, abandoned job, sweep or orphan scan, on any
\* server, removes a pack that a write which landed unseen has listed, or one that may
\* still be (cleanup of push.rs, abandon of gc.rs and maint.rs, sweep and orphans of
\* maint.rs).
THEOREM PacksStored == ASSUME LatePuts = FALSE PROVE Spec => []ListedStored
<1>1. Init => PackInv
  BY InitPacks
<1>2. Inv /\ Inv' /\ PackInv /\ [Next]_vars => PackInv'
  BY NextPacks
<1>3. PackInv => ListedStored
  BY DEF PackInv
<1> QED
  BY <1>1, <1>2, <1>3, Invariant, PTL DEF Spec
===============================================================================
