------------------------------ MODULE SealedProofs ------------------------------
(***************************************************************************)
(* Proofs about the servers that keep or relay what they cannot read.  The *)
(* drops, for any windows, thresholds, sizes and readers: a release stands *)
(* and the capacity is counted right.  A chat room, for any pages, ring    *)
(* and faults: every page shows a message once.  A sealed round, for any   *)
(* setups, values and times: its result is right.  The drops and the       *)
(* rounds fold over data (the sizes of the drops, the swaps of a draw), so *)
(* they rest on an induction: a set of numbers without a least one is      *)
(* empty.                                                                  *)
(***************************************************************************)
EXTENDS SealedDrops, SealedRounds, Backchannel, FiniteSetTheorems, SequenceTheorems, WellFoundedInduction, TLAPS

-------------------------------------------------------------------------------
\* Induction over the numbers.
Less == {p \in Nat \X Nat : p[1] < p[2]}

LEMMA LessFounded == IsWellFoundedOn(Less, Nat)
<1>1. Less = OpToRel(<, Nat)
  BY Zenon DEF Less, OpToRel
<1> QED
  BY <1>1, NatLessThanWellFounded

LEMMA LeastNat ==
    ASSUME NEW T, T \subseteq Nat, T # {}
    PROVE  \E n \in T : \A m \in T : n <= m
<1>1. PICK n \in T : \A m \in T : ~ (<<m, n>> \in Less)
  BY LessFounded, WFMin, Zenon
<1>2. ASSUME NEW m \in T PROVE n <= m
  <2>1. m \in Nat /\ n \in Nat
    OBVIOUS
  <2>2. m < n => <<m, n>> \in Less
    BY <2>1 DEF Less
  <2> QED
    BY <1>1, <2>1, <2>2
<1> QED
  BY <1>2

\* What holds of 0 and, with a number, of the next holds of all: T is where it holds.
LEMMA AllNat ==
    ASSUME NEW T, 0 \in T, \A n \in Nat : n \in T => n + 1 \in T
    PROVE  Nat \subseteq T
<1> SUFFICES ASSUME Nat \ T # {} PROVE FALSE
  OBVIOUS
<1>1. PICK n \in Nat \ T : \A m \in Nat \ T : n <= m
  BY LeastNat
<1>2. n # 0 /\ n - 1 \in Nat /\ (n - 1) + 1 = n
  BY <1>1
<1>3. n - 1 \in T
  BY <1>1, <1>2
<1> QED
  BY <1>1, <1>2, <1>3

-------------------------------------------------------------------------------
\* What a drop is made of.
Entries == [mode : {"plain", "capsule", "switch", "quorum"}, size : DSizes, reads : Nat \ {0},
            window : Nat, interval : Nat, need : Nat, opens : Nat, expires : Nat,
            approved : SUBSET DSeats, released : Nat]

Shapes ==
    /\ dMode \in {"plain", "capsule", "switch", "quorum"}
    /\ dDrop \in [DIds -> Entries \cup {Free}]
    /\ dFate \in [DIds -> {"free", "held", "read", "burned", "lapsed"}]
    /\ dSeen \in [DIds -> Nat]
    /\ dClock \in Nat \ {0}

\* The entry knows when it was first met released, which is what its window runs
\* from; and an id is held if and only if its fate says so.
MetWhenStamped ==
    \A id \in DIds :
        /\ id \in Held <=> dFate[id] = "held"
        /\ id \in Held => dDrop[id].mode = dMode
        /\ id \in Held /\ dMode # "plain" => dDrop[id].released = dSeen[id]
        /\ id \notin Held => dSeen[id] = 0

DInv == Shapes /\ MetWhenStamped

-------------------------------------------------------------------------------
LEMMA DInitInv == DInit => DInv
BY DropAssumption DEF DInit, DInv, Shapes, MetWhenStamped, Free, Held

\* What ReleaseStands says of one drop and one step.
Stands(id) ==
    id \in Held /\ Released(dDrop[id]) =>
        LET e == dDrop[id]
            from == IF dSeen[id] # 0 THEN dSeen[id]
                    ELSE IF e.mode = "plain" THEN e.expires ELSE e.opens
        IN  /\ dFate'[id] = "held" => Released(dDrop[id])'
            /\ dFate'[id] = "lapsed" =>
                   dClock >= (IF e.mode = "plain" THEN e.expires ELSE from + e.window)

\* An entry that changes: it is stamped when it is first met released, and stays
\* released if it was.
LEMMA Changing ==
    ASSUME DInv, NEW id \in Held, NEW e \in Entries, NEW seen \in Nat,
           e.mode = dMode, dMode # "plain" => e.released = seen,
           Released(dDrop[id]) => Released(e),
           dDrop' = [dDrop EXCEPT ![id] = e], dSeen' = [dSeen EXCEPT ![id] = seen],
           UNCHANGED <<dMode, dFate, dClock>>
    PROVE  DInv' /\ \A i \in DIds : Stands(i)
<1>1. id \in DIds
  BY DEF Held
<1>2. Shapes'
  BY <1>1 DEF DInv, Shapes
<1>3. id \in Held' /\ \A i \in DIds \ {id} : i \in Held <=> i \in Held'
  BY <1>1 DEF DInv, Shapes, Held, Entries
<1>4. MetWhenStamped'
  BY <1>1, <1>3 DEF DInv, Shapes, MetWhenStamped
<1>5. ASSUME NEW i \in DIds PROVE Stands(i)
  <2>1. i \in Held => dFate[i] = "held"
    BY DEF DInv, MetWhenStamped
  <2>2. i \in Held /\ Released(dDrop[i]) => Released(dDrop[i])'
    BY <1>1 DEF DInv, Shapes, Released
  <2> QED
    BY <2>1, <2>2 DEF Stands
<1> QED
  BY <1>2, <1>4, <1>5 DEF DInv

\* When a drop that is released lapses, which is when its window is over.
LEMMA Windows ==
    ASSUME DInv, NEW id \in Held, Released(dDrop[id]), Lapsed(id)
    PROVE  LET e == dDrop[id]
               from == IF dSeen[id] # 0 THEN dSeen[id]
                       ELSE IF e.mode = "plain" THEN e.expires ELSE e.opens
           IN  dClock >= (IF e.mode = "plain" THEN e.expires ELSE from + e.window)
<1>1. id \in DIds
  BY DEF Held
<1>2. dDrop[id] \in Entries /\ dDrop[id].mode = dMode
  BY <1>1 DEF DInv, Shapes, MetWhenStamped, Held, Free
<1> QED
  BY <1>1, <1>2 DEF DInv, Shapes, MetWhenStamped, Lapsed, LapsesAt, Released, Entries

\* An entry that goes.
LEMMA Erasing ==
    ASSUME DInv, NEW id \in DIds, NEW fate \in {"read", "burned", "lapsed"},
           fate = "lapsed" => Lapsed(id),
           Erase(id, fate), UNCHANGED <<dMode, dClock>>
    PROVE  DInv' /\ \A i \in DIds : Stands(i)
<1>1. Shapes'
  BY DEF DInv, Shapes, Erase
<1>2. id \notin Held' /\ \A i \in DIds \ {id} : i \in Held <=> i \in Held'
  BY DEF DInv, Shapes, Held, Erase, Free
<1>3. MetWhenStamped'
  BY <1>2 DEF DInv, Shapes, MetWhenStamped, Erase
<1>4. ASSUME NEW i \in DIds PROVE Stands(i)
  <2>1. CASE i = id
    BY <2>1, Windows DEF Stands, DInv, Shapes, Erase
  <2>2. CASE i # id
    <3>1. dFate'[i] = dFate[i] /\ dDrop'[i] = dDrop[i] /\ dClock' = dClock
      BY <2>2 DEF DInv, Shapes, Erase
    <3>2. i \in Held => dFate[i] = "held"
      BY DEF DInv, MetWhenStamped
    <3> QED
      BY <3>1, <3>2 DEF Stands, Released
  <2> QED
    BY <2>1, <2>2
<1> QED
  BY <1>1, <1>3, <1>4 DEF DInv

-------------------------------------------------------------------------------
\* What observe_release leaves of an entry.
LEMMA Observing ==
    ASSUME DInv, NEW id \in Held
    PROVE  LET e == Observed(dDrop[id])
               seen == IF dSeen[id] = 0 /\ Released(e) THEN dClock ELSE dSeen[id]
           IN  /\ e \in Entries /\ e.mode = dMode /\ e.reads = dDrop[id].reads
               /\ e.size = dDrop[id].size
               /\ seen \in Nat /\ (dMode # "plain" => e.released = seen)
               /\ Released(dDrop[id]) <=> Released(e)
<1>1. id \in DIds
  BY DEF Held
<1>2. /\ dDrop[id] \in Entries /\ dDrop[id].mode = dMode /\ dClock \in Nat \ {0}
      /\ dSeen[id] \in Nat /\ (dMode # "plain" => dDrop[id].released = dSeen[id])
  BY <1>1 DEF DInv, Shapes, MetWhenStamped, Held, Free
<1> QED
  BY <1>2 DEF Observed, Released, Entries

LEMMA PeekStands == ASSUME DInv, NEW id \in DIds, Peek(id) PROVE DInv' /\ \A i \in DIds : Stands(i)
<1>1. id \in Held
  BY DEF Peek, Meets
<1>2. /\ dDrop' = [dDrop EXCEPT ![id] = Observed(dDrop[id])]
      /\ dSeen' = [dSeen EXCEPT ![id] =
             IF dSeen[id] = 0 /\ Released(Observed(dDrop[id])) THEN dClock ELSE dSeen[id]]
      /\ UNCHANGED <<dMode, dFate, dClock>>
  BY DEF Peek, Saw, dTimes
<1> QED
  BY <1>1, <1>2, Observing, Changing

LEMMA TakeStands == ASSUME DInv, NEW id \in DIds, Take(id) PROVE DInv' /\ \A i \in DIds : Stands(i)
<1> DEFINE e == Observed(dDrop[id])
           seen == IF dSeen[id] = 0 /\ Released(e) THEN dClock ELSE dSeen[id]
           less == [e EXCEPT !.reads = @ - 1]
<1>1. id \in Held /\ UNCHANGED <<dMode, dClock>>
  BY DEF Take, Meets, dTimes
<1>2. /\ e \in Entries /\ e.mode = dMode /\ seen \in Nat
      /\ dMode # "plain" => e.released = seen
      /\ Released(dDrop[id]) <=> Released(e)
  BY <1>1, Observing
<1>3. CASE e.reads = 1
  <2>1. Erase(id, "read")
    BY <1>3 DEF Take
  <2> QED
    BY <1>1, <2>1, Erasing
<1>4. CASE e.reads # 1
  <2>1. /\ dDrop' = [dDrop EXCEPT ![id] = less]
        /\ dSeen' = [dSeen EXCEPT ![id] = seen] /\ dFate' = dFate
    BY <1>4 DEF Take, Saw
  <2>2. e.reads - 1 \in Nat \ {0}
    BY <1>2, <1>4 DEF Entries
  <2>3. /\ less \in Entries /\ less.mode = e.mode /\ less.released = e.released
        /\ less.opens = e.opens
    BY <1>2, <2>2 DEF Entries
  <2>4. Released(less) <=> Released(e)
    BY <2>3 DEF Released
  <2> QED
    BY <1>1, <1>2, <2>1, <2>3, <2>4, Changing
<1> QED
  BY <1>3, <1>4

LEMMA CheckInStands ==
    ASSUME DInv, NEW id \in DIds, CheckIn(id) PROVE DInv' /\ \A i \in DIds : Stands(i)
<1> DEFINE e == Observed(dDrop[id])
           later == [e EXCEPT !.opens = dClock + dDrop[id].interval]
<1>1. id \in Held
  BY DEF CheckIn, Meets
<1>2. /\ dDrop' = [dDrop EXCEPT ![id] = later] /\ ~Released(dDrop[id])
      /\ UNCHANGED <<dMode, dFate, dSeen, dClock>>
  BY DEF CheckIn, dTimes
<1>3. /\ e \in Entries /\ e.mode = dMode
      /\ dMode # "plain" => e.released = dSeen[id]
  BY <1>1, <1>2, Observing
<1>4. dDrop[id] \in Entries /\ dClock \in Nat /\ dSeen \in [DIds -> Nat]
  BY <1>1 DEF DInv, Shapes, Held, Free, MetWhenStamped
<1>5. dClock + dDrop[id].interval \in Nat
  BY <1>4 DEF Entries
<1>6. later \in Entries /\ later.mode = e.mode /\ later.released = e.released
  BY <1>3, <1>5 DEF Entries
<1>7. dSeen' = [dSeen EXCEPT ![id] = dSeen[id]] /\ dSeen[id] \in Nat
  BY <1>2, <1>4
<1> QED
  BY <1>1, <1>2, <1>3, <1>6, <1>7, Changing

LEMMA ApproveStands ==
    ASSUME DInv, NEW id \in DIds, NEW seat \in DSeats, Approve(id, seat)
    PROVE  DInv' /\ \A i \in DIds : Stands(i)
<1> DEFINE e == [dDrop[id] EXCEPT !.approved = @ \cup {seat}]
           met == e.released = 0 /\ Cardinality(e.approved) >= e.need
           after == IF met THEN [e EXCEPT !.released = dClock] ELSE e
           seen == IF dSeen[id] = 0 /\ Released(after) THEN dClock ELSE dSeen[id]
<1>1. id \in Held
  BY DEF Approve, Meets
<1>2. /\ dDrop' = [dDrop EXCEPT ![id] = after] /\ dSeen' = [dSeen EXCEPT ![id] = seen]
      /\ dDrop[id].mode = "quorum"
      /\ UNCHANGED <<dMode, dFate, dClock>>
  BY DEF Approve, Saw, dTimes
<1>3. /\ dDrop[id] \in Entries /\ dDrop[id].mode = dMode /\ dClock \in Nat \ {0}
      /\ dSeen[id] \in Nat /\ (dMode # "plain" => dDrop[id].released = dSeen[id])
  BY <1>1 DEF DInv, Shapes, MetWhenStamped, Held, Free
<1>4. e \in Entries /\ e.mode = "quorum" /\ e.released = dDrop[id].released
  BY <1>2, <1>3 DEF Entries
<1> HIDE DEF e, met
<1>5. after \in Entries /\ after.mode = "quorum"
      /\ (after = e \/ (e.released = 0 /\ after.released = dClock))
  BY <1>3, <1>4 DEF Entries, met
<1> HIDE DEF after
<1>6. seen \in Nat /\ after.released = seen /\ (Released(dDrop[id]) => Released(after))
  BY <1>2, <1>3, <1>4, <1>5 DEF Released
<1> QED
  BY <1>1, <1>2, <1>3, <1>5, <1>6, Changing

LEMMA RevokeStands ==
    ASSUME DInv, NEW id \in DIds, NEW seat \in DSeats, Revoke(id, seat)
    PROVE  DInv' /\ \A i \in DIds : Stands(i)
<1> DEFINE e == [dDrop[id] EXCEPT !.approved = @ \ {seat}]
<1>1. id \in Held
  BY DEF Revoke, Meets
<1>2. /\ dDrop' = [dDrop EXCEPT ![id] = e] /\ ~Released(dDrop[id])
      /\ UNCHANGED <<dMode, dFate, dSeen, dClock>>
  BY <1>1 DEF Revoke, dTimes, DInv, Shapes, Held, Entries, Free
<1>3. /\ dDrop[id] \in Entries /\ dDrop[id].mode = dMode /\ dSeen \in [DIds -> Nat]
      /\ dMode # "plain" => dDrop[id].released = dSeen[id]
  BY <1>1 DEF DInv, Shapes, MetWhenStamped, Held, Free
<1>4. e \in Entries /\ e.mode = dMode /\ e.released = dDrop[id].released
  BY <1>3 DEF Entries
<1>5. dSeen' = [dSeen EXCEPT ![id] = dSeen[id]] /\ dSeen[id] \in Nat
  BY <1>2, <1>3
<1> QED
  BY <1>1, <1>2, <1>3, <1>4, <1>5, Changing

LEMMA ArmStands ==
    ASSUME DInv, NEW id \in DIds, NEW setup \in DSetups, NEW size \in DSizes, Arm(id, setup, size)
    PROVE  DInv' /\ \A i \in DIds : Stands(i)
<1> DEFINE e == [mode |-> setup.mode, size |-> size, reads |-> setup.reads,
                 window |-> setup.window, interval |-> setup.gate, need |-> setup.need,
                 opens |-> dClock + setup.gate, expires |-> dClock + setup.ttl,
                 approved |-> {}, released |-> 0]
<1>1. /\ dDrop' = [dDrop EXCEPT ![id] = e] /\ dFate' = [dFate EXCEPT ![id] = "held"]
      /\ UNCHANGED <<dMode, dSeen, dClock>> /\ setup.mode = dMode /\ id \notin Held
  BY DEF Arm, dTimes
<1>2. e \in Entries /\ e.mode = dMode /\ e.released = 0
  BY <1>1, DropAssumption DEF Entries, DInv, Shapes
<1> HIDE DEF e
<1>3. Shapes'
  BY <1>1, <1>2 DEF DInv, Shapes
<1>4. id \in Held' /\ \A i \in DIds \ {id} : i \in Held <=> i \in Held'
  BY <1>1, <1>2 DEF DInv, Shapes, Held, Entries
<1>5. MetWhenStamped'
  BY <1>1, <1>2, <1>4 DEF DInv, Shapes, MetWhenStamped
<1>6. ASSUME NEW i \in DIds PROVE Stands(i)
  <2>1. i \in Held => dFate[i] = "held" /\ dFate'[i] = "held" /\ dDrop'[i] = dDrop[i]
    BY <1>1 DEF DInv, Shapes, MetWhenStamped
  <2> QED
    BY <1>1, <2>1 DEF Stands, Released
<1> QED
  BY <1>3, <1>5, <1>6 DEF DInv

LEMMA SweepStands ==
    ASSUME DInv, SweepDrops
    PROVE  DInv' /\ \A i \in DIds : Stands(i)
<1> DEFINE gone == {id \in Held : Lapsed(id)}
<1>1. /\ dDrop' = [id \in DIds |-> IF id \in gone THEN Free ELSE dDrop[id]]
      /\ dFate' = [id \in DIds |-> IF id \in gone THEN "lapsed" ELSE dFate[id]]
      /\ dSeen' = [id \in DIds |-> IF id \in gone THEN 0 ELSE dSeen[id]]
      /\ UNCHANGED <<dMode, dClock>>
  BY DEF SweepDrops
<1>2. gone \subseteq Held
  OBVIOUS
<1>3. \A id \in gone : Lapsed(id)
  OBVIOUS
<1> HIDE DEF gone
<1>4. Shapes'
  BY <1>1 DEF DInv, Shapes
<1>5. Held' = Held \ gone
  BY <1>1, <1>2 DEF Held, Free
<1>6. MetWhenStamped'
  BY <1>1, <1>5 DEF DInv, Shapes, MetWhenStamped
<1>7. ASSUME NEW i \in DIds PROVE Stands(i)
  <2>1. CASE i \in gone
    BY <1>1, <1>2, <1>3, <2>1, Windows DEF Stands
  <2>2. CASE i \notin gone
    BY <1>1, <2>2 DEF Stands, Released, DInv, MetWhenStamped
  <2> QED
    BY <2>1, <2>2
<1> QED
  BY <1>4, <1>6, <1>7 DEF DInv

LEMMA ReleasedByClock ==
    ASSUME NEW e, e.mode \in {"capsule", "switch"}
    PROVE  /\ Released(e) <=> dClock >= e.opens
           /\ Released(e)' <=> dClock' >= e.opens
BY DEF Released

\* Time alone takes no release back.
LEMMA SecondStands ==
    ASSUME DInv, DSecond
    PROVE  DInv' /\ \A i \in DIds : Stands(i)
<1>1. dClock' = dClock + 1 /\ UNCHANGED <<dMode, dDrop, dFate, dSeen>>
  BY DEF DSecond
<1>2. DInv'
  BY <1>1 DEF DInv, Shapes, MetWhenStamped, Held
<1>3. ASSUME NEW i \in DIds PROVE Stands(i)
  <2>1. i \in Held => dDrop[i] \in Entries /\ dFate[i] = "held" /\ dClock \in Nat
    BY DEF DInv, Shapes, MetWhenStamped, Held, Free
  <2>2. ASSUME i \in Held, Released(dDrop[i]) PROVE Released(dDrop[i])'
    <3> DEFINE e == dDrop[i]
    <3>1. e \in Entries /\ dClock \in Nat /\ dDrop' = dDrop
      BY <1>1, <2>1, <2>2
    <3>2. e.mode \in {"plain", "capsule", "switch", "quorum"} /\ e.opens \in Nat
      BY <3>1 DEF Entries
    <3>3. CASE e.mode \in {"capsule", "switch"}
      <4>1. dClock >= e.opens
        BY <2>2, <3>3, ReleasedByClock
      <4>2. dClock' >= e.opens
        BY <1>1, <3>1, <3>2, <4>1
      <4>3. Released(e)'
        BY <3>1, <3>3, <4>2, ReleasedByClock DEF Released
      <4> QED
        BY <4>3
    <3>4. CASE e.mode \notin {"capsule", "switch"}
      BY <2>2, <3>1, <3>2, <3>4 DEF Released
    <3> QED
      BY <3>3, <3>4
  <2> QED
    BY <1>1, <2>1, <2>2 DEF Stands
<1> QED
  BY <1>2, <1>3

LEMMA StepStands == DInv /\ [DNext]_dVars => DInv' /\ \A i \in DIds : Stands(i)
<1> SUFFICES ASSUME DInv, [DNext]_dVars
             PROVE  DInv' /\ \A i \in DIds : Stands(i)
  OBVIOUS
<1>1. CASE UNCHANGED dVars
  <2>1. DInv'
    BY <1>1 DEF dVars, DInv, Shapes, MetWhenStamped, Held
  <2>2. \A i \in DIds : Stands(i)
    BY <1>1 DEF dVars, DInv, MetWhenStamped, Stands, Released
  <2> QED
    BY <2>1, <2>2
<1>2. ASSUME NEW id \in DIds, MeetsLapsed(id)
      PROVE  DInv' /\ \A i \in DIds : Stands(i)
  BY <1>2, Erasing DEF MeetsLapsed, dTimes
<1>3. ASSUME NEW id \in DIds, Burn(id)
      PROVE  DInv' /\ \A i \in DIds : Stands(i)
  BY <1>3, Erasing DEF Burn, dTimes
<1> QED
  BY <1>1, <1>2, <1>3, ArmStands, PeekStands, TakeStands, CheckInStands, ApproveStands,
     RevokeStands, SweepStands, SecondStands DEF DNext

\* A capsule, a switch or a quorum that may be read stays so, and lapses only when
\* its window is over, counted from the request that first met it released: what
\* failsafe and quorum promise, for any drops, windows and thresholds.
THEOREM ReleasesStand == DSpec => ReleaseStands
<1>1. DInv /\ [DNext]_dVars =>
        [\A id \in DIds : id \in Held /\ Released(dDrop[id]) =>
            LET e == dDrop[id]
                from == IF dSeen[id] # 0 THEN dSeen[id]
                        ELSE IF e.mode = "plain" THEN e.expires ELSE e.opens
            IN  /\ dFate'[id] = "held" => Released(dDrop[id])'
                /\ dFate'[id] = "lapsed" =>
                       dClock >= (IF e.mode = "plain" THEN e.expires ELSE from + e.window)]_dVars
  BY StepStands DEF Stands
<1> QED
  BY <1>1, DInitInv, StepStands, PTL DEF DSpec, ReleaseStands

-------------------------------------------------------------------------------
\* Sums over a finite set.  iter adds up the members of each set of A one by one, in the
\* order in which they are chosen.
First(s) == CHOOSE x \in s : TRUE
Sums(d, A, iter) ==
    iter = [s \in A |-> IF s = {} THEN 0 ELSE d[First(s)].size + iter[s \ {First(s)}]]

LEMMA Unfold ==
    ASSUME NEW d, NEW S
    PROVE  TotalSize(d, S) = (CHOOSE iter : Sums(d, SUBSET S, iter))[S]
BY DEF TotalSize, MapThenSumSet, MapThenFoldSet, Sums, First

\* One member less.
LEMMA FirstIn == \A s : s # {} => First(s) \in s
BY DEF First

LEMMA Smaller ==
    ASSUME NEW s, IsFiniteSet(s), s # {}
    PROVE  /\ IsFiniteSet(s \ {First(s)}) /\ Cardinality(s) \in Nat
           /\ Cardinality(s \ {First(s)}) = Cardinality(s) - 1 /\ Cardinality(s) > 0
           /\ s \ {First(s)} \subseteq s
BY FirstIn, FS_RemoveElement, FS_CardinalityType, FS_EmptySet

\* There is such a function, ...
LEMMA SumsExist ==
    ASSUME NEW d, NEW S, IsFiniteSet(S)
    PROVE  \E iter : Sums(d, SUBSET S, iter)
<1> DEFINE Small(n) == {s \in SUBSET S : Cardinality(s) <= n}
           T == {n \in Nat : \E iter : Sums(d, Small(n), iter)}
<1>0. \A s \in SUBSET S : IsFiniteSet(s) /\ Cardinality(s) \in Nat /\ Cardinality(s) <= Cardinality(S)
  BY FS_Subset, FS_CardinalityType
<1>1. 0 \in T
  <2>1. \A s \in Small(0) : s = {}
    BY <1>0, FS_EmptySet
  <2>2. Sums(d, Small(0), [s \in Small(0) |-> 0])
    BY <2>1 DEF Sums
  <2> QED
    BY <2>2
<1>2. ASSUME NEW n \in Nat, n \in T PROVE n + 1 \in T
  <2>1. PICK iter : Sums(d, Small(n), iter)
    BY <1>2
  <2> DEFINE next == [s \in Small(n + 1) |->
                        IF s = {} THEN 0 ELSE d[First(s)].size + iter[s \ {First(s)}]]
  <2>2. ASSUME NEW s \in Small(n) PROVE s \in Small(n + 1) /\ next[s] = iter[s]
    <3>1. s \in Small(n + 1)
      BY <1>0
    <3>2. iter[s] = IF s = {} THEN 0 ELSE d[First(s)].size + iter[s \ {First(s)}]
      BY <2>1 DEF Sums
    <3> QED
      BY <3>1, <3>2
  <2>3. \A s \in Small(n + 1) : s # {} => s \ {First(s)} \in Small(n)
    BY <1>0, Smaller
  <2>4. \A s \in Small(n + 1) : s # {} => next[s \ {First(s)}] = iter[s \ {First(s)}]
    BY <2>2, <2>3
  <2>5. Sums(d, Small(n + 1), next)
    BY <2>4 DEF Sums
  <2> HIDE DEF next, Small
  <2> QED
    BY <2>5
<1>3. Cardinality(S) \in Nat /\ Small(Cardinality(S)) = SUBSET S
  BY <1>0
<1>4. Cardinality(S) \in T
  <2> HIDE DEF T
  <2> QED
    BY <1>1, <1>2, <1>3, AllNat
<1> QED
  BY <1>3, <1>4

\* ... and it is the same on the sets that two of them are defined on.
LEMMA SumsAgree ==
    ASSUME NEW d, NEW S, IsFiniteSet(S), NEW f, NEW g, NEW U \in SUBSET S,
           Sums(d, SUBSET S, f), Sums(d, SUBSET U, g)
    PROVE  f[U] = g[U]
<1> DEFINE T == {n \in Nat : \A s \in SUBSET U : Cardinality(s) = n => f[s] = g[s]}
<1>0. \A s \in SUBSET U : IsFiniteSet(s) /\ Cardinality(s) \in Nat /\ s \in SUBSET S
  BY FS_Subset, FS_CardinalityType
<1>1. 0 \in T
  BY <1>0, FS_EmptySet DEF Sums
<1>2. ASSUME NEW n \in Nat, n \in T PROVE n + 1 \in T
  <2> SUFFICES ASSUME NEW s \in SUBSET U, Cardinality(s) = n + 1 PROVE f[s] = g[s]
    OBVIOUS
  <2>1. s # {}
    BY <1>0, FS_EmptySet
  <2>2. s \ {First(s)} \in SUBSET U /\ Cardinality(s \ {First(s)}) = n
    BY <1>0, <2>1, Smaller
  <2>3. f[s \ {First(s)}] = g[s \ {First(s)}]
    BY <1>2, <2>2
  <2>4. f[s] = d[First(s)].size + f[s \ {First(s)}]
    BY <1>0, <2>1 DEF Sums
  <2>5. g[s] = d[First(s)].size + g[s \ {First(s)}]
    BY <2>1 DEF Sums
  <2> QED
    BY <2>3, <2>4, <2>5
<1>3. Cardinality(U) \in T
  <2> HIDE DEF T
  <2> QED
    BY <1>0, <1>1, <1>2, AllNat
<1> QED
  BY <1>3

\* So a sum is one member and the sum of the others: the one that is chosen first, ...
LEMMA TotalFirst ==
    ASSUME NEW d, NEW S, IsFiniteSet(S)
    PROVE  /\ S = {} => TotalSize(d, S) = 0
           /\ S # {} => TotalSize(d, S) = d[First(S)].size + TotalSize(d, S \ {First(S)})
<1> DEFINE f == CHOOSE iter : Sums(d, SUBSET S, iter)
           U == S \ {First(S)}
           g == CHOOSE iter : Sums(d, SUBSET U, iter)
<1>1. Sums(d, SUBSET S, f)
  BY SumsExist
<1>2. IsFiniteSet(U) /\ U \in SUBSET S
  BY FS_Subset
<1>3. Sums(d, SUBSET U, g)
  BY <1>2, SumsExist
<1>4. TotalSize(d, S) = f[S] /\ TotalSize(d, U) = g[U]
  BY Unfold
<1> HIDE DEF f, g
<1>5. f[U] = g[U]
  BY <1>1, <1>2, <1>3, SumsAgree
<1> QED
  BY <1>1, <1>4, <1>5 DEF Sums

LEMMA TotalNat ==
    ASSUME NEW d, NEW S, IsFiniteSet(S), \A x \in S : d[x].size \in Nat
    PROVE  TotalSize(d, S) \in Nat
<1> DEFINE T == {n \in Nat : \A s \in SUBSET S : Cardinality(s) = n => TotalSize(d, s) \in Nat}
<1>0. \A s \in SUBSET S : IsFiniteSet(s) /\ Cardinality(s) \in Nat
  BY FS_Subset, FS_CardinalityType
<1>1. 0 \in T
  BY <1>0, FS_EmptySet, TotalFirst
<1>2. ASSUME NEW n \in Nat, n \in T PROVE n + 1 \in T
  <2> SUFFICES ASSUME NEW s \in SUBSET S, Cardinality(s) = n + 1 PROVE TotalSize(d, s) \in Nat
    OBVIOUS
  <2>1. s # {} /\ First(s) \in s /\ s \ {First(s)} \in SUBSET S /\ Cardinality(s \ {First(s)}) = n
    BY <1>0, FS_EmptySet, FirstIn, Smaller
  <2>2. TotalSize(d, s \ {First(s)}) \in Nat
    BY <1>2, <2>1
  <2>3. TotalSize(d, s) = d[First(s)].size + TotalSize(d, s \ {First(s)}) /\ d[First(s)].size \in Nat
    BY <1>0, <2>1, TotalFirst
  <2> QED
    BY <2>2, <2>3
<1>3. Cardinality(S) \in T
  <2> HIDE DEF T
  <2> QED
    BY <1>0, <1>1, <1>2, AllNat
<1> QED
  BY <1>3

\* ... or any other.
LEMMA TotalWithout ==
    ASSUME NEW d, NEW S, IsFiniteSet(S), \A x \in S : d[x].size \in Nat
    PROVE  \A x \in S : TotalSize(d, S) = d[x].size + TotalSize(d, S \ {x})
<1> DEFINE T == {n \in Nat : \A s \in SUBSET S : Cardinality(s) = n =>
                                \A x \in s : TotalSize(d, s) = d[x].size + TotalSize(d, s \ {x})}
<1>0. \A s \in SUBSET S : IsFiniteSet(s) /\ Cardinality(s) \in Nat /\ TotalSize(d, s) \in Nat
  BY FS_Subset, FS_CardinalityType, TotalNat
<1>1. 0 \in T
  BY <1>0, FS_EmptySet
<1>2. ASSUME NEW n \in Nat, n \in T PROVE n + 1 \in T
  <2> SUFFICES ASSUME NEW s \in SUBSET S, Cardinality(s) = n + 1, NEW x \in s
               PROVE  TotalSize(d, s) = d[x].size + TotalSize(d, s \ {x})
    OBVIOUS
  <2> DEFINE c == First(s)
             rest == (s \ {c}) \ {x}
  <2>1. c \in s /\ s \ {c} \in SUBSET S /\ Cardinality(s \ {c}) = n
    BY <1>0, FirstIn, Smaller
  <2>2. TotalSize(d, s) = d[c].size + TotalSize(d, s \ {c})
    BY <1>0, TotalFirst
  <2> HIDE DEF c
  <2>3. CASE x = c
    BY <2>2, <2>3
  <2>4. CASE x # c
    <3>1. s \ {x} \in SUBSET S /\ Cardinality(s \ {x}) = n /\ c \in s \ {x}
      BY <1>0, <2>1, <2>4, FS_RemoveElement
    <3>2. (s \ {x}) \ {c} = rest
      OBVIOUS
    <3>3. TotalSize(d, s \ {x}) = d[c].size + TotalSize(d, rest)
      BY <1>2, <3>1, <3>2
    <3>4. TotalSize(d, s \ {c}) = d[x].size + TotalSize(d, rest)
      BY <1>2, <2>1, <2>4
    <3>5. d[x].size \in Nat /\ d[c].size \in Nat /\ TotalSize(d, rest) \in Nat
      BY <1>0, <2>1
    <3> QED
      BY <2>2, <3>3, <3>4, <3>5
  <2> QED
    BY <2>3, <2>4
<1>3. Cardinality(S) \in T
  <2> HIDE DEF T
  <2> QED
    BY <1>0, <1>1, <1>2, AllNat
<1> QED
  BY <1>3

\* Sizes that do not change add up to the same.
LEMMA TotalSame ==
    ASSUME NEW d, NEW e, NEW S, IsFiniteSet(S), \A x \in S : e[x].size = d[x].size
    PROVE  TotalSize(e, S) = TotalSize(d, S)
<1> DEFINE T == {n \in Nat : \A s \in SUBSET S : Cardinality(s) = n => TotalSize(e, s) = TotalSize(d, s)}
<1>0. \A s \in SUBSET S : IsFiniteSet(s) /\ Cardinality(s) \in Nat
  BY FS_Subset, FS_CardinalityType
<1>1. 0 \in T
  BY <1>0, FS_EmptySet, TotalFirst
<1>2. ASSUME NEW n \in Nat, n \in T PROVE n + 1 \in T
  <2> SUFFICES ASSUME NEW s \in SUBSET S, Cardinality(s) = n + 1 PROVE TotalSize(e, s) = TotalSize(d, s)
    OBVIOUS
  <2>1. s # {} /\ First(s) \in s /\ s \ {First(s)} \in SUBSET S /\ Cardinality(s \ {First(s)}) = n
    BY <1>0, FS_EmptySet, FirstIn, Smaller
  <2>2. TotalSize(e, s \ {First(s)}) = TotalSize(d, s \ {First(s)})
    BY <1>2, <2>1
  <2>3. TotalSize(e, s) = e[First(s)].size + TotalSize(e, s \ {First(s)})
    BY <1>0, <2>1, TotalFirst
  <2>4. TotalSize(d, s) = d[First(s)].size + TotalSize(d, s \ {First(s)})
    BY <1>0, <2>1, TotalFirst
  <2> QED
    BY <2>1, <2>2, <2>3, <2>4
<1>3. Cardinality(S) \in T
  <2> HIDE DEF T
  <2> QED
    BY <1>0, <1>1, <1>2, AllNat
<1> QED
  BY <1>3

\* A part adds up to no more than the whole.
LEMMA TotalPart ==
    ASSUME NEW d, NEW S, IsFiniteSet(S), \A x \in S : d[x].size \in Nat, NEW U \in SUBSET S
    PROVE  TotalSize(d, U) <= TotalSize(d, S)
<1> DEFINE T == {n \in Nat : \A s \in SUBSET S : Cardinality(s) = n /\ U \subseteq s =>
                                TotalSize(d, U) <= TotalSize(d, s)}
<1>0. \A s \in SUBSET S : IsFiniteSet(s) /\ Cardinality(s) \in Nat /\ TotalSize(d, s) \in Nat
  BY FS_Subset, FS_CardinalityType, TotalNat
<1>1. 0 \in T
  <2> SUFFICES ASSUME NEW s \in SUBSET S, Cardinality(s) = 0, U \subseteq s
               PROVE  TotalSize(d, U) <= TotalSize(d, s)
    OBVIOUS
  <2>1. U = s
    BY <1>0, FS_EmptySet
  <2> QED
    BY <1>0, <2>1
<1>2. ASSUME NEW n \in Nat, n \in T PROVE n + 1 \in T
  <2> SUFFICES ASSUME NEW s \in SUBSET S, Cardinality(s) = n + 1, U \subseteq s
               PROVE  TotalSize(d, U) <= TotalSize(d, s)
    OBVIOUS
  <2>1. CASE U = s
    BY <1>0, <2>1
  <2>2. CASE U # s
    <3>1. PICK x \in s : x \notin U
      BY <2>2
    <3>2. s \ {x} \in SUBSET S /\ Cardinality(s \ {x}) = n /\ U \subseteq s \ {x}
      BY <1>0, <3>1, FS_RemoveElement
    <3>3. TotalSize(d, U) <= TotalSize(d, s \ {x})
      BY <1>2, <3>2
    <3>4. TotalSize(d, s) = d[x].size + TotalSize(d, s \ {x}) /\ d[x].size \in Nat
      BY <1>0, TotalWithout
    <3> QED
      BY <1>0, <3>2, <3>3, <3>4
  <2> QED
    BY <2>1, <2>2
<1>3. Cardinality(S) \in T
  <2> HIDE DEF T
  <2> QED
    BY <1>0, <1>1, <1>2, AllNat
<1> QED
  BY <1>3

-------------------------------------------------------------------------------
\* The capacity.  What is held is finite, and what it adds up to is what is counted, or
\* less in dead-drop.
Counted ==
    /\ IsFiniteSet(Held) /\ dTotal \in Nat /\ dTotal <= DCap
    /\ TotalSize(dDrop, Held) <= dTotal
    /\ dMode # "plain" => dTotal = TotalSize(dDrop, Held)

LEMMA CountInit == DInit => Counted
<1> SUFFICES ASSUME DInit PROVE Counted
  OBVIOUS
<1>1. Held = {}
  BY DEF DInit, Held, Free
<1>2. IsFiniteSet(Held) /\ TotalSize(dDrop, Held) = 0
  BY <1>1, FS_EmptySet, TotalFirst
<1> QED
  BY <1>2, DropAssumption DEF DInit, Counted

LEMMA Sizes ==
    ASSUME DInv
    PROVE  \A id \in Held : id \in DIds /\ dDrop[id] \in Entries /\ dDrop[id].size \in Nat
<1> SUFFICES ASSUME NEW id \in Held
             PROVE  id \in DIds /\ dDrop[id] \in Entries /\ dDrop[id].size \in Nat
  OBVIOUS
<1>1. id \in DIds /\ dDrop[id] \in Entries
  BY DEF DInv, Shapes, Held, Free
<1>2. dDrop[id].size \in DSizes
  BY <1>1 DEF Entries
<1> QED
  BY <1>1, <1>2, DropAssumption

\* An entry that changes keeps its size.
LEMMA CountChanging ==
    ASSUME DInv, Counted, NEW id \in Held, NEW e, e.mode # "free", e.size = dDrop[id].size,
           dDrop' = [dDrop EXCEPT ![id] = e], UNCHANGED <<dMode, dTotal>>
    PROVE  Counted'
<1>1. id \in DIds /\ dDrop \in [DIds -> Entries \cup {Free}]
  BY Sizes DEF DInv, Shapes
<1>2. Held' = Held
  BY <1>1 DEF Held
<1>3. \A x \in Held : dDrop'[x].size = dDrop[x].size
  BY <1>1, Sizes
<1>4. IsFiniteSet(Held)
  BY DEF Counted
<1>5. TotalSize(dDrop', Held) = TotalSize(dDrop, Held)
  BY <1>3, <1>4, TotalSame
<1> QED
  BY <1>2, <1>5 DEF Counted

\* An entry that goes takes its bytes off, but for the lapsed ones of dead-drop.
LEMMA CountErasing ==
    ASSUME DInv, Counted, NEW id \in Held, dDrop' = [dDrop EXCEPT ![id] = Free], dMode' = dMode,
           \/ dTotal' = dTotal - dDrop[id].size
           \/ dMode = "plain" /\ dTotal' = dTotal
    PROVE  Counted'
<1>1. id \in DIds /\ dDrop \in [DIds -> Entries \cup {Free}]
  BY Sizes DEF DInv, Shapes
<1> DEFINE rest == Held \ {id}
<1>2. Held' = rest
  BY <1>1 DEF Held, Free
<1>3. IsFiniteSet(Held) /\ IsFiniteSet(rest)
  BY FS_Subset DEF Counted
<1>4. \A x \in rest : dDrop'[x].size = dDrop[x].size
  BY <1>1, Sizes
<1>5. TotalSize(dDrop', rest) = TotalSize(dDrop, rest)
  <2> HIDE DEF rest
  <2> QED
    BY <1>3, <1>4, TotalSame, Zenon
<1>6. TotalSize(dDrop, Held) = dDrop[id].size + TotalSize(dDrop, rest)
  BY <1>3, Sizes, TotalWithout
<1>7. dDrop[id].size \in Nat /\ TotalSize(dDrop, rest) \in Nat /\ DCap \in Nat
  BY <1>3, Sizes, TotalNat, DropAssumption
<1> HIDE DEF rest
<1>8. /\ dTotal \in Nat /\ dTotal <= DCap /\ TotalSize(dDrop, Held) <= dTotal
      /\ dMode # "plain" => dTotal = TotalSize(dDrop, Held)
  BY DEF Counted
<1> DEFINE size == dDrop[id].size
           left == TotalSize(dDrop, rest)
           held == TotalSize(dDrop, Held)
<1>9. /\ dTotal' \in Nat /\ dTotal' <= DCap /\ left <= dTotal'
      /\ dMode' # "plain" => dTotal' = left
  <2>1. /\ size \in Nat /\ left \in Nat /\ DCap \in Nat /\ held = size + left
        /\ dTotal \in Nat /\ dTotal <= DCap /\ held <= dTotal
        /\ dMode # "plain" => dTotal = held
        /\ \/ dTotal' = dTotal - size
           \/ dMode = "plain" /\ dTotal' = dTotal
    BY <1>6, <1>7, <1>8
  <2> HIDE DEF size, left, held
  <2> QED
    BY <2>1
<1> QED
  BY <1>2, <1>3, <1>5, <1>9 DEF Counted

LEMMA CountArm ==
    ASSUME DInv, Counted, NEW id \in DIds, NEW setup \in DSetups, NEW size \in DSizes,
           Arm(id, setup, size)
    PROVE  Counted'
<1>1. /\ id \notin Held /\ dTotal + size <= DCap /\ dTotal' = dTotal + size /\ dMode' = dMode
      /\ setup.mode = dMode /\ dMode # "free"
      /\ dDrop \in [DIds -> Entries \cup {Free}] /\ size \in Nat
  BY DropAssumption DEF Arm, DInv, Shapes
<1> DEFINE e == [mode |-> setup.mode, size |-> size, reads |-> setup.reads,
                 window |-> setup.window, interval |-> setup.gate, need |-> setup.need,
                 opens |-> dClock + setup.gate, expires |-> dClock + setup.ttl,
                 approved |-> {}, released |-> 0]
<1>2. dDrop' = [dDrop EXCEPT ![id] = e] /\ e.mode # "free" /\ e.size = size
  BY <1>1 DEF Arm
<1> HIDE DEF e
<1> DEFINE more == Held \cup {id}
<1>3. Held' = more
  BY <1>1, <1>2 DEF Held
<1>4. IsFiniteSet(Held) /\ IsFiniteSet(more)
  BY FS_AddElement DEF Counted
<1>5. \A x \in Held : dDrop'[x].size = dDrop[x].size /\ dDrop[x].size \in Nat
  BY <1>1, <1>2, Sizes
<1>6. TotalSize(dDrop', Held) = TotalSize(dDrop, Held) /\ TotalSize(dDrop, Held) \in Nat
  BY <1>4, <1>5, TotalSame, TotalNat
<1>7. \A x \in more : dDrop'[x].size \in Nat
  BY <1>1, <1>2, <1>5
<1>8. TotalSize(dDrop', more) = dDrop'[id].size + TotalSize(dDrop', more \ {id})
  BY <1>4, <1>7, TotalWithout
<1>9. more \ {id} = Held /\ dDrop'[id].size = size
  BY <1>1, <1>2
<1>10. TotalSize(dDrop', more) = size + TotalSize(dDrop, Held)
  BY <1>6, <1>8, <1>9
<1> HIDE DEF more
<1> QED
  BY <1>1, <1>3, <1>4, <1>6, <1>10, DropAssumption DEF Counted

\* A sweep that removes something counts anew.
LEMMA CountSweep ==
    ASSUME DInv, Counted, SweepDrops
    PROVE  Counted'
<1> DEFINE gone == {id \in Held : Lapsed(id)}
           rest == Held \ gone
<1>1. /\ dDrop' = [id \in DIds |-> IF id \in gone THEN Free ELSE dDrop[id]]
      /\ dTotal' = (IF gone # {} THEN TotalSize(dDrop, rest) ELSE dTotal)
      /\ dMode' = dMode
  BY DEF SweepDrops
<1>2. gone \subseteq Held
  OBVIOUS
<1> HIDE DEF gone
<1>3. Held' = rest
  BY <1>1, <1>2 DEF Held, Free
<1>4. IsFiniteSet(Held) /\ IsFiniteSet(rest)
  BY FS_Subset DEF Counted
<1>5. \A x \in rest : dDrop'[x].size = dDrop[x].size
  BY <1>1, Sizes
<1>6. TotalSize(dDrop', rest) = TotalSize(dDrop, rest)
  BY <1>4, <1>5, TotalSame
<1>7. /\ TotalSize(dDrop, rest) \in Nat /\ TotalSize(dDrop, rest) <= TotalSize(dDrop, Held)
      /\ TotalSize(dDrop, Held) \in Nat
  <2>1. rest \in SUBSET Held /\ \A x \in Held : dDrop[x].size \in Nat
    BY Sizes
  <2> QED
    BY <1>4, <2>1, TotalNat, TotalPart
<1>8. gone = {} => rest = Held
  OBVIOUS
<1> HIDE DEF rest
<1> QED
  BY <1>1, <1>3, <1>4, <1>6, <1>7, <1>8, DropAssumption DEF Counted

LEMMA StepCounts == DInv /\ Counted /\ [DNext]_dVars => Counted'
<1> SUFFICES ASSUME DInv, Counted, [DNext]_dVars PROVE Counted'
  OBVIOUS
<1>1. CASE UNCHANGED dVars
  BY <1>1 DEF dVars, Counted, Held
<1>2. ASSUME NEW id \in DIds, MeetsLapsed(id) PROVE Counted'
  BY <1>2, CountErasing DEF MeetsLapsed, Erase, LapseFrees
<1>3. ASSUME NEW id \in DIds, Peek(id) PROVE Counted'
  <2>1. id \in Held /\ dDrop' = [dDrop EXCEPT ![id] = Observed(dDrop[id])] /\ UNCHANGED <<dMode, dTotal>>
    BY <1>3 DEF Peek, Meets
  <2>2. Observed(dDrop[id]) \in Entries /\ Observed(dDrop[id]).size = dDrop[id].size
    BY <2>1, Observing
  <2>3. Observed(dDrop[id]).mode # "free"
    BY <2>2 DEF Entries
  <2> QED
    BY <2>1, <2>2, <2>3, CountChanging
<1>4. ASSUME NEW id \in DIds, Take(id) PROVE Counted'
  <2> DEFINE e == Observed(dDrop[id])
             less == [e EXCEPT !.reads = @ - 1]
  <2>1. id \in Held /\ dMode' = dMode
    BY <1>4 DEF Take, Meets
  <2>2. e \in Entries /\ e.size = dDrop[id].size
    BY <2>1, Observing
  <2>3. CASE e.reads = 1
    <3>1. dDrop' = [dDrop EXCEPT ![id] = Free] /\ dTotal' = dTotal - dDrop[id].size
      BY <1>4, <2>2, <2>3 DEF Take, Erase
    <3> QED
      BY <2>1, <3>1, CountErasing
  <2>4. CASE e.reads # 1
    <3>1. dDrop' = [dDrop EXCEPT ![id] = less] /\ dTotal' = dTotal
      BY <1>4, <2>4 DEF Take
    <3> HIDE DEF e
    <3>2. less.mode # "free" /\ less.size = dDrop[id].size
      BY <2>2 DEF Entries
    <3> QED
      BY <2>1, <3>1, <3>2, CountChanging
  <2> QED
    BY <2>3, <2>4
<1>5. ASSUME NEW id \in DIds, Burn(id) PROVE Counted'
  BY <1>5, CountErasing DEF Burn, Meets, Erase
<1>6. ASSUME NEW id \in DIds, CheckIn(id) PROVE Counted'
  <2> DEFINE e == Observed(dDrop[id])
             later == [e EXCEPT !.opens = dClock + dDrop[id].interval]
  <2>1. id \in Held /\ dDrop' = [dDrop EXCEPT ![id] = later] /\ UNCHANGED <<dMode, dTotal>>
    BY <1>6 DEF CheckIn, Meets
  <2>2. e \in Entries /\ e.size = dDrop[id].size
    BY <2>1, Observing
  <2> HIDE DEF e
  <2>3. later.mode # "free" /\ later.size = dDrop[id].size
    BY <2>2 DEF Entries
  <2> QED
    BY <2>1, <2>3, CountChanging
<1>7. ASSUME NEW id \in DIds, NEW seat \in DSeats, Approve(id, seat) PROVE Counted'
  <2>1. id \in Held /\ dDrop[id] \in Entries /\ UNCHANGED <<dMode, dTotal>>
    BY <1>7, Sizes DEF Approve, Meets
  <2> DEFINE e == [dDrop[id] EXCEPT !.approved = @ \cup {seat}]
             met == e.released = 0 /\ Cardinality(e.approved) >= e.need
             after == IF met THEN [e EXCEPT !.released = dClock] ELSE e
  <2>2. dDrop' = [dDrop EXCEPT ![id] = after]
    BY <1>7 DEF Approve
  <2>3. e \in Entries /\ e.size = dDrop[id].size
    BY <2>1 DEF Entries
  <2> HIDE DEF e, met
  <2>4. after.mode # "free" /\ after.size = dDrop[id].size
    BY <2>3 DEF Entries
  <2> HIDE DEF after
  <2> QED
    BY <2>1, <2>2, <2>4, CountChanging
<1>8. ASSUME NEW id \in DIds, NEW seat \in DSeats, Revoke(id, seat) PROVE Counted'
  <2> DEFINE e == [dDrop[id] EXCEPT !.approved = @ \ {seat}]
  <2>1. id \in Held /\ dDrop[id] \in Entries /\ id \in DIds /\ dDrop \in [DIds -> Entries \cup {Free}]
    BY <1>8, Sizes DEF Revoke, Meets, DInv, Shapes
  <2>2. dDrop' = [dDrop EXCEPT ![id] = e] /\ UNCHANGED <<dMode, dTotal>>
    BY <1>8, <2>1 DEF Revoke
  <2>3. e.mode # "free" /\ e.size = dDrop[id].size
    BY <2>1 DEF Entries
  <2> HIDE DEF e
  <2> QED
    BY <2>1, <2>2, <2>3, CountChanging
<1>9. CASE DSecond
  BY <1>9 DEF DSecond, Counted, Held
<1> QED
  BY <1>1, <1>2, <1>3, <1>4, <1>5, <1>6, <1>7, <1>8, <1>9, CountArm, CountSweep DEF DNext

\* The capacity is counted right: what is held never passes the cap, and the count of
\* failsafe and quorum is what is held (total_bytes of their main.rs).
THEOREM CapacityKept == DSpec => []BytesHeld
<1>1. DInit => DInv /\ Counted
  BY DInitInv, CountInit
<1>2. DInv /\ Counted /\ [DNext]_dVars => (DInv /\ Counted)'
  BY StepStands, StepCounts
<1>3. Counted => BytesHeld
  BY DEF Counted, BytesHeld
<1> QED
  BY <1>1, <1>2, <1>3, PTL DEF DSpec

-------------------------------------------------------------------------------
\* The greatest of some numbers.
LEMMA MaxIn ==
    ASSUME NEW m \in Nat, NEW s, s \subseteq 1..m, s # {}
    PROVE  Max(s) \in s /\ \A y \in s : Max(s) >= y
<1> DEFINE T == {x \in Nat : \A y \in s : y <= x}
<1>1. m \in T /\ T \subseteq Nat
  OBVIOUS
<1>2. PICK k \in T : \A x \in T : k <= x
  BY <1>1, LeastNat
<1>3. k \in Nat /\ \A y \in s : y <= k /\ y \in Nat /\ y >= 1
  BY <1>2
<1>4. k \in s
  <2> SUFFICES ASSUME k \notin s PROVE FALSE
    OBVIOUS
  <2>1. k >= 1
    <3>1. PICK y \in s : TRUE
      OBVIOUS
    <3> QED
      BY <1>3, <3>1
  <2>2. k - 1 \in Nat /\ ~ (k <= k - 1)
    BY <1>3, <2>1
  <2>3. ASSUME NEW y \in s PROVE y <= k - 1
    <3>1. y # k /\ y <= k /\ y \in Nat
      BY <1>3
    <3> QED
      BY <1>3, <3>1
  <2>4. k - 1 \in T
    BY <2>2, <2>3
  <2> HIDE DEF T
  <2> QED
    BY <1>2, <2>2, <2>4
<1>5. \A y \in s : k >= y
  BY <1>3
<1>6. \E x \in s : \A y \in s : x >= y
  BY <1>4, <1>5
<1> QED
  BY <1>6 DEF Max

-------------------------------------------------------------------------------
(***************************************************************************)
(* What the pages of a room show.                                          *)
(***************************************************************************)

\* The blobs the relay took are different ones, and none of them is on its way any more.
Numbered(log, drawn, posts) ==
    /\ drawn \in Nat /\ drawn <= CMaxMessages
    /\ log \in Seq(1..drawn) /\ posts \subseteq 1..drawn
    /\ \A m, n \in 1..Len(log) : log[m] = log[n] => m = n
    /\ \A n \in 1..Len(log) : log[n] \notin posts

\* What is on the wire to a page is an event, and a message there was numbered.
Event(seq, event) == /\ event.kind \in {"hello", "present", "msg"}
                     /\ event.kind = "msg" => event.n \in 1..seq
OnWire(seq, wire) ==
    /\ \E S : wire \in Seq(S)
    /\ \A i \in 1..Len(wire) : Event(seq, wire[i])

\* How often the page shows each blob.
Bubbles(log, shown, pending, R) ==
    \A b \in Blobs : shown[b] = Once(b \in pending) + Once(\E n \in R : log[n] = b)

\* What the page met.
Met(log, drawn, t) ==
    /\ t.seen \subseteq 1..Len(log) /\ t.opening \subseteq t.seen /\ t.queue \subseteq 1..Len(log)
    /\ t.histSeq \in 0..Len(log) /\ t.reading \in 0..t.histSeq
    /\ t.pending \subseteq 1..drawn /\ t.shown \in [Blobs -> Nat]
    /\ \A n \in t.opening : n > t.histSeq /\ log[n] \notin t.pending
    /\ \A n \in t.seen : log[n] \in t.pending => n <= t.histSeq
    /\ Bubbles(log, t.shown, t.pending, Rendered(t))

\* Before its history is in, it met no more than it read of that.
Begun(t) ==
    /\ t.loaded \in BOOLEAN
    /\ t.loaded => t.reading = 0
    /\ t.reading # 0 => t.reading \in t.seen
    /\ ~t.loaded => t.opening = {} /\ \A n \in t.seen : n <= t.reading

\* The fetch it waits for, and its answer.
Asked(seq, t) ==
    /\ t.ask \in {"none", "enter", "again"}
    /\ t.ask = "enter" => ~t.loaded /\ t.reading = 0
    /\ t.ask = "again" => t.loaded
    /\ t.es = "none" => ~t.loaded /\ t.reading = 0 /\ t.ask = "none"
    /\ t.answer # <<>> => /\ t.ask # "none"
                          /\ t.answer[1].ok \in BOOLEAN /\ t.answer[1].seq \in 0..seq

Page(log, drawn, t) ==
    /\ DOMAIN t = DOMAIN Away
    /\ Met(log, drawn, t) /\ Begun(t) /\ Asked(Len(log), t) /\ OnWire(Len(log), t.wire)

IRoom ==
    /\ Numbered(cLog, cDrawn, cPosts) /\ cAlive \in BOOLEAN
    /\ DOMAIN cTab = CTabs
    /\ \A c \in CTabs : Page(cLog, cDrawn, cTab[c])

\* A page that handled some messages more.
MetMore(log, drawn, t, u) ==
    /\ DOMAIN u = DOMAIN Away /\ Met(log, drawn, u)
    /\ u.reading = 0 /\ u.loaded = t.loaded /\ u.ask = t.ask /\ u.answer = t.answer
    /\ u.es = t.es /\ u.wire = t.wire

LEMMA Fields ==
    DOMAIN Away = {"es", "wire", "ask", "answer", "loaded", "histSeq", "lastN", "seen", "reading",
                   "opening", "queue", "shown", "pending", "here", "ghosts", "beacons"}
BY DEF Away

LEMMA Lengths ==
    ASSUME NEW log, NEW drawn, NEW posts, Numbered(log, drawn, posts)
    PROVE  Len(log) \in Nat /\ drawn \in Nat /\ \A n \in 1..Len(log) : log[n] \in 1..drawn /\ log[n] \in Blobs
<1>1. \A n \in 1..Len(log) : log[n] \in 1..drawn
  BY DEF Numbered
<1>2. CMaxMessages \in Nat
  BY ChatAssumption
<1> QED
  BY <1>1, <1>2 DEF Numbered, Blobs

\* Messages that are handled: each is marked, and its bubble settled or still to come.
LEMMA Handled ==
    ASSUME NEW drawn, NEW posts, Numbered(cLog, drawn, posts),
           NEW t, DOMAIN t = DOMAIN Away, Met(cLog, drawn, t), t.reading = 0,
           NEW ns, ns \subseteq 1..Len(cLog)
    PROVE  MetMore(cLog, drawn, t, HandleMsgs(t, ns))
<1> DEFINE u == HandleMsgs(t, ns)
           new == {n \in ns : ~Skips(t, n)}
<1>0. Len(cLog) \in Nat /\ \A n \in 1..Len(cLog) : cLog[n] \in Blobs
  BY Lengths
<1>1. new \subseteq 1..Len(cLog) /\ \A n \in new : n > t.histSeq /\ n \notin t.seen
  <2>1. t.histSeq \in 0..Len(cLog)
    BY DEF Met
  <2>2. \A n \in new : n \in 1..Len(cLog) /\ ~Skips(t, n)
    OBVIOUS
  <2>3. \A n \in new : ~(n <= t.histSeq) /\ n \notin t.seen
    BY <2>2 DEF Skips
  <2> HIDE DEF new
  <2> QED
    BY <1>0, <2>1, <2>2, <2>3
<1>2. /\ DOMAIN u = DOMAIN Away
      /\ u.reading = 0 /\ u.loaded = t.loaded /\ u.ask = t.ask /\ u.answer = t.answer
      /\ u.es = t.es /\ u.wire = t.wire /\ u.queue = t.queue /\ u.histSeq = t.histSeq
      /\ u.shown = t.shown
  BY Fields DEF HandleMsgs
<1>3. /\ u.seen = t.seen \cup new
      /\ u.opening = t.opening \cup {n \in new : cLog[n] \notin t.pending}
      /\ u.pending = t.pending \ {cLog[n] : n \in new}
  BY Fields DEF HandleMsgs
<1> HIDE DEF new, u
<1>4. /\ u.seen \subseteq 1..Len(cLog) /\ u.opening \subseteq u.seen /\ u.queue \subseteq 1..Len(cLog)
      /\ u.histSeq \in 0..Len(cLog) /\ u.reading \in 0..u.histSeq
      /\ u.pending \subseteq 1..drawn /\ u.shown \in [Blobs -> Nat]
  BY <1>1, <1>2, <1>3 DEF Met
<1>5. \A n \in u.opening : n > u.histSeq /\ cLog[n] \notin u.pending
  BY <1>1, <1>2, <1>3 DEF Met
<1>6. \A n \in u.seen : cLog[n] \in u.pending => n <= u.histSeq
  BY <1>1, <1>2, <1>3 DEF Met
<1>7. ASSUME NEW b \in Blobs
      PROVE  u.shown[b] = Once(b \in u.pending) + Once(\E n \in Rendered(u) : cLog[n] = b)
  <2>1. t.shown[b] = Once(b \in t.pending) + Once(\E n \in Rendered(t) : cLog[n] = b)
    BY DEF Met, Bubbles
  <2>2. Rendered(u) = (Rendered(t) \cup new) \ {n \in new : cLog[n] \notin t.pending}
    <3>1. 0 \notin new /\ 0 \notin t.seen
      BY <1>0, <1>1 DEF Met
    <3>2. new \cap t.opening = {}
      BY <1>1 DEF Met
    <3> QED
      BY <1>2, <1>3, <3>1, <3>2 DEF Rendered
  <2>3. ASSUME NEW n \in new, cLog[n] = b
        PROVE  /\ ~ \E k \in Rendered(t) : cLog[k] = b
               /\ (\E k \in Rendered(u) : cLog[k] = b) <=> b \in t.pending
               /\ b \notin u.pending
    <3>1. \A k \in 1..Len(cLog) : cLog[k] = b => k = n
      BY <1>1, <2>3 DEF Numbered
    <3>2. Rendered(t) \subseteq 1..Len(cLog) /\ n \notin Rendered(t)
      BY <1>1 DEF Rendered, Met
    <3> QED
      BY <1>1, <1>3, <2>2, <2>3, <3>1, <3>2
  <2>4. CASE \E n \in new : cLog[n] = b
    BY <1>2, <2>1, <2>3, <2>4 DEF Once
  <2>5. CASE ~ \E n \in new : cLog[n] = b
    <3>1. b \in u.pending <=> b \in t.pending
      BY <1>3, <2>5
    <3>2. (\E n \in Rendered(u) : cLog[n] = b) <=> (\E n \in Rendered(t) : cLog[n] = b)
      <4>1. \A n \in Rendered(t) : n \notin new
        BY <1>1 DEF Rendered
      <4> QED
        BY <2>2, <2>5, <4>1
    <3> QED
      BY <1>2, <2>1, <3>1, <3>2 DEF Once
  <2> QED
    BY <2>4, <2>5
<1>8. Met(cLog, drawn, u)
  BY <1>4, <1>5, <1>6, <1>7 DEF Met, Bubbles
<1> QED
  BY <1>2, <1>8 DEF MetMore, u

\* A bubble that comes for a message that was met and had none.
LEMMA OneMore ==
    ASSUME NEW log, NEW drawn, NEW posts, Numbered(log, drawn, posts),
           NEW shown \in [Blobs -> Nat], NEW pending, NEW R, R \subseteq 1..Len(log),
           Bubbles(log, shown, pending, R),
           NEW n \in 1..Len(log), n \notin R
    PROVE  /\ [shown EXCEPT ![log[n]] = @ + 1] \in [Blobs -> Nat]
           /\ Bubbles(log, [shown EXCEPT ![log[n]] = @ + 1], pending, R \cup {n})
<1> DEFINE next == [shown EXCEPT ![log[n]] = @ + 1]
<1>1. log[n] \in Blobs
  BY Lengths
<1>2. \A b \in Blobs : next[b] = IF b = log[n] THEN shown[b] + 1 ELSE shown[b]
  BY <1>1
<1>3. next \in [Blobs -> Nat]
  BY <1>1
<1> HIDE DEF next
<1>4. ASSUME NEW b \in Blobs
      PROVE  next[b] = Once(b \in pending) + Once(\E m \in R \cup {n} : log[m] = b)
  <2>1. shown[b] = Once(b \in pending) + Once(\E m \in R : log[m] = b)
    BY DEF Bubbles
  <2>2. CASE b = log[n]
    <3>1. ~ \E m \in R : log[m] = b
      BY <2>2 DEF Numbered
    <3>2. \E m \in R \cup {n} : log[m] = b
      BY <2>2
    <3> QED
      BY <1>2, <2>1, <2>2, <3>1, <3>2 DEF Once
  <2>3. CASE b # log[n]
    <3>1. (\E m \in R \cup {n} : log[m] = b) <=> (\E m \in R : log[m] = b)
      BY <2>3
    <3> QED
      BY <1>2, <2>1, <2>3, <3>1 DEF Once
  <2> QED
    BY <2>2, <2>3
<1>5. Bubbles(log, next, pending, R \cup {n})
  BY <1>4 DEF Bubbles
<1> QED
  BY <1>3, <1>5 DEF next


\* The history is read on, and when it is through, what came meanwhile is handled.
LEMMA ReadsOn ==
    ASSUME NEW drawn, NEW posts, Numbered(cLog, drawn, posts),
           NEW t, DOMAIN t = DOMAIN Away, NEW n \in 1..(Len(cLog) + 1),
           Met(cLog, drawn, [t EXCEPT !.reading = 0]), t.opening = {},
           ~t.loaded, t.loaded \in BOOLEAN, \A m \in t.seen : m < n
    PROVE  LET u == ReadOn(t, n)
           IN  /\ DOMAIN u = DOMAIN Away /\ Met(cLog, drawn, u) /\ Begun(u)
               /\ u.ask = t.ask /\ u.answer = t.answer /\ u.es = t.es /\ u.wire = t.wire
<1>0. Len(cLog) \in Nat /\ t.histSeq \in 0..Len(cLog) /\ t.seen \subseteq 1..Len(cLog)
  BY Lengths, Fields DEF Met
<1> DEFINE z == [t EXCEPT !.reading = 0]
<1>1. /\ DOMAIN z = DOMAIN Away /\ z.seen = t.seen /\ z.opening = t.opening /\ z.queue = t.queue
      /\ z.histSeq = t.histSeq /\ z.reading = 0 /\ z.pending = t.pending /\ z.shown = t.shown
      /\ Rendered(z) = t.seen
  <2>1. 0 \notin t.seen
    BY <1>0
  <2> QED
    BY <2>1, Fields DEF Rendered
<1>2. CASE n <= t.histSeq
  <2> DEFINE u == [t EXCEPT !.reading = n, !.seen = @ \cup {n}, !.lastN = Max({@, n})]
  <2>1. /\ DOMAIN u = DOMAIN Away /\ u.seen = t.seen \cup {n} /\ u.opening = {} /\ u.queue = t.queue
        /\ u.histSeq = t.histSeq /\ u.reading = n /\ u.pending = t.pending /\ u.shown = t.shown
        /\ u.loaded = t.loaded
        /\ u.ask = t.ask /\ u.answer = t.answer /\ u.es = t.es /\ u.wire = t.wire
    BY Fields
  <2> HIDE DEF u, z
  <2>2. Rendered(u) = t.seen
    <3>1. n \notin t.seen
      BY <1>0
    <3> QED
      BY <2>1, <3>1 DEF Rendered
  <2>3. Met(cLog, drawn, u)
    <3>1. Bubbles(cLog, u.shown, u.pending, Rendered(u))
      BY <1>1, <2>1, <2>2 DEF Met, z
    <3>2. n \in 1..Len(cLog) /\ n \in 0..t.histSeq
      BY <1>0, <1>2
    <3>3. \A m \in u.seen : cLog[m] \in u.pending => m <= u.histSeq
      BY <1>1, <1>2, <2>1 DEF Met, z
    <3> QED
      BY <1>0, <1>1, <2>1, <3>1, <3>2, <3>3 DEF Met, z
  <2>4. Begun(u)
    <3>1. \A m \in u.seen : m <= u.reading
      BY <1>0, <2>1
    <3> QED
      BY <2>1, <3>1 DEF Begun
  <2>5. ReadOn(t, n) = u
    BY <1>2 DEF ReadOn, u
  <2> QED
    BY <2>1, <2>3, <2>4, <2>5
<1>3. CASE ~(n <= t.histSeq)
  <2> DEFINE r == [t EXCEPT !.reading = 0, !.loaded = TRUE, !.queue = {}]
             u == HandleMsgs(r, t.queue)
  <2>1. /\ DOMAIN r = DOMAIN Away /\ r.seen = t.seen /\ r.opening = {} /\ r.queue = {}
        /\ r.histSeq = t.histSeq /\ r.reading = 0 /\ r.pending = t.pending /\ r.shown = t.shown
        /\ r.loaded = TRUE
        /\ r.ask = t.ask /\ r.answer = t.answer /\ r.es = t.es /\ r.wire = t.wire
    BY Fields
  <2> HIDE DEF r, z
  <2>2. Rendered(r) = t.seen
    <3>1. 0 \notin t.seen
      BY <1>0
    <3> QED
      BY <2>1, <3>1 DEF Rendered
  <2>3. Met(cLog, drawn, r) /\ t.queue \subseteq 1..Len(cLog)
    BY <1>1, <2>1, <2>2 DEF Met, z
  <2>4. /\ DOMAIN u = DOMAIN Away /\ Met(cLog, drawn, u)
        /\ u.reading = 0 /\ u.loaded = TRUE
        /\ u.ask = t.ask /\ u.answer = t.answer /\ u.es = t.es /\ u.wire = t.wire
    <3>1. MetMore(cLog, drawn, r, HandleMsgs(r, t.queue))
      BY <2>1, <2>3, Handled
    <3> QED
      BY <2>1, <3>1 DEF MetMore
  <2>5. ReadOn(t, n) = u
    BY <1>3 DEF ReadOn, r
  <2> HIDE DEF u
  <2> QED
    BY <2>4, <2>5 DEF Begun
<1> QED
  BY <1>2, <1>3

\* A page stays in order while the relay numbers more, and more is written.
LEMMA Later ==
    ASSUME NEW log, NEW drawn, NEW posts, Numbered(log, drawn, posts), NEW t, Page(log, drawn, t),
           NEW l, Len(l) \in Nat, Len(log) <= Len(l), \A n \in 1..Len(log) : l[n] = log[n],
           NEW next \in Nat, drawn <= next
    PROVE  Page(l, next, t)
<1>1. Len(log) \in Nat /\ Len(l) \in Nat
  BY Lengths
<1>2. t.seen \subseteq 1..Len(log) /\ Rendered(t) \subseteq 1..Len(log)
  BY DEF Page, Met, Rendered
<1>3. Bubbles(l, t.shown, t.pending, Rendered(t))
  <2>1. \A b \in Blobs : (\E n \in Rendered(t) : l[n] = b) <=> (\E n \in Rendered(t) : log[n] = b)
    BY <1>1, <1>2
  <2> QED
    BY <2>1 DEF Bubbles, Page, Met, Once
<1>4. Met(l, next, t)
  <2>1. 1..Len(log) \subseteq 1..Len(l) /\ 0..Len(log) \subseteq 0..Len(l) /\ 1..drawn \subseteq 1..next
    BY <1>1, Lengths
  <2>2. /\ \A n \in t.opening : n > t.histSeq /\ l[n] \notin t.pending
        /\ \A n \in t.seen : l[n] \in t.pending => n <= t.histSeq
    BY <1>1, <1>2 DEF Page, Met
  <2> QED
    BY <1>3, <2>1, <2>2 DEF Page, Met
<1>5. Asked(Len(l), t)
  <2>1. 0..Len(log) \subseteq 0..Len(l)
    BY <1>1
  <2> QED
    BY <2>1 DEF Page, Asked
<1>6. OnWire(Len(l), t.wire)
  <2>1. 1..Len(log) \subseteq 1..Len(l)
    BY <1>1
  <2> QED
    BY <2>1 DEF Page, OnWire, Event
<1> QED
  BY <1>4, <1>5, <1>6 DEF Page

\* What is said to a page is on its wire.
LEMMA Told ==
    ASSUME NEW seq, NEW wire, OnWire(seq, wire), NEW event, Event(seq, event)
    PROVE  OnWire(seq, Append(wire, event)) /\ OnWire(seq, <<event>>)
<1>1. PICK S : wire \in Seq(S)
  BY DEF OnWire
<1> DEFINE T == S \cup {event}
<1>2. wire \in Seq(T) /\ event \in T
  <2>1. Len(wire) \in Nat /\ wire \in [1..Len(wire) -> T]
    BY <1>1
  <2> QED
    BY <2>1, SeqDef
<1> HIDE DEF T
<1>3. OnWire(seq, Append(wire, event))
  <2>1. Append(wire, event) \in Seq(T) /\ Len(wire) \in Nat /\ Len(Append(wire, event)) = Len(wire) + 1
    BY <1>2
  <2>2. \A i \in 1..(Len(wire) + 1) : Append(wire, event)[i] = IF i = Len(wire) + 1 THEN event ELSE wire[i]
    BY <1>2
  <2> QED
    BY <2>1, <2>2 DEF OnWire
<1>4. OnWire(seq, <<event>>)
  <2>1. <<event>> \in Seq(T)
    BY <1>2
  <2> QED
    BY <2>1 DEF OnWire
<1> QED
  BY <1>3, <1>4

LEMMA Taken ==
    ASSUME NEW seq, NEW wire, OnWire(seq, wire), wire # <<>>
    PROVE  OnWire(seq, Tail(wire)) /\ Event(seq, Head(wire))
<1>1. PICK S : wire \in Seq(S)
  BY DEF OnWire
<1>2. /\ Tail(wire) \in Seq(S) /\ Len(wire) \in Nat /\ Len(wire) >= 1 /\ Head(wire) = wire[1]
      /\ Len(Tail(wire)) = Len(wire) - 1 /\ \A i \in 1..(Len(wire) - 1) : Tail(wire)[i] = wire[i + 1]
  BY <1>1
<1> QED
  BY <1>2 DEF OnWire

LEMMA NothingOnWire == ASSUME NEW seq PROVE OnWire(seq, <<>>)
<1>1. <<>> \in Seq({}) /\ Len(<<>>) = 0
  OBVIOUS
<1> QED
  BY <1>1 DEF OnWire

\* A step that leaves the log alone and concerns one page.
LEMMA OnePage ==
    ASSUME IRoom, NEW c \in CTabs, NEW u, cTab' = [cTab EXCEPT ![c] = u], cLog' = cLog,
           cAlive' \in BOOLEAN, Numbered(cLog, cDrawn', cPosts'), cDrawn <= cDrawn',
           Page(cLog, cDrawn', u)
    PROVE  IRoom'
<1>1. Len(cLog) \in Nat /\ cDrawn' \in Nat
  BY Lengths
<1>2. DOMAIN cTab' = CTabs /\ \A d \in CTabs : cTab'[d] = IF d = c THEN u ELSE cTab[d]
  BY DEF IRoom
<1>3. ASSUME NEW d \in CTabs PROVE Page(cLog, cDrawn', cTab[d])
  <2>1. Numbered(cLog, cDrawn, cPosts) /\ Page(cLog, cDrawn, cTab[d])
    BY DEF IRoom
  <2>2. Len(cLog) <= Len(cLog) /\ \A n \in 1..Len(cLog) : cLog[n] = cLog[n]
    BY <1>1
  <2> QED
    BY <1>1, <2>1, <2>2, Later
<1> QED
  BY <1>2, <1>3 DEF IRoom

\* What is broadcast reaches the wires.
LEMMA AllTold ==
    ASSUME NEW log, NEW drawn, NEW tabs, DOMAIN tabs = CTabs, NEW kind, NEW n,
           \A d \in CTabs : Page(log, drawn, tabs[d]), Event(Len(log), [kind |-> kind, n |-> n])
    PROVE  /\ DOMAIN Broadcast(tabs, kind, n) = CTabs
           /\ \A d \in CTabs : Page(log, drawn, Broadcast(tabs, kind, n)[d])
<1> DEFINE event == [kind |-> kind, n |-> n]
           u(d) == [tabs[d] EXCEPT !.wire = Append(@, event)]
<1>1. ASSUME NEW d \in CTabs PROVE Page(log, drawn, u(d))
  <2>1. Page(log, drawn, tabs[d])
    OBVIOUS
  <2>2. OnWire(Len(log), Append(tabs[d].wire, event))
    <3>1. Event(Len(log), event)
      OBVIOUS
    <3> HIDE DEF event
    <3> QED
      BY <2>1, <3>1, Told DEF Page
  <2> DEFINE w == Append(tabs[d].wire, event)
  <2>3. /\ DOMAIN u(d) = DOMAIN Away /\ u(d).wire = w
        /\ u(d).seen = tabs[d].seen /\ u(d).opening = tabs[d].opening /\ u(d).queue = tabs[d].queue
        /\ u(d).histSeq = tabs[d].histSeq /\ u(d).reading = tabs[d].reading
        /\ u(d).pending = tabs[d].pending /\ u(d).shown = tabs[d].shown
        /\ u(d).loaded = tabs[d].loaded /\ u(d).ask = tabs[d].ask /\ u(d).answer = tabs[d].answer
        /\ u(d).es = tabs[d].es
    BY <2>1, Fields DEF Page
  <2> HIDE DEF u
  <2> QED
    BY <2>1, <2>2, <2>3 DEF Page, Met, Begun, Asked, Rendered
<1>2. DOMAIN Broadcast(tabs, kind, n) = CTabs
  BY DEF Broadcast
<1>3. \A d \in CTabs : Broadcast(tabs, kind, n)[d] = IF d \in Listening(tabs) THEN u(d) ELSE tabs[d]
  BY DEF Broadcast
<1> QED
  BY <1>1, <1>2, <1>3

\* Two pages that met the same.
SameChat(t, u) ==
    /\ DOMAIN u = DOMAIN Away
    /\ u.seen = t.seen /\ u.opening = t.opening /\ u.queue = t.queue /\ u.histSeq = t.histSeq
    /\ u.reading = t.reading /\ u.pending = t.pending /\ u.shown = t.shown /\ u.loaded = t.loaded

LEMMA SameMet ==
    ASSUME NEW log, NEW drawn, NEW t, NEW u, SameChat(t, u), Page(log, drawn, t),
           Asked(Len(log), u), OnWire(Len(log), u.wire)
    PROVE  Page(log, drawn, u)
BY DEF SameChat, Page, Met, Begun, Rendered


\* A step of one page that changes nothing of the log, nor of what is on its way there.
OneTab(c, u) == /\ cTab' = [cTab EXCEPT ![c] = u] /\ cAlive' = cAlive
                /\ cLog' = cLog /\ cDrawn' = cDrawn /\ cPosts' = cPosts

LEMMA TabKept ==
    ASSUME IRoom, NEW c \in CTabs, NEW u, OneTab(c, u), Page(cLog, cDrawn, u)
    PROVE  IRoom'
<1>1. cDrawn \in Nat /\ cDrawn <= cDrawn /\ Numbered(cLog, cDrawn, cPosts)
  BY DEF IRoom, Numbered
<1>2. /\ cTab' = [cTab EXCEPT ![c] = u] /\ cLog' = cLog /\ cAlive' \in BOOLEAN
      /\ cDrawn' = cDrawn /\ cPosts' = cPosts
  BY DEF OneTab, IRoom
<1> QED
  BY <1>1, <1>2, OnePage

\* What the relay does about one page leaves it in order.
LEMMA RelayKeeps ==
    ASSUME IRoom, NEW c \in CTabs, ApiHistory(c) \/ ApiStream(c) \/ ApiLeave(c) \/ Reap(c)
    PROVE  IRoom'
<1> DEFINE t == cTab[c]
<1>1. /\ Page(cLog, cDrawn, t) /\ DOMAIN t = DOMAIN Away /\ DOMAIN cTab = CTabs
      /\ Asked(Len(cLog), t) /\ OnWire(Len(cLog), t.wire) /\ cAlive \in BOOLEAN
      /\ Numbered(cLog, cDrawn, cPosts) /\ Len(cLog) \in Nat
  BY Lengths DEF IRoom, Page
<1>2. CASE ApiHistory(c)
  <2> DEFINE a == <<[ok |-> cAlive, seq |-> cSeq]>>
             u == [t EXCEPT !.answer = a]
  <2>1. OneTab(c, u) /\ t.ask # "none"
    BY <1>2 DEF ApiHistory, OneTab
  <2>2. SameChat(t, u) /\ u.wire = t.wire /\ u.ask = t.ask /\ u.answer = a /\ u.es = t.es
    BY <1>1, Fields DEF SameChat
  <2>3. a[1].ok \in BOOLEAN /\ a[1].seq \in 0..Len(cLog)
    BY <1>1 DEF cSeq
  <2> HIDE DEF u, t, a
  <2>4. Page(cLog, cDrawn, u)
    <3>1. Asked(Len(cLog), u)
      BY <1>1, <2>1, <2>2, <2>3 DEF Asked, SameChat
    <3> QED
      BY <1>1, <2>2, <3>1, SameMet
  <2> QED
    BY <2>1, <2>4, TabKept
<1>3. CASE ApiStream(c)
  <2> DEFINE event == [kind |-> "hello", n |-> SseCount(cTab) + 1]
             heard == [t EXCEPT !.es = "open", !.wire = <<event>>]
             refused == [t EXCEPT !.es = "closed"]
  <2>1. OneTab(c, IF cAlive THEN heard ELSE refused)
    BY <1>3 DEF ApiStream, OneTab
  <2>2. /\ SameChat(t, heard) /\ heard.wire = <<event>> /\ heard.ask = t.ask
        /\ heard.answer = t.answer /\ heard.es = "open"
        /\ SameChat(t, refused) /\ refused.wire = t.wire /\ refused.ask = t.ask
        /\ refused.answer = t.answer /\ refused.es = "closed"
    BY <1>1, Fields DEF SameChat
  <2>3. Event(Len(cLog), event)
    BY DEF Event
  <2> HIDE DEF heard, refused, t, event
  <2>4. OnWire(Len(cLog), <<event>>)
    BY <1>1, <2>3, Told
  <2>5. Page(cLog, cDrawn, heard) /\ Page(cLog, cDrawn, refused)
    <3>1. Asked(Len(cLog), heard) /\ Asked(Len(cLog), refused)
      BY <1>1, <2>2 DEF Asked, SameChat
    <3> QED
      BY <1>1, <2>2, <2>4, <3>1, SameMet
  <2> QED
    BY <2>1, <2>5, TabKept
<1>4. CASE Reap(c)
  <2> DEFINE u == [t EXCEPT !.ghosts = @ - 1]
  <2>1. OneTab(c, u)
    BY <1>4 DEF Reap, OneTab
  <2>2. SameChat(t, u) /\ u.wire = t.wire /\ u.ask = t.ask /\ u.answer = t.answer /\ u.es = t.es
    BY <1>1, Fields DEF SameChat
  <2> HIDE DEF u, t
  <2>3. Asked(Len(cLog), u)
    BY <1>1, <2>2 DEF Asked, SameChat
  <2> QED
    BY <1>1, <2>1, <2>2, <2>3, SameMet, TabKept
<1>5. CASE ApiLeave(c)
  <2> DEFINE open == t.es = "open"
             es == IF open THEN "connecting" ELSE t.es
             wire == IF open THEN <<>> ELSE t.wire
             u == [t EXCEPT !.beacons = @ - 1, !.ghosts = 0, !.es = es, !.wire = wire]
             tabs == [cTab EXCEPT ![c] = u]
             n == SseCount(tabs)
  <2>1. tabs = [cTab EXCEPT ![c].beacons = @ - 1, ![c].ghosts = 0,
                            ![c].es = IF open THEN "connecting" ELSE @,
                            ![c].wire = IF open THEN <<>> ELSE @]
    BY <1>1
  <2>2. /\ cTab' = Broadcast(tabs, "present", n) \/ cTab' = tabs
        /\ cAlive' = cAlive /\ cLog' = cLog /\ cDrawn' = cDrawn /\ cPosts' = cPosts
    BY <1>5, <2>1 DEF ApiLeave
  <2>3. SameChat(t, u) /\ u.wire = wire /\ u.ask = t.ask /\ u.answer = t.answer /\ u.es = es
    BY <1>1, Fields DEF SameChat
  <2>4. es = "none" => t.es = "none"
    OBVIOUS
  <2>5. OnWire(Len(cLog), wire)
    <3>2. OnWire(Len(cLog), <<>>)
      BY NothingOnWire
    <3> QED
      BY <1>1, <3>2
  <2> HIDE DEF u, t, es, wire
  <2>6. Page(cLog, cDrawn, u)
    <3>1. Asked(Len(cLog), u)
      BY <1>1, <2>3, <2>4 DEF Asked, SameChat
    <3> QED
      BY <1>1, <2>3, <2>5, <3>1, SameMet
  <2>7. DOMAIN tabs = CTabs /\ \A d \in CTabs : Page(cLog, cDrawn, tabs[d])
    BY <1>1, <2>6 DEF IRoom
  <2> HIDE DEF tabs, n
  <2>8. /\ DOMAIN Broadcast(tabs, "present", n) = CTabs
        /\ \A d \in CTabs : Page(cLog, cDrawn, Broadcast(tabs, "present", n)[d])
    <3>1. Event(Len(cLog), [kind |-> "present", n |-> n])
      BY DEF Event
    <3> QED
      BY <2>7, <3>1, AllTold
  <2>9. DOMAIN cTab' = CTabs /\ \A d \in CTabs : Page(cLog, cDrawn, cTab'[d])
    BY <2>2, <2>7, <2>8
  <2> QED
    BY <1>1, <2>2, <2>9 DEF IRoom
<1> QED
  BY <1>2, <1>3, <1>4, <1>5


\* So does what the page writes, and the relay takes or refuses.
LEMMA PostKeeps ==
    ASSUME IRoom, NEW c \in CTabs, Send(c) \/ PostRefused(c)
    PROVE  IRoom'
<1> DEFINE t == cTab[c]
<1>1. /\ Page(cLog, cDrawn, t) /\ DOMAIN t = DOMAIN Away /\ DOMAIN cTab = CTabs
      /\ Asked(Len(cLog), t) /\ OnWire(Len(cLog), t.wire) /\ cAlive \in BOOLEAN
      /\ Met(cLog, cDrawn, t) /\ Begun(t)
      /\ Numbered(cLog, cDrawn, cPosts) /\ Len(cLog) \in Nat /\ cDrawn \in Nat
  BY Lengths DEF IRoom, Page
<1>2. /\ t.shown \in [Blobs -> Nat] /\ Rendered(t) \subseteq 1..Len(cLog) /\ t.seen \subseteq 1..Len(cLog)
      /\ \A b \in Blobs : t.shown[b] = Once(b \in t.pending) + Once(\E n \in Rendered(t) : cLog[n] = b)
  BY <1>1 DEF Met, Rendered, Bubbles
<1>3. CASE Send(c)
  <2>1. PICK b \in NewBlob :
            /\ cDrawn' = b /\ cPosts' = cPosts \cup {b}
            /\ cTab' = [cTab EXCEPT ![c].shown[b] = @ + 1, ![c].pending = @ \cup {b}]
    BY <1>3 DEF Send
  <2> DEFINE shown == [t.shown EXCEPT ![b] = @ + 1]
             pending == t.pending \cup {b}
             u == [t EXCEPT !.shown = shown, !.pending = pending]
  <2>2. b = cDrawn + 1 /\ b \in Blobs
    BY DEF NewBlob
  <2>3. cTab' = [cTab EXCEPT ![c] = u] /\ cLog' = cLog /\ cAlive' \in BOOLEAN
    <3>1. cTab' = [cTab EXCEPT ![c] = u]
      BY <1>1, <2>1
    <3> QED
      BY <1>1, <1>3, <3>1 DEF Send
  <2>4. /\ DOMAIN u = DOMAIN Away /\ u.seen = t.seen /\ u.opening = t.opening /\ u.queue = t.queue
        /\ u.histSeq = t.histSeq /\ u.reading = t.reading /\ u.pending = pending /\ u.shown = shown
        /\ u.loaded = t.loaded
        /\ u.ask = t.ask /\ u.answer = t.answer /\ u.es = t.es /\ u.wire = t.wire
    BY <1>1, Fields
  <2>5. \A a \in Blobs : shown[a] = IF a = b THEN t.shown[b] + 1 ELSE t.shown[a]
    BY <1>2, <2>2
  <2>6. shown \in [Blobs -> Nat]
    BY <1>2, <2>2
  <2> HIDE DEF u, t, shown
  <2>7. \A n \in 1..Len(cLog) : cLog[n] # b
    BY <1>1, <2>2 DEF Numbered
  <2>8. b \notin t.pending
    BY <1>1, <2>2 DEF Met
  <2>9. Bubbles(cLog, shown, pending, Rendered(u))
    <3>1. Rendered(u) = Rendered(t)
      BY <2>4 DEF Rendered
    <3>2. \A a \in Blobs : a # b => (a \in pending <=> a \in t.pending)
      OBVIOUS
    <3>3. t.shown[b] = 0 /\ b \in pending /\ ~ \E n \in Rendered(t) : cLog[n] = b
      BY <1>2, <2>2, <2>7, <2>8 DEF Once
    <3> HIDE DEF pending
    <3>4. shown[b] = Once(b \in pending) + Once(\E n \in Rendered(t) : cLog[n] = b)
      BY <2>2, <2>5, <3>3 DEF Once
    <3>5. \A a \in Blobs : a # b => shown[a] = Once(a \in pending) + Once(\E n \in Rendered(t) : cLog[n] = a)
      BY <1>2, <2>5, <3>2 DEF Once
    <3> QED
      BY <3>1, <3>4, <3>5 DEF Bubbles
  <2>10. Met(cLog, b, u)
    <3>1. pending \subseteq 1..b
      BY <1>1, <2>2 DEF Met
    <3>2. \A n \in 1..Len(cLog) : cLog[n] \in pending => cLog[n] \in t.pending
      BY <2>7
    <3> HIDE DEF pending
    <3>3. /\ \A n \in u.opening : n > u.histSeq /\ cLog[n] \notin u.pending
          /\ \A n \in u.seen : cLog[n] \in u.pending => n <= u.histSeq
      BY <1>1, <2>4, <3>2 DEF Met
    <3> QED
      BY <1>1, <2>4, <2>6, <2>9, <3>1, <3>3 DEF Met
  <2>11. Numbered(cLog, b, cPosts \cup {b}) /\ cDrawn <= b
    <3>1. 1..cDrawn \subseteq 1..b /\ b \in 1..b /\ b \in Nat /\ b <= CMaxMessages
      BY <1>1, <2>2 DEF Blobs
    <3>2. cLog \in Seq(1..b)
      <4>1. cLog \in Seq(1..cDrawn)
        BY <1>1 DEF Numbered
      <4>2. cLog \in [1..Len(cLog) -> 1..b]
        BY <1>1, <3>1, <4>1
      <4> QED
        BY <1>1, <4>2, SeqDef, ZenonT(60)
    <3> QED
      BY <1>1, <2>2, <2>7, <3>1, <3>2 DEF Numbered
  <2>12. Page(cLog, b, u)
    BY <1>1, <2>4, <2>10 DEF Page, Begun, Asked
  <2> QED
    BY <2>1, <2>3, <2>11, <2>12, OnePage
<1>4. CASE PostRefused(c)
  <2>1. PICK b \in cPosts \cap t.pending :
            /\ cPosts' = cPosts \ {b}
            /\ cTab' = [cTab EXCEPT ![c].shown[b] = @ - 1, ![c].pending = @ \ {b}]
    BY <1>4 DEF PostRefused
  <2> DEFINE shown == [t.shown EXCEPT ![b] = @ - 1]
             pending == t.pending \ {b}
             u == [t EXCEPT !.shown = shown, !.pending = pending]
  <2>2. b \in Blobs /\ \A n \in 1..Len(cLog) : cLog[n] # b
    BY <1>1, ChatAssumption DEF Numbered, Blobs
  <2>3. cTab' = [cTab EXCEPT ![c] = u] /\ cLog' = cLog /\ cAlive' \in BOOLEAN /\ cDrawn' = cDrawn
    <3>1. cTab' = [cTab EXCEPT ![c] = u]
      BY <1>1, <2>1
    <3> QED
      BY <1>1, <1>4, <3>1 DEF PostRefused
  <2>4. /\ DOMAIN u = DOMAIN Away /\ u.seen = t.seen /\ u.opening = t.opening /\ u.queue = t.queue
        /\ u.histSeq = t.histSeq /\ u.reading = t.reading /\ u.pending = pending /\ u.shown = shown
        /\ u.loaded = t.loaded
        /\ u.ask = t.ask /\ u.answer = t.answer /\ u.es = t.es /\ u.wire = t.wire
    BY <1>1, Fields
  <2>5. \A a \in Blobs : shown[a] = IF a = b THEN t.shown[b] - 1 ELSE t.shown[a]
    BY <1>2, <2>2
  <2>6. t.shown[b] = 1 /\ ~ \E n \in Rendered(t) : cLog[n] = b
    BY <1>2, <2>1, <2>2 DEF Once
  <2>7. shown \in [Blobs -> Nat]
    BY <1>2, <2>2, <2>6
  <2> HIDE DEF u, t, shown
  <2>8. Bubbles(cLog, shown, pending, Rendered(u))
    <3>1. Rendered(u) = Rendered(t)
      BY <2>4 DEF Rendered
    <3>2. b \notin pending /\ \A a \in Blobs : a # b => (a \in pending <=> a \in t.pending)
      OBVIOUS
    <3> HIDE DEF pending
    <3>3. shown[b] = Once(b \in pending) + Once(\E n \in Rendered(t) : cLog[n] = b)
      BY <2>2, <2>5, <2>6, <3>2 DEF Once
    <3>4. \A a \in Blobs : a # b => shown[a] = Once(a \in pending) + Once(\E n \in Rendered(t) : cLog[n] = a)
      BY <1>2, <2>5, <3>2 DEF Once
    <3> QED
      BY <3>1, <3>3, <3>4 DEF Bubbles
  <2>9. Met(cLog, cDrawn, u)
    BY <1>1, <2>4, <2>7, <2>8 DEF Met
  <2>10. Numbered(cLog, cDrawn, cPosts \ {b}) /\ cDrawn <= cDrawn
    BY <1>1 DEF Numbered
  <2>11. Page(cLog, cDrawn, u)
    BY <1>1, <2>4, <2>9 DEF Page, Begun, Asked
  <2> QED
    BY <2>1, <2>3, <2>10, <2>11, OnePage
<1> QED
  BY <1>3, <1>4


\* A bubble comes, of a message of the stream or of the history.
LEMMA OpenedKeeps ==
    ASSUME IRoom, NEW c \in CTabs, MsgOpened(c) \/ HistoryOpened(c)
    PROVE  IRoom'
<1> DEFINE t == cTab[c]
<1>1. /\ Page(cLog, cDrawn, t) /\ DOMAIN t = DOMAIN Away /\ DOMAIN cTab = CTabs
      /\ Asked(Len(cLog), t) /\ OnWire(Len(cLog), t.wire)
      /\ Met(cLog, cDrawn, t) /\ Begun(t)
      /\ Numbered(cLog, cDrawn, cPosts) /\ Len(cLog) \in Nat
  BY Lengths DEF IRoom, Page
<1>2. /\ t.shown \in [Blobs -> Nat] /\ Rendered(t) \subseteq 1..Len(cLog)
      /\ Bubbles(cLog, t.shown, t.pending, Rendered(t))
      /\ t.seen \subseteq 1..Len(cLog) /\ t.histSeq \in 0..Len(cLog) /\ t.reading \in 0..t.histSeq
  BY <1>1 DEF Met, Rendered
<1>3. CASE MsgOpened(c)
  <2>1. PICK n \in t.opening :
            cTab' = [cTab EXCEPT ![c].opening = @ \ {n}, ![c].shown[cLog[n]] = @ + 1]
    BY <1>3 DEF MsgOpened
  <2> DEFINE shown == [t.shown EXCEPT ![cLog[n]] = @ + 1]
             u == [t EXCEPT !.opening = @ \ {n}, !.shown = shown]
  <2>2. OneTab(c, u)
    <3>1. cTab' = [cTab EXCEPT ![c] = u]
      BY <1>1, <2>1
    <3> QED
      BY <1>3, <3>1 DEF MsgOpened, OneTab
  <2>3. /\ DOMAIN u = DOMAIN Away /\ u.seen = t.seen /\ u.opening = t.opening \ {n} /\ u.queue = t.queue
        /\ u.histSeq = t.histSeq /\ u.reading = t.reading /\ u.pending = t.pending /\ u.shown = shown
        /\ u.loaded = t.loaded
        /\ u.ask = t.ask /\ u.answer = t.answer /\ u.es = t.es /\ u.wire = t.wire
    BY <1>1, Fields
  <2>4. n \in t.seen /\ n \in 1..Len(cLog) /\ n \notin Rendered(t) /\ n # t.reading
    BY <1>1, <1>2 DEF Met, Rendered
  <2>5. shown \in [Blobs -> Nat] /\ Bubbles(cLog, shown, t.pending, Rendered(t) \cup {n})
    BY <1>1, <1>2, <2>4, OneMore
  <2> HIDE DEF u, t, shown
  <2>6. Rendered(u) = Rendered(t) \cup {n}
    BY <2>3, <2>4 DEF Rendered
  <2>7. Met(cLog, cDrawn, u)
    BY <1>1, <2>3, <2>5, <2>6 DEF Met
  <2>8. Begun(u)
    BY <1>1, <2>3 DEF Begun
  <2>9. Page(cLog, cDrawn, u)
    BY <1>1, <2>3, <2>7, <2>8 DEF Page, Asked
  <2> QED
    BY <2>2, <2>9, TabKept
<1>4. CASE HistoryOpened(c)
  <2> DEFINE n == t.reading
             shown == [t.shown EXCEPT ![cLog[n]] = @ + 1]
             r == [t EXCEPT !.shown = shown]
             z == [r EXCEPT !.reading = 0]
             u == ReadOn(r, n + 1)
  <2>1. n # 0 /\ OneTab(c, u)
    BY <1>4 DEF HistoryOpened, OneTab
  <2>2. /\ DOMAIN r = DOMAIN Away /\ r.seen = t.seen /\ r.opening = t.opening
        /\ r.loaded = t.loaded
        /\ r.ask = t.ask /\ r.answer = t.answer /\ r.es = t.es /\ r.wire = t.wire
        /\ z.seen = t.seen /\ z.opening = t.opening /\ z.queue = t.queue
        /\ z.histSeq = t.histSeq /\ z.reading = 0 /\ z.pending = t.pending /\ z.shown = shown
    BY <1>1, Fields
  <2>3. /\ n \in 1..Len(cLog) /\ n + 1 \in 1..(Len(cLog) + 1) /\ ~t.loaded /\ t.opening = {}
        /\ \A m \in t.seen : m < n + 1
    BY <1>1, <1>2, <2>1 DEF Begun
  <2>4. n \notin Rendered(t)
    BY DEF Rendered
  <2>5. shown \in [Blobs -> Nat] /\ Bubbles(cLog, shown, t.pending, Rendered(t) \cup {n})
    BY <1>1, <1>2, <2>3, <2>4, OneMore
  <2> HIDE DEF u, r, z, t, shown, n
  <2>6. Bubbles(cLog, z.shown, z.pending, Rendered(z))
    <3>1. Rendered(z) = Rendered(t) \cup {n}
      BY <1>1, <1>2, <2>1, <2>2, <2>3 DEF Begun, Rendered, n
    <3> QED
      BY <2>2, <2>5, <3>1
  <2>7. Met(cLog, cDrawn, z)
    BY <1>1, <2>2, <2>5, <2>6 DEF Met
  <2>8. /\ DOMAIN u = DOMAIN Away /\ Met(cLog, cDrawn, u) /\ Begun(u)
        /\ u.ask = r.ask /\ u.answer = r.answer /\ u.es = r.es /\ u.wire = r.wire
    <3>1. PICK k \in 1..(Len(cLog) + 1) : k = n + 1
      BY <2>3
    <3>2. u = ReadOn(r, k)
      BY <3>1 DEF u
    <3>3. Met(cLog, cDrawn, [r EXCEPT !.reading = 0])
      BY <2>7 DEF z
    <3>4. r.opening = {} /\ ~r.loaded /\ r.loaded \in BOOLEAN /\ \A m \in r.seen : m < k
      BY <1>1, <2>2, <2>3, <3>1 DEF Begun
    <3> QED
      BY <1>1, <2>2, <3>2, <3>3, <3>4, ReadsOn
  <2>9. Asked(Len(cLog), u)
    <3>1. t.ask # "enter" /\ t.es # "none" /\ t.ask # "again"
      BY <1>1, <2>1, <2>3 DEF Asked, n
    <3> QED
      BY <1>1, <2>2, <2>8, <3>1 DEF Asked
  <2> QED
    BY <1>1, <2>1, <2>2, <2>8, <2>9, TabKept DEF Page
<1> QED
  BY <1>3, <1>4

\* So does the answer the page waited for.
LEMMA AnswerKeeps ==
    ASSUME IRoom, NEW c \in CTabs, HistoryArrives(c)
    PROVE  IRoom'
<1> DEFINE t == cTab[c]
           ok == t.answer[1].ok
           seq == t.answer[1].seq
           rest == [t EXCEPT !.ask = "none", !.answer = <<>>]
<1>1. /\ Page(cLog, cDrawn, t) /\ DOMAIN t = DOMAIN Away /\ DOMAIN cTab = CTabs
      /\ Asked(Len(cLog), t) /\ OnWire(Len(cLog), t.wire)
      /\ Met(cLog, cDrawn, t) /\ Begun(t)
      /\ Numbered(cLog, cDrawn, cPosts) /\ Len(cLog) \in Nat
  BY Lengths DEF IRoom, Page
<1>2. /\ t.answer # <<>> /\ seq \in 0..Len(cLog) /\ ok \in BOOLEAN
      /\ t.ask = "enter" \/ t.ask = "again"
  BY <1>1 DEF HistoryArrives, Asked
<1>3. /\ DOMAIN rest = DOMAIN Away /\ rest.seen = t.seen /\ rest.opening = t.opening
      /\ rest.queue = t.queue /\ rest.histSeq = t.histSeq /\ rest.reading = t.reading
      /\ rest.pending = t.pending /\ rest.shown = t.shown /\ rest.loaded = t.loaded
      /\ rest.es = t.es /\ rest.wire = t.wire /\ rest.ask = "none" /\ rest.answer = <<>>
  BY <1>1, Fields
<1>4. CRingCap \in Nat /\ CRingCap > 0
  BY ChatAssumption
<1>5. Oldest(seq) \in 1..(seq + 1) /\ Ring(seq) \subseteq 1..Len(cLog)
  <2>1. Oldest(seq) \in 1..(seq + 1)
    BY <1>1, <1>2, <1>4 DEF Oldest
  <2> HIDE DEF seq
  <2>2. \A n \in Ring(seq) : n \in 1..Len(cLog)
    BY <1>1, <1>2, <2>1 DEF Ring
  <2> QED
    BY <2>1, <2>2
<1>6. CASE t.ask = "enter" /\ ok
  <2> DEFINE r == [rest EXCEPT !.histSeq = seq]
             z == [r EXCEPT !.reading = 0]
             u == ReadOn(r, Oldest(seq))
  <2>1. OneTab(c, u)
    BY <1>6 DEF HistoryArrives, ShowHistory, OneTab
  <2>2. /\ DOMAIN r = DOMAIN Away /\ r.seen = t.seen /\ r.opening = t.opening
        /\ r.loaded = t.loaded
        /\ r.ask = "none" /\ r.answer = <<>> /\ r.es = t.es /\ r.wire = t.wire
        /\ z.seen = t.seen /\ z.opening = t.opening /\ z.queue = t.queue
        /\ z.histSeq = seq /\ z.reading = 0 /\ z.pending = t.pending /\ z.shown = t.shown
    BY <1>3, Fields
  <2>3. ~t.loaded /\ t.reading = 0 /\ t.opening = {} /\ t.seen = {} /\ t.es # "none"
    <3>1. ~t.loaded /\ t.reading = 0 /\ t.es # "none"
      BY <1>1, <1>6 DEF Asked
    <3>2. t.opening = {} /\ \A n \in t.seen : n <= 0 /\ n \in 1..Len(cLog)
      BY <1>1, <3>1 DEF Begun, Met
    <3>3. t.seen = {}
      BY <3>2
    <3> QED
      BY <3>1, <3>2, <3>3
  <2> HIDE DEF u, r, z, t, seq, rest
  <2>4. Met(cLog, cDrawn, z)
    <3>1. Rendered(z) = Rendered(t)
      BY <2>2, <2>3 DEF Rendered
    <3>2. 0 \in 0..seq
      BY <1>2
    <3> QED
      BY <1>1, <1>2, <2>2, <2>3, <3>1, <3>2 DEF Met
  <2>5. /\ DOMAIN u = DOMAIN Away /\ Met(cLog, cDrawn, u) /\ Begun(u)
        /\ u.ask = r.ask /\ u.answer = r.answer /\ u.es = r.es /\ u.wire = r.wire
    <3>1. PICK k \in 1..(Len(cLog) + 1) : k = Oldest(seq)
      BY <1>1, <1>2, <1>5
    <3>2. u = ReadOn(r, k)
      BY <3>1 DEF u
    <3>3. Met(cLog, cDrawn, [r EXCEPT !.reading = 0])
      BY <2>4 DEF z
    <3>4. r.opening = {} /\ ~r.loaded /\ r.loaded \in BOOLEAN /\ \A m \in r.seen : m < k
      BY <1>1, <2>2, <2>3 DEF Begun
    <3> QED
      BY <1>1, <2>2, <3>2, <3>3, <3>4, ReadsOn
  <2>6. Asked(Len(cLog), u)
    BY <2>2, <2>3, <2>5 DEF Asked
  <2> QED
    BY <1>1, <2>1, <2>2, <2>5, <2>6, TabKept DEF Page
<1>7. CASE t.ask = "enter" /\ ~ok
  <2> DEFINE u == [rest EXCEPT !.es = "closed", !.wire = <<>>,
                          !.ghosts = @ + (IF t.es = "open" THEN 1 ELSE 0)]
  <2>1. OneTab(c, u)
    BY <1>7 DEF HistoryArrives, ShowHistory, OneTab
  <2>2. SameChat(t, u) /\ u.wire = <<>> /\ u.ask = "none" /\ u.answer = <<>> /\ u.es = "closed"
    BY <1>3, Fields DEF SameChat
  <2>3. OnWire(Len(cLog), <<>>)
    BY NothingOnWire
  <2> HIDE DEF u, t, rest
  <2>4. Asked(Len(cLog), u)
    BY <2>2 DEF Asked
  <2> QED
    BY <1>1, <2>1, <2>2, <2>3, <2>4, SameMet, TabKept
<1>8. CASE t.ask = "again" /\ ok
  <2> DEFINE ns == {n \in Ring(seq) : n > t.lastN}
             u == HandleMsgs(rest, ns)
  <2>1. OneTab(c, u)
    BY <1>8 DEF HistoryArrives, ReplayRing, OneTab
  <2>2. t.loaded /\ t.reading = 0 /\ t.es # "none"
    BY <1>1, <1>8 DEF Asked, Begun
  <2>3. ns \subseteq 1..Len(cLog)
    BY <1>5
  <2> HIDE DEF u, t, rest, ns
  <2>4. Met(cLog, cDrawn, rest)
    <3>1. Rendered(rest) = Rendered(t)
      BY <1>3 DEF Rendered
    <3> QED
      BY <1>1, <1>3, <3>1 DEF Met
  <2>5. /\ DOMAIN u = DOMAIN Away /\ Met(cLog, cDrawn, u)
        /\ u.reading = 0 /\ u.loaded = t.loaded /\ u.ask = "none" /\ u.answer = <<>>
        /\ u.es = t.es /\ u.wire = t.wire
    <3>1. u = HandleMsgs(rest, ns) /\ rest.reading = 0
      BY <1>3, <2>2 DEF u
    <3>2. /\ DOMAIN u = DOMAIN Away /\ Met(cLog, cDrawn, u)
          /\ u.reading = 0 /\ u.loaded = rest.loaded /\ u.ask = rest.ask /\ u.answer = rest.answer
          /\ u.es = rest.es /\ u.wire = rest.wire
      <4>1. MetMore(cLog, cDrawn, rest, HandleMsgs(rest, ns))
        BY <1>1, <1>3, <2>3, <2>4, <3>1, Handled
      <4> QED
        BY <3>1, <4>1 DEF MetMore
    <3> QED
      BY <1>3, <3>2
  <2>6. Begun(u) /\ Asked(Len(cLog), u)
    BY <2>2, <2>5, <1>1 DEF Begun, Asked
  <2> QED
    BY <1>1, <2>1, <2>5, <2>6, TabKept DEF Page
<1>9. CASE t.ask = "again" /\ ~ok
  <2>1. OneTab(c, rest)
    BY <1>9 DEF HistoryArrives, ReplayRing, OneTab
  <2>2. SameChat(t, rest)
    BY <1>3 DEF SameChat
  <2>3. Asked(Len(cLog), rest)
    BY <1>1, <1>3, <1>9 DEF Asked
  <2> QED
    BY <1>1, <1>3, <2>1, <2>2, <2>3, SameMet, TabKept
<1> QED
  BY <1>2, <1>6, <1>7, <1>8, <1>9

\* A page that was left, or has not been entered.
LEMMA AwayPage ==
    ASSUME NEW log, NEW drawn, NEW posts, Numbered(log, drawn, posts)
    PROVE  Page(log, drawn, Away)
<1>1. /\ Away.seen = {} /\ Away.opening = {} /\ Away.queue = {} /\ Away.histSeq = 0 /\ Away.reading = 0
      /\ Away.pending = {} /\ Away.shown = [b \in Blobs |-> 0] /\ Away.loaded = FALSE
      /\ Away.ask = "none" /\ Away.answer = <<>> /\ Away.es = "none" /\ Away.wire = <<>>
  BY DEF Away
<1>2. Len(log) \in Nat
  BY Lengths
<1>3. Bubbles(log, Away.shown, Away.pending, Rendered(Away))
  BY <1>1 DEF Bubbles, Rendered, Once
<1>4. Met(log, drawn, Away)
  BY <1>1, <1>2, <1>3 DEF Met
<1>5. OnWire(Len(log), Away.wire)
  BY <1>1, NothingOnWire
<1> QED
  BY <1>1, <1>4, <1>5 DEF Page, Begun, Asked

\* So do the stream, and the page that comes and goes.
LEMMA StreamKeeps ==
    ASSUME IRoom, NEW c \in CTabs,
           EnterChat(c) \/ EventArrives(c) \/ StreamBreaks(c) \/ FetchFails(c) \/ PageHides(c)
    PROVE  IRoom'
<1> DEFINE t == cTab[c]
<1>1. /\ Page(cLog, cDrawn, t) /\ DOMAIN t = DOMAIN Away /\ DOMAIN cTab = CTabs
      /\ Asked(Len(cLog), t) /\ OnWire(Len(cLog), t.wire)
      /\ Met(cLog, cDrawn, t) /\ Begun(t)
      /\ Numbered(cLog, cDrawn, cPosts) /\ Len(cLog) \in Nat
  BY Lengths DEF IRoom, Page
<1>2. CASE EnterChat(c)
  <2> DEFINE u == [t EXCEPT !.es = "connecting", !.ask = "enter"]
  <2>1. OneTab(c, u) /\ t.es = "none"
    <3>1. cTab' = [cTab EXCEPT ![c] = u]
      BY <1>1, <1>2 DEF EnterChat
    <3> QED
      BY <1>2, <3>1 DEF EnterChat, OneTab
  <2>2. SameChat(t, u) /\ u.wire = t.wire /\ u.ask = "enter" /\ u.answer = t.answer /\ u.es = "connecting"
    BY <1>1, Fields DEF SameChat
  <2> HIDE DEF u, t
  <2>3. Asked(Len(cLog), u)
    BY <1>1, <2>1, <2>2 DEF Asked, SameChat
  <2> QED
    BY <1>1, <2>1, <2>2, <2>3, SameMet, TabKept
<1>3. CASE EventArrives(c)
  <2> DEFINE event == Head(t.wire)
             r == [t EXCEPT !.wire = Tail(@)]
             u == Heard(r, event)
  <2>1. OneTab(c, u) /\ t.wire # <<>>
    BY <1>3 DEF EventArrives, OneTab
  <2>2. SameChat(t, r) /\ r.wire = Tail(t.wire) /\ r.ask = t.ask /\ r.answer = t.answer /\ r.es = t.es
    BY <1>1, Fields DEF SameChat
  <2>3. OnWire(Len(cLog), r.wire) /\ Event(Len(cLog), event)
    <3> HIDE DEF t
    <3> QED
      BY <1>1, <2>1, <2>2, Taken
  <2> HIDE DEF u, r, t, event
  <2>4. Asked(Len(cLog), r)
    BY <1>1, <2>2 DEF Asked, SameChat
  <2>5. Page(cLog, cDrawn, r)
    BY <1>1, <2>2, <2>3, <2>4, SameMet
  <2>6. /\ DOMAIN r = DOMAIN Away /\ Met(cLog, cDrawn, r) /\ Begun(r) /\ r.es = t.es
    BY <2>2, <2>5 DEF Page
  <2>7. Page(cLog, cDrawn, u)
    <3>1. CASE event.kind = "hello"
      <4> DEFINE again == IF r.loaded /\ r.ask = "none" THEN "again" ELSE r.ask
                 v == [r EXCEPT !.here = event.n, !.ask = again]
      <4>1. u = v
        BY <2>6, <3>1, Fields DEF Heard, u
      <4>2. SameChat(r, v) /\ v.wire = r.wire /\ v.ask = again /\ v.answer = r.answer /\ v.es = r.es
        BY <2>6, Fields DEF SameChat
      <4>3. Asked(Len(cLog), v)
        BY <2>4, <4>2 DEF Asked, SameChat
      <4> HIDE DEF v
      <4> QED
        BY <2>2, <2>3, <2>5, <4>1, <4>2, <4>3, SameMet
    <3>2. CASE event.kind = "present"
      <4> DEFINE v == [r EXCEPT !.here = event.n]
      <4>1. u = v
        BY <3>2 DEF Heard, u
      <4>2. SameChat(r, v) /\ v.wire = r.wire /\ v.ask = r.ask /\ v.answer = r.answer /\ v.es = r.es
        BY <2>6, Fields DEF SameChat
      <4>3. Asked(Len(cLog), v)
        BY <2>4, <4>2 DEF Asked, SameChat
      <4> HIDE DEF v
      <4> QED
        BY <2>2, <2>3, <2>5, <4>1, <4>2, <4>3, SameMet
    <3>3. CASE event.kind = "msg" /\ r.loaded
      <4> DEFINE ns == {event.n}
      <4>1. u = HandleMsgs(r, ns)
        BY <3>3 DEF Heard, u
      <4>2. ns \subseteq 1..Len(cLog) /\ r.reading = 0
        BY <2>3, <2>6, <3>3 DEF Begun, Event
      <4> HIDE DEF ns
      <4>3. /\ DOMAIN u = DOMAIN Away /\ Met(cLog, cDrawn, u)
            /\ u.reading = 0 /\ u.loaded = r.loaded /\ u.ask = r.ask /\ u.answer = r.answer
            /\ u.es = r.es /\ u.wire = r.wire
        <5>1. /\ Numbered(cLog, cDrawn, cPosts) /\ DOMAIN r = DOMAIN Away /\ Met(cLog, cDrawn, r)
              /\ r.reading = 0 /\ ns \subseteq 1..Len(cLog)
          BY <1>1, <2>6, <4>2
        <5>2. MetMore(cLog, cDrawn, r, HandleMsgs(r, ns))
          BY <5>1, Handled
        <5> QED
          BY <4>1, <5>2 DEF MetMore
      <4>4. Begun(u) /\ Asked(Len(cLog), u)
        BY <2>4, <2>6, <3>3, <4>2, <4>3 DEF Begun, Asked
      <4> QED
        BY <2>3, <4>3, <4>4 DEF Page
    <3>4. CASE event.kind = "msg" /\ ~r.loaded
      <4> DEFINE v == [r EXCEPT !.queue = @ \cup {event.n}]
      <4>1. u = v
        BY <3>4 DEF Heard, u
      <4>2. /\ DOMAIN v = DOMAIN Away /\ v.seen = r.seen /\ v.opening = r.opening
            /\ v.queue = r.queue \cup {event.n} /\ v.histSeq = r.histSeq /\ v.reading = r.reading
            /\ v.pending = r.pending /\ v.shown = r.shown /\ v.loaded = r.loaded
            /\ v.wire = r.wire /\ v.ask = r.ask /\ v.answer = r.answer /\ v.es = r.es
        BY <2>6, Fields
      <4> HIDE DEF v
      <4>3. Rendered(v) = Rendered(r)
        BY <4>2 DEF Rendered
      <4>4. Met(cLog, cDrawn, v)
        BY <2>3, <2>6, <3>4, <4>2, <4>3 DEF Met, Event
      <4>5. Begun(v) /\ Asked(Len(cLog), v)
        BY <2>4, <2>6, <4>2 DEF Begun, Asked
      <4> QED
        BY <2>3, <4>1, <4>2, <4>4, <4>5 DEF Page
    <3> QED
      BY <2>3, <3>1, <3>2, <3>3, <3>4 DEF Event
  <2> QED
    BY <2>1, <2>7, TabKept
<1>4. CASE StreamBreaks(c)
  <2> DEFINE u == [t EXCEPT !.es = "connecting", !.wire = <<>>, !.ghosts = @ + 1]
  <2>1. OneTab(c, u) /\ t.es = "open"
    <3>1. cTab' = [cTab EXCEPT ![c] = u]
      BY <1>1, <1>4 DEF StreamBreaks
    <3> QED
      BY <1>4, <3>1 DEF StreamBreaks, OneTab
  <2>2. SameChat(t, u) /\ u.wire = <<>> /\ u.ask = t.ask /\ u.answer = t.answer /\ u.es = "connecting"
    BY <1>1, Fields DEF SameChat
  <2> HIDE DEF u, t
  <2>3. Asked(Len(cLog), u) /\ OnWire(Len(cLog), u.wire)
    BY <1>1, <2>1, <2>2, NothingOnWire DEF Asked, SameChat
  <2> QED
    BY <1>1, <2>1, <2>2, <2>3, SameMet, TabKept
<1>5. CASE FetchFails(c)
  <2> DEFINE u == [t EXCEPT !.ask = "none", !.answer = <<>>]
  <2>1. OneTab(c, u)
    <3>1. cTab' = [cTab EXCEPT ![c] = u]
      BY <1>1, <1>5 DEF FetchFails
    <3> QED
      BY <1>5, <3>1 DEF FetchFails, OneTab
  <2>2. SameChat(t, u) /\ u.wire = t.wire /\ u.ask = "none" /\ u.answer = <<>> /\ u.es = t.es
    BY <1>1, Fields DEF SameChat
  <2> HIDE DEF u, t
  <2>3. Asked(Len(cLog), u)
    BY <1>1, <2>1, <2>2 DEF Asked, SameChat
  <2> QED
    BY <1>1, <2>1, <2>2, <2>3, SameMet, TabKept
<1>6. CASE PageHides(c)
  <2>1. PICK ghosts, beacons :
            OneTab(c, [Away EXCEPT !.ghosts = ghosts, !.beacons = beacons])
    BY <1>6 DEF PageHides, OneTab
  <2> DEFINE u == [Away EXCEPT !.ghosts = ghosts, !.beacons = beacons]
  <2>2. SameChat(Away, u) /\ u.wire = Away.wire /\ u.ask = Away.ask /\ u.answer = Away.answer
        /\ u.es = Away.es
    BY Fields DEF SameChat
  <2> HIDE DEF u
  <2>3. Page(cLog, cDrawn, Away)
    BY <1>1, AwayPage
  <2>4. Page(cLog, cDrawn, u)
    <3>1. Asked(Len(cLog), u) /\ OnWire(Len(cLog), u.wire)
      BY <2>2, <2>3 DEF Page, Asked, SameChat
    <3> QED
      BY <2>2, <2>3, <3>1, SameMet
  <2> QED
    BY <2>1, <2>4, TabKept DEF u
<1> QED
  BY <1>2, <1>3, <1>4, <1>5, <1>6

\* What is broadcast leaves every page in order.
LEMMA RoomKept ==
    ASSUME IRoom, [CNext]_cVars
    PROVE  IRoom'
<1>1. /\ Numbered(cLog, cDrawn, cPosts) /\ cAlive \in BOOLEAN /\ DOMAIN cTab = CTabs
      /\ Len(cLog) \in Nat /\ cDrawn \in Nat /\ \A c \in CTabs : Page(cLog, cDrawn, cTab[c])
  BY Lengths DEF IRoom
<1>2. CASE ApiMsg
  <2>1. PICK b \in cPosts \cup NewBlob :
            /\ cLog' = Append(cLog, b) /\ cPosts' = cPosts \ {b}
            /\ cDrawn' = IF b \in NewBlob THEN b ELSE cDrawn
    BY <1>2 DEF ApiMsg
  <2> DEFINE log == Append(cLog, b)
             drawn == IF b \in NewBlob THEN b ELSE cDrawn
             n == cSeq + 1
  <2>2. cTab' = Broadcast(cTab, "msg", n) /\ cAlive' = cAlive
    BY <1>2 DEF ApiMsg
  <2>3. /\ drawn \in Nat /\ cDrawn <= drawn /\ drawn <= CMaxMessages /\ b \in 1..drawn
        /\ \A k \in 1..Len(cLog) : cLog[k] # b
    <3>1. CASE b \in NewBlob
      BY <1>1, <3>1 DEF NewBlob, Blobs, Numbered
    <3>2. CASE b \in cPosts /\ b \notin NewBlob
      BY <1>1, <3>2 DEF Numbered
    <3> QED
      BY <3>1, <3>2
  <2> HIDE DEF drawn
  <2>4. /\ log \in Seq(1..drawn) /\ Len(log) = Len(cLog) + 1
        /\ \A k \in 1..(Len(cLog) + 1) : log[k] = IF k = Len(cLog) + 1 THEN b ELSE cLog[k]
    <3>1. cLog \in Seq(1..cDrawn)
      BY <1>1 DEF Numbered
    <3>2. cLog \in [1..Len(cLog) -> 1..drawn]
      BY <1>1, <2>3, <3>1
    <3>3. cLog \in Seq(1..drawn)
      BY <1>1, <3>2, SeqDef
    <3> QED
      BY <2>3, <3>3
  <2>5. n \in 1..Len(log)
    BY <1>1, <2>4 DEF cSeq
  <2> HIDE DEF log, n
  <2>6. Numbered(log, drawn, cPosts \ {b})
    <3>1. cPosts \ {b} \subseteq 1..drawn
      BY <1>1, <2>3 DEF Numbered
    <3>2. \A k, m \in 1..Len(log) : log[k] = log[m] => k = m
      <4>1. \A k, m \in 1..Len(cLog) : cLog[k] = cLog[m] => k = m
        BY <1>1 DEF Numbered
      <4>2. \A k \in 1..Len(log) : k = Len(cLog) + 1 \/ k \in 1..Len(cLog)
        BY <1>1, <2>4
      <4> QED
        BY <1>1, <2>3, <2>4, <4>1, <4>2
    <3>3. \A k \in 1..Len(log) : log[k] \notin cPosts \ {b}
      BY <1>1, <2>4 DEF Numbered
    <3> QED
      BY <2>3, <2>4, <3>1, <3>2, <3>3 DEF Numbered
  <2>7. \A c \in CTabs : Page(log, drawn, cTab[c])
    <3>1. /\ Len(log) \in Nat /\ Len(cLog) <= Len(log)
          /\ \A k \in 1..Len(cLog) : log[k] = cLog[k]
      BY <1>1, <2>4
    <3> QED
      BY <1>1, <2>3, <3>1, Later
  <2>8. /\ DOMAIN Broadcast(cTab, "msg", n) = CTabs
        /\ \A c \in CTabs : Page(log, drawn, Broadcast(cTab, "msg", n)[c])
    <3>1. Event(Len(log), [kind |-> "msg", n |-> n])
      BY <2>5 DEF Event
    <3> QED
      BY <1>1, <2>7, <3>1, AllTold
  <2> QED
    BY <1>1, <2>1, <2>2, <2>6, <2>8 DEF IRoom, log, drawn
<1>3. CASE PresenceTick
  <2>1. PICK n : cTab' = Broadcast(cTab, "present", n) /\ cAlive' = cAlive /\ cLog' = cLog
                 /\ cDrawn' = cDrawn /\ cPosts' = cPosts
    BY <1>3 DEF PresenceTick
  <2>2. Event(Len(cLog), [kind |-> "present", n |-> n])
    BY DEF Event
  <2>3. /\ DOMAIN Broadcast(cTab, "present", n) = CTabs
        /\ \A c \in CTabs : Page(cLog, cDrawn, Broadcast(cTab, "present", n)[c])
    BY <1>1, <2>2, AllTold
  <2> QED
    BY <1>1, <2>1, <2>3 DEF IRoom
<1>4. CASE RoomDies \/ UNCHANGED cVars
  BY <1>1, <1>4 DEF RoomDies, cVars, IRoom
<1>5. ASSUME NEW c \in CTabs,
             \/ ApiHistory(c) \/ ApiStream(c) \/ ApiLeave(c) \/ Reap(c)
             \/ Send(c) \/ PostRefused(c) \/ MsgOpened(c) \/ HistoryOpened(c)
             \/ EnterChat(c) \/ HistoryArrives(c) \/ EventArrives(c)
             \/ StreamBreaks(c) \/ FetchFails(c) \/ PageHides(c)
      PROVE  IRoom'
  BY <1>5, RelayKeeps, PostKeeps, OpenedKeeps, AnswerKeeps, StreamKeeps
<1> QED
  BY <1>2, <1>3, <1>4, <1>5 DEF CNext

LEMMA RoomBegins == CInit => IRoom
<1> SUFFICES ASSUME CInit PROVE IRoom
  OBVIOUS
<1>1. Numbered(<<>>, 0, {})
  <2>1. <<>> \in Seq(1..0) /\ Len(<<>>) = 0 /\ CMaxMessages \in Nat
    BY ChatAssumption
  <2> QED
    BY <2>1 DEF Numbered
<1>2. Page(<<>>, 0, Away)
  BY <1>1, AwayPage
<1> QED
  BY <1>1, <1>2 DEF CInit, IRoom

LEMMA RoomShows == IRoom => ShownOnce
BY DEF IRoom, Page, Met, Bubbles, ShownOnce

\* A page shows every message it met and decrypted once, whatever races what: the bubble a
\* page makes of its own message and the echo, the history, the stream and a catch-up (the
\* marks handleMsg, enterChat and send leave before they wait).  Only a message sent before
\* the history came, and in it, has a second bubble, which waits for ever.
THEOREM PagesShowOnce == CSpec => []ShownOnce
<1>1. IRoom /\ [CNext]_cVars => IRoom'
  BY RoomKept
<1> QED
  BY <1>1, RoomBegins, RoomShows, PTL DEF CSpec

-------------------------------------------------------------------------------
(***************************************************************************)
(* The results of sealed rounds.                                           *)
(***************************************************************************)

\* The greatest and the least of the numbers of a sequence.

LEMMA Bounded ==
    ASSUME NEW s \in Seq(Nat) PROVE \E m \in Nat : \A i \in DOMAIN s : s[i] <= m
<1>1. PICK n \in Nat : n = Len(s)
  OBVIOUS
<1>2. DOMAIN s = 1..n /\ \A i \in 1..n : s[i] \in Nat
  BY <1>1
<1>3. PICK T : T = {k \in Nat : \E m \in Nat : \A i \in 1..n : i <= k => s[i] <= m}
  OBVIOUS
<1>4. 0 \in T
  BY <1>3
<1>5. ASSUME NEW k \in Nat, k \in T PROVE k + 1 \in T
  <2>1. PICK m \in Nat : \A i \in 1..n : i <= k => s[i] <= m
    BY <1>3, <1>5
  <2>2. PICK u \in Nat : u >= m /\ (k + 1 \in 1..n => u >= s[k + 1])
    <3>1. CASE k + 1 \in 1..n
      <4>1. s[k + 1] \in Nat
        BY <1>2, <3>1
      <4>2. m + s[k + 1] \in Nat /\ m + s[k + 1] >= m /\ m + s[k + 1] >= s[k + 1]
        BY <4>1
      <4> QED
        BY <4>2
    <3>2. CASE k + 1 \notin 1..n
      BY <3>2
    <3> QED
      BY <3>1, <3>2
  <2>3. ASSUME NEW i \in 1..n, i <= k + 1 PROVE s[i] <= u
    <3>1. s[i] \in Nat
      BY <1>2
    <3>2. CASE i = k + 1
      BY <2>2, <3>2
    <3>3. CASE i <= k
      <4>1. s[i] <= m
        BY <2>1, <3>3
      <4> QED
        BY <2>2, <3>1, <4>1
    <3>4. i = k + 1 \/ i <= k
      BY <1>1, <2>3
    <3> QED
      BY <3>2, <3>3, <3>4
  <2>4. PICK l \in Nat : l = k + 1
    OBVIOUS
  <2>5. \A i \in 1..n : i <= l => s[i] <= u
    BY <2>3, <2>4
  <2> QED
    BY <1>3, <2>4, <2>5
<1>6. n \in T
  <2>1. Nat \subseteq T
    BY <1>4, <1>5, AllNat
  <2> QED
    BY <2>1
<1> QED
  BY <1>2, <1>3, <1>6

LEMMA GreatestIs ==
    ASSUME NEW S, S \subseteq Nat, S # {}, NEW m \in Nat, \A y \in S : y <= m
    PROVE  Max(S) \in S /\ \A y \in S : y <= Max(S)
<1>1. PICK T : T = {x \in Nat : \A y \in S : y <= x}
  OBVIOUS
<1>2. m \in T /\ T \subseteq Nat
  BY <1>1
<1>3. PICK k \in T : \A x \in T : k <= x
  BY <1>2, LeastNat
<1>4. k \in Nat /\ \A y \in S : y <= k /\ y \in Nat
  BY <1>1, <1>3
<1>5. k \in S
  <2> SUFFICES ASSUME k \notin S PROVE FALSE
    OBVIOUS
  <2>1. PICK y \in S : TRUE
    OBVIOUS
  <2>2. k - 1 \in Nat /\ ~ (k <= k - 1)
    BY <1>4, <2>1
  <2>3. ASSUME NEW z \in S PROVE z <= k - 1
    <3>1. z # k /\ z <= k /\ z \in Nat
      BY <1>4
    <3> QED
      BY <1>4, <3>1
  <2>4. k - 1 \in T
    BY <1>1, <2>2, <2>3
  <2> QED
    BY <1>3, <2>2, <2>4
<1>6. \A y \in S : k >= y
  BY <1>4
<1>7. \E x \in S : \A y \in S : x >= y
  BY <1>5, <1>6
<1>8. Max(S) \in S /\ \A y \in S : Max(S) >= y
  BY <1>7 DEF Max
<1> QED
  BY <1>8

LEMMA MinIs ==
    ASSUME NEW S, S \subseteq Nat, S # {} PROVE Min(S) \in S /\ \A y \in S : Min(S) <= y
BY LeastNat DEF Min

-------------------------------------------------------------------------------
\* The result of an auction.

LEMMA HighestIs ==
    ASSUME NEW s \in Seq(Nat), s # <<>>
    PROVE  /\ Highest(s) \in DOMAIN s
           /\ \A j \in DOMAIN s : s[Highest(s)] > s[j] \/ (s[Highest(s)] = s[j] /\ Highest(s) <= j)
<1>1. DOMAIN s \subseteq Nat /\ 1 \in DOMAIN s /\ \A i \in DOMAIN s : s[i] \in Nat
  OBVIOUS
<1>2. PICK m \in Nat : \A i \in DOMAIN s : s[i] <= m
  BY Bounded
<1>3. PICK S : S = {s[i] : i \in DOMAIN s}
  OBVIOUS
<1>4. S \subseteq Nat /\ S # {} /\ \A y \in S : y <= m
  BY <1>1, <1>2, <1>3
<1>5. PICK v \in S : \A y \in S : y <= v
  BY <1>4, GreatestIs
<1>6. PICK I : I = {i \in DOMAIN s : s[i] = v}
  OBVIOUS
<1>7. I \subseteq Nat /\ I # {}
  BY <1>1, <1>3, <1>5, <1>6
<1>8. PICK h \in I : \A i \in I : h <= i
  BY <1>7, LeastNat
<1>9. ASSUME NEW j \in DOMAIN s PROVE s[h] > s[j] \/ (s[h] = s[j] /\ h <= j)
  <2>1. s[j] \in Nat /\ s[h] \in Nat /\ s[h] = v /\ s[j] <= v
    BY <1>1, <1>3, <1>5, <1>6, <1>8
  <2>2. s[j] = v => h <= j
    BY <1>6, <1>8
  <2> QED
    BY <2>1, <2>2
<1>10. h \in DOMAIN s
  BY <1>6, <1>8
<1> QED
  BY <1>9, <1>10 DEF Highest

LEMMA AuctionSettled ==
    ASSUME Auction, NEW s \in Seq(Nat), rLast = s, rSetup.param \in Nat
    PROVE  AuctionRight(Settle(s, rSetup.param))
<1>1. PICK r \in Nat : r = rSetup.param
  OBVIOUS
<1>2. PICK most : most = Max({s[i] : i \in DOMAIN s} \cup {0})
  OBVIOUS
<1>3. PICK m \in Nat : \A i \in DOMAIN s : s[i] <= m
  BY Bounded
<1>4. \A i \in DOMAIN s : s[i] \in Nat
  OBVIOUS
<1>5. /\ most \in {s[i] : i \in DOMAIN s} \cup {0} /\ most \in Nat
      /\ \A i \in DOMAIN s : s[i] <= most
  <2>1. PICK S : S = {s[i] : i \in DOMAIN s} \cup {0}
    OBVIOUS
  <2>2. S \subseteq Nat /\ S # {} /\ \A y \in S : y <= m
    BY <1>3, <1>4, <2>1
  <2>3. most \in S /\ \A y \in S : y <= most
    BY <1>2, <2>1, <2>2, GreatestIs
  <2> QED
    BY <2>1, <2>2, <2>3
<1>6. CASE s = <<>>
  BY <1>6 DEF Settle, AuctionRight
<1>7. CASE s # <<>>
  <2>1. PICK h \in DOMAIN s :
           /\ h = Highest(s)
           /\ \A j \in DOMAIN s : s[h] > s[j] \/ (s[h] = s[j] /\ h <= j)
    BY <1>7, HighestIs
  <2>2. s[h] = most /\ s[h] \in Nat
    <3>1. CASE most = 0
      <4>1. s[h] \in Nat /\ s[h] <= most
        BY <1>4, <1>5
      <4> QED
        BY <3>1, <4>1
    <3>2. CASE most # 0
      <4>1. PICK j \in DOMAIN s : most = s[j]
        BY <1>5, <3>2
      <4>2. s[h] \in Nat /\ s[h] <= most /\ (s[h] > most \/ s[h] = most)
        BY <1>4, <1>5, <2>1, <4>1
      <4> QED
        BY <1>5, <4>2
    <3> QED
      BY <3>1, <3>2
  <2>3. ASSUME NEW i \in 1..(h - 1) PROVE s[i] < most
    <3>1. i \in DOMAIN s /\ i \in Nat /\ h \in Nat /\ ~ (h <= i)
      <4>1. PICK n \in Nat : n = Len(s)
        OBVIOUS
      <4>2. DOMAIN s = 1..n
        BY <4>1
      <4> QED
        BY <2>3, <4>2
    <3>2. s[h] > s[i]
      BY <2>1, <3>1
    <3> QED
      BY <1>4, <2>2, <3>1, <3>2
  <2>4. CASE most < r
    <3>1. Settle(s, r) = [sold |-> FALSE, winner |-> 0, price |-> 0]
      BY <2>1, <2>2, <2>4 DEF Settle
    <3>2. ~ (most >= r)
      BY <1>5, <2>4
    <3> QED
      BY <1>1, <1>2, <3>1, <3>2 DEF AuctionRight
  <2>5. CASE ~ (most < r)
    <3>1. PICK others : others = {s[i] : i \in DOMAIN s \ {h}}
      OBVIOUS
    <3>2. PICK price : price = IF rSetup.kind = "first" THEN s[h] ELSE Max(others \cup {r, 1})
      OBVIOUS
    <3>3. Settle(s, r) = [sold |-> TRUE, winner |-> h, price |-> price]
      BY <1>7, <2>1, <2>2, <2>5, <3>1, <3>2 DEF Settle
    <3>4. most >= r
      BY <1>5, <2>5
    <3>5. PICK S : S = others \cup {r, 1}
      OBVIOUS
    <3> DEFINE b == m + r + 1
    <3>6. S \subseteq Nat /\ S # {} /\ b \in Nat /\ \A y \in S : y <= b
      <4>1. ASSUME NEW y \in others PROVE y \in Nat /\ y <= b
        <5>1. PICK i \in DOMAIN s : y = s[i]
          BY <3>1, <4>1
        <5> QED
          BY <1>3, <1>4, <5>1
      <4>2. b \in Nat /\ r <= b /\ 1 <= b /\ r \in Nat /\ 1 \in Nat
        OBVIOUS
      <4>3. r \in S
        BY <3>5
      <4>4. ASSUME NEW y \in S PROVE y \in Nat /\ y <= b
        <5>1. y \in others \/ y = r \/ y = 1
          BY <3>5, <4>4
        <5> QED
          BY <4>1, <4>2, <5>1
      <4> QED
        BY <4>2, <4>3, <4>4
    <3> HIDE DEF b
    <3>7. Max(S) \in S /\ \A y \in S : y <= Max(S)
      BY <3>6, GreatestIs
    <3>8. IF rSetup.kind = "first" THEN price = most
          ELSE (\A p \in S : p <= price) /\ price \in S
      BY <2>2, <3>2, <3>5, <3>7
    <3>9. PICK result : result = [sold |-> TRUE, winner |-> h, price |-> price]
      OBVIOUS
    <3>10. result.sold /\ result.winner = h /\ result.price = price
      BY <3>9
    <3>11. AuctionRight(result)
      BY <1>1, <1>2, <1>7, <2>2, <2>3, <3>1, <3>4, <3>5, <3>8, <3>10 DEF AuctionRight
    <3> QED
      BY <1>1, <3>3, <3>9, <3>11
  <2> QED
    BY <2>4, <2>5
<1> QED
  BY <1>6, <1>7

-------------------------------------------------------------------------------
\* The result of a survey.

\* How many come up to v, and how many v comes up to.
Below(s, v) == {i \in DOMAIN s : s[i] <= v}
Above(s, v) == {i \in DOMAIN s : s[i] >= v}

LEMMA Places ==
    ASSUME NEW s \in Seq(Nat), NEW I, I \subseteq DOMAIN s
    PROVE  IsFiniteSet(I) /\ Cardinality(I) \in Nat
<1>1. PICK n \in Nat : n = Len(s)
  OBVIOUS
<1>2. DOMAIN s = 1..n
  BY <1>1
<1>3. IsFiniteSet(1..n)
  BY FS_Interval
<1>4. I \in SUBSET (1..n)
  BY <1>2
<1>5. IsFiniteSet(I)
  BY <1>3, <1>4, FS_Subset
<1> QED
  BY <1>5, FS_CardinalityType

LEMMA FewerPlaces ==
    ASSUME NEW s \in Seq(Nat), NEW I, I \subseteq DOMAIN s, NEW J, J \subseteq I
    PROVE  Cardinality(J) <= Cardinality(I)
<1>1. IsFiniteSet(I) /\ J \in SUBSET I
  BY Places
<1> QED
  BY <1>1, FS_Subset

LEMMA AllPlaces ==
    ASSUME NEW s \in Seq(Nat), NEW I, I \subseteq DOMAIN s
    PROVE  Cardinality(DOMAIN s) = Len(s) /\ Cardinality(DOMAIN s \ I) = Len(s) - Cardinality(I)
<1>1. PICK n \in Nat : n = Len(s)
  OBVIOUS
<1>2. DOMAIN s = 1..n
  BY <1>1
<1>3. IsFiniteSet(1..n) /\ Cardinality(1..n) = n
  BY FS_Interval
<1>4. IsFiniteSet(I) /\ Cardinality(I) \in Nat
  BY Places
<1>5. (1..n) \cap I = I
  BY <1>2
<1>6. Cardinality((1..n) \ I) = Cardinality(1..n) - Cardinality((1..n) \cap I)
  BY <1>3, <1>4, FS_Difference
<1> QED
  BY <1>1, <1>2, <1>3, <1>5, <1>6

\* The numbers that k or more do not exceed.
Enough(s, k) == {s[i] : i \in {j \in DOMAIN s : Cardinality(Below(s, s[j])) >= k}}

LEMMA SortedIs == ASSUME NEW s PROVE Sorted(s) = [k \in DOMAIN s |-> Min(Enough(s, k))]
BY DEF Sorted, Enough, Below

LEMMA InEnough ==
    ASSUME NEW s, NEW k, NEW i \in DOMAIN s, Cardinality(Below(s, s[i])) >= k PROVE s[i] \in Enough(s, k)
BY DEF Enough

LEMMA Ranked ==
    ASSUME NEW s \in Seq(Nat), NEW k \in DOMAIN s
    PROVE  /\ Sorted(s)[k] \in Enough(s, k) /\ \A v \in Enough(s, k) : Sorted(s)[k] <= v
           /\ Enough(s, k) \subseteq Nat
           /\ Sorted(s)[k] \in Nat
           /\ Cardinality(Below(s, Sorted(s)[k])) >= k
           /\ Cardinality(Above(s, Sorted(s)[k])) >= Len(s) - k + 1
<1>1. PICK n \in Nat : n = Len(s)
  OBVIOUS
<1>2. DOMAIN s = 1..n /\ \A i \in 1..n : s[i] \in Nat
  BY <1>1
<1>3. Enough(s, k) \subseteq Nat
  BY <1>2 DEF Enough
<1>4. s # <<>> /\ k \in Nat /\ k >= 1 /\ k <= n
  BY <1>1, <1>2
<1>5. PICK h \in DOMAIN s : \A j \in DOMAIN s : s[h] > s[j] \/ (s[h] = s[j] /\ h <= j)
  BY <1>4, HighestIs
<1>6. Below(s, s[h]) = DOMAIN s
  <2>1. ASSUME NEW j \in DOMAIN s PROVE s[j] <= s[h]
    <3>1. s[j] \in Nat /\ s[h] \in Nat /\ (s[h] > s[j] \/ s[h] = s[j])
      BY <1>2, <1>5
    <3> QED
      BY <3>1
  <2> QED
    BY <2>1 DEF Below
<1>7. Cardinality(DOMAIN s) = n
  BY <1>1, AllPlaces
<1>8. s[h] \in Enough(s, k)
  BY <1>4, <1>6, <1>7, InEnough
<1>9. PICK v : v = Min(Enough(s, k))
  OBVIOUS
<1>10. v \in Enough(s, k) /\ \A w \in Enough(s, k) : v <= w
  BY <1>3, <1>8, <1>9, MinIs
<1>11. Sorted(s)[k] = v
  BY <1>9, SortedIs
<1>12. v \in Nat /\ Cardinality(Below(s, v)) >= k
  BY <1>3, <1>10 DEF Enough
<1>13. PICK B : B = {i \in DOMAIN s : s[i] < v}
  OBVIOUS
<1>14. Above(s, v) = DOMAIN s \ B
  <2>1. ASSUME NEW i \in DOMAIN s PROVE i \in Above(s, v) <=> i \notin B
    <3>1. s[i] \in Nat /\ (s[i] >= v <=> ~ (s[i] < v))
      BY <1>2, <1>12
    <3> QED
      BY <1>13, <3>1 DEF Above
  <2> QED
    BY <2>1 DEF Above
<1>15. B \subseteq DOMAIN s
  BY <1>13
<1>16. PICK b \in Nat : b = Cardinality(B)
  BY <1>15, Places
<1>17. Cardinality(Above(s, v)) = n - b
  BY <1>1, <1>14, <1>15, <1>16, AllPlaces
<1>18. b < k
  <2>1. CASE B = {}
    BY <1>4, <1>16, <2>1, FS_EmptySet
  <2>2. CASE B # {}
    <3>1. PICK S : S = {s[i] : i \in B}
      OBVIOUS
    <3>2. S \subseteq Nat /\ S # {} /\ \A y \in S : y <= v
      <4>1. ASSUME NEW y \in S PROVE y \in Nat /\ y <= v
        <5>1. PICK i \in B : y = s[i]
          BY <3>1
        <5>2. s[i] \in Nat /\ s[i] < v
          BY <1>2, <1>13, <5>1
        <5> QED
          BY <1>12, <5>1, <5>2
      <4> QED
        BY <2>2, <3>1, <4>1
    <3>3. Max(S) \in S /\ \A y \in S : y <= Max(S)
      BY <1>12, <3>2, GreatestIs
    <3>4. PICK i \in B : Max(S) = s[i]
      BY <3>1, <3>3
    <3>5. s[i] \in Nat /\ s[i] < v /\ i \in DOMAIN s
      BY <1>2, <1>13
    <3>6. Below(s, s[i]) = B
      <4>1. ASSUME NEW j \in DOMAIN s PROVE s[j] <= s[i] <=> j \in B
        <5>1. s[j] \in Nat
          BY <1>2
        <5>2. s[j] <= s[i] => s[j] < v
          BY <1>12, <3>5, <5>1
        <5>3. j \in B => s[j] <= s[i]
          BY <3>1, <3>3, <3>4
        <5> QED
          BY <1>13, <5>2, <5>3
      <4> QED
        BY <1>15, <4>1 DEF Below
    <3>7. b >= k => s[i] \in Enough(s, k)
      BY <1>16, <3>5, <3>6, InEnough
    <3>8. ~ (v <= s[i])
      BY <1>12, <3>5
    <3> QED
      BY <1>4, <1>10, <3>7, <3>8
  <2> QED
    BY <2>1, <2>2
<1>19. n - b >= n - k + 1
  BY <1>4, <1>18
<1> QED
  BY <1>1, <1>3, <1>10, <1>11, <1>12, <1>17, <1>19

\* The order is one.
LEMMA SortedRises ==
    ASSUME NEW s \in Seq(Nat), NEW k \in DOMAIN s, k + 1 \in DOMAIN s PROVE Sorted(s)[k] <= Sorted(s)[k + 1]
<1>1. k \in Nat
  OBVIOUS
<1>2. PICK l \in DOMAIN s : l = k + 1
  OBVIOUS
<1>3. PICK v : v = Sorted(s)[l]
  OBVIOUS
<1>4. v \in Enough(s, l)
  BY <1>3, Ranked
<1>5. PICK i \in DOMAIN s : v = s[i] /\ Cardinality(Below(s, s[i])) >= l
  BY <1>4 DEF Enough
<1>6. Cardinality(Below(s, s[i])) \in Nat
  BY Places DEF Below
<1>7. v \in Enough(s, k)
  BY <1>1, <1>2, <1>5, <1>6, InEnough
<1> QED
  BY <1>2, <1>3, <1>7, Ranked

-------------------------------------------------------------------------------
\* A fold over the places of a sequence, from the first to the last: what step makes of
\* what was made of the places before, with iter for each set of places.

Folded(base, step, A, iter) ==
    iter = [p \in A |-> IF p = {} THEN base ELSE step[<<iter[p \ {Max(p)}], Max(p)>>]]

LEMMA LastPlace ==
    ASSUME NEW m \in Nat, NEW p \in SUBSET (1..(m + 1)), p # {}
    PROVE  Max(p) \in 1..(m + 1) /\ p \ {Max(p)} \in SUBSET (1..m)
<1>1. PICK l \in Nat : l = m + 1
  OBVIOUS
<1>2. Max(p) \in p /\ \A y \in p : Max(p) >= y
  BY <1>1, MaxIn
<1>3. ASSUME NEW y \in p \ {Max(p)} PROVE y \in 1..m
  <2>1. y \in 1..l /\ Max(p) \in 1..l /\ Max(p) >= y /\ y # Max(p)
    BY <1>1, <1>2
  <2> QED
    BY <1>1, <2>1
<1> QED
  BY <1>2, <1>3

LEMMA FoldExists ==
    ASSUME NEW V, NEW base \in V, NEW N \in Nat, NEW step \in [V \X (1..N) -> V]
    PROVE  \E iter \in [SUBSET (1..N) -> V] : Folded(base, step, SUBSET (1..N), iter)
<1>1. PICK T : T = {m \in Nat : m <= N => \E iter \in [SUBSET (1..m) -> V] : Folded(base, step, SUBSET (1..m), iter)}
  OBVIOUS
<1>2. 0 \in T
  <2>1. \A p \in SUBSET (1..0) : p = {}
    OBVIOUS
  <2>2. PICK iter : iter = [p \in SUBSET (1..0) |-> base]
    OBVIOUS
  <2>3. iter \in [SUBSET (1..0) -> V] /\ Folded(base, step, SUBSET (1..0), iter)
    BY <2>1, <2>2 DEF Folded
  <2> QED
    BY <1>1, <2>3
<1>3. ASSUME NEW m \in Nat, m \in T PROVE m + 1 \in T
  <2>1. CASE ~ (m + 1 <= N)
    BY <1>1, <2>1
  <2>2. CASE m + 1 <= N
    <3>0. m <= N
      BY <2>2
    <3>1. PICK iter \in [SUBSET (1..m) -> V] : Folded(base, step, SUBSET (1..m), iter)
      BY <1>1, <1>3, <3>0
    <3>2. PICK A : A = SUBSET (1..m)
      OBVIOUS
    <3>3. PICK B : B = SUBSET (1..(m + 1))
      OBVIOUS
    <3>4. PICK next : next = [p \in B |-> IF p = {} THEN base ELSE step[<<iter[p \ {Max(p)}], Max(p)>>]]
      OBVIOUS
    <3>5. ASSUME NEW p \in B, p # {} PROVE p \ {Max(p)} \in A /\ Max(p) \in 1..N
      <4>1. Max(p) \in 1..(m + 1) /\ p \ {Max(p)} \in SUBSET (1..m)
        BY <3>3, <3>5, LastPlace
      <4>2. \A y \in 1..(m + 1) : y \in 1..N
        BY <2>2
      <4> QED
        BY <3>2, <4>1, <4>2
    <3>6. next \in [B -> V]
      <4>1. ASSUME NEW p \in B, p # {} PROVE step[<<iter[p \ {Max(p)}], Max(p)>>] \in V
        <5>1. iter[p \ {Max(p)}] \in V /\ Max(p) \in 1..N
          BY <3>1, <3>2, <3>5, <4>1
        <5> QED
          BY <5>1
      <4> QED
        BY <3>4, <4>1
    <3>7. ASSUME NEW p \in A PROVE p \in B /\ next[p] = iter[p]
      <4>1. \A y \in 1..m : y \in 1..(m + 1)
        OBVIOUS
      <4>2. p \in B
        BY <3>2, <3>3, <4>1
      <4>3. iter[p] = IF p = {} THEN base ELSE step[<<iter[p \ {Max(p)}], Max(p)>>]
        BY <3>1, <3>2 DEF Folded
      <4> QED
        BY <3>4, <4>2, <4>3
    <3>8. \A p \in B : p # {} => next[p \ {Max(p)}] = iter[p \ {Max(p)}]
      BY <3>5, <3>7
    <3>9. Folded(base, step, B, next)
      BY <3>4, <3>8 DEF Folded
    <3> QED
      BY <1>1, <3>3, <3>6, <3>9
  <2> QED
    BY <2>1, <2>2
<1>4. Nat \subseteq T
  BY <1>2, <1>3, AllNat
<1>5. N \in T /\ N <= N
  BY <1>4
<1> QED
  BY <1>1, <1>5

\* The places up to one are those up to the one before, and it.
LEMMA Peeled ==
    ASSUME NEW N \in Nat, NEW i \in 1..N
    PROVE  1..i \in SUBSET (1..N) /\ 1..i # {} /\ Max(1..i) = i /\ (1..i) \ {Max(1..i)} = 1..(i - 1)
<1>1. i \in Nat /\ i >= 1 /\ i <= N /\ i \in 1..i
  OBVIOUS
<1>2. \A j \in 1..i : j \in 1..N
  BY <1>1
<1>3. Max(1..i) \in 1..i /\ Max(1..i) >= i
  BY <1>1, MaxIn
<1>4. Max(1..i) = i
  BY <1>1, <1>3
<1> QED
  BY <1>1, <1>2, <1>4

\* A chain of what a fold makes of the first places, for a fold that steps as iter does.
Rungs(V, base, N, step, iter) ==
    /\ iter[{}] = base
    /\ \A i \in 1..N : iter[1..(i - 1)] \in V => iter[1..i] = step[<<iter[1..(i - 1)], i>>]

Climbs(f, base, N, step) == f[0] = base /\ \A i \in 1..N : f[i] = step[<<f[i - 1], i>>]

LEMMA Chain ==
    ASSUME NEW V, NEW base \in V, NEW N \in Nat, NEW step \in [V \X (1..N) -> V],
           NEW iter, Rungs(V, base, N, step, iter)
    PROVE  \E f \in [0..N -> V] : iter[1..N] = f[N] /\ Climbs(f, base, N, step)
<1> USE DEF Rungs, Climbs
<1>1. PICK T : T = {m \in Nat : m <= N => iter[1..m] \in V}
  OBVIOUS
<1>2. 1..0 = {}
  OBVIOUS
<1>3. 0 \in T
  BY <1>1, <1>2
<1>4. ASSUME NEW m \in Nat, m \in T PROVE m + 1 \in T
  <2>1. CASE m + 1 <= N
    <3>1. m <= N /\ m + 1 \in 1..N /\ (m + 1) - 1 = m
      BY <2>1
    <3>2. iter[1..m] \in V
      BY <1>1, <1>4, <3>1
    <3>3. iter[1..(m + 1)] = step[<<iter[1..m], m + 1>>]
      BY <3>1, <3>2
    <3> QED
      BY <1>1, <3>1, <3>2, <3>3
  <2> QED
    BY <1>1, <2>1
<1>5. Nat \subseteq T
  BY <1>3, <1>4, AllNat
<1>6. \A m \in 0..N : iter[1..m] \in V
  BY <1>1, <1>5
<1>7. PICK f : f = [m \in 0..N |-> iter[1..m]]
  OBVIOUS
<1>8. f \in [0..N -> V]
  BY <1>6, <1>7
<1>9. f[0] = base /\ f[N] = iter[1..N]
  BY <1>2, <1>7
<1>10. ASSUME NEW i \in 1..N PROVE f[i] = step[<<f[i - 1], i>>]
  <2>1. i - 1 \in 0..N /\ i \in 0..N
    OBVIOUS
  <2>2. f[i - 1] = iter[1..(i - 1)] /\ f[i] = iter[1..i]
    BY <1>7, <2>1
  <2> QED
    BY <1>6, <2>1, <2>2
<1> QED
  BY <1>8, <1>9, <1>10

\* The sum of a sequence.
Summing(s, A, iter) == iter = [p \in A |-> IF p = {} THEN 0 ELSE iter[p \ {Max(p)}] + s[Max(p)]]

Total(s) == (CHOOSE iter : Summing(s, SUBSET DOMAIN s, iter))[DOMAIN s]

LEMMA TotalTyped == ASSUME NEW s \in Seq(Nat) PROVE Total(s) \in Nat
<1>1. PICK N \in Nat : N = Len(s)
  OBVIOUS
<1>2. DOMAIN s = 1..N /\ \A i \in 1..N : s[i] \in Nat
  BY <1>1
<1>3. PICK step : step = [x \in Nat \X (1..N) |-> x[1] + s[x[2]]]
  OBVIOUS
<1>4. step \in [Nat \X (1..N) -> Nat]
  BY <1>2, <1>3
<1>5. \A v \in Nat, i \in 1..N : step[<<v, i>>] = v + s[i]
  BY <1>3
<1>6. \E iter : Summing(s, SUBSET (1..N), iter)
  <2>1. PICK iter \in [SUBSET (1..N) -> Nat] : Folded(0, step, SUBSET (1..N), iter)
    BY <1>4, FoldExists
  <2>2. ASSUME NEW p \in SUBSET (1..N), p # {}
        PROVE  step[<<iter[p \ {Max(p)}], Max(p)>>] = iter[p \ {Max(p)}] + s[Max(p)]
    <3>1. Max(p) \in p
      BY <2>2, MaxIn
    <3>2. Max(p) \in 1..N /\ p \ {Max(p)} \in SUBSET (1..N)
      BY <3>1
    <3> QED
      BY <1>5, <2>1, <3>2
  <2>3. Summing(s, SUBSET (1..N), iter)
    BY <2>1, <2>2 DEF Summing, Folded
  <2> QED
    BY <2>3
<1>7. PICK iter : iter = CHOOSE it : Summing(s, SUBSET (1..N), it)
  OBVIOUS
<1>8. Summing(s, SUBSET (1..N), iter)
  BY <1>6, <1>7
<1>9. iter[{}] = 0
  BY <1>8 DEF Summing
<1>10. ASSUME NEW i \in 1..N, iter[1..(i - 1)] \in Nat PROVE iter[1..i] = step[<<iter[1..(i - 1)], i>>]
  <2>1. iter[1..i] = iter[1..(i - 1)] + s[i]
    BY <1>8, Peeled DEF Summing
  <2> QED
    BY <1>5, <1>10, <2>1
<1>11. Rungs(Nat, 0, N, step, iter)
  BY <1>9, <1>10 DEF Rungs
<1>12. PICK f \in [0..N -> Nat] : iter[1..N] = f[N]
  <2>1. 0 \in Nat
    OBVIOUS
  <2>2. \E f \in [0..N -> Nat] : iter[1..N] = f[N] /\ Climbs(f, 0, N, step)
    BY <1>4, <1>11, <2>1, Chain, Zenon
  <2> QED
    BY <2>2
<1>13. iter[1..N] \in Nat
  <2>1. N \in 0..N
    OBVIOUS
  <2> QED
    BY <1>12, <2>1
<1>14. Total(s) = iter[DOMAIN s]
  BY <1>2, <1>7 DEF Total
<1> QED
  BY <1>2, <1>13, <1>14

\* What a survey reveals, and what it is meant to, with the sum named.
MeasureOf(s, n, vals, sum) ==
    [revealed |-> TRUE,
     median |-> IF n % 2 = 1 THEN vals[n \div 2 + 1] * 10
                ELSE (vals[n \div 2] + vals[n \div 2 + 1]) * 5,
     mean |-> (sum * 10 + n \div 2) \div n,
     quartiles |-> IF n >= 5 THEN <<vals[(n + 3) \div 4], vals[(3 * n + 3) \div 4]>> ELSE <<>>]

LEMMA MeasureIs ==
    ASSUME NEW s
    PROVE  Measure(s) = IF Len(s) < rSetup.param THEN [revealed |-> FALSE]
                        ELSE MeasureOf(s, Len(s), Sorted(s), Total(s))
BY DEF Measure, MeasureOf, Total, Summing, FoldLeft, MapThenFoldSet

UpTo10(s, v10) == Cardinality({i \in DOMAIN s : s[i] * 10 <= v10})
From10(s, v10) == Cardinality({i \in DOMAIN s : s[i] * 10 >= v10})
AtRank(s, n, v, q) == 4 * UpTo10(s, v * 10) >= q * n /\ 4 * From10(s, v * 10) >= (4 - q) * n

LEMMA SurveyIs ==
    ASSUME NEW result,
           LET n == Len(rLast)
               tenth == Total(rLast) * 10
           IN  /\ result.revealed <=> n >= rSetup.param
               /\ result.revealed =>
                      /\ 2 * UpTo10(rLast, result.median) >= n /\ 2 * From10(rLast, result.median) >= n
                      /\ 2 * result.mean * n <= 2 * tenth + n /\ 2 * tenth < 2 * result.mean * n + n
                      /\ n >= 5 <=> result.quartiles # <<>>
                      /\ n >= 5 => /\ AtRank(rLast, n, result.quartiles[1], 1)
                                   /\ AtRank(rLast, n, result.quartiles[2], 3)
    PROVE  SurveyRight(result)
BY DEF SurveyRight, UpTo10, From10, AtRank, Total, Summing, FoldLeft, MapThenFoldSet

LEMMA DivMod ==
    ASSUME NEW a \in Nat, NEW n \in Nat \ {0}
    PROVE  a \div n \in Nat /\ a % n \in 0..(n - 1) /\ a = n * (a \div n) + (a % n)
OBVIOUS

LEMMA Halved == ASSUME NEW n \in Nat PROVE n \div 2 \in Nat /\ 2 * (n \div 2) + (n % 2) = n /\ n % 2 \in {0, 1}
OBVIOUS

LEMMA Quartered == ASSUME NEW n \in Nat PROVE n \div 4 \in Nat /\ 4 * (n \div 4) <= n /\ n <= 4 * (n \div 4) + 3
OBVIOUS

\* Tenths, between two numbers that many do not exceed and many are not below.
LEMMA Between10 ==
    ASSUME NEW s \in Seq(Nat), NEW x \in Nat, NEW y \in Nat, NEW v10 \in Nat, x * 10 <= v10, v10 <= y * 10
    PROVE  /\ UpTo10(s, v10) \in Nat /\ Cardinality(Below(s, x)) <= UpTo10(s, v10)
           /\ From10(s, v10) \in Nat /\ Cardinality(Above(s, y)) <= From10(s, v10)
<1>1. \A i \in DOMAIN s : s[i] \in Nat
  OBVIOUS
<1>2. PICK U : U = {i \in DOMAIN s : s[i] * 10 <= v10}
  OBVIOUS
<1>3. PICK F : F = {i \in DOMAIN s : s[i] * 10 >= v10}
  OBVIOUS
<1>4. ASSUME NEW i \in DOMAIN s PROVE (s[i] <= x => s[i] * 10 <= v10) /\ (s[i] >= y => s[i] * 10 >= v10)
  <2>1. PICK z \in Nat : z = s[i]
    BY <1>1
  <2>2. (z <= x => z * 10 <= v10) /\ (z >= y => z * 10 >= v10)
    OBVIOUS
  <2> QED
    BY <2>1, <2>2
<1>5. Below(s, x) \subseteq U /\ U \subseteq DOMAIN s
  BY <1>2, <1>4 DEF Below
<1>6. Above(s, y) \subseteq F /\ F \subseteq DOMAIN s
  BY <1>3, <1>4 DEF Above
<1>7. Cardinality(U) \in Nat /\ Cardinality(F) \in Nat
  BY <1>5, <1>6, Places
<1>8. Cardinality(Below(s, x)) <= Cardinality(U) /\ Cardinality(Above(s, y)) <= Cardinality(F)
  BY <1>5, <1>6, FewerPlaces
<1> QED
  BY <1>2, <1>3, <1>7, <1>8 DEF UpTo10, From10

LEMMA CountedTenths ==
    ASSUME NEW s \in Seq(Nat), NEW k \in DOMAIN s, NEW l \in DOMAIN s, NEW x, NEW y, NEW v10 \in Nat,
           x = Sorted(s)[k], y = Sorted(s)[l], x * 10 <= v10, v10 <= y * 10
    PROVE  /\ UpTo10(s, v10) \in Nat /\ UpTo10(s, v10) >= k
           /\ From10(s, v10) \in Nat /\ From10(s, v10) >= Len(s) - l + 1
<1>1. x \in Nat /\ y \in Nat
  BY Ranked
<1>2. PICK b \in Nat : b = Cardinality(Below(s, x))
  BY Places DEF Below
<1>3. PICK a \in Nat : a = Cardinality(Above(s, y))
  BY Places DEF Above
<1>4. b >= k
  BY <1>2, Ranked
<1>5. a >= Len(s) - l + 1
  BY <1>3, Ranked
<1>6. UpTo10(s, v10) \in Nat /\ From10(s, v10) \in Nat /\ b <= UpTo10(s, v10) /\ a <= From10(s, v10)
  BY <1>1, <1>2, <1>3, Between10
<1>7. k \in Nat /\ l \in Nat /\ Len(s) \in Nat
  OBVIOUS
<1> QED
  BY <1>4, <1>5, <1>6, <1>7, SMTT(30)

LEMMA MedianRight ==
    ASSUME NEW s \in Seq(Nat), NEW n \in Nat \ {0}, n = Len(s), NEW median,
           median = IF n % 2 = 1 THEN Sorted(s)[n \div 2 + 1] * 10
                    ELSE (Sorted(s)[n \div 2] + Sorted(s)[n \div 2 + 1]) * 5
    PROVE  2 * UpTo10(s, median) >= n /\ 2 * From10(s, median) >= n
<1>1. PICK h \in Nat : h = n \div 2
  BY Halved
<1>2. 2 * h + (n % 2) = n /\ n % 2 \in {0, 1}
  BY <1>1, Halved
<1>3. PICK l \in Nat : l = h + 1
  OBVIOUS
<1>4. DOMAIN s = 1..n
  OBVIOUS
<1>5. l \in DOMAIN s
  BY <1>2, <1>3, <1>4
<1>6. PICK y \in Nat : y = Sorted(s)[l]
  BY <1>5, Ranked
<1>7. CASE n % 2 = 1
  <2>1. median = y * 10 /\ median \in Nat
    BY <1>1, <1>3, <1>6, <1>7
  <2>2. y * 10 <= median /\ median <= y * 10
    BY <2>1
  <2>3. UpTo10(s, median) \in Nat /\ UpTo10(s, median) >= l /\ From10(s, median) \in Nat /\ From10(s, median) >= n - l + 1
    BY <1>5, <1>6, <2>1, <2>2, CountedTenths
  <2> QED
    BY <1>2, <1>3, <1>7, <2>3
<1>8. CASE n % 2 = 0
  <2>1. h \in DOMAIN s /\ h + 1 \in DOMAIN s
    BY <1>2, <1>3, <1>4, <1>5, <1>8
  <2>2. PICK x \in Nat : x = Sorted(s)[h]
    BY <2>1, Ranked
  <2>3. x <= y
    BY <1>3, <1>6, <2>1, <2>2, SortedRises
  <2>4. median = (x + y) * 5 /\ median \in Nat
    <3>1. Sorted(s)[n \div 2] = x /\ Sorted(s)[n \div 2 + 1] = y
      BY <1>1, <1>3, <1>6, <2>2
    <3>2. n % 2 # 1
      BY <1>8
    <3>3. median = (x + y) * 5
      BY <3>1, <3>2
    <3> QED
      BY <3>3
  <2>5. x * 10 <= median /\ median <= y * 10
    BY <2>3, <2>4
  <2>6. UpTo10(s, median) \in Nat /\ UpTo10(s, median) >= h /\ From10(s, median) \in Nat /\ From10(s, median) >= n - l + 1
    BY <1>5, <1>6, <2>1, <2>2, <2>4, <2>5, CountedTenths
  <2> QED
    BY <1>2, <1>3, <1>8, <2>6, SMTT(30)
<1> QED
  BY <1>2, <1>7, <1>8

LEMMA QuartileRight ==
    ASSUME NEW s \in Seq(Nat), NEW n \in Nat, n = Len(s), n >= 5, NEW q \in {1, 3},
           NEW k \in Nat, q * n <= 4 * k, 4 * k <= q * n + 3
    PROVE  AtRank(s, n, Sorted(s)[k], q)
<1>1. k \in 1..n
  BY SMT
<1>2. k \in DOMAIN s
  BY <1>1
<1>3. PICK x \in Nat : x = Sorted(s)[k]
  BY <1>2, Ranked
<1>4. PICK v10 \in Nat : v10 = x * 10
  OBVIOUS
<1>5. x * 10 <= v10 /\ v10 <= x * 10
  BY <1>4
<1>6. PICK u \in Nat : u = UpTo10(s, v10)
  BY <1>2, <1>3, <1>5, CountedTenths
<1>7. PICK f \in Nat : f = From10(s, v10)
  BY <1>2, <1>3, <1>5, CountedTenths
<1>8. u >= k /\ f >= n - k + 1
  BY <1>2, <1>3, <1>5, <1>6, <1>7, CountedTenths
<1>9. 4 * u >= q * n /\ 4 * f >= (4 - q) * n
  BY <1>8
<1> QED
  BY <1>3, <1>4, <1>6, <1>7, <1>9 DEF AtRank

LEMMA MeanRight ==
    ASSUME NEW total \in Nat, NEW n \in Nat \ {0}, NEW mean, mean = (total * 10 + n \div 2) \div n
    PROVE  2 * mean * n <= 2 * (total * 10) + n /\ 2 * (total * 10) < 2 * mean * n + n
<1>1. PICK h \in Nat : h = n \div 2
  BY Halved
<1>2. 2 * h <= n /\ n <= 2 * h + 1
  BY <1>1, Halved
<1>3. PICK a \in Nat : a = total * 10 + h
  OBVIOUS
<1>4. mean = a \div n
  BY <1>1, <1>3
<1>5. mean \in Nat
  BY <1>4, DivMod
<1>6. PICK r \in Nat : r = a % n /\ r <= n - 1
  <2>1. a % n \in 0..(n - 1)
    BY DivMod
  <2> QED
    BY <2>1
<1>7. PICK p \in Nat : p = n * mean
  BY <1>5
<1>8. a = p + r
  BY <1>4, <1>6, <1>7, DivMod
<1>9. 2 * p <= 2 * (total * 10) + n /\ 2 * (total * 10) < 2 * p + n
  BY <1>2, <1>3, <1>6, <1>8
<1>10. 2 * mean * n = 2 * p
  BY <1>5, <1>7
<1> QED
  BY <1>9, <1>10

LEMMA SurveySettled ==
    ASSUME NEW s \in Seq(Nat), rLast = s, rSetup.param \in Nat \ {0} PROVE SurveyRight(Measure(s))
<1>1. PICK n \in Nat : n = Len(s)
  OBVIOUS
<1>2. PICK vals : vals = Sorted(s)
  OBVIOUS
<1>3. PICK sum \in Nat : sum = Total(s)
  BY TotalTyped
<1>4. PICK param \in Nat \ {0} : param = rSetup.param
  OBVIOUS
<1>5. PICK result : result = Measure(s)
  OBVIOUS
<1>6. CASE n < param
  <2>1. result = [revealed |-> FALSE]
    BY <1>1, <1>4, <1>5, <1>6, MeasureIs
  <2>2. result.revealed = FALSE /\ ~ (n >= param)
    BY <1>6, <2>1
  <2>3. SurveyRight(result)
    BY <1>1, <1>4, <2>2, SurveyIs
  <2> QED
    BY <1>5, <2>3
<1>7. CASE ~ (n < param)
  <2>1. n \in Nat \ {0} /\ n >= param
    BY <1>7
  <2>2. result = MeasureOf(s, n, vals, sum)
    BY <1>1, <1>2, <1>3, <1>4, <1>5, <1>7, MeasureIs
  <2>3. /\ result.revealed = TRUE
        /\ result.median = IF n % 2 = 1 THEN vals[n \div 2 + 1] * 10
                           ELSE (vals[n \div 2] + vals[n \div 2 + 1]) * 5
        /\ result.mean = (sum * 10 + n \div 2) \div n
        /\ result.quartiles = IF n >= 5 THEN <<vals[(n + 3) \div 4], vals[(3 * n + 3) \div 4]>> ELSE <<>>
    BY <2>2 DEF MeasureOf
  <2>4. 2 * UpTo10(s, result.median) >= n /\ 2 * From10(s, result.median) >= n
    BY <1>1, <1>2, <2>1, <2>3, MedianRight
  <2>5. 2 * result.mean * n <= 2 * (sum * 10) + n /\ 2 * (sum * 10) < 2 * result.mean * n + n
    BY <2>1, <2>3, MeanRight
  <2>6. n >= 5 <=> result.quartiles # <<>>
    BY <2>3
  <2>7. ASSUME n >= 5
        PROVE  AtRank(s, n, result.quartiles[1], 1) /\ AtRank(s, n, result.quartiles[2], 3)
    <3>1. PICK a \in Nat : a = (n + 3) \div 4 /\ 1 * n <= 4 * a /\ 4 * a <= 1 * n + 3
      OBVIOUS
    <3>2. PICK b \in Nat : b = (3 * n + 3) \div 4 /\ 3 * n <= 4 * b /\ 4 * b <= 3 * n + 3
      OBVIOUS
    <3>3. result.quartiles[1] = Sorted(s)[a] /\ result.quartiles[2] = Sorted(s)[b]
      BY <1>2, <2>3, <2>7, <3>1, <3>2
    <3>4. AtRank(s, n, Sorted(s)[a], 1)
      BY <1>1, <2>7, <3>1, QuartileRight
    <3>5. AtRank(s, n, Sorted(s)[b], 3)
      BY <1>1, <2>7, <3>2, QuartileRight
    <3> QED
      BY <3>3, <3>4, <3>5
  <2>8. SurveyRight(result)
    <3>1. PICK tenth \in Nat : tenth = sum * 10
      OBVIOUS
    <3>2. 2 * result.mean * n <= 2 * tenth + n /\ 2 * tenth < 2 * result.mean * n + n
      BY <2>5, <3>1
    <3> QED
      BY <1>1, <1>3, <1>4, <2>1, <2>3, <2>4, <2>6, <2>7, <3>1, <3>2, SurveyIs
  <2> QED
    BY <1>5, <2>8
<1> QED
  BY <1>6, <1>7

-------------------------------------------------------------------------------
\* The result of a drawing: swaps of places keep them apart.

Shuffles(n) == {p \in [1..n -> 1..n] : \A i, j \in 1..n : p[i] = p[j] => i = j}
Swapped(idx, i, j) == [idx EXCEPT ![i] = idx[j], ![j] = idx[i]]

LEMMA SwapShuffles ==
    ASSUME NEW n \in Nat, NEW p \in Shuffles(n), NEW i \in 1..n, NEW j \in 1..n
    PROVE  Swapped(p, i, j) \in Shuffles(n)
<1>1. PICK D : D = 1..n
  OBVIOUS
<1>2. p \in [D -> D] /\ i \in D /\ j \in D /\ \A k, l \in D : p[k] = p[l] => k = l
  BY <1>1 DEF Shuffles
<1>3. PICK q : q = [p EXCEPT ![i] = p[j], ![j] = p[i]]
  OBVIOUS
<1>4. q \in [D -> D] /\ \A k \in D : q[k] = IF k = j THEN p[i] ELSE IF k = i THEN p[j] ELSE p[k]
  BY <1>2, <1>3
<1>5. \A k, l \in D : q[k] = q[l] => k = l
  BY <1>2, <1>4
<1> QED
  BY <1>1, <1>3, <1>4, <1>5 DEF Shuffles, Swapped

Swapping(n, seq, rolls, A, iter) ==
    iter = [p \in A |-> IF p = {} THEN [i \in 1..n |-> i]
                        ELSE Swapped(iter[p \ {Max(p)}], seq[Max(p)], seq[Max(p)] + rolls[seq[Max(p)]])]
Shuffled(n, seq, rolls) == (CHOOSE iter : Swapping(n, seq, rolls, SUBSET DOMAIN seq, iter))[DOMAIN seq]

LEMMA PickedIs ==
    ASSUME NEW n, NEW k, NEW rolls
    PROVE  PickWinners(n, k, rolls) = SubSeq(Shuffled(n, [i \in 1..k |-> i], rolls), 1, k)
BY DEF PickWinners, Shuffled, Swapping, Swapped, FoldLeft, MapThenFoldSet

LEMMA ShuffledIs ==
    ASSUME NEW n \in Nat, NEW k \in Nat, NEW seq, seq = [i \in 1..k |-> i],
           NEW rolls, \A i \in 1..k : i + rolls[i] \in 1..n /\ i \in 1..n
    PROVE  Shuffled(n, seq, rolls) \in Shuffles(n)
<1>1. PICK V : V = Shuffles(n)
  OBVIOUS
<1>2. PICK base : base = [i \in 1..n |-> i]
  OBVIOUS
<1>3. base \in V
  BY <1>1, <1>2 DEF Shuffles
<1>4. PICK step : step = [x \in V \X (1..k) |-> Swapped(x[1], x[2], x[2] + rolls[x[2]])]
  OBVIOUS
<1>5. ASSUME NEW p \in V, NEW i \in 1..k
      PROVE  step[<<p, i>>] = Swapped(p, i, i + rolls[i]) /\ step[<<p, i>>] \in V
  <2>1. step[<<p, i>>] = Swapped(p, i, i + rolls[i])
    <3>1. <<p, i>> \in V \X (1..k) /\ <<p, i>>[1] = p /\ <<p, i>>[2] = i
      OBVIOUS
    <3> QED
      BY <1>4, <3>1
  <2>2. Swapped(p, i, i + rolls[i]) \in V
    BY <1>1, SwapShuffles
  <2> QED
    BY <2>1, <2>2
<1>6. step \in [V \X (1..k) -> V]
  <2>1. ASSUME NEW x \in V \X (1..k) PROVE step[x] \in V
    <3>1. PICK p \in V, i \in 1..k : x = <<p, i>>
      OBVIOUS
    <3> QED
      BY <1>5, <3>1
  <2>2. step = [x \in V \X (1..k) |-> step[x]]
    BY <1>4
  <2> QED
    BY <2>1, <2>2
<1>7. DOMAIN seq = 1..k /\ \A i \in 1..k : seq[i] = i
  OBVIOUS
<1>8. \E iter : Swapping(n, seq, rolls, SUBSET (1..k), iter)
  <2>1. PICK iter \in [SUBSET (1..k) -> V] : Folded(base, step, SUBSET (1..k), iter)
    BY <1>3, <1>6, FoldExists
  <2>2. ASSUME NEW p \in SUBSET (1..k), p # {}
        PROVE  step[<<iter[p \ {Max(p)}], Max(p)>>]
                 = Swapped(iter[p \ {Max(p)}], seq[Max(p)], seq[Max(p)] + rolls[seq[Max(p)]])
    <3>1. Max(p) \in p
      BY <2>2, MaxIn
    <3>2. PICK m \in 1..k : m = Max(p)
      BY <3>1
    <3>3. iter[p \ {m}] \in V /\ seq[m] = m
      BY <1>7, <2>1, <3>2
    <3> QED
      BY <1>5, <3>2, <3>3
  <2>3. Swapping(n, seq, rolls, SUBSET (1..k), iter)
    BY <1>2, <2>1, <2>2 DEF Swapping, Folded
  <2> QED
    BY <2>3
<1>9. PICK iter : iter = CHOOSE it : Swapping(n, seq, rolls, SUBSET (1..k), it)
  OBVIOUS
<1>10. Swapping(n, seq, rolls, SUBSET (1..k), iter)
  BY <1>8, <1>9
<1>11. iter[{}] = base
  BY <1>2, <1>10 DEF Swapping
<1>12. ASSUME NEW i \in 1..k, iter[1..(i - 1)] \in V PROVE iter[1..i] = step[<<iter[1..(i - 1)], i>>]
  <2>1. 1..i \in SUBSET (1..k) /\ 1..i # {} /\ Max(1..i) = i /\ (1..i) \ {Max(1..i)} = 1..(i - 1)
    BY Peeled
  <2>2. iter[1..i] = Swapped(iter[1..(i - 1)], seq[i], seq[i] + rolls[seq[i]])
    BY <1>10, <2>1 DEF Swapping
  <2> QED
    BY <1>5, <1>7, <1>12, <2>2
<1>13. Rungs(V, base, k, step, iter)
  BY <1>11, <1>12 DEF Rungs
<1>14. PICK f \in [0..k -> V] : iter[1..k] = f[k]
  <2>1. \E f \in [0..k -> V] : iter[1..k] = f[k] /\ Climbs(f, base, k, step)
    BY <1>3, <1>6, <1>13, Chain, Zenon
  <2> QED
    BY <2>1
<1>15. iter[1..k] \in V
  <2>1. k \in 0..k
    OBVIOUS
  <2> QED
    BY <1>14, <2>1
<1>16. Shuffled(n, seq, rolls) = iter[DOMAIN seq]
  BY <1>7, <1>9 DEF Shuffled
<1> QED
  BY <1>1, <1>7, <1>15, <1>16

LEMMA FrontApart ==
    ASSUME NEW n \in Nat, NEW k \in Nat, k <= n, NEW p \in Shuffles(n), NEW w, w = SubSeq(p, 1, k)
    PROVE  Len(w) = k /\ ToSet(w) \subseteq 1..n /\ Cardinality(ToSet(w)) = k
<1>1. \A i \in 1..k : p[i] \in 1..n
  BY DEF Shuffles
<1>2. w \in Seq(1..n) /\ Len(w) = (IF 1 <= k THEN k - 1 + 1 ELSE 0) /\ \A i \in 1..(k - 1 + 1) : w[i] = p[1 + i - 1]
  BY <1>1, SubSeqProperties
<1>3. Len(w) = k /\ DOMAIN w = 1..k /\ \A i \in 1..k : w[i] = p[i] /\ w[i] \in 1..n
  BY <1>1, <1>2
<1>4. PICK S : S = 1..k
  OBVIOUS
<1>5. PICK T : T = ToSet(w)
  OBVIOUS
<1>6. T = {w[i] : i \in S}
  BY <1>3, <1>4, <1>5 DEF ToSet
<1>7. \A i, j \in S : w[i] = w[j] => i = j
  <2>1. \A i, j \in 1..n : p[i] = p[j] => i = j
    BY DEF Shuffles
  <2>2. \A i \in 1..k : i \in 1..n
    OBVIOUS
  <2> QED
    BY <1>3, <1>4, <2>1, <2>2
<1>8. PICK f : f = [i \in S |-> w[i]]
  OBVIOUS
<1>9. f \in Bijection(S, T)
  <2>1. f \in [S -> T]
    BY <1>6, <1>8
  <2>2. \A i, j \in S : f[i] = f[j] => i = j
    BY <1>7, <1>8
  <2>3. \A t \in T : \E i \in S : f[i] = t
    BY <1>6, <1>8
  <2> QED
    BY <2>1, <2>2, <2>3 DEF Bijection, Injection, Surjection, IsInjective
<1>10. IsFiniteSet(S) /\ Cardinality(S) = k
  BY <1>4, FS_Interval
<1>11. Cardinality(T) = Cardinality(S)
  BY <1>9, <1>10, FS_Bijection DEF ExistsBijection
<1>12. T \subseteq 1..n
  BY <1>3, <1>4, <1>6
<1> QED
  BY <1>3, <1>5, <1>10, <1>11, <1>12

LEMMA WinnersApart ==
    ASSUME NEW n \in Nat, NEW k \in Nat, k <= n, NEW rolls, \A i \in 1..k : i + rolls[i] \in 1..n /\ i \in 1..n
    PROVE  LET w == PickWinners(n, k, rolls)
           IN  Len(w) = k /\ ToSet(w) \subseteq 1..n /\ Cardinality(ToSet(w)) = k
<1>1. PICK seq : seq = [i \in 1..k |-> i]
  OBVIOUS
<1>2. PICK p \in Shuffles(n) : p = Shuffled(n, seq, rolls)
  BY <1>1, ShuffledIs
<1>3. PickWinners(n, k, rolls) = SubSeq(p, 1, k)
  <2>1. PickWinners(n, k, rolls) = SubSeq(Shuffled(n, seq, rolls), 1, k)
    BY <1>1, PickedIs, Zenon
  <2> QED
    BY <1>2, <2>1, Zenon
<1>4. PICK w : w = SubSeq(p, 1, k)
  OBVIOUS
<1>5. Len(w) = k /\ ToSet(w) \subseteq 1..n /\ Cardinality(ToSet(w)) = k
  BY <1>4, FrontApart
<1> QED
  BY <1>3, <1>4, <1>5, Zenon

LEMMA DrawSettled ==
    ASSUME NEW s \in Seq(Nat), rLast = s, rSetup.param \in Nat,
           NEW n, n = Len(s), NEW k, k = Min({rSetup.param, n}),
           NEW rolls \in [1..k -> 0..n], \A i \in 1..k : rolls[i] <= n - i
    PROVE  DrawRight(PickWinners(n, k, rolls))
<1>1. n \in Nat /\ DOMAIN s = 1..n
  OBVIOUS
<1>2. k \in Nat /\ k <= n
  <2>1. PICK S : S = {rSetup.param, n}
    OBVIOUS
  <2>2. S \subseteq Nat /\ S # {} /\ n \in S
    BY <1>1, <2>1
  <2>3. Min(S) \in S /\ Min(S) <= n
    BY <2>2, MinIs
  <2> QED
    BY <2>1, <2>2, <2>3
<1>3. ASSUME NEW i \in 1..k PROVE i + rolls[i] \in 1..n /\ i \in 1..n
  <2>1. PICK r \in 0..n : r = rolls[i]
    OBVIOUS
  <2>2. r <= n - i
    BY <2>1
  <2>3. i + r \in 1..n /\ i \in 1..n
    BY <1>1, <1>2, <2>2
  <2> QED
    BY <2>1, <2>3
<1>4. PICK w : w = PickWinners(n, k, rolls)
  OBVIOUS
<1>5. Len(w) = k /\ ToSet(w) \subseteq 1..n /\ Cardinality(ToSet(w)) = k
  <2>1. PICK m \in Nat : m = n
    BY <1>1
  <2>2. PICK l \in Nat : l = k
    BY <1>2
  <2>3. l <= m /\ \A i \in 1..l : i + rolls[i] \in 1..m /\ i \in 1..m
    BY <1>2, <1>3, <2>1, <2>2
  <2>4. Len(PickWinners(m, l, rolls)) = l /\ ToSet(PickWinners(m, l, rolls)) \subseteq 1..m
        /\ Cardinality(ToSet(PickWinners(m, l, rolls))) = l
    BY <2>3, WinnersApart
  <2> QED
    BY <1>4, <2>1, <2>2, <2>4
<1>6. Min({rSetup.param, Len(rLast)}) = k /\ DOMAIN rLast = 1..n
  BY <1>1
<1>7. DrawRight(w)
  BY <1>5, <1>6 DEF DrawRight
<1> QED
  BY <1>4, <1>7

-------------------------------------------------------------------------------
\* What the results are meant to be, of a setup and the values accepted last.

AuctionOf(last, setup, result) ==
    LET most == Max({last[i] : i \in DOMAIN last} \cup {0})
        w == result.winner
        others == {last[i] : i \in DOMAIN last \ {w}}
    IN  /\ result.sold <=> last # <<>> /\ most >= setup.param
        /\ result.sold =>
               /\ last[w] = most /\ \A i \in 1..(w - 1) : last[i] < most
               /\ IF setup.kind = "first" THEN result.price = most
                  ELSE /\ \A p \in others \cup {setup.param, 1} : p <= result.price
                       /\ result.price \in others \cup {setup.param, 1}

DrawOf(last, setup, winners) ==
    /\ Len(winners) = Min({setup.param, Len(last)})
    /\ ToSet(winners) \subseteq DOMAIN last
    /\ Cardinality(ToSet(winners)) = Len(winners)

SurveyOf(last, setup, result) ==
    LET n == Len(last)
        upTo(v10) == Cardinality({i \in DOMAIN last : last[i] * 10 <= v10})
        from(v10) == Cardinality({i \in DOMAIN last : last[i] * 10 >= v10})
        tenth == Total(last) * 10
        rank(v, q) == 4 * upTo(v * 10) >= q * n /\ 4 * from(v * 10) >= (4 - q) * n
    IN  /\ result.revealed <=> n >= setup.param
        /\ result.revealed =>
               /\ 2 * upTo(result.median) >= n /\ 2 * from(result.median) >= n
               /\ 2 * result.mean * n <= 2 * tenth + n /\ 2 * tenth < 2 * result.mean * n + n
               /\ n >= 5 <=> result.quartiles # <<>>
               /\ n >= 5 => rank(result.quartiles[1], 1) /\ rank(result.quartiles[2], 3)

PollOf(last, counts) == \A v \in RValues : counts[v] = Cardinality({i \in DOMAIN last : last[i] = v})

Judged(state, setup, last, result) ==
    state = "closed" =>
        CASE setup.kind \in {"first", "second"} -> AuctionOf(last, setup, result[1])
          [] setup.kind = "draw" -> DrawOf(last, setup, result[1])
          [] setup.kind = "survey" -> SurveyOf(last, setup, result[1])
          [] OTHER -> PollOf(last, result[1])

LEMMA AuctionIs == ASSUME NEW x PROVE AuctionRight(x) <=> AuctionOf(rLast, rSetup, x)
BY DEF AuctionRight, AuctionOf

LEMMA DrawIs == ASSUME NEW x PROVE DrawRight(x) <=> DrawOf(rLast, rSetup, x)
BY DEF DrawRight, DrawOf

LEMMA SurveyJudged == ASSUME NEW x PROVE SurveyRight(x) <=> SurveyOf(rLast, rSetup, x)
BY DEF SurveyRight, SurveyOf, Total, Summing, FoldLeft, MapThenFoldSet

LEMMA JudgedNow == ResultRight <=> Judged(rState, rSetup, rLast, rResult)
BY Zenon DEF ResultRight, Judged, Auction, AuctionRight, AuctionOf, DrawRight, DrawOf, SurveyRight, SurveyOf, PollRight, PollOf,
   Total, Summing, FoldLeft, MapThenFoldSet

LEMMA JudgedNext == ResultRight' <=> Judged(rState', rSetup', rLast', rResult')
BY Zenon DEF ResultRight, Judged, Auction, AuctionRight, AuctionOf, DrawRight, DrawOf, SurveyRight, SurveyOf, PollRight, PollOf,
   Total, Summing, FoldLeft, MapThenFoldSet

-------------------------------------------------------------------------------
\* A ballot moved is counted once.

Holding(s, v) == {i \in DOMAIN s : s[i] = v}

\* What the slots hold once value is put in slot i.
Put(s, n, i, value) == [j \in 1..n |-> IF j = i THEN value ELSE s[j]]

LEMMA PutInto ==
    ASSUME NEW s \in Seq(RValues), NEW i \in DOMAIN s, NEW value \in RValues
    PROVE  /\ [s EXCEPT ![i] = value] = Put(s, Len(s), i, value)
           /\ [s EXCEPT ![i] = value] \in Seq(RValues)
BY DEF Put

LEMMA PutAfter ==
    ASSUME NEW s \in Seq(RValues), NEW i, i = Len(s) + 1, NEW value \in RValues
    PROVE  /\ Append(s, value) = Put(s, i, i, value)
           /\ Append(s, value) \in Seq(RValues)
<1>1. PICK n \in Nat : n = Len(s)
  OBVIOUS
<1>2. PICK t : t = Append(s, value)
  OBVIOUS
<1>3. t \in Seq(RValues) /\ Len(t) = n + 1 /\ \A j \in 1..(n + 1) : t[j] = IF j = n + 1 THEN value ELSE s[j]
  BY <1>1, <1>2
<1>4. i = n + 1 /\ DOMAIN t = 1..i
  BY <1>1, <1>3
<1>5. t = [j \in 1..i |-> t[j]]
  BY <1>3, <1>4
<1>6. t = Put(s, i, i, value)
  BY <1>3, <1>4, <1>5 DEF Put
<1> QED
  BY <1>2, <1>3, <1>6

LEMMA Numbers == ASSUME RValues \subseteq Nat, NEW s \in Seq(RValues) PROVE s \in Seq(Nat)
<1>1. PICK n \in Nat : n = Len(s)
  OBVIOUS
<1>2. s = [i \in 1..n |-> s[i]] /\ \A i \in 1..n : s[i] \in RValues
  BY <1>1
<1>3. \A i \in 1..n : s[i] \in Nat
  BY <1>2
<1>4. [i \in 1..n |-> s[i]] \in Seq(Nat)
  BY <1>3
<1> QED
  BY <1>2, <1>4

LEMMA Moved ==
    ASSUME NEW s \in Seq(RValues), NEW i \in DOMAIN s, NEW value \in RValues,
           NEW c \in [RValues -> Nat], PollOf(s, c), RValues \subseteq Nat,
           NEW left, left = [c EXCEPT ![s[i]] = @ - 1],
           NEW next, next = [left EXCEPT ![value] = @ + 1]
    PROVE  next \in [RValues -> Nat] /\ PollOf(Put(s, Len(s), i, value), next)
<1>1. PICK n \in Nat : n = Len(s)
  OBVIOUS
<1>2. PICK t : t = Put(s, n, i, value)
  OBVIOUS
<1>3. DOMAIN s = 1..n /\ DOMAIN t = 1..n /\ \A j \in 1..n : s[j] \in RValues /\ t[j] = IF j = i THEN value ELSE s[j]
  BY <1>1, <1>2 DEF Put
<1>4. PICK old \in RValues : old = s[i]
  <2>1. s[i] \in RValues
    BY <1>3, Zenon
  <2> QED
    BY <2>1, Zenon
<1>5. s \in Seq(Nat)
  BY Numbers
<1>6. ASSUME NEW v \in RValues PROVE IsFiniteSet(Holding(s, v)) /\ Cardinality(Holding(s, v)) \in Nat /\ c[v] = Cardinality(Holding(s, v))
  BY <1>5, Places DEF Holding, PollOf
<1>7. i \in Holding(s, old)
  BY <1>4 DEF Holding
<1>8. Cardinality(Holding(s, old)) # 0
  BY <1>6, <1>7, FS_EmptySet
<1>9. c[old] \in Nat \ {0}
  BY <1>6, <1>8
<1>10. left \in [RValues -> Nat] /\ \A v \in RValues : left[v] = IF v = old THEN c[v] - 1 ELSE c[v]
  BY <1>4, <1>9
<1>11. next \in [RValues -> Nat] /\ \A v \in RValues : next[v] = IF v = value THEN left[v] + 1 ELSE left[v]
  BY <1>10
<1>12. ASSUME NEW v \in RValues PROVE next[v] = Cardinality(Holding(t, v))
  <2>1. PICK H : H = Holding(s, v)
    OBVIOUS
  <2>2. PICK h \in Nat : h = Cardinality(H) /\ h = c[v]
    BY <1>6, <2>1
  <2>3. IsFiniteSet(H) /\ (i \in H <=> v = old)
    BY <1>4, <1>6, <2>1 DEF Holding
  <2>4. CASE v = value
    <3>1. Holding(t, v) = H \cup {i}
      BY <1>3, <2>1, <2>4 DEF Holding
    <3>2. Cardinality(H \cup {i}) = IF i \in H THEN h ELSE h + 1
      BY <2>2, <2>3, FS_AddElement
    <3>3. next[v] = IF v = old THEN (h - 1) + 1 ELSE h + 1
      BY <1>10, <1>11, <2>2, <2>4
    <3> QED
      BY <2>3, <3>1, <3>2, <3>3
  <2>5. CASE v # value
    <3>1. Holding(t, v) = H \ {i}
      BY <1>3, <2>1, <2>5 DEF Holding
    <3>2. Cardinality(H \ {i}) = IF i \in H THEN h - 1 ELSE h
      BY <2>2, <2>3, FS_RemoveElement
    <3>3. next[v] = IF v = old THEN h - 1 ELSE h
      BY <1>10, <1>11, <2>2, <2>5
    <3> QED
      BY <2>3, <3>1, <3>2, <3>3
  <2> QED
    BY <2>4, <2>5
<1>13. PollOf(t, next)
  BY <1>12 DEF PollOf, Holding
<1> QED
  BY <1>1, <1>2, <1>11, <1>13

LEMMA Cast ==
    ASSUME NEW s \in Seq(RValues), NEW i, i = Len(s) + 1, NEW value \in RValues,
           NEW c \in [RValues -> Nat], PollOf(s, c), RValues \subseteq Nat,
           NEW next, next = [c EXCEPT ![value] = @ + 1]
    PROVE  next \in [RValues -> Nat] /\ PollOf(Put(s, i, i, value), next)
<1>1. PICK n \in Nat : n = Len(s)
  OBVIOUS
<1>2. PICK t : t = Put(s, i, i, value)
  OBVIOUS
<1>3. i = n + 1 /\ i \notin DOMAIN s /\ i \in Nat
  BY <1>1
<1>4. DOMAIN s = 1..n /\ DOMAIN t = 1..i /\ (\A j \in 1..i : t[j] = IF j = i THEN value ELSE s[j])
      /\ \A j : j \in 1..i <=> j = i \/ j \in 1..n
  BY <1>1, <1>2, <1>3 DEF Put
<1>5. s \in Seq(Nat)
  BY Numbers
<1>6. next \in [RValues -> Nat] /\ \A v \in RValues : next[v] = IF v = value THEN c[v] + 1 ELSE c[v]
  OBVIOUS
<1>7. ASSUME NEW v \in RValues PROVE next[v] = Cardinality(Holding(t, v))
  <2>1. PICK H : H = Holding(s, v)
    OBVIOUS
  <2>2. IsFiniteSet(H) /\ Cardinality(H) \in Nat /\ c[v] = Cardinality(H) /\ i \notin H
    BY <1>3, <1>5, <2>1, Places DEF Holding, PollOf
  <2>3. CASE v = value
    <3>1. Holding(t, v) = H \cup {i}
      BY <1>3, <1>4, <2>1, <2>3 DEF Holding
    <3>2. Cardinality(H \cup {i}) = Cardinality(H) + 1
      BY <2>2, FS_AddElement
    <3> QED
      BY <1>6, <2>2, <2>3, <3>1, <3>2
  <2>4. CASE v # value
    <3>1. Holding(t, v) = H
      BY <1>3, <1>4, <2>1, <2>4 DEF Holding
    <3> QED
      BY <1>6, <2>2, <2>4, <3>1
  <2> QED
    BY <2>3, <2>4
<1>8. PollOf(t, next)
  BY <1>7 DEF PollOf, Holding
<1> QED
  BY <1>2, <1>6, <1>8

-------------------------------------------------------------------------------
\* The invariant of a round: while it is open, the slots hold the values accepted last,
\* and the counts of a poll are theirs.

RInv ==
    /\ rSetup \in RSetups
    /\ rLast \in Seq(RValues)
    /\ rState = "open" => rSubs = rLast
    /\ rState = "open" /\ rSetup.kind = "poll" => rCounts \in [RValues -> Nat] /\ PollOf(rLast, rCounts)
    /\ Judged(rState, rSetup, rLast, rResult)

LEMMA RoundStarts == RInit => RInv
<1> SUFFICES ASSUME RInit PROVE RInv
  OBVIOUS
<1>1. rSetup \in RSetups /\ rLast = <<>> /\ rSubs = rLast /\ rState = "open"
  BY DEF RInit
<1>2. rLast \in Seq(RValues)
  BY <1>1
<1>3. rCounts \in [RValues -> Nat] /\ \A v \in RValues : rCounts[v] = 0
  BY DEF RInit
<1>4. ASSUME NEW v \in RValues PROVE rCounts[v] = Cardinality({i \in DOMAIN rLast : rLast[i] = v})
  <2>1. {i \in DOMAIN rLast : rLast[i] = v} = {}
    BY <1>1
  <2> QED
    BY <1>3, <2>1, FS_EmptySet
<1>5. PollOf(rLast, rCounts)
  BY <1>4 DEF PollOf
<1>6. Judged(rState, rSetup, rLast, rResult)
  BY <1>1 DEF Judged
<1> QED
  BY <1>1, <1>2, <1>3, <1>5, <1>6 DEF RInv

LEMMA RoundSetup ==
    ASSUME RInv
    PROVE  /\ rSetup.kind \in {"first", "second", "draw", "survey", "poll"} /\ rSetup.param \in Nat
           /\ rSetup.kind = "survey" => rSetup.param \in Nat \ {0}
           /\ RValues \subseteq Nat /\ rLast \in Seq(Nat)
<1>1. rSetup \in RSetups /\ rLast \in Seq(RValues)
  BY DEF RInv
<1>2. RValues \subseteq Nat
  BY RoundAssumption
<1>3. rSetup \in [kind : {"first", "second", "draw", "survey", "poll"}, deadline : Nat, ttl : Nat, param : Nat, most : Nat]
      /\ (rSetup.kind = "survey" => rSetup.param > 0)
  BY <1>1, RoundAssumption
<1> QED
  BY <1>1, <1>2, <1>3, Numbers

LEMMA RoundCloses == ASSUME RInv, CloseRound PROVE RInv'
<1>1. rState = "open" /\ rState' = "closed" /\ rSetup' = rSetup /\ rLast' = rLast /\ rSubs = rLast
  BY DEF RInv, CloseRound
<1>2. rSetup \in RSetups /\ rLast \in Seq(RValues)
  BY DEF RInv
<1>3. PICK s \in Seq(Nat) : s = rLast
  BY RoundSetup
<1>4. rSetup.param \in Nat
  BY RoundSetup
<1>5. Judged(rState', rSetup, rLast, rResult')
  <2>1. CASE Auction
    <3>1. rResult' = <<Settle(rSubs, rSetup.param)>>
      BY <2>1 DEF CloseRound, Auction
    <3>2. PICK x : x = Settle(s, rSetup.param)
      OBVIOUS
    <3>3. AuctionRight(x)
      BY <1>3, <1>4, <2>1, <3>2, AuctionSettled
    <3>4. AuctionOf(rLast, rSetup, x)
      BY <3>3, AuctionIs
    <3>5. rResult'[1] = x /\ rSetup.kind \in {"first", "second"}
      BY <1>1, <1>3, <2>1, <3>1, <3>2 DEF Auction
    <3> QED
      BY <3>4, <3>5 DEF Judged
  <2>2. CASE rSetup.kind = "draw"
    <3>1. PICK n : n = Len(rSubs)
      OBVIOUS
    <3>2. PICK k : k = Min({rSetup.param, n})
      OBVIOUS
    <3>3. \E rolls \in [1..k -> 0..n] : (\A i \in 1..k : rolls[i] <= n - i) /\ rResult' = <<PickWinners(n, k, rolls)>>
      BY <2>2, <3>1, <3>2 DEF CloseRound, Auction
    <3>4. PICK rolls \in [1..k -> 0..n] : (\A i \in 1..k : rolls[i] <= n - i) /\ rResult' = <<PickWinners(n, k, rolls)>>
      BY <3>3
    <3>5. PICK x : x = PickWinners(n, k, rolls)
      OBVIOUS
    <3>6. DrawRight(x)
      BY <1>1, <1>3, <1>4, <3>1, <3>2, <3>4, <3>5, DrawSettled
    <3>7. DrawOf(rLast, rSetup, x)
      BY <3>6, DrawIs
    <3>8. rResult'[1] = x
      BY <3>4, <3>5
    <3> QED
      BY <2>2, <3>7, <3>8 DEF Judged
  <2>3. CASE rSetup.kind = "survey"
    <3>1. rResult' = <<Measure(rSubs)>>
      BY <2>3 DEF CloseRound, Auction
    <3>2. PICK x : x = Measure(s)
      OBVIOUS
    <3>3. rSetup.param \in Nat \ {0}
      BY <2>3, RoundSetup
    <3>4. SurveyRight(x)
      BY <1>3, <3>2, <3>3, SurveySettled
    <3>5. SurveyOf(rLast, rSetup, x)
      BY <3>4, SurveyJudged
    <3>6. rResult'[1] = x
      BY <1>1, <1>3, <3>1, <3>2
    <3> QED
      BY <2>3, <3>5, <3>6 DEF Judged
  <2>4. CASE rSetup.kind = "poll"
    <3>1. rResult' = <<rCounts>>
      BY <2>4 DEF CloseRound, Auction
    <3>2. PollOf(rLast, rCounts)
      BY <1>1, <2>4 DEF RInv
    <3>3. rResult'[1] = rCounts
      BY <3>1
    <3> QED
      BY <2>4, <3>2, <3>3 DEF Judged
  <2> QED
    BY <2>1, <2>2, <2>3, <2>4, RoundSetup DEF Auction
<1> QED
  BY <1>1, <1>2, <1>5 DEF RInv

LEMMA SubmissionKept == ASSUME RInv, NEW i \in 1..(Len(rSubs) + 1), NEW value \in RValues, Submit(i, value) PROVE RInv'
<1>1. rState = "open" /\ rState' = "open" /\ rSetup' = rSetup /\ rResult' = rResult /\ ~ Past(rSetup.deadline)
  BY DEF Submit, Running, Overdue
<1>2. rSubs = rLast /\ rSetup \in RSetups /\ RValues \subseteq Nat
  BY <1>1, RoundSetup DEF RInv
<1>3. PICK s \in Seq(RValues) : s = rLast
  BY DEF RInv
<1>4. PICK n \in Nat : n = Len(s)
  OBVIOUS
<1>5. DOMAIN s = 1..n /\ i \in 1..(n + 1)
  BY <1>2, <1>3, <1>4
<1>6. PICK t : t = rSubs'
  OBVIOUS
<1>7. rLast' = [j \in DOMAIN t |-> IF j = i THEN value ELSE s[j]]
  BY <1>1, <1>3, <1>6 DEF Submit
<1>8. PICK m \in Nat : m = IF i \in DOMAIN s THEN n ELSE i
  BY <1>5
<1>9. t = Put(s, m, i, value) /\ t \in Seq(RValues)
  <2>1. CASE i \in DOMAIN s
    <3>1. t = [s EXCEPT ![i] = value]
      BY <1>2, <1>3, <1>6, <2>1 DEF Submit
    <3> QED
      BY <1>4, <1>8, <2>1, <3>1, PutInto
  <2>2. CASE i \notin DOMAIN s
    <3>1. t = Append(s, value)
      BY <1>2, <1>3, <1>6, <2>2 DEF Submit
    <3>2. i = Len(s) + 1
      BY <1>4, <1>5, <2>2
    <3> QED
      BY <1>8, <2>2, <3>1, <3>2, PutAfter
  <2> QED
    BY <2>1, <2>2
<1>10. rLast' = t
  BY <1>7, <1>9 DEF Put
<1>11. ASSUME rSetup.kind = "poll" PROVE rCounts' \in [RValues -> Nat] /\ PollOf(t, rCounts')
  <2>1. PICK c \in [RValues -> Nat] : c = rCounts /\ PollOf(s, c)
    BY <1>1, <1>3, <1>11 DEF RInv
  <2>2. PICK next : next = rCounts'
    OBVIOUS
  <2>3. CASE i \in DOMAIN s
    <3>1. PICK left : left = [c EXCEPT ![s[i]] = @ - 1]
      OBVIOUS
    <3>2. next = [left EXCEPT ![value] = @ + 1]
      BY <1>2, <1>3, <1>11, <2>1, <2>2, <2>3, <3>1 DEF Submit
    <3>3. next \in [RValues -> Nat] /\ PollOf(Put(s, Len(s), i, value), next)
      BY <1>2, <2>1, <2>3, <3>1, <3>2, Moved
    <3>4. Put(s, Len(s), i, value) = t
      BY <1>4, <1>8, <1>9, <2>3
    <3> QED
      BY <2>2, <3>3, <3>4
  <2>4. CASE i \notin DOMAIN s
    <3>1. next = [c EXCEPT ![value] = @ + 1]
      BY <1>2, <1>3, <1>11, <2>1, <2>2, <2>4 DEF Submit
    <3>2. i = Len(s) + 1
      BY <1>4, <1>5, <2>4
    <3> QED
      BY <1>2, <1>8, <1>9, <2>1, <2>2, <2>4, <3>1, <3>2, Cast
  <2> QED
    BY <2>3, <2>4
<1>12. Judged(rState', rSetup', rLast', rResult')
  BY <1>1 DEF Judged
<1> QED
  BY <1>1, <1>2, <1>6, <1>9, <1>10, <1>11, <1>12 DEF RInv

\* A round that is dropped or cancelled has no result; time passes over the others.
LEMMA RoundDropped ==
    ASSUME RInv, rState' \in {"gone", "cancelled"}, UNCHANGED <<rSetup, rLast>> PROVE RInv'
BY DEF RInv, Judged

LEMMA RoundUnchanged ==
    ASSUME RInv, UNCHANGED <<rSetup, rState, rSubs, rCounts, rResult, rLast>> PROVE RInv'
BY DEF RInv, Judged

LEMMA RoundKept == RInv /\ [RNext]_rVars => RInv'
<1> SUFFICES ASSUME RInv, [RNext]_rVars PROVE RInv'
  OBVIOUS
<1>1. ASSUME NEW i \in 1..(Len(rSubs) + 1), NEW value \in RValues, Submit(i, value) PROVE RInv'
  BY <1>1, SubmissionKept
<1>2. CASE LateRequest
  BY <1>2, RoundCloses, RoundDropped DEF LateRequest, RoundGone
<1>3. CASE AdminCloses
  BY <1>3, RoundCloses DEF AdminCloses
<1>4. CASE Cancel
  BY <1>4, RoundDropped DEF Cancel
<1>5. CASE Sweep
  <2>1. CASE rState = "open" /\ Overdue
    BY <1>5, <2>1, RoundCloses DEF Sweep, SweptRound
  <2>2. CASE RoundGone
    BY <2>2, RoundDropped DEF RoundGone
  <2>3. CASE UNCHANGED <<rSetup, rState, rSubs, rCounts, rResult, rClosedAt, rLast>>
    BY <2>3, RoundUnchanged
  <2> QED
    BY <1>5, <2>1, <2>2, <2>3 DEF Sweep, SweptRound
<1>6. CASE Second
  BY <1>6, RoundUnchanged DEF Second
<1>7. CASE UNCHANGED rVars
  BY <1>7, RoundUnchanged DEF rVars
<1> QED
  BY <1>1, <1>2, <1>3, <1>4, <1>5, <1>6, <1>7 DEF RNext

\* However a round comes to be closed (by its admin, a deadline, a late request or the sweep), the
\* result that close_auction, close_draw, close_measure or api_close of a poll fixed is that of the
\* values accepted last and in time: the highest bid, the earliest of equals, at the price the mode
\* sets; winners without repetition; order statistics and a mean that are right to the tenth; and
\* counts in which a moved ballot counts once.
THEOREM ResultsRight == RSpec => []ResultRight
<1>1. RInit => RInv
  BY RoundStarts
<1>2. RInv /\ [RNext]_rVars => RInv'
  BY RoundKept
<1>3. RInv => ResultRight
  BY JudgedNow DEF RInv
<1> QED
  BY <1>1, <1>2, <1>3, PTL DEF RSpec

===============================================================================
