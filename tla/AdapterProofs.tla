----------------------------- MODULE AdapterProofs -----------------------------
(***************************************************************************)
(* Proofs about the two components beside s3-ipfs-adapter.                 *)
(*                                                                         *)
(* The ipns-publisher does not fall behind itself, for every deployment,   *)
(* value and bound.  A record beats another when its sequence is higher; a *)
(* record that is signed beats, or is, whatever is known, and what is      *)
(* known beats, or is, whatever this process published, heard or found on  *)
(* its volume.  And a walk of its DHT engine stores a record with the      *)
(* closest peers it could reach: a walk converges only when nobody nearer  *)
(* than the chosen is left to ask, and as many are chosen as there is room *)
(* for if any that answered is not.                                        *)
(*                                                                         *)
(* The index of s3-ipfs-adapter, whatever the keys, the windows, the tries *)
(* and the bounds.  First, that a pin is served from its answer on: a row  *)
(* that is served is carried over the next commit: it waits among the      *)
(* recent uploads, or the listing under way has still to come to its key   *)
(* or has named it, or it is staged.  Then, of every key, that no object   *)
(* is served with bytes of another version, and that the cache keeps the   *)
(* rows that still tell what the bucket holds.                             *)
(***************************************************************************)
EXTENDS IpnsPublisher, IpnsWalk, BucketIndex, FiniteSetTheorems, WellFoundedInduction, TLAPS

-------------------------------------------------------------------------------
(***************************************************************************)
(* The publisher of the name.                                              *)
(***************************************************************************)

\* The inductive invariant.

Kinds == {"recover", "walk", "walking", "sign", "put", "dht"}
Works == {t \in [do : Kinds, at : {""} \cup Delegates] : t.do = "recover" => t.at \in Delegates}
Apps == [tasks : Seq(Works), record : IRecords, recovered : IRecords,
         durable : BOOLEAN, due : BOOLEAN]

Shapes ==
    /\ iSetup \in ISetups /\ iSource \in IValues
    /\ iApp \in Apps
    /\ iDht \in [job : {"publish", "recover"}, busy : BOOLEAN, record : IRecords, best : IRecords]
    /\ iDisk \in IRecords /\ iTop \in IRecords /\ iNet \in IRecords
    /\ iHeld \in [Delegates -> IRecords] /\ iHeard \subseteq Delegates
    /\ iSpent \in [changes : Nat, faults : Nat, crashes : Nat, torn : Nat]

\* r is at least q: nothing, or outdone by r, or r itself.
AtLeast(r, q) == q = NoRec \/ (r # NoRec /\ (r.seq > q.seq \/ r = q))

\* What this process published it knows.
Remembers == AtLeast(iApp.recovered, iApp.record)

\* What was ever published is on the volume, and known.
Persisted == iSetup.volume /\ iSpent.torn = 0 => iDisk = iTop /\ AtLeast(iApp.recovered, iTop)

\* What a delegate that answered holds is no news.
Heard == \A d \in iHeard :
            iHeld[d] = NoRec \/ (iApp.recovered # NoRec /\ iApp.recovered.seq >= iHeld[d].seq)

IInv == Shapes /\ Remembers /\ Persisted /\ Heard

-------------------------------------------------------------------------------
\* Records.

LEMMA RecordFacts ==
    ASSUME NEW r \in IRecords
    PROVE  r.seq \in Nat /\ (r # NoRec => r = Rec(r.seq, r.value) /\ r.value \in IValues)
<1>1. CASE r = NoRec
  BY <1>1 DEF NoRec
<1>2. CASE r \in [seq : Nat, value : IValues]
  BY <1>2 DEF Rec
<1> QED
  BY <1>1, <1>2 DEF IRecords

LEMMA RecIsRecord ==
    ASSUME NEW n \in Nat, NEW v \in IValues
    PROVE  Rec(n, v) \in IRecords /\ Rec(n, v) # NoRec /\ Rec(n, v).seq = n /\ Rec(n, v).value = v
BY IpnsAssumption DEF IpnsAssumption, IRecords, NoRec, Rec

LEMMA AtLeastTransitive ==
    ASSUME NEW a \in IRecords, NEW b \in IRecords, NEW c \in IRecords,
           AtLeast(a, b), AtLeast(b, c)
    PROVE  AtLeast(a, c)
BY RecordFacts DEF AtLeast

-------------------------------------------------------------------------------
\* The queue.

LEMMA SetupFacts ==
    ASSUME iSetup \in ISetups
    PROVE  /\ iSetup.delegates \in Seq(STRING)
           /\ iSetup.known \in IRecords
<1>1. iSetup \in [delegates : Seq(STRING), dht : BOOLEAN, volume : BOOLEAN, known : IRecords]
  BY IpnsAssumption DEF IpnsAssumption
<1> QED
  BY <1>1

LEMMA EachWorks ==
    ASSUME iSetup \in ISetups, NEW do \in Kinds
    PROVE  Each(do) \in Seq(Works)
<1>1. iSetup.delegates \in Seq(STRING)
  BY SetupFacts
<1>2. DOMAIN iSetup.delegates = 1..Len(iSetup.delegates) /\ Len(iSetup.delegates) \in Nat
  BY <1>1
<1>3. \A n \in DOMAIN iSetup.delegates : TaskAt(do, iSetup.delegates[n]) \in Works
  BY <1>1 DEF Works, TaskAt, Delegates
<1>4. Each(do) = [n \in 1..Len(iSetup.delegates) |-> TaskAt(do, iSetup.delegates[n])]
  BY <1>2 DEF Each
<1> QED
  BY <1>2, <1>3, <1>4

LEMMA TaskWorks == \A do \in Kinds : do # "recover" => Task(do) \in Works
BY DEF Task, Works

LEMMA EnqueuedWorks ==
    ASSUME iSetup \in ISetups, NEW tasks \in Seq(Works), NEW durable
    PROVE  Enqueued(tasks, durable) \in Seq(Works) /\ Enqueued(tasks, durable) # <<>>
<1>1. Each("recover") \in Seq(Works)
  <2>1. "recover" \in Kinds
    BY DEF Kinds
  <2> QED
    BY <2>1, EachWorks
<1>2. Task("sign") \in Works /\ Task("walk") \in Works
  BY TaskWorks DEF Kinds
<1>3. CASE \E n \in DOMAIN tasks : tasks[n].do \in {"sign", "walk", "walking"}
  BY <1>3 DEF Enqueued
<1>4. CASE ~\E n \in DOMAIN tasks : tasks[n].do \in {"sign", "walk", "walking"}
  <2> DEFINE asks == IF iSetup.dht /\ Delegates = {} /\ ~durable THEN <<Task("walk")>> ELSE <<>>
  <2>1. asks \in Seq(Works)
    BY <1>2
  <2>2. tasks \o Each("recover") \o asks \in Seq(Works)
    BY <1>1, <2>1
  <2>3. Enqueued(tasks, durable) = (tasks \o Each("recover") \o asks) \o <<Task("sign")>>
    BY <1>4 DEF Enqueued
  <2> HIDE DEF asks
  <2> QED
    BY <1>2, <2>2, <2>3
<1> QED
  BY <1>3, <1>4

\* Taking a task off the queue leaves what is known alone.
LEMMA PoppedFacts ==
    ASSUME iSetup \in ISetups, iApp \in Apps, TickWork
    PROVE  /\ RoundDue \in Apps /\ Popped \in Apps /\ First \in Works
           /\ RoundDue.record = iApp.record /\ RoundDue.recovered = iApp.recovered
           /\ Popped.record = iApp.record /\ Popped.recovered = iApp.recovered
<1>1. Enqueued(iApp.tasks, iApp.durable) \in Seq(Works) /\ Enqueued(iApp.tasks, iApp.durable) # <<>>
  BY EnqueuedWorks DEF Apps
<1>2. /\ RoundDue \in Apps /\ RoundDue.tasks # <<>>
      /\ RoundDue.record = iApp.record /\ RoundDue.recovered = iApp.recovered
  BY <1>1 DEF RoundDue, Apps, TickWork
<1>3. RoundDue.tasks \in Seq(Works)
  BY <1>2 DEF Apps
<1>4. Head(RoundDue.tasks) \in Works /\ Tail(RoundDue.tasks) \in Seq(Works)
  BY <1>2, <1>3
<1> HIDE DEF RoundDue
<1> QED
  BY <1>2, <1>4 DEF Popped, First, Apps

LEMMA NotedFacts ==
    ASSUME NEW app \in Apps, NEW r \in IRecords, r # NoRec
    PROVE  /\ Noted(app, r) \in Apps /\ Noted(app, r).record = app.record
           /\ Noted(app, r).recovered \in {app.recovered, r}
           /\ AtLeast(Noted(app, r).recovered, app.recovered)
           /\ Noted(app, r).recovered # NoRec /\ Noted(app, r).recovered.seq >= r.seq
<1>1. app.recovered \in IRecords /\ app.recovered.seq \in Nat /\ r.seq \in Nat
  BY RecordFacts DEF Apps
<1>2. CASE app.recovered = NoRec \/ r.seq > app.recovered.seq
  BY <1>1, <1>2 DEF Noted, Apps, AtLeast
<1>3. CASE ~(app.recovered = NoRec \/ r.seq > app.recovered.seq)
  BY <1>1, <1>3 DEF Noted, Apps, AtLeast
<1> QED
  BY <1>2, <1>3

-------------------------------------------------------------------------------
\* Signing.

\* What is signed beats, or is, what is known.
LEMMA SequenceFacts ==
    ASSUME Shapes, Remembers
    PROVE  LET new == Rec(Sequence(iSource), iSource)
           IN  new \in IRecords /\ new # NoRec /\ AtLeast(new, iApp.recovered)
<1> DEFINE base == iApp.recovered
           own == iApp.record
           mine == own # NoRec /\ own.value = iSource /\ own.seq >= base.seq
<1>1. base \in IRecords /\ own \in IRecords /\ iSource \in IValues
  BY DEF Shapes, Apps
<1>2. base.seq \in Nat /\ own.seq \in Nat
  BY <1>1, RecordFacts
<1>3. AtLeast(base, own)
  BY DEF Remembers
<1>4. CASE mine
  <2>1. base = own
    BY <1>2, <1>3, <1>4 DEF AtLeast
  <2>2. Sequence(iSource) = own.seq
    BY <1>4 DEF Sequence
  <2>3. Rec(own.seq, iSource) = own
    BY <1>1, <1>4, RecordFacts
  <2> QED
    BY <1>1, <1>4, <2>1, <2>2, <2>3 DEF AtLeast
<1>5. CASE ~mine /\ base.value = iSource
  <2>1. base # NoRec
    <3>1. NoRec.value = "" /\ "" \notin IValues
      BY IpnsAssumption DEF IpnsAssumption, NoRec
    <3> QED
      BY <1>1, <1>5, <3>1
  <2>2. Sequence(iSource) = base.seq
    BY <1>5 DEF Sequence
  <2>3. Rec(base.seq, iSource) = base
    BY <1>1, <1>5, <2>1, RecordFacts
  <2> QED
    BY <1>1, <2>1, <2>2, <2>3 DEF AtLeast
<1>6. CASE ~mine /\ base.value # iSource
  <2>1. Sequence(iSource) = IF base = NoRec /\ own = NoRec THEN 0
                            ELSE (IF base.seq > own.seq THEN base.seq ELSE own.seq) + 1
    BY <1>6 DEF Sequence
  <2>2. Sequence(iSource) \in Nat /\ (base # NoRec => Sequence(iSource) > base.seq)
    BY <1>2, <2>1
  <2> QED
    BY <1>1, <2>2, RecIsRecord DEF AtLeast
<1> QED
  BY <1>4, <1>5, <1>6

\* do_sign keeps the invariant, and signs nothing that is behind.
LEMMA SigningStep ==
    ASSUME IInv, TickWork, NEW file \in {"written", "torn", "kept"}, Signed(file),
           iSetup.volume /\ iSpent'.torn = 0 => file = "written",
           iSpent' \in [changes : Nat, faults : Nat, crashes : Nat, torn : Nat],
           iSpent'.torn >= iSpent.torn,
           UNCHANGED <<iSetup, iSource, iDht, iHeld, iNet, iHeard>>
    PROVE  /\ IInv'
           /\ iSetup.volume /\ iSpent.torn = 0 =>
                 iTop = NoRec \/ iTop.seq < iApp'.record.seq \/ iTop = iApp'.record
           /\ \A d \in iHeard : iHeld[d] = NoRec \/ iHeld[d].seq <= iApp'.record.seq
<1> DEFINE new == Rec(Sequence(iSource), iSource)
           noted == Noted(Popped, new)
           more == IF iSetup.dht THEN <<Task("dht")>> ELSE <<>>
<1>1. new \in IRecords /\ new # NoRec /\ AtLeast(new, iApp.recovered)
  BY SequenceFacts DEF IInv
<1>2. /\ Popped \in Apps /\ Popped.record = iApp.record /\ Popped.recovered = iApp.recovered
      /\ iApp \in Apps /\ iApp.recovered \in IRecords /\ iApp.record \in IRecords
  BY PoppedFacts DEF IInv, Shapes, Apps
<1>3. noted.recovered = new /\ noted \in Apps
  <2>1. noted \in Apps
    BY <1>1, <1>2, NotedFacts
  <2>2. noted.recovered = IF iApp.recovered = NoRec \/ new.seq > iApp.recovered.seq THEN new
                          ELSE iApp.recovered
    BY <1>1, <1>2 DEF Noted, Apps
  <2> QED
    BY <1>1, <1>2, <2>1, <2>2 DEF AtLeast
<1>4. Each("put") \in Seq(Works) /\ more \in Seq(Works)
  <2>1. "put" \in Kinds /\ "dht" \in Kinds /\ "dht" # "recover"
    BY DEF Kinds
  <2> QED
    BY <2>1, EachWorks, TaskWorks DEF IInv, Shapes
<1>5. iApp' = [noted EXCEPT !.record = new, !.durable = file = "written",
                            !.tasks = @ \o Each("put") \o more]
  BY DEF Signed
<1>6. noted.tasks \in Seq(Works)
  BY <1>3 DEF Apps
<1>7. (noted.tasks \o Each("put")) \o more \in Seq(Works)
  BY <1>4, <1>6
<1>8. iApp' \in Apps /\ iApp'.record = new /\ iApp'.recovered = new
  <2> HIDE DEF noted, new, more
  <2> QED
    BY <1>1, <1>3, <1>5, <1>7 DEF Apps
<1>9. /\ iTop' = IF iTop = NoRec \/ new.seq > iTop.seq THEN new ELSE iTop
      /\ iDisk' = CASE file = "written" -> new [] file = "torn" -> NoRec [] OTHER -> iDisk
  BY DEF Signed
<1>10. Apps' = Apps /\ Delegates' = Delegates
  BY DEF Apps, Works, Delegates
<1> HIDE DEF new, noted, more
<1>11. iTop' \in IRecords /\ iDisk' \in IRecords
  BY <1>1, <1>9 DEF IInv, Shapes, IRecords
<1>12. Shapes'
  BY <1>8, <1>10, <1>11 DEF IInv, Shapes
<1>13. Remembers'
  BY <1>1, <1>8 DEF Remembers, AtLeast
<1>14. iSetup.volume /\ iSpent.torn = 0 => AtLeast(new, iTop)
  BY <1>1, <1>2, AtLeastTransitive DEF IInv, Shapes, Persisted
<1>15. new.seq \in Nat /\ iTop.seq \in Nat /\ iTop \in IRecords
  BY <1>1, RecordFacts DEF IInv, Shapes
<1>16. Persisted'
  <2> SUFFICES ASSUME iSetup.volume, iSpent'.torn = 0
               PROVE  iDisk' = iTop' /\ AtLeast(iApp'.recovered, iTop')
    BY DEF Persisted
  <2>1. file = "written" /\ iDisk' = new
    BY <1>9
  <2>2. iSpent.torn = 0
    BY DEF IInv, Shapes
  <2>3. iTop' = new
    BY <1>9, <1>14, <1>15, <2>2 DEF AtLeast
  <2> QED
    BY <1>1, <1>8, <2>1, <2>3 DEF AtLeast
<1>17. \A d \in iHeard : iHeld[d] = NoRec \/ iHeld[d].seq <= new.seq
  <2> SUFFICES ASSUME NEW d \in iHeard, iHeld[d] # NoRec PROVE iHeld[d].seq <= new.seq
    OBVIOUS
  <2>1. iApp.recovered # NoRec /\ iApp.recovered.seq >= iHeld[d].seq
    BY DEF IInv, Heard
  <2>2. iHeld[d] \in IRecords
    BY DEF IInv, Shapes
  <2>3. iHeld[d].seq \in Nat /\ iApp.recovered.seq \in Nat
    BY <1>2, <2>2, RecordFacts
  <2> QED
    BY <1>1, <1>15, <2>1, <2>3 DEF AtLeast
<1>18. Heard'
  <2> SUFFICES ASSUME NEW d \in iHeard, iHeld[d] # NoRec PROVE new.seq >= iHeld[d].seq
    BY <1>1, <1>8 DEF Heard
  <2>1. iHeld[d].seq \in Nat
    BY RecordFacts DEF IInv, Shapes
  <2> QED
    BY <1>15, <1>17, <2>1
<1>19. IInv'
  BY <1>12, <1>13, <1>16, <1>18 DEF IInv
<1> QED
  BY <1>8, <1>14, <1>15, <1>17, <1>19 DEF AtLeast

-------------------------------------------------------------------------------
\* The other steps.

LEMMA SameSets == iSetup' = iSetup => Delegates' = Delegates /\ Works' = Works /\ Apps' = Apps
BY DEF Delegates, Works, Apps

\* A step that at most learns keeps the invariant, if what it hands to a delegate is what
\* was published, and what a delegate answers is learned.
LEMMA LearningStep ==
    ASSUME IInv, Shapes', UNCHANGED <<iSetup, iDisk, iTop>>, iSpent'.torn >= iSpent.torn,
           iApp'.record = iApp.record, AtLeast(iApp'.recovered, iApp.recovered),
           \A d \in iHeard' :
              \/ iHeld'[d] = NoRec
              \/ d \in iHeard /\ iHeld'[d] = iHeld[d]
              \/ iHeld'[d] = iApp.record
              \/ iApp'.recovered # NoRec /\ iApp'.recovered.seq >= iHeld'[d].seq
    PROVE  IInv'
<1>1. /\ iApp.recovered \in IRecords /\ iApp'.recovered \in IRecords
      /\ iApp.record \in IRecords /\ iTop \in IRecords
      /\ iSpent.torn \in Nat /\ iSpent'.torn \in Nat
  BY DEF IInv, Shapes, Apps
<1>2. Remembers'
  BY <1>1, AtLeastTransitive DEF IInv, Remembers
<1>3. Persisted'
  BY <1>1, AtLeastTransitive DEF IInv, Persisted
<1>4. Heard'
  <2> SUFFICES ASSUME NEW d \in iHeard', iHeld'[d] # NoRec
               PROVE  iApp'.recovered # NoRec /\ iApp'.recovered.seq >= iHeld'[d].seq
    BY DEF Heard
  <2>1. iHeld'[d] \in IRecords
    BY DEF Shapes
  <2>2. /\ iHeld'[d].seq \in Nat /\ iApp.recovered.seq \in Nat
        /\ iApp'.recovered.seq \in Nat /\ iApp.record.seq \in Nat
    BY <1>1, <2>1, RecordFacts
  <2>3. CASE d \in iHeard /\ iHeld'[d] = iHeld[d]
    BY <2>2, <2>3 DEF IInv, Heard, AtLeast
  <2>4. CASE iHeld'[d] = iApp.record
    BY <2>2, <2>4 DEF IInv, Remembers, AtLeast
  <2> QED
    BY <2>3, <2>4
<1> QED
  BY <1>2, <1>3, <1>4 DEF IInv

LEMMA AtLeastReflexive == \A r : AtLeast(r, r)
BY DEF AtLeast

\* A step that leaves alone what is known, held and written.
LEMMA QuietStep ==
    ASSUME IInv, UNCHANGED <<iSetup, iDisk, iTop, iHeld, iHeard>>, iSource' \in IValues,
           iApp' \in Apps, iApp'.record = iApp.record, iApp'.recovered = iApp.recovered,
           iDht' \in [job : {"publish", "recover"}, busy : BOOLEAN, record : IRecords, best : IRecords],
           iNet' \in IRecords,
           iSpent' \in [changes : Nat, faults : Nat, crashes : Nat, torn : Nat],
           iSpent'.torn >= iSpent.torn
    PROVE  IInv'
<1>1. Shapes'
  BY SameSets DEF IInv, Shapes
<1> QED
  BY <1>1, LearningStep, AtLeastReflexive

LEMMA FaultFacts ==
    ASSUME iSpent \in [changes : Nat, faults : Nat, crashes : Nat, torn : Nat]
    PROVE  /\ Fault \in [changes : Nat, faults : Nat, crashes : Nat, torn : Nat]
           /\ Fault.torn = iSpent.torn
BY DEF Fault

LEMMA TickSteps ==
    ASSUME IInv,
           DoRecover \/ RequestFails \/ Walk \/ Walking \/ SignFails \/ Put \/ DhtPublish
    PROVE  IInv' /\ iApp'.record = iApp.record
<1>1. TickWork
  BY DEF DoRecover, RequestFails, Walk, Walking, SignFails, Put, DhtPublish, Ticks
<1>2. /\ RoundDue \in Apps /\ Popped \in Apps /\ First \in Works
      /\ RoundDue.record = iApp.record /\ RoundDue.recovered = iApp.recovered
      /\ Popped.record = iApp.record /\ Popped.recovered = iApp.recovered
  BY <1>1, PoppedFacts DEF IInv, Shapes
<1>3. /\ iSpent \in [changes : Nat, faults : Nat, crashes : Nat, torn : Nat] /\ iSpent.torn \in Nat
      /\ iDht \in [job : {"publish", "recover"}, busy : BOOLEAN, record : IRecords, best : IRecords]
      /\ iSource \in IValues /\ iNet \in IRecords /\ iApp \in Apps /\ iApp.record \in IRecords
  BY DEF IInv, Shapes, Apps
<1>4. NoRec \in IRecords
  BY DEF IRecords
<1>5. ASSUME DoRecover PROVE IInv' /\ iApp'.record = iApp.record
  <2> DEFINE d == First.at
  <2>1. d \in Delegates /\ iHeld[d] \in IRecords
    BY <1>2, <1>5 DEF DoRecover, Ticks, Works, IInv, Shapes
  <2>2. /\ iApp' \in Apps /\ iApp'.record = iApp.record
        /\ AtLeast(iApp'.recovered, iApp.recovered)
        /\ iHeld[d] = NoRec \/ (iApp'.recovered # NoRec /\ iApp'.recovered.seq >= iHeld[d].seq)
    <3>1. CASE iHeld[d] = NoRec
      BY <1>2, <1>5, <3>1, AtLeastReflexive DEF DoRecover
    <3>2. CASE iHeld[d] # NoRec
      <4>1. iApp' = Noted(Popped, iHeld[d])
        BY <1>5, <3>2 DEF DoRecover
      <4> QED
        BY <1>2, <2>1, <3>2, <4>1, NotedFacts
    <3> QED
      BY <3>1, <3>2
  <2>3. /\ UNCHANGED <<iSetup, iSource, iDht, iDisk, iHeld, iNet, iTop, iSpent>>
        /\ iHeard' = iHeard \cup {d}
    BY <1>5 DEF DoRecover
  <2> HIDE DEF d
  <2>4. Shapes'
    BY <2>1, <2>2, <2>3, SameSets DEF IInv, Shapes
  <2> QED
    BY <1>3, <2>2, <2>3, <2>4, LearningStep
<1>6. ASSUME RequestFails \/ SignFails PROVE IInv' /\ iApp'.record = iApp.record
  <2>1. iApp' = Popped /\ iSpent' = Fault
        /\ UNCHANGED <<iSetup, iSource, iDht, iDisk, iHeld, iNet, iTop, iHeard>>
    BY <1>6 DEF RequestFails, SignFails
  <2> QED
    BY <1>2, <1>3, <2>1, QuietStep, FaultFacts
<1>7. ASSUME Walk PROVE IInv' /\ iApp'.record = iApp.record
  <2>1. Task("walking") \in Works
    BY TaskWorks DEF Kinds
  <2>2. iApp' = [Popped EXCEPT !.tasks = <<Task("walking")>> \o @]
    BY <1>7 DEF Walk
  <2>3. Popped.tasks \in Seq(Works)
    BY <1>2 DEF Apps
  <2>4. <<Task("walking")>> \o Popped.tasks \in Seq(Works)
    BY <2>1, <2>3
  <2>5. iApp' \in Apps /\ iApp'.record = iApp.record /\ iApp'.recovered = iApp.recovered
    BY <1>2, <2>2, <2>4 DEF Apps
  <2>6. iDht' \in [job : {"publish", "recover"}, busy : BOOLEAN, record : IRecords, best : IRecords]
    BY <1>3, <1>4, <1>7 DEF Walk
  <2>7. UNCHANGED <<iSetup, iSource, iDisk, iHeld, iNet, iTop, iHeard, iSpent>>
    BY <1>7 DEF Walk
  <2> QED
    BY <1>3, <2>5, <2>6, <2>7, QuietStep
<1>8. ASSUME Walking PROVE IInv' /\ iApp'.record = iApp.record
  <2>1. UNCHANGED <<iSetup, iSource, iDht, iDisk, iHeld, iNet, iTop, iHeard, iSpent>>
    BY <1>8 DEF Walking
  <2>2. CASE iApp' = RoundDue \/ iApp' = Popped
    BY <1>2, <1>3, <2>1, <2>2, QuietStep
  <2>3. CASE iDht.best # NoRec /\ iApp' = Noted(Popped, iDht.best)
    <3>1. iDht.best \in IRecords
      BY <1>3
    <3>2. /\ iApp' \in Apps /\ iApp'.record = iApp.record
          /\ AtLeast(iApp'.recovered, iApp.recovered)
      BY <1>2, <2>3, <3>1, NotedFacts
    <3>3. Shapes'
      BY <2>1, <3>2, SameSets DEF IInv, Shapes
    <3> QED
      BY <1>3, <2>1, <3>2, <3>3, LearningStep
  <2> QED
    BY <1>8, <2>2, <2>3 DEF Walking
<1>9. ASSUME Put PROVE IInv' /\ iApp'.record = iApp.record
  <2>1. /\ iApp' = Popped
        /\ UNCHANGED <<iSetup, iSource, iDht, iDisk, iNet, iTop, iHeard, iSpent>>
        /\ iHeld' = IF iApp.record = NoRec THEN iHeld
                    ELSE [iHeld EXCEPT ![First.at] = Received(@, iApp.record)]
    BY <1>9 DEF Put
  <2>2. iHeld \in [Delegates -> IRecords] /\ iHeard \subseteq Delegates
    BY DEF IInv, Shapes
  <2>3. iHeld' \in [Delegates -> IRecords]
    BY <1>3, <2>1, <2>2 DEF Received
  <2>4. \A d \in Delegates : iHeld'[d] = iHeld[d] \/ iHeld'[d] = iApp.record
    BY <2>1, <2>2 DEF Received
  <2>5. Shapes'
    BY <1>2, <2>1, <2>3, SameSets DEF IInv, Shapes
  <2> QED
    BY <1>2, <1>3, <2>1, <2>2, <2>4, <2>5, LearningStep, AtLeastReflexive
<1>10. ASSUME DhtPublish PROVE IInv' /\ iApp'.record = iApp.record
  <2>1. /\ iApp' = Popped
        /\ UNCHANGED <<iSetup, iSource, iDisk, iHeld, iNet, iTop, iHeard, iSpent>>
    BY <1>10 DEF DhtPublish
  <2>2. iDht' \in [job : {"publish", "recover"}, busy : BOOLEAN, record : IRecords, best : IRecords]
    BY <1>3, <1>4, <1>10 DEF DhtPublish
  <2> QED
    BY <1>2, <1>3, <2>1, <2>2, QuietStep
<1> QED
  BY <1>5, <1>6, <1>7, <1>8, <1>9, <1>10

LEMMA SignSteps ==
    ASSUME IInv, Sign \/ SignUnsaved
    PROVE  /\ IInv'
           /\ iSetup.volume /\ iSpent.torn = 0 =>
                 iTop = NoRec \/ iTop.seq < iApp'.record.seq \/ iTop = iApp'.record
           /\ \A d \in iHeard : iHeld[d] = NoRec \/ iHeld[d].seq <= iApp'.record.seq
<1>1. TickWork
  BY DEF Sign, SignUnsaved, Ticks
<1>2. iSpent \in [changes : Nat, faults : Nat, crashes : Nat, torn : Nat]
  BY DEF IInv, Shapes
<1>3. CASE Sign
  <2>1. /\ Signed(IF iSetup.volume THEN "written" ELSE "kept")
        /\ UNCHANGED <<iSetup, iSource, iDht, iHeld, iNet, iHeard, iSpent>>
    BY <1>3 DEF Sign
  <2>2. CASE iSetup.volume
    BY <1>1, <1>2, <2>1, <2>2, SigningStep
  <2>3. CASE ~iSetup.volume
    BY <1>1, <1>2, <2>1, <2>3, SigningStep
  <2> QED
    BY <2>2, <2>3
<1>4. CASE SignUnsaved
  <2>1. /\ iSpent' = [Fault EXCEPT !.torn = @ + 1]
        /\ UNCHANGED <<iSetup, iSource, iDht, iHeld, iNet, iHeard>>
    BY <1>4 DEF SignUnsaved
  <2>2. PICK file \in {"kept", "torn"} : Signed(file)
    BY <1>4 DEF SignUnsaved
  <2>3. /\ iSpent' \in [changes : Nat, faults : Nat, crashes : Nat, torn : Nat]
        /\ iSpent'.torn = iSpent.torn + 1 /\ iSpent.torn \in Nat
    <3>1. Fault \in [changes : Nat, faults : Nat, crashes : Nat, torn : Nat]
          /\ Fault.torn = iSpent.torn
      BY <1>2, FaultFacts
    <3> QED
      BY <1>2, <2>1, <3>1
  <2> QED
    BY <1>1, <2>1, <2>2, <2>3, SigningStep
<1> QED
  BY <1>3, <1>4

\* Walks that end, the advertiser, and the world outside, while the process lives.
LEMMA OtherSteps ==
    ASSUME IInv,
           \/ DhtReaches \/ DhtMisses \/ Provide \/ ProvideFails \/ Republish \/ PostPublish
           \/ \E value \in IValues : Change(value)
    PROVE  IInv' /\ iApp'.record = iApp.record
<1>1. /\ iSpent \in [changes : Nat, faults : Nat, crashes : Nat, torn : Nat] /\ iSpent.torn \in Nat
      /\ iDht \in [job : {"publish", "recover"}, busy : BOOLEAN, record : IRecords, best : IRecords]
      /\ iSource \in IValues /\ iNet \in IRecords /\ iApp \in Apps /\ iSetup \in ISetups
      /\ NoRec \in IRecords
  BY DEF IInv, Shapes, IRecords
<1>2. Fault \in [changes : Nat, faults : Nat, crashes : Nat, torn : Nat] /\ Fault.torn = iSpent.torn
  BY <1>1, FaultFacts
<1>3. ASSUME NEW reached \in BOOLEAN, DhtEnds(reached), iSpent' \in {iSpent, Fault}
      PROVE  IInv' /\ iApp'.record = iApp.record
  <2>1. UNCHANGED <<iSetup, iSource, iApp, iDisk, iHeld, iTop, iHeard>>
    BY <1>3 DEF DhtEnds
  <2>2. iDht' \in [job : {"publish", "recover"}, busy : BOOLEAN, record : IRecords, best : IRecords]
    BY <1>1, <1>3 DEF DhtEnds
  <2>3. iNet' \in IRecords
    BY <1>1, <1>3 DEF DhtEnds, Received
  <2> QED
    BY <1>1, <1>2, <1>3, <2>1, <2>2, <2>3, QuietStep
<1>4. ASSUME Provide \/ ProvideFails PROVE IInv' /\ iApp'.record = iApp.record
  <2>1. /\ UNCHANGED <<iSetup, iSource, iApp, iDht, iDisk, iHeld, iNet, iTop, iHeard>>
        /\ iSpent' \in {iSpent, Fault}
    BY <1>4 DEF Provide, ProvideFails
  <2> QED
    BY <1>1, <1>2, <2>1, QuietStep
<1>5. ASSUME NEW value \in IValues, Change(value) PROVE IInv' /\ iApp'.record = iApp.record
  <2>1. /\ iSource' = value /\ iSpent' = [iSpent EXCEPT !.changes = @ + 1]
        /\ UNCHANGED <<iSetup, iApp, iDht, iDisk, iHeld, iNet, iTop, iHeard>>
    BY <1>5 DEF Change
  <2>2. /\ iSpent' \in [changes : Nat, faults : Nat, crashes : Nat, torn : Nat]
        /\ iSpent'.torn = iSpent.torn
    BY <1>1, <2>1
  <2> QED
    BY <1>1, <2>1, <2>2, QuietStep
<1>6. ASSUME Republish PROVE IInv' /\ iApp'.record = iApp.record
  <2>1. /\ iApp' = [iApp EXCEPT !.due = TRUE]
        /\ UNCHANGED <<iSetup, iSource, iDht, iDisk, iHeld, iNet, iTop, iHeard, iSpent>>
    BY <1>6 DEF Republish
  <2>2. iApp' \in Apps /\ iApp'.record = iApp.record /\ iApp'.recovered = iApp.recovered
    BY <1>1, <2>1 DEF Apps
  <2> QED
    BY <1>1, <2>1, <2>2, QuietStep
<1>7. ASSUME PostPublish PROVE IInv' /\ iApp'.record = iApp.record
  <2>1. /\ iApp' = [iApp EXCEPT !.tasks = Enqueued(@, iApp.durable)]
        /\ UNCHANGED <<iSetup, iSource, iDht, iDisk, iHeld, iNet, iTop, iHeard, iSpent>>
    BY <1>7 DEF PostPublish
  <2>2. Enqueued(iApp.tasks, iApp.durable) \in Seq(Works)
    BY <1>1, EnqueuedWorks DEF Apps
  <2>3. iApp' \in Apps /\ iApp'.record = iApp.record /\ iApp'.recovered = iApp.recovered
    BY <1>1, <2>1, <2>2 DEF Apps
  <2> QED
    BY <1>1, <2>1, <2>3, QuietStep
<1> QED
  BY <1>3, <1>4, <1>5, <1>6, <1>7 DEF DhtReaches, DhtMisses

LEMMA BootedFacts ==
    ASSUME iSetup \in ISetups, NEW disk \in IRecords
    PROVE  Booted(disk) \in Apps /\ Booted(disk).record = NoRec /\ Booted(disk).recovered = disk
<1>1. NoRec \in IRecords
  BY DEF IRecords
<1>2. Enqueued(<<>>, disk # NoRec) \in Seq(Works)
  <2> DEFINE durable == disk # NoRec
  <2>1. <<>> \in Seq(Works)
    OBVIOUS
  <2> HIDE DEF durable
  <2>2. Enqueued(<<>>, durable) \in Seq(Works)
    BY <2>1, EnqueuedWorks
  <2> QED
    BY <2>2 DEF durable
<1> QED
  BY <1>1, <1>2 DEF Booted, Apps

\* A process starts with what the volume holds; if that was lost, it is counted.
LEMMA CrashSteps ==
    ASSUME IInv, CrashIdle \/ CrashInSign \/ CrashInBuild
    PROVE  IInv' /\ iApp'.record = NoRec
<1>1. PICK disk \in {iDisk, NoRec} : \E chain : Crash(disk, chain)
  BY DEF CrashIdle, CrashInSign, CrashInBuild
<1>2. /\ iSpent' = [iSpent EXCEPT !.crashes = @ + 1, !.torn = IF disk = iDisk THEN @ ELSE @ + 1]
      /\ iDisk' = disk /\ iApp' = Booted(disk) /\ iDht' = IdleDht /\ iHeard' = {}
      /\ UNCHANGED <<iSetup, iSource, iHeld, iNet, iTop>>
  BY <1>1 DEF Crash
<1>3. iSpent \in [changes : Nat, faults : Nat, crashes : Nat, torn : Nat] /\ iSetup \in ISetups
  BY DEF IInv, Shapes
<1>4. NoRec \in IRecords /\ disk \in IRecords
  BY <1>1 DEF IInv, Shapes, IRecords
<1>5. iApp' \in Apps /\ iApp'.record = NoRec /\ iApp'.recovered = disk
  BY <1>2, <1>3, <1>4, BootedFacts
<1>6. /\ iSpent' \in [changes : Nat, faults : Nat, crashes : Nat, torn : Nat]
      /\ iSpent'.torn = 0 => iSpent.torn = 0 /\ disk = iDisk
  <2> DEFINE torn == IF disk = iDisk THEN iSpent.torn ELSE iSpent.torn + 1
  <2>1. torn \in Nat /\ (torn = 0 => iSpent.torn = 0 /\ disk = iDisk)
    BY <1>3
  <2>2. iSpent' = [iSpent EXCEPT !.crashes = @ + 1, !.torn = torn]
    BY <1>2
  <2> HIDE DEF torn
  <2> DEFINE crashed == [iSpent EXCEPT !.crashes = @ + 1]
  <2>3. crashed \in [changes : Nat, faults : Nat, crashes : Nat, torn : Nat]
    BY <1>3
  <2>4. iSpent' = [crashed EXCEPT !.torn = torn]
    BY <1>3, <2>2
  <2> HIDE DEF crashed
  <2> QED
    BY <2>1, <2>3, <2>4
<1>7. Shapes'
  BY <1>2, <1>4, <1>5, <1>6, SameSets DEF IInv, Shapes, IdleDht
<1>8. Remembers' /\ Heard'
  BY <1>2, <1>5 DEF Remembers, Heard, AtLeast
<1>9. Persisted'
  BY <1>2, <1>5, <1>6 DEF IInv, Persisted, AtLeast
<1> QED
  BY <1>5, <1>7, <1>8, <1>9 DEF IInv

-------------------------------------------------------------------------------

LEMMA InitInv == IInit => IInv
<1> SUFFICES ASSUME IInit PROVE IInv
  OBVIOUS
<1>1. iSetup \in ISetups /\ NoRec \in IRecords /\ iSetup.known \in IRecords
  BY SetupFacts DEF IInit, IRecords
<1>2. iApp \in Apps /\ iApp.record = NoRec /\ iApp.recovered = NoRec
  BY <1>1, BootedFacts DEF IInit
<1>3. Shapes
  BY <1>1, <1>2 DEF IInit, Shapes, IdleDht
<1>4. Remembers /\ Persisted /\ Heard
  BY <1>2 DEF IInit, Remembers, Persisted, Heard, AtLeast
<1> QED
  BY <1>3, <1>4 DEF IInv

\* A step of the publisher keeps the invariant and does not fall behind.
LEMMA StepInv ==
    ASSUME IInv, [INext]_iVars
    PROVE  /\ IInv'
           /\ iApp'.record # iApp.record /\ iApp'.record # NoRec =>
                 /\ iSetup.volume /\ iSpent.torn = 0 =>
                       iTop = NoRec \/ iTop.seq < iApp'.record.seq \/ iTop = iApp'.record
                 /\ \A d \in iHeard : iHeld[d] = NoRec \/ iHeld[d].seq <= iApp'.record.seq
<1>1. CASE Sign \/ SignUnsaved
  BY <1>1, SignSteps
<1>2. CASE DoRecover \/ RequestFails \/ Walk \/ Walking \/ SignFails \/ Put \/ DhtPublish
  BY <1>2, TickSteps
<1>3. CASE \/ DhtReaches \/ DhtMisses \/ Provide \/ ProvideFails \/ Republish \/ PostPublish
           \/ \E value \in IValues : Change(value)
  BY <1>3, OtherSteps
<1>4. CASE CrashIdle \/ CrashInSign \/ CrashInBuild
  BY <1>4, CrashSteps
<1>5. CASE UNCHANGED iVars
  <2>1. UNCHANGED <<iSetup, iSource, iApp, iDht, iDisk, iHeld, iNet, iTop, iHeard, iSpent>>
    BY <1>5 DEF iVars, iOwn
  <2>2. IInv'
    BY <2>1, SameSets DEF IInv, Shapes, Remembers, Persisted, Heard
  <2> QED
    BY <2>1, <2>2
<1> QED
  BY <1>1, <1>2, <1>3, <1>4, <1>5 DEF INext, ITick

\* The publisher does not fall behind itself or the delegates that answered, for every
\* deployment, value and number of changes, faults and crashes (NeverBehind).
THEOREM SequenceAdvances == ISpec => NeverBehind
<1>1. IInit => IInv
  BY InitInv
<1>2. IInv /\ [INext]_iVars => IInv'
  BY StepInv
<1> DEFINE Ahead ==
      iApp'.record # iApp.record /\ iApp'.record # NoRec =>
          LET new == iApp'.record
          IN  /\ iSetup.volume /\ iSpent.torn = 0 => iTop = NoRec \/ iTop.seq < new.seq \/ iTop = new
              /\ \A d \in iHeard : iHeld[d] = NoRec \/ iHeld[d].seq <= new.seq
<1>3. IInv /\ [INext]_iVars => [Ahead]_iVars
  BY StepInv
<1> HIDE DEF Ahead
<1>4. ISpec => [][Ahead]_iVars
  BY <1>1, <1>2, <1>3, PTL DEF ISpec
<1> QED
  BY <1>4 DEF NeverBehind, Ahead

-------------------------------------------------------------------------------
(***************************************************************************)
(* The index of the bucket.                                                *)
(***************************************************************************)

\* The inductive invariant.

PinRow == Row(1, Bytes(1))

\* A row of a pin is the one row it can have, and only of an object that is there.
May(b, row) == row = NoRow \/ (row = PinRow /\ b = 1)

\* What an index under way holds of the pin k, whose object's version is b.
Sound(app, b, k) ==
    /\ b \in {0, 1}
    /\ May(b, app.snap[k]) /\ May(b, app.recent[k]) /\ May(b, app.staged[k])
    /\ May(b, app.recovered[k])
    /\ \A m \in app.acc : m.key = k => m.tag = 1 /\ b = 1
    /\ \A q \in app.queue : q.meta.key = k => q.meta.tag = 1 /\ b = 1
    /\ app.cur # <<>> /\ app.cur[1].meta.key = k =>
           /\ app.cur[1].meta.tag = 1 /\ b = 1
           /\ Len(app.cur[1].leaves) < BWindows
           /\ \A i \in 1..Len(app.cur[1].leaves) : app.cur[1].leaves[i] = 1

Named(app, k) == \E m \in app.acc : m.key = k

\* Why the next commit will have the row of k.
Carried(app, k) ==
    \/ app.recent[k] = PinRow
    \/ app.phase = "list" /\ (k > app.cont \/ Named(app, k))
    \/ app.phase = "load" /\ Named(app, k)
    \/ app.phase = "hash" /\ app.staged[k] = PinRow
    \/ app.phase = "ready"

Kept(app, k) == app.snap[k] = PinRow => Carried(app, k)

PinInv ==
    \A k \in BPins :
        /\ Sound(bApp, bBucket[k], k) /\ Kept(bApp, k)
        /\ \A i \in DOMAIN bCache : May(bBucket[k], bCache[i][k])
        /\ k \in bPinned => bApp.snap[k] = PinRow

-------------------------------------------------------------------------------
\* Rows.

LEMMA Tags == 0 \in BTags /\ 1 \in BTags
BY BucketAssumption DEF BucketAssumption, BTags

LEMMA RowFacts ==
    /\ NoRow \in [tag : BTags, leaves : Seq(BTags)]
    /\ PinRow \in [tag : BTags, leaves : Seq(BTags)]
    /\ NoRow.tag = 0 /\ PinRow.tag = 1 /\ NoRow # PinRow
<1>1. 0 \in BTags /\ 1 \in BTags
  BY Tags
<1>2. BWindows \in Nat
  BY BucketAssumption DEF BucketAssumption
<1>3. Bytes(1) \in Seq(BTags)
  BY <1>1, <1>2 DEF Bytes
<1>4. <<>> \in Seq(BTags)
  OBVIOUS
<1> QED
  BY <1>1, <1>3, <1>4 DEF NoRow, PinRow, Row

LEMMA NoRowsType == NoRows \in BRows /\ \A k \in BKeys : NoRows[k] = NoRow
BY RowFacts DEF NoRows, BRows

LEMMA UnionFacts ==
    ASSUME NEW a \in BRows, NEW b \in BRows
    PROVE  /\ Union(a, b) \in BRows
           /\ \A k \in BKeys : Union(a, b)[k] = IF a[k] # NoRow THEN a[k] ELSE b[k]
BY DEF Union, BRows

LEMMA Keys == BPins \subseteq BKeys /\ BPlain \subseteq BKeys /\ BPins \cap BPlain = {}
              /\ BKeys \subseteq Nat \ {0} /\ BKeys # {}
BY BucketAssumption DEF BucketAssumption, BKeys

LEMMA BootingType == Booting \in BAppType
<1>1. 0 \in 0..(BCacheTries - 1)
  BY BucketAssumption DEF BucketAssumption
<1> QED
  BY <1>1, NoRowsType DEF Booting, BAppType

LEMMA ListingType ==
    ASSUME NEW app \in BAppType
    PROVE  Listing(app) \in BAppType
<1>1. 0 \in 0..(BCacheTries - 1)
  BY BucketAssumption DEF BucketAssumption
<1>2. <<>> \in Seq(BJobs) /\ {} \in SUBSET BWaiting /\ {} \in SUBSET BMeta
  OBVIOUS
<1>3. NoRows \in BRows
  BY NoRowsType
<1> QED
  BY <1>1, <1>2, <1>3 DEF Listing, BAppType

\* What a hash begins with.
Staged(app) ==
    [k \in BKeys |-> LET listed == {m \in app.acc : m.key = k} IN
                     IF listed = {} THEN NoRow ELSE Reused(app, CHOOSE m \in listed : TRUE)]
Recent(app) == Unconfirmed(app, {m.key : m \in app.acc})

LEMMA StagedFacts ==
    ASSUME NEW app \in BAppType
    PROVE  /\ Staged(app) \in BRows
           /\ \A k \in BKeys :
                  \/ ~Named(app, k) /\ Staged(app)[k] = NoRow
                  \/ \E m \in app.acc : m.key = k /\ Staged(app)[k] = Reused(app, m)
<1>1. ASSUME NEW k \in BKeys
      PROVE  \/ ~Named(app, k) /\ Staged(app)[k] = NoRow
             \/ \E m \in app.acc : m.key = k /\ Staged(app)[k] = Reused(app, m)
  <2> DEFINE listed == {m \in app.acc : m.key = k}
  <2>1. Staged(app)[k] = IF listed = {} THEN NoRow ELSE Reused(app, CHOOSE m \in listed : TRUE)
    BY DEF Staged
  <2>2. CASE listed = {}
    BY <2>1, <2>2 DEF Named
  <2>3. CASE listed # {}
    <3>1. (CHOOSE m \in listed : TRUE) \in listed
      BY <2>3
    <3> QED
      BY <2>1, <2>3, <3>1
  <2> QED
    BY <2>2, <2>3
<1>2. ASSUME NEW k \in BKeys
      PROVE  Staged(app)[k] \in [tag : BTags, leaves : Seq(BTags)]
  <2>1. \A m \in app.acc : m.key = k => Reused(app, m) \in [tag : BTags, leaves : Seq(BTags)]
    BY RowFacts DEF Reused, BAppType, BRows, BMeta
  <2> QED
    BY <1>1, <2>1, RowFacts
<1> QED
  BY <1>1, <1>2 DEF Staged, BRows

LEMMA RecentFacts ==
    ASSUME NEW app \in BAppType
    PROVE  /\ Recent(app) \in BRows
           /\ \A k \in BKeys : Recent(app)[k] = IF Named(app, k) THEN NoRow ELSE app.recent[k]
BY RowFacts DEF Recent, Unconfirmed, Named, BAppType, BRows

LEMMA HashingFacts ==
    ASSUME NEW app \in BAppType
    PROVE  /\ Hashing(app) \in BAppType
           /\ Hashing(app).phase = "hash" /\ Hashing(app).acc = {} /\ Hashing(app).cur = <<>>
           /\ Hashing(app).recent = Recent(app) /\ Hashing(app).staged = Staged(app)
           /\ Hashing(app).recovered = app.recovered
           /\ Hashing(app).snap \in {app.snap, Union(Staged(app), Recent(app))}
           /\ \A q \in Hashing(app).queue : q.meta \in app.acc
<1> DEFINE todo == {m \in app.acc : Staged(app)[m.key] = NoRow}
           queue == {[meta |-> m, tries |-> 0] : m \in todo}
           snap == IF ~app.indexed /\ todo # {} /\ Rows(Staged(app)) # {}
                   THEN Union(Staged(app), Recent(app)) ELSE app.snap
<1>1. Hashing(app) = [app EXCEPT !.phase = "hash", !.acc = {}, !.recent = Recent(app),
                         !.staged = Staged(app), !.queue = queue, !.cur = <<>>, !.skipped = {},
                         !.snap = snap]
  BY DEF Hashing, Recent, Staged
<1>2. queue \in SUBSET BWaiting /\ \A q \in queue : q.meta \in app.acc
  BY BucketAssumption DEF BucketAssumption, BAppType, BWaiting
<1>3. Union(Staged(app), Recent(app)) \in BRows
  BY StagedFacts, RecentFacts, UnionFacts
<1>4. snap \in BRows /\ snap \in {app.snap, Union(Staged(app), Recent(app))}
  BY <1>3 DEF BAppType
<1>5. Staged(app) \in BRows /\ Recent(app) \in BRows
  BY StagedFacts, RecentFacts
<1>6. <<>> \in Seq(BJobs) /\ {} \in SUBSET BMeta /\ {} \in SUBSET BKeys
  OBVIOUS
<1> HIDE DEF queue, snap
<1>7. Hashing(app) \in BAppType
  <2> DEFINE cleared == [app EXCEPT !.phase = "hash", !.acc = {}, !.cur = <<>>, !.skipped = {}]
             filled == [cleared EXCEPT !.recent = Recent(app), !.staged = Staged(app),
                                       !.queue = queue, !.snap = snap]
  <2>1. cleared \in BAppType
    BY <1>6 DEF BAppType
  <2>2. Hashing(app) = filled
    BY <1>1 DEF BAppType
  <2> HIDE DEF cleared
  <2>3. filled \in BAppType
    BY <1>2, <1>4, <1>5, <2>1 DEF BAppType
  <2> QED
    BY <2>2, <2>3
<1>8. /\ Hashing(app).phase = "hash" /\ Hashing(app).acc = {} /\ Hashing(app).cur = <<>>
      /\ Hashing(app).recent = Recent(app) /\ Hashing(app).staged = Staged(app)
      /\ Hashing(app).recovered = app.recovered /\ Hashing(app).snap = snap
      /\ Hashing(app).queue = queue
  BY <1>1 DEF BAppType
<1> QED
  BY <1>2, <1>4, <1>7, <1>8

\* What is not staged is queued, and a full index is served until the next.
LEMMA HashingQueues ==
    ASSUME NEW app \in BAppType
    PROVE  /\ \A q \in Hashing(app).queue : q.meta \in app.acc /\ Staged(app)[q.meta.key] = NoRow
           /\ \A m \in app.acc : Staged(app)[m.key] = NoRow => \E q \in Hashing(app).queue : q.meta = m
           /\ Hashing(app).indexed = app.indexed /\ (app.indexed => Hashing(app).snap = app.snap)
<1> DEFINE todo == {m \in app.acc : Staged(app)[m.key] = NoRow}
           queue == {[meta |-> m, tries |-> 0] : m \in todo}
           snap == IF ~app.indexed /\ todo # {} /\ Rows(Staged(app)) # {}
                   THEN Union(Staged(app), Recent(app)) ELSE app.snap
<1>1. Hashing(app) = [app EXCEPT !.phase = "hash", !.acc = {}, !.recent = Recent(app),
                         !.staged = Staged(app), !.queue = queue, !.cur = <<>>, !.skipped = {},
                         !.snap = snap]
  BY DEF Hashing, Recent, Staged
<1>2. \A q \in queue : q.meta \in todo
  OBVIOUS
<1>3. ASSUME NEW m \in todo PROVE \E q \in queue : q.meta = m
  <2>1. [meta |-> m, tries |-> 0] \in queue
    OBVIOUS
  <2> HIDE DEF queue, todo
  <2> QED
    BY <2>1
<1>4. app.indexed => snap = app.snap
  OBVIOUS
<1> HIDE DEF queue, snap
<1>5. Hashing(app).snap = snap /\ Hashing(app).queue = queue /\ Hashing(app).indexed = app.indexed
  BY <1>1 DEF BAppType
<1> QED
  BY <1>2, <1>3, <1>4, <1>5

-------------------------------------------------------------------------------
\* The types.

LEMMA SavesCacheTypes ==
    ASSUME BTypes, NEW app \in BAppType, SavesCache(app)
    PROVE  /\ bApp' \in BAppType /\ bCache' \in Seq(BRows) /\ bCache' \in {bCache, <<app.snap>>}
           /\ bSpent' \in [changes : 0..BMaxChanges, faults : 0..BMaxFaults, restarts : 0..BMaxRestarts]
           /\ \/ bApp' = app
              \/ bApp' = [app EXCEPT !.saved = <<app.snap>>]
<1>1. <<app.snap>> \in Seq(BRows)
  BY DEF BAppType
<1>2. [app EXCEPT !.saved = <<app.snap>>] \in BAppType
  BY <1>1 DEF BAppType
<1>3. ASSUME BFault
      PROVE  bSpent' \in [changes : 0..BMaxChanges, faults : 0..BMaxFaults, restarts : 0..BMaxRestarts]
  <2>1. bSpent.faults \in Nat /\ BMaxFaults \in Nat /\ bSpent.faults < BMaxFaults
    BY <1>3, BucketAssumption DEF BTypes, BFault, BucketAssumption
  <2>2. bSpent.faults + 1 \in 0..BMaxFaults
    BY <2>1
  <2> QED
    BY <1>3, <2>2 DEF BTypes, BFault
<1> QED
  BY <1>1, <1>2, <1>3 DEF SavesCache, BTypes

\* The record of an index with a row for a pin.
Pinning(k) == [bApp EXCEPT !.snap[k] = PinRow, !.recent[k] = PinRow]

LEMMA PinningFacts ==
    ASSUME BTypes, NEW k \in BPins
    PROVE  /\ Pinning(k) \in BAppType
           /\ Pinning(k) = [bApp EXCEPT !.snap = [bApp.snap EXCEPT ![k] = PinRow],
                                        !.recent = [bApp.recent EXCEPT ![k] = PinRow]]
           /\ [bApp.snap EXCEPT ![k] = PinRow] \in BRows
           /\ [bApp.recent EXCEPT ![k] = PinRow] \in BRows
<1>1. k \in BKeys
  BY Keys
<1>2. bApp.snap \in BRows /\ bApp.recent \in BRows /\ bApp \in BAppType
  BY DEF BTypes, BAppType
<1>3. [bApp.snap EXCEPT ![k] = PinRow] \in BRows /\ [bApp.recent EXCEPT ![k] = PinRow] \in BRows
  BY <1>1, <1>2, RowFacts DEF BRows
<1>4. Pinning(k) = [bApp EXCEPT !.snap = [bApp.snap EXCEPT ![k] = PinRow],
                                !.recent = [bApp.recent EXCEPT ![k] = PinRow]]
  BY <1>2 DEF Pinning, BAppType
<1> QED
  BY <1>2, <1>3, <1>4 DEF BAppType

\* What the next page of a listing adds.
Page(key) == {[key |-> key, tag |-> v] : v \in {bBucket[key]} \ {0}}
Paged(key) == [bApp EXCEPT !.cont = key, !.acc = @ \cup Page(key)]

LEMMA PagedFacts ==
    ASSUME BTypes, NEW key \in BKeys
    PROVE  /\ Paged(key) \in BAppType /\ [Paged(key) EXCEPT !.consulted = TRUE] \in BAppType
           /\ [Paged(key) EXCEPT !.phase = "load", !.tries = 0] \in BAppType
<1>1. Page(key) \in SUBSET BMeta
  BY DEF Page, BMeta, BTypes
<1>2. bApp.acc \cup Page(key) \in SUBSET BMeta /\ key \in {0} \cup BKeys
  BY <1>1 DEF BTypes, BAppType
<1>3. 0 \in 0..(BCacheTries - 1)
  BY BucketAssumption DEF BucketAssumption
<1>4. Paged(key) \in BAppType
  BY <1>2 DEF Paged, BAppType, BTypes
<1> QED
  BY <1>3, <1>4 DEF BAppType

LEMMA CacheFirst ==
    ASSUME BTypes, bCache # <<>>
    PROVE  bCache[1] \in BRows /\ 1 \in DOMAIN bCache
BY DEF BTypes

\* The job under way is one.
LEMMA JobFacts ==
    ASSUME BTypes, bApp.cur # <<>>
    PROVE  /\ bApp.cur[1] \in BJobs
           /\ bApp.cur[1].meta.key \in BKeys
<1>1. bApp.cur \in Seq(BJobs)
  BY DEF BTypes, BAppType
<1>2. bApp.cur[1] \in BJobs
  BY <1>1
<1> QED
  BY <1>2 DEF BJobs, BMeta

\* What is spent of the bounds.
LEMMA Counted ==
    ASSUME bSpent \in [changes : 0..BMaxChanges, faults : 0..BMaxFaults, restarts : 0..BMaxRestarts]
    PROVE  /\ bSpent.changes < BMaxChanges =>
                  [bSpent EXCEPT !.changes = @ + 1]
                      \in [changes : 0..BMaxChanges, faults : 0..BMaxFaults, restarts : 0..BMaxRestarts]
           /\ bSpent.faults < BMaxFaults =>
                  [bSpent EXCEPT !.faults = @ + 1]
                      \in [changes : 0..BMaxChanges, faults : 0..BMaxFaults, restarts : 0..BMaxRestarts]
           /\ bSpent.restarts < BMaxRestarts =>
                  [bSpent EXCEPT !.restarts = @ + 1]
                      \in [changes : 0..BMaxChanges, faults : 0..BMaxFaults, restarts : 0..BMaxRestarts]
<1>1. BMaxChanges \in Nat /\ BMaxFaults \in Nat /\ BMaxRestarts \in Nat
  BY BucketAssumption DEF BucketAssumption
<1>2. bSpent.changes \in 0..BMaxChanges /\ bSpent.faults \in 0..BMaxFaults /\ bSpent.restarts \in 0..BMaxRestarts
  OBVIOUS
<1>3. /\ bSpent.changes < BMaxChanges => bSpent.changes + 1 \in 0..BMaxChanges
      /\ bSpent.faults < BMaxFaults => bSpent.faults + 1 \in 0..BMaxFaults
      /\ bSpent.restarts < BMaxRestarts => bSpent.restarts + 1 \in 0..BMaxRestarts
  BY <1>1, <1>2
<1> QED
  BY <1>3

LEMMA BFaultTypes ==
    ASSUME BTypes, BFault
    PROVE  bSpent' \in [changes : 0..BMaxChanges, faults : 0..BMaxFaults, restarts : 0..BMaxRestarts]
BY Counted DEF BTypes, BFault

LEMMA TypesKept ==
    ASSUME BTypes, [BNext]_bVars
    PROVE  BTypes'
<1> DEFINE Spent == [changes : 0..BMaxChanges, faults : 0..BMaxFaults, restarts : 0..BMaxRestarts]
<1>0. bApp \in BAppType /\ bBucket \in [BKeys -> BTags] /\ bCache \in Seq(BRows)
      /\ bPinned \subseteq BPins /\ bSpent \in Spent
  BY DEF BTypes
<1>1. ASSUME ListPage PROVE BTypes'
  <2>1. PICK key \in BKeys :
            bApp' = IF \E k \in BKeys : k > key THEN Paged(key)
                    ELSE IF ~Paged(key).consulted /\ bCache # <<>>
                    THEN [Paged(key) EXCEPT !.phase = "load", !.tries = 0]
                    ELSE Hashing([Paged(key) EXCEPT !.consulted = TRUE])
    BY <1>1 DEF ListPage, Paged, Page
  <2>2. bApp' \in BAppType
    BY <2>1, PagedFacts, HashingFacts
  <2> QED
    BY <1>0, <1>1, <2>2 DEF ListPage, BTypes
<1>2. ASSUME LoadCache PROVE BTypes'
  <2>1. bCache[1] \in BRows
    BY <1>2, CacheFirst DEF LoadCache
  <2>2. [bApp EXCEPT !.consulted = TRUE, !.recovered = bCache[1], !.saved = bCache] \in BAppType
    BY <1>0, <2>1 DEF BAppType
  <2> QED
    BY <1>0, <1>2, <2>2, HashingFacts DEF LoadCache, BTypes
<1>3. ASSUME LoadFails PROVE BTypes'
  <2>1. [bApp EXCEPT !.consulted = TRUE] \in BAppType
    BY <1>0 DEF BAppType
  <2>2. bApp.tries \in 0..(BCacheTries - 1) /\ BCacheTries \in Nat
    BY <1>0, BucketAssumption DEF BAppType, BucketAssumption
  <2>3. ~(bApp.tries + 1 >= BCacheTries) => bApp.tries + 1 \in 0..(BCacheTries - 1)
    BY <2>2
  <2>4. ASSUME bApp.tries + 1 >= BCacheTries PROVE bApp' \in BAppType
    BY <1>3, <2>1, <2>4, HashingFacts DEF LoadFails
  <2>5. ASSUME ~(bApp.tries + 1 >= BCacheTries) PROVE bApp' \in BAppType
    <3>1. bApp' = [bApp EXCEPT !.tries = bApp.tries + 1]
      BY <1>3, <2>5 DEF LoadFails
    <3> QED
      BY <1>0, <2>3, <2>5, <3>1 DEF BAppType
  <2>6. bApp' \in BAppType
    BY <2>4, <2>5
  <2> QED
    BY <1>0, <1>3, <2>6, BFaultTypes DEF LoadFails, BTypes
<1>4. ASSUME RefreshDue PROVE BTypes'
  BY <1>0, <1>4, ListingType DEF RefreshDue, BTypes
<1>5. ASSUME HashNext PROVE BTypes'
  <2>1. PICK next \in bApp.queue :
            bApp' = [bApp EXCEPT !.queue = bApp.queue \ {next},
                        !.cur = <<[meta |-> next.meta, tries |-> next.tries, leaves |-> <<>>]>>]
    BY <1>5 DEF HashNext
  <2>2. next \in BWaiting /\ bApp.queue \ {next} \in SUBSET BWaiting
    BY <1>0 DEF BAppType
  <2>3. <<[meta |-> next.meta, tries |-> next.tries, leaves |-> <<>>]>> \in Seq(BJobs)
    BY <2>2 DEF BWaiting, BJobs
  <2>4. bApp' \in BAppType
    BY <1>0, <2>1, <2>2, <2>3 DEF BAppType
  <2> QED
    BY <1>0, <1>5, <2>4 DEF HashNext, BTypes
<1>6. ASSUME HashWindow PROVE BTypes'
  <2> DEFINE job == bApp.cur[1]
             leaves == Append(job.leaves, bBucket[job.meta.key])
  <2>1. job \in BJobs /\ job.meta.key \in BKeys
    BY <1>6, JobFacts DEF HashWindow
  <2>2. leaves \in Seq(BTags)
    BY <1>0, <2>1 DEF BJobs
  <2>3. <<[job EXCEPT !.leaves = leaves]>> \in Seq(BJobs)
    <3> HIDE DEF job, leaves
    <3>1. [job EXCEPT !.leaves = leaves] \in BJobs
      BY <2>1, <2>2 DEF BJobs
    <3> QED
      BY <3>1
  <2>4. Row(job.meta.tag, leaves) \in [tag : BTags, leaves : Seq(BTags)]
    BY <2>1, <2>2 DEF Row, BJobs, BMeta
  <2>5. [bApp.staged EXCEPT ![job.meta.key] = Row(job.meta.tag, leaves)] \in BRows
    BY <1>0, <2>1, <2>4 DEF BRows, BAppType
  <2>6. \/ bApp' = [bApp EXCEPT !.cur = <<[job EXCEPT !.leaves = leaves]>>]
        \/ bApp' = [bApp EXCEPT !.cur = <<>>,
                        !.staged = [bApp.staged EXCEPT ![job.meta.key] = Row(job.meta.tag, leaves)]]
    BY <1>0, <1>6 DEF HashWindow, BAppType
  <2>7. <<>> \in Seq(BJobs)
    OBVIOUS
  <2> HIDE DEF job, leaves
  <2>8. bApp' \in BAppType
    <3>1. CASE bApp' = [bApp EXCEPT !.cur = <<[job EXCEPT !.leaves = leaves]>>]
      BY <1>0, <2>3, <3>1 DEF BAppType
    <3>2. CASE bApp' = [bApp EXCEPT !.cur = <<>>,
                          !.staged = [bApp.staged EXCEPT ![job.meta.key] = Row(job.meta.tag, leaves)]]
      BY <1>0, <2>5, <2>7, <3>2 DEF BAppType
    <3> QED
      BY <2>6, <3>1, <3>2
  <2> QED
    BY <1>0, <1>6, <2>8 DEF HashWindow, BTypes
<1>7. ASSUME HashFails PROVE BTypes'
  <2> DEFINE job == bApp.cur[1]
  <2>1. job \in BJobs /\ job.meta.key \in BKeys
    BY <1>7, JobFacts DEF HashFails
  <2>2. job.meta \in BMeta /\ job.tries \in 0..(BTries - 1)
    BY <2>1 DEF BJobs
  <2>3. <<>> \in Seq(BJobs) /\ bApp.skipped \cup {job.meta.key} \in SUBSET BKeys
    BY <1>0, <2>1 DEF BAppType
  <2>4. BTries \in Nat
    BY BucketAssumption DEF BucketAssumption
  <2>5. bApp' = IF job.tries + 1 >= BTries
                THEN [bApp EXCEPT !.cur = <<>>, !.skipped = bApp.skipped \cup {job.meta.key}]
                ELSE [bApp EXCEPT !.cur = <<>>,
                          !.queue = bApp.queue \cup {[meta |-> job.meta, tries |-> job.tries + 1]}]
    BY <1>7 DEF HashFails, Failed
  <2> HIDE DEF job
  <2>6. ASSUME job.tries + 1 >= BTries PROVE bApp' \in BAppType
    <3>1. bApp' = [bApp EXCEPT !.cur = <<>>, !.skipped = bApp.skipped \cup {job.meta.key}]
      BY <2>5, <2>6
    <3> QED
      BY <1>0, <2>3, <3>1 DEF BAppType
  <2>7. ASSUME ~(job.tries + 1 >= BTries) PROVE bApp' \in BAppType
    <3> DEFINE again == [meta |-> job.meta, tries |-> job.tries + 1]
    <3>1. job.tries + 1 \in 0..(BTries - 1)
      BY <2>2, <2>4, <2>7
    <3>2. again \in BWaiting
      BY <2>2, <3>1 DEF BWaiting
    <3>3. bApp.queue \in SUBSET BWaiting
      BY <1>0 DEF BAppType
    <3>4. bApp.queue \cup {again} \in SUBSET BWaiting
      BY <3>2, <3>3
    <3>5. bApp' = [bApp EXCEPT !.cur = <<>>, !.queue = bApp.queue \cup {again}]
      BY <2>5, <2>7
    <3> HIDE DEF again
    <3> QED
      BY <1>0, <2>3, <3>4, <3>5 DEF BAppType
  <2>8. bApp' \in BAppType
    BY <2>6, <2>7
  <2> QED
    BY <1>0, <1>7, <2>8, BFaultTypes DEF HashFails, BTypes
<1>8. ASSUME CommitIndex PROVE BTypes'
  <2> DEFINE app == [bApp EXCEPT !.phase = "ready", !.snap = Union(bApp.staged, bApp.recent),
                        !.staged = NoRows, !.indexed = TRUE, !.recovered = NoRows]
  <2>1. Union(bApp.staged, bApp.recent) \in BRows /\ NoRows \in BRows
    BY <1>0, UnionFacts, NoRowsType DEF BAppType
  <2>2. app \in BAppType
    BY <1>0, <2>1 DEF BAppType
  <2>3. SavesCache(app)
    BY <1>8 DEF CommitIndex
  <2> HIDE DEF app
  <2> QED
    BY <1>0, <1>8, <2>2, <2>3, SavesCacheTypes DEF CommitIndex, BTypes
<1>9. ASSUME NEW k \in BPins, Pin(k) PROVE BTypes'
  <2>1. bBucket' \in [BKeys -> BTags] /\ bPinned' \subseteq BPins
    BY <1>0, <1>9, Tags DEF Pin
  <2>2. CASE UNCHANGED <<bApp, bCache, bSpent>>
    BY <1>0, <2>1, <2>2 DEF BTypes
  <2>3. CASE SavesCache(Pinning(k))
    BY <1>0, <2>1, <2>3, PinningFacts, SavesCacheTypes DEF BTypes
  <2>4. CASE bApp' = Pinning(k) /\ UNCHANGED <<bCache, bSpent>>
    BY <1>0, <2>1, <2>4, PinningFacts DEF BTypes
  <2> QED
    BY <1>9, <2>2, <2>3, <2>4 DEF Pin, Pinning, PinRow
<1>10. ASSUME NEW k \in BPins, PinFails(k) PROVE BTypes'
  <2>1. bBucket' \in [BKeys -> BTags]
    BY <1>0, <1>10, Tags DEF PinFails
  <2> QED
    BY <1>0, <1>10, <2>1, BFaultTypes DEF PinFails, BTypes
<1>11. ASSUME NEW k \in BPlain, Alter(k)
       PROVE  bBucket' \in [BKeys -> BTags] /\ bSpent' \in Spent /\ bCache' = bCache /\ bPinned' = bPinned
  <2>1. bSpent.changes + 2 \in BTags /\ 0 \in BTags
    <3>1. BMaxChanges \in Nat /\ bSpent.changes \in 0..BMaxChanges
      BY <1>0, BucketAssumption DEF BucketAssumption
    <3>2. bSpent.changes < BMaxChanges
      BY <1>11 DEF Alter
    <3> QED
      BY <3>1, <3>2 DEF BTags
  <2>2. bBucket' \in [BKeys -> BTags]
    BY <1>0, <1>11, <2>1 DEF Alter
  <2>3. bSpent' \in Spent
    BY <1>0, <1>11, Counted DEF Alter
  <2> QED
    BY <1>11, <2>2, <2>3 DEF Alter
<1>12. ASSUME NEW k \in BPlain, UploadOrDelete(k) PROVE BTypes'
  BY <1>0, <1>11, <1>12, ListingType DEF UploadOrDelete, BTypes
<1>13. ASSUME NEW k \in BPlain, Elsewhere(k) PROVE BTypes'
  BY <1>0, <1>11, <1>13 DEF Elsewhere, BTypes
<1>14. ASSUME ApiRefresh PROVE BTypes'
  <2>1. bSpent' \in Spent
    BY <1>0, <1>14, Counted DEF ApiRefresh
  <2> QED
    BY <1>0, <1>14, <2>1, ListingType DEF ApiRefresh, BTypes
<1>15. ASSUME BRestart PROVE BTypes'
  <2>1. bSpent' \in Spent
    BY <1>0, <1>15, Counted DEF BRestart
  <2> QED
    BY <1>0, <1>15, <2>1, BootingType DEF BRestart, BTypes
<1>16. CASE UNCHANGED bVars
  BY <1>0, <1>16 DEF bVars, BTypes
<1> QED
  BY <1>1, <1>2, <1>3, <1>4, <1>5, <1>6, <1>7, <1>8, <1>9, <1>10, <1>12, <1>13, <1>14, <1>15, <1>16
  DEF BNext, BTick

-------------------------------------------------------------------------------
\* What a pin's row has to live through.

\* A hash that begins carries what the listing before it carried.
LEMMA HashingCarries ==
    ASSUME NEW app \in BAppType, NEW k \in BPins, NEW b, Sound(app, b, k),
           app.snap[k] = PinRow => app.recent[k] = PinRow \/ Named(app, k)
    PROVE  /\ Sound(Hashing(app), b, k) /\ Kept(Hashing(app), k)
           /\ app.snap[k] = PinRow => Hashing(app).snap[k] = PinRow
<1> DEFINE H == Hashing(app)
<1>0. k \in BKeys
  BY Keys
<1>1. /\ H.phase = "hash" /\ H.acc = {} /\ H.cur = <<>>
      /\ H.recent = Recent(app) /\ H.staged = Staged(app) /\ H.recovered = app.recovered
      /\ H.snap \in {app.snap, Union(Staged(app), Recent(app))}
      /\ \A q \in H.queue : q.meta \in app.acc
  BY HashingFacts
<1>2. Recent(app)[k] = IF Named(app, k) THEN NoRow ELSE app.recent[k]
  BY <1>0, RecentFacts
<1>3. \/ ~Named(app, k) /\ Staged(app)[k] = NoRow
      \/ \E m \in app.acc : m.key = k /\ Staged(app)[k] = Reused(app, m)
  BY <1>0, StagedFacts
<1>4. ASSUME NEW m \in app.acc, m.key = k
      PROVE  /\ Reused(app, m) \in {app.snap[k], app.recovered[k], NoRow}
             /\ app.snap[k] = PinRow => Reused(app, m) = PinRow
  BY <1>4, RowFacts DEF Reused, Sound
<1>5. /\ May(b, Staged(app)[k])
      /\ app.snap[k] = PinRow /\ Named(app, k) => Staged(app)[k] = PinRow
  BY <1>3, <1>4 DEF Sound, May, Named
<1>6. May(b, Recent(app)[k])
  BY <1>2 DEF Sound, May
<1>7. Union(Staged(app), Recent(app))[k] =
          IF Staged(app)[k] # NoRow THEN Staged(app)[k] ELSE Recent(app)[k]
  BY <1>0, StagedFacts, RecentFacts, UnionFacts
<1>8. May(b, H.snap[k]) /\ (app.snap[k] = PinRow => H.snap[k] = PinRow)
  <2>1. app.snap[k] = PinRow => Staged(app)[k] = PinRow \/ (Staged(app)[k] = NoRow /\ Recent(app)[k] = PinRow)
    BY <1>2, <1>3, <1>5 DEF Named
  <2> QED
    BY <1>1, <1>5, <1>6, <1>7, <2>1, RowFacts DEF Sound, May
<1>9. Sound(H, b, k)
  BY <1>1, <1>5, <1>6, <1>8 DEF Sound
<1>10. Kept(H, k)
  <2>1. app.snap[k] = PinRow => Staged(app)[k] = PinRow \/ Recent(app)[k] = PinRow
    BY <1>2, <1>5
  <2>2. H.snap[k] = PinRow => Staged(app)[k] = PinRow \/ Recent(app)[k] = PinRow
    BY <1>1, <1>7, <2>1
  <2> QED
    BY <1>1, <2>2 DEF Kept, Carried
<1> QED
  BY <1>8, <1>9, <1>10

\* So does a listing that begins; keys are not 0.
LEMMA ListingCarries ==
    ASSUME NEW app \in BAppType, NEW k \in BPins, NEW b, Sound(app, b, k)
    PROVE  Sound(Listing(app), b, k) /\ Kept(Listing(app), k) /\ Listing(app).snap = app.snap
<1>1. k \in BKeys /\ k > 0
  BY Keys
<1>2. /\ Listing(app).phase = "list" /\ Listing(app).cont = 0 /\ Listing(app).acc = {}
      /\ Listing(app).queue = {} /\ Listing(app).staged = NoRows /\ Listing(app).cur = <<>>
      /\ Listing(app).snap = app.snap /\ Listing(app).recent = app.recent
      /\ Listing(app).recovered = app.recovered
  BY DEF Listing, BAppType
<1>3. NoRows[k] = NoRow
  BY <1>1, NoRowsType
<1> QED
  BY <1>1, <1>2, <1>3 DEF Sound, Kept, Carried, May

\* Saving the cache changes nothing that is served, and what it saves is sound.
LEMMA SavesCachePins ==
    ASSUME BTypes, NEW app \in BAppType, SavesCache(app), NEW k \in BPins, NEW b,
           Sound(app, b, k), Kept(app, k),
           \A i \in DOMAIN bCache : May(b, bCache[i][k])
    PROVE  /\ Sound(bApp', b, k) /\ Kept(bApp', k) /\ bApp'.snap = app.snap
           /\ \A i \in DOMAIN bCache' : May(b, bCache'[i][k])
<1>1. /\ bApp' = app \/ bApp' = [app EXCEPT !.saved = <<app.snap>>]
      /\ bCache' \in {bCache, <<app.snap>>}
  BY SavesCacheTypes
<1>2. Sound(bApp', b, k) /\ Kept(bApp', k) /\ bApp'.snap = app.snap
  BY <1>1 DEF Sound, Kept, Carried, Named, BAppType
<1>3. \A i \in DOMAIN bCache' : May(b, bCache'[i][k])
  <2>1. CASE bCache' = bCache
    BY <2>1
  <2>2. CASE bCache' = <<app.snap>>
    BY <2>2 DEF Sound
  <2> QED
    BY <1>1, <2>1, <2>2
<1> QED
  BY <1>2, <1>3

\* An object that is there now is as good as one that was there all along.
LEMMA ThereNow ==
    ASSUME NEW app \in BAppType, NEW k \in BPins, NEW b, Sound(app, b, k)
    PROVE  Sound(app, 1, k)
BY DEF Sound, May

\* A page of a listing names the pin of its key.
LEMMA PageCarries ==
    ASSUME BTypes, NEW k \in BPins, Sound(bApp, bBucket[k], k), Kept(bApp, k),
           bApp.phase = "list", NEW key \in BKeys,
           \A j \in BKeys : j > bApp.cont => key <= j
    PROVE  /\ Sound(Paged(key), bBucket[k], k) /\ Kept(Paged(key), k)
           /\ Paged(key).snap = bApp.snap
           /\ bApp.snap[k] = PinRow => bApp.recent[k] = PinRow \/ k > key \/ Named(Paged(key), k)
<1> DEFINE b == bBucket[k]
<1>1. /\ Paged(key).phase = "list" /\ Paged(key).cont = key
      /\ Paged(key).acc = bApp.acc \cup Page(key) /\ Paged(key).queue = bApp.queue
      /\ Paged(key).staged = bApp.staged /\ Paged(key).cur = bApp.cur
      /\ Paged(key).snap = bApp.snap /\ Paged(key).recent = bApp.recent
      /\ Paged(key).recovered = bApp.recovered
  BY DEF Paged, BTypes, BAppType
<1>2. \A m \in Page(key) : m.key = k => m.tag = 1 /\ b = 1
  BY DEF Page, Sound
<1>3. b = 1 => \E m \in Page(k) : m.key = k
  <2>1. b = 1 => [key |-> k, tag |-> 1] \in Page(k)
    BY DEF Page
  <2> QED
    BY <2>1
<1>4. Sound(Paged(key), b, k)
  BY <1>1, <1>2 DEF Sound
<1>5. bApp.snap[k] = PinRow => bApp.recent[k] = PinRow \/ k > key \/ Named(Paged(key), k)
  <2> SUFFICES ASSUME bApp.snap[k] = PinRow, bApp.recent[k] # PinRow
               PROVE  k > key \/ Named(Paged(key), k)
    OBVIOUS
  <2>1. b = 1
    BY RowFacts DEF Sound, May
  <2>2. k > bApp.cont \/ Named(bApp, k)
    BY DEF Kept, Carried
  <2>3. CASE Named(bApp, k)
    BY <1>1, <2>3 DEF Named
  <2>4. CASE k > bApp.cont
    <3>1. k \in Nat /\ key \in Nat /\ key <= k
      BY <2>4, Keys
    <3>2. CASE k = key
      BY <1>1, <1>3, <2>1, <3>2 DEF Named
    <3>3. CASE k # key
      BY <3>1, <3>3
    <3> QED
      BY <3>2, <3>3
  <2> QED
    BY <2>2, <2>3, <2>4
<1>6. Kept(Paged(key), k)
  BY <1>1, <1>5 DEF Kept, Carried
<1> QED
  BY <1>1, <1>4, <1>5, <1>6

\* A window of a pin's object has the pin's bytes, and the last makes it the pin's row.
LEMMA WindowCarries ==
    ASSUME BTypes, NEW k \in BPins, Sound(bApp, bBucket[k], k), Kept(bApp, k), HashWindow
    PROVE  Sound(bApp', bBucket[k], k) /\ Kept(bApp', k) /\ bApp'.snap = bApp.snap
<1> DEFINE job == bApp.cur[1]
           key == job.meta.key
           leaves == Append(job.leaves, bBucket[key])
           staged == [bApp.staged EXCEPT ![key] = Row(job.meta.tag, leaves)]
<1>0. bApp \in BAppType /\ bApp.staged \in BRows /\ k \in BKeys
  BY Keys DEF BTypes, BAppType
<1>1. job \in BJobs /\ key \in BKeys /\ bApp.cur # <<>> /\ bApp.phase = "hash"
  BY JobFacts DEF HashWindow
<1>2. job.leaves \in Seq(BTags) /\ bBucket[key] \in BTags
  BY <1>1 DEF BJobs, BTypes
<1>3. ASSUME key = k
      PROVE  /\ job.meta.tag = 1 /\ bBucket[k] = 1 /\ Len(job.leaves) < BWindows
             /\ Len(leaves) = Len(job.leaves) + 1
             /\ \A i \in 1..Len(leaves) : leaves[i] = 1
  <2>1. /\ job.meta.tag = 1 /\ bBucket[k] = 1 /\ Len(job.leaves) < BWindows
        /\ \A i \in 1..Len(job.leaves) : job.leaves[i] = 1
    BY <1>1, <1>3 DEF Sound
  <2> QED
    BY <1>2, <1>3, <2>1
<1>4. bApp' = IF Len(leaves) < BWindows THEN [bApp EXCEPT !.cur = <<[job EXCEPT !.leaves = leaves]>>]
              ELSE [bApp EXCEPT !.cur = <<>>, !.staged = staged]
  BY <1>0 DEF HashWindow, BAppType
<1>5. ASSUME Len(leaves) < BWindows
      PROVE  Sound(bApp', bBucket[k], k) /\ Kept(bApp', k) /\ bApp'.snap = bApp.snap
  <2> DEFINE next == [job EXCEPT !.leaves = leaves]
  <2>1. next.meta = job.meta /\ next.leaves = leaves
    BY <1>1 DEF BJobs
  <2> HIDE DEF next
  <2>2. bApp' = [bApp EXCEPT !.cur = <<next>>]
    BY <1>4, <1>5 DEF next
  <2>3. /\ bApp'.cur = <<next>> /\ bApp'.cur[1] = next /\ bApp'.phase = bApp.phase /\ bApp'.acc = bApp.acc
        /\ bApp'.queue = bApp.queue /\ bApp'.staged = bApp.staged /\ bApp'.snap = bApp.snap
        /\ bApp'.recent = bApp.recent /\ bApp'.recovered = bApp.recovered /\ bApp'.cont = bApp.cont
    BY <1>0, <2>2 DEF BAppType
  <2>4. next.meta.key = k => /\ next.meta.tag = 1 /\ bBucket[k] = 1 /\ Len(next.leaves) < BWindows
                             /\ \A i \in 1..Len(next.leaves) : next.leaves[i] = 1
    BY <1>3, <1>5, <2>1
  <2>5. Sound(bApp', bBucket[k], k)
    BY <2>3, <2>4 DEF Sound
  <2>6. Kept(bApp', k)
    BY <2>3 DEF Kept, Carried, Named
  <2> QED
    BY <2>3, <2>5, <2>6
<1>6. ASSUME ~(Len(leaves) < BWindows)
      PROVE  Sound(bApp', bBucket[k], k) /\ Kept(bApp', k) /\ bApp'.snap = bApp.snap
  <2>1. key = k => Row(job.meta.tag, leaves) = PinRow /\ bBucket[k] = 1
    <3> SUFFICES ASSUME key = k PROVE Row(job.meta.tag, leaves) = PinRow /\ bBucket[k] = 1
      OBVIOUS
    <3>1. leaves \in Seq(BTags) /\ Len(leaves) = BWindows
      <4>1. leaves \in Seq(BTags) /\ Len(leaves) \in Nat
        BY <1>2
      <4>2. BWindows \in Nat
        BY BucketAssumption DEF BucketAssumption
      <4> QED
        BY <1>3, <1>6, <4>1, <4>2
    <3>2. leaves = Bytes(1)
      <4> HIDE DEF leaves
      <4> QED
        BY <1>3, <3>1, BucketAssumption DEF Bytes, BucketAssumption
    <3> QED
      BY <1>3, <3>2 DEF PinRow
  <2>2. staged[k] = IF key = k THEN Row(job.meta.tag, leaves) ELSE bApp.staged[k]
    BY <1>0 DEF BRows
  <2>3. May(bBucket[k], staged[k]) /\ (bApp.staged[k] = PinRow => staged[k] = PinRow)
    BY <2>1, <2>2 DEF Sound, May
  <2>4. /\ bApp'.cur = <<>> /\ bApp'.phase = bApp.phase /\ bApp'.acc = bApp.acc
        /\ bApp'.queue = bApp.queue /\ bApp'.staged = staged /\ bApp'.snap = bApp.snap
        /\ bApp'.recent = bApp.recent /\ bApp'.recovered = bApp.recovered /\ bApp'.cont = bApp.cont
    <3> HIDE DEF staged, leaves
    <3> QED
      BY <1>0, <1>4, <1>6 DEF BAppType
  <2> HIDE DEF staged, leaves
  <2>5. Sound(bApp', bBucket[k], k)
    BY <2>3, <2>4 DEF Sound
  <2>6. Kept(bApp', k)
    BY <2>3, <2>4 DEF Kept, Carried, Named
  <2> QED
    BY <2>4, <2>5, <2>6
<1> QED
  BY <1>5, <1>6

-------------------------------------------------------------------------------
\* PinInv, of the pin k.
PinOf(k) ==
    /\ Sound(bApp, bBucket[k], k) /\ Kept(bApp, k)
    /\ \A i \in DOMAIN bCache : May(bBucket[k], bCache[i][k])
    /\ k \in bPinned => bApp.snap[k] = PinRow

LEMMA PinsKept ==
    ASSUME BTypes, PinInv, [BNext]_bVars, NEW k \in BPins
    PROVE  PinOf(k)'
<1> USE DEF PinOf
<1>0. /\ bApp \in BAppType /\ k \in BKeys /\ bBucket \in [BKeys -> BTags]
      /\ Sound(bApp, bBucket[k], k) /\ Kept(bApp, k)
      /\ \A i \in DOMAIN bCache : May(bBucket[k], bCache[i][k])
      /\ k \in bPinned => bApp.snap[k] = PinRow
  BY Keys DEF BTypes, PinInv
<1>1. ASSUME ListPage PROVE PinOf(k)'
  <2>1. PICK key \in BKeys :
            /\ key > bApp.cont /\ \A j \in BKeys : j > bApp.cont => key <= j
            /\ bApp' = IF \E j \in BKeys : j > key THEN Paged(key)
                       ELSE IF ~Paged(key).consulted /\ bCache # <<>>
                       THEN [Paged(key) EXCEPT !.phase = "load", !.tries = 0]
                       ELSE Hashing([Paged(key) EXCEPT !.consulted = TRUE])
    BY <1>1 DEF ListPage, Paged, Page
  <2> DEFINE app == Paged(key)
             load == [app EXCEPT !.phase = "load", !.tries = 0]
             read == [app EXCEPT !.consulted = TRUE]
  <2>2. /\ Sound(app, bBucket[k], k) /\ Kept(app, k) /\ app.snap = bApp.snap
        /\ bApp.snap[k] = PinRow => bApp.recent[k] = PinRow \/ k > key \/ Named(app, k)
    BY <1>0, <1>1, <2>1, PageCarries DEF ListPage
  <2>3. app.recent = bApp.recent
    BY DEF Paged, BTypes, BAppType
  <2>4. app \in BAppType /\ load \in BAppType /\ read \in BAppType
    BY PagedFacts
  <2> HIDE DEF app
  <2>5. ASSUME \E j \in BKeys : j > key PROVE PinOf(k)'
    BY <1>0, <1>1, <2>1, <2>2, <2>5 DEF ListPage, app
  <2>6. ASSUME ~\E j \in BKeys : j > key
        PROVE  bApp.snap[k] = PinRow => bApp.recent[k] = PinRow \/ Named(app, k)
    BY <1>0, <2>2, <2>6
  <2>7. ASSUME ~\E j \in BKeys : j > key, bApp' = load PROVE PinOf(k)'
    <3>1. /\ load.phase = "load" /\ load.acc = app.acc /\ load.queue = app.queue
          /\ load.staged = app.staged /\ load.cur = app.cur /\ load.snap = app.snap
          /\ load.recent = app.recent /\ load.recovered = app.recovered
      BY <2>4 DEF BAppType
    <3> HIDE DEF load
    <3>2. Sound(load, bBucket[k], k)
      BY <2>2, <3>1 DEF Sound
    <3>3. Kept(load, k)
      BY <2>2, <2>3, <2>6, <2>7, <3>1 DEF Kept, Carried, Named
    <3> QED
      BY <1>0, <1>1, <2>2, <2>7, <3>1, <3>2, <3>3 DEF ListPage
  <2>8. ASSUME ~\E j \in BKeys : j > key, bApp' = Hashing(read) PROVE PinOf(k)'
    <3>1. /\ read.acc = app.acc /\ read.queue = app.queue
          /\ read.staged = app.staged /\ read.cur = app.cur /\ read.snap = app.snap
          /\ read.recent = app.recent /\ read.recovered = app.recovered
      BY <2>4 DEF BAppType
    <3> HIDE DEF read
    <3>2. Sound(read, bBucket[k], k)
      BY <2>2, <3>1 DEF Sound
    <3>3. read.snap[k] = PinRow => read.recent[k] = PinRow \/ Named(read, k)
      BY <2>2, <2>3, <2>6, <2>8, <3>1 DEF Named
    <3>4. /\ Sound(Hashing(read), bBucket[k], k) /\ Kept(Hashing(read), k)
          /\ read.snap[k] = PinRow => Hashing(read).snap[k] = PinRow
      BY <2>4, <3>2, <3>3, HashingCarries
    <3> QED
      BY <1>0, <1>1, <2>2, <2>8, <3>1, <3>4 DEF ListPage
  <2> QED
    BY <2>1, <2>5, <2>7, <2>8 DEF app
<1>2. ASSUME bApp.phase = "load", NEW app \in BAppType, Sound(app, bBucket[k], k),
             app.snap = bApp.snap, app.acc = bApp.acc, app.recent = bApp.recent,
             bApp' = Hashing(app), UNCHANGED <<bBucket, bCache, bPinned>>
      PROVE  PinOf(k)'
  <2>1. app.snap[k] = PinRow => app.recent[k] = PinRow \/ Named(app, k)
    BY <1>0, <1>2 DEF Kept, Carried, Named
  <2>2. /\ Sound(Hashing(app), bBucket[k], k) /\ Kept(Hashing(app), k)
        /\ app.snap[k] = PinRow => Hashing(app).snap[k] = PinRow
    BY <1>2, <2>1, HashingCarries
  <2> QED
    BY <1>0, <1>2, <2>2
<1>3. ASSUME LoadCache PROVE PinOf(k)'
  <2> DEFINE app == [bApp EXCEPT !.consulted = TRUE, !.recovered = bCache[1], !.saved = bCache]
  <2>1. bCache[1] \in BRows /\ May(bBucket[k], bCache[1][k]) /\ bCache \in Seq(BRows)
    BY <1>0, <1>3, CacheFirst DEF LoadCache, BTypes
  <2>2. app \in BAppType
    BY <1>0, <2>1 DEF BAppType
  <2>3. /\ app.acc = bApp.acc /\ app.queue = bApp.queue /\ app.staged = bApp.staged
        /\ app.cur = bApp.cur /\ app.snap = bApp.snap /\ app.recent = bApp.recent
        /\ app.recovered = bCache[1]
    BY <1>0 DEF BAppType
  <2>4. bApp' = Hashing(app) /\ bApp.phase = "load" /\ UNCHANGED <<bBucket, bCache, bPinned>>
    BY <1>3 DEF LoadCache
  <2> HIDE DEF app
  <2>5. Sound(app, bBucket[k], k)
    BY <1>0, <2>1, <2>3 DEF Sound
  <2> QED
    BY <1>2, <2>2, <2>3, <2>4, <2>5
<1>4. ASSUME LoadFails PROVE PinOf(k)'
  <2> DEFINE app == [bApp EXCEPT !.consulted = TRUE]
             more == [bApp EXCEPT !.tries = bApp.tries + 1]
  <2>1. /\ bApp.phase = "load" /\ UNCHANGED <<bBucket, bCache, bPinned>>
        /\ bApp' = Hashing(app) \/ bApp' = more
    BY <1>4 DEF LoadFails
  <2>2. ASSUME bApp' = Hashing(app) PROVE PinOf(k)'
    <3>1. app \in BAppType
      BY <1>0 DEF BAppType
    <3>2. /\ app.acc = bApp.acc /\ app.queue = bApp.queue /\ app.staged = bApp.staged
          /\ app.cur = bApp.cur /\ app.snap = bApp.snap /\ app.recent = bApp.recent
          /\ app.recovered = bApp.recovered
      BY <1>0 DEF BAppType
    <3> HIDE DEF app
    <3>3. Sound(app, bBucket[k], k)
      BY <1>0, <3>2 DEF Sound
    <3> QED
      BY <1>2, <2>1, <2>2, <3>1, <3>2, <3>3
  <2>3. ASSUME bApp' = more PROVE PinOf(k)'
    <3>1. /\ more.acc = bApp.acc /\ more.queue = bApp.queue /\ more.staged = bApp.staged
          /\ more.cur = bApp.cur /\ more.snap = bApp.snap /\ more.recent = bApp.recent
          /\ more.recovered = bApp.recovered /\ more.phase = bApp.phase /\ more.cont = bApp.cont
      BY <1>0 DEF BAppType
    <3> HIDE DEF more
    <3>2. Sound(more, bBucket[k], k) /\ Kept(more, k)
      BY <1>0, <3>1 DEF Sound, Kept, Carried, Named
    <3> QED
      BY <1>0, <2>1, <2>3, <3>1, <3>2
  <2> QED
    BY <2>1, <2>2, <2>3
<1>5. ASSUME bApp' = Listing(bApp), bBucket'[k] = bBucket[k], UNCHANGED <<bCache, bPinned>>
      PROVE  PinOf(k)'
  BY <1>0, <1>5, ListingCarries
<1>6. ASSUME HashNext PROVE PinOf(k)'
  <2>1. PICK next \in bApp.queue :
            bApp' = [bApp EXCEPT !.queue = bApp.queue \ {next},
                        !.cur = <<[meta |-> next.meta, tries |-> next.tries, leaves |-> <<>>]>>]
    BY <1>6 DEF HashNext
  <2> DEFINE job == [meta |-> next.meta, tries |-> next.tries, leaves |-> <<>>]
  <2>2. job.meta = next.meta /\ Len(job.leaves) = 0
    OBVIOUS
  <2> HIDE DEF job
  <2>3. /\ bApp'.queue = bApp.queue \ {next} /\ bApp'.cur = <<job>> /\ bApp'.cur[1] = job
        /\ bApp'.acc = bApp.acc /\ bApp'.staged = bApp.staged /\ bApp'.snap = bApp.snap
        /\ bApp'.recent = bApp.recent /\ bApp'.recovered = bApp.recovered
        /\ bApp'.phase = bApp.phase /\ bApp'.cont = bApp.cont
    BY <1>0, <2>1 DEF BAppType, job
  <2>4. job.meta.key = k => /\ job.meta.tag = 1 /\ bBucket[k] = 1 /\ Len(job.leaves) < BWindows
                            /\ \A i \in 1..Len(job.leaves) : job.leaves[i] = 1
    <3>1. 0 < BWindows
      BY BucketAssumption DEF BucketAssumption
    <3>2. job.meta.key = k => job.meta.tag = 1 /\ bBucket[k] = 1
      BY <1>0, <2>2 DEF Sound
    <3> QED
      BY <2>2, <3>1, <3>2
  <2>5. Sound(bApp', bBucket[k], k)
    BY <1>0, <2>3, <2>4 DEF Sound
  <2>6. Kept(bApp', k)
    BY <1>0, <2>3 DEF Kept, Carried, Named
  <2> QED
    BY <1>0, <1>6, <2>3, <2>5, <2>6 DEF HashNext
<1>7. ASSUME HashWindow PROVE PinOf(k)'
  <2>1. Sound(bApp', bBucket[k], k) /\ Kept(bApp', k) /\ bApp'.snap = bApp.snap
    BY <1>0, <1>7, WindowCarries
  <2> QED
    BY <1>0, <1>7, <2>1 DEF HashWindow
<1>8. ASSUME HashFails PROVE PinOf(k)'
  <2> DEFINE job == bApp.cur[1]
             again == [meta |-> job.meta, tries |-> job.tries + 1]
  <2>1. /\ bApp.cur # <<>> /\ UNCHANGED <<bBucket, bCache, bPinned>>
        /\ \/ bApp' = [bApp EXCEPT !.cur = <<>>, !.skipped = bApp.skipped \cup {job.meta.key}]
           \/ bApp' = [bApp EXCEPT !.cur = <<>>, !.queue = bApp.queue \cup {again}]
    BY <1>8 DEF HashFails, Failed
  <2>2. again.meta = job.meta
    OBVIOUS
  <2>3. job.meta.key = k => job.meta.tag = 1 /\ bBucket[k] = 1
    BY <1>0, <2>1 DEF Sound
  <2> HIDE DEF job, again
  <2>4. /\ bApp'.cur = <<>> /\ bApp'.queue \in {bApp.queue, bApp.queue \cup {again}}
        /\ bApp'.acc = bApp.acc /\ bApp'.staged = bApp.staged /\ bApp'.snap = bApp.snap
        /\ bApp'.recent = bApp.recent /\ bApp'.recovered = bApp.recovered
        /\ bApp'.phase = bApp.phase /\ bApp'.cont = bApp.cont
    BY <1>0, <2>1 DEF BAppType
  <2>5. \A q \in bApp'.queue : q.meta.key = k => q.meta.tag = 1 /\ bBucket[k] = 1
    BY <1>0, <2>2, <2>3, <2>4 DEF Sound
  <2>6. Sound(bApp', bBucket[k], k)
    BY <1>0, <2>4, <2>5 DEF Sound
  <2>7. Kept(bApp', k)
    BY <1>0, <2>4 DEF Kept, Carried, Named
  <2> QED
    BY <1>0, <2>1, <2>4, <2>6, <2>7
<1>9. ASSUME CommitIndex PROVE PinOf(k)'
  <2> DEFINE whole == Union(bApp.staged, bApp.recent)
             app == [bApp EXCEPT !.phase = "ready", !.snap = whole,
                        !.staged = NoRows, !.indexed = TRUE, !.recovered = NoRows]
  <2>1. whole \in BRows /\ NoRows \in BRows /\ NoRows[k] = NoRow
        /\ whole[k] = IF bApp.staged[k] # NoRow THEN bApp.staged[k] ELSE bApp.recent[k]
    BY <1>0, UnionFacts, NoRowsType DEF BAppType
  <2>2. SavesCache(app) /\ bApp.phase = "hash" /\ UNCHANGED <<bBucket, bPinned>>
    BY <1>9 DEF CommitIndex
  <2>3. May(bBucket[k], whole[k]) /\ (bApp.snap[k] = PinRow => whole[k] = PinRow)
    BY <1>0, <2>1, <2>2, RowFacts DEF Sound, May, Kept, Carried
  <2> HIDE DEF whole
  <2>4. app \in BAppType
    BY <1>0, <2>1 DEF BAppType
  <2>5. /\ app.phase = "ready" /\ app.snap = whole /\ app.staged = NoRows /\ app.recovered = NoRows
        /\ app.acc = bApp.acc /\ app.queue = bApp.queue /\ app.cur = bApp.cur
        /\ app.recent = bApp.recent
    BY <1>0 DEF BAppType
  <2> HIDE DEF app
  <2>6. Sound(app, bBucket[k], k)
    BY <1>0, <2>1, <2>3, <2>5 DEF Sound, May
  <2>7. Kept(app, k)
    BY <2>5 DEF Kept, Carried
  <2>8. /\ Sound(bApp', bBucket[k], k) /\ Kept(bApp', k) /\ bApp'.snap = app.snap
        /\ \A i \in DOMAIN bCache' : May(bBucket[k], bCache'[i][k])
    BY <1>0, <2>2, <2>4, <2>6, <2>7, SavesCachePins
  <2> QED
    BY <1>0, <2>2, <2>3, <2>5, <2>8
<1>10. ASSUME bBucket'[k] \in {bBucket[k], 1}, UNCHANGED <<bApp, bCache, bPinned>>
       PROVE  PinOf(k)'
  <2>1. Sound(bApp, bBucket'[k], k)
    BY <1>0, <1>10, ThereNow
  <2>2. \A i \in DOMAIN bCache : May(bBucket'[k], bCache[i][k])
    BY <1>0, <1>10 DEF May
  <2> QED
    BY <1>0, <1>10, <2>1, <2>2
<1>11. ASSUME NEW p \in BPins, Pin(p) PROVE PinOf(k)'
  <2> DEFINE b == bBucket'[k]
             app == Pinning(p)
  <2>1. bBucket' = [bBucket EXCEPT ![p] = 1] /\ bPinned' = bPinned \cup {p} /\ p \in BKeys
    BY <1>11, Keys DEF Pin
  <2>2. (k = p => b = 1) /\ b \in {bBucket[k], 1}
    BY <1>0, <2>1
  <2>3. Sound(bApp, b, k) /\ \A i \in DOMAIN bCache : May(b, bCache[i][k])
    BY <1>0, <2>2, ThereNow DEF May
  <2>4. ASSUME bApp.snap[p] # NoRow, UNCHANGED <<bApp, bCache, bSpent>> PROVE PinOf(k)'
    <3>1. bApp.snap[p] = PinRow
      BY <2>4 DEF PinInv, Sound, May
    <3> QED
      BY <1>0, <2>1, <2>3, <2>4, <3>1
  <2>5. /\ app \in BAppType
        /\ app.snap = [bApp.snap EXCEPT ![p] = PinRow]
        /\ app.recent = [bApp.recent EXCEPT ![p] = PinRow]
        /\ app.acc = bApp.acc /\ app.queue = bApp.queue /\ app.cur = bApp.cur
        /\ app.staged = bApp.staged /\ app.recovered = bApp.recovered
        /\ app.phase = bApp.phase /\ app.cont = bApp.cont
    <3> DEFINE snap == [bApp.snap EXCEPT ![p] = PinRow]
               recent == [bApp.recent EXCEPT ![p] = PinRow]
    <3>1. app \in BAppType /\ app = [bApp EXCEPT !.snap = snap, !.recent = recent]
      BY PinningFacts
    <3> HIDE DEF app, snap, recent
    <3>2. /\ app.snap = snap /\ app.recent = recent
          /\ app.acc = bApp.acc /\ app.queue = bApp.queue /\ app.cur = bApp.cur
          /\ app.staged = bApp.staged /\ app.recovered = bApp.recovered
          /\ app.phase = bApp.phase /\ app.cont = bApp.cont
      BY <1>0, <3>1 DEF BAppType
    <3> QED
      BY <3>1, <3>2 DEF snap, recent
  <2> HIDE DEF app, b
  <2>6. /\ app.snap[k] = (IF k = p THEN PinRow ELSE bApp.snap[k])
        /\ app.recent[k] = (IF k = p THEN PinRow ELSE bApp.recent[k])
    BY <1>0, <2>1, <2>5 DEF BAppType, BRows
  <2>7. Sound(app, b, k)
    BY <2>2, <2>3, <2>5, <2>6 DEF Sound, May
  <2>8. Kept(app, k)
    BY <1>0, <2>5, <2>6 DEF Kept, Carried, Named
  <2>9. k \in bPinned' => app.snap[k] = PinRow
    BY <1>0, <2>1, <2>6
  <2>10. ASSUME SavesCache(app) PROVE PinOf(k)'
    <3>1. /\ Sound(bApp', b, k) /\ Kept(bApp', k) /\ bApp'.snap = app.snap
          /\ \A i \in DOMAIN bCache' : May(b, bCache'[i][k])
      BY <2>3, <2>5, <2>7, <2>8, <2>10, SavesCachePins
    <3> QED
      BY <2>9, <3>1 DEF b
  <2>11. ASSUME bApp' = app, UNCHANGED <<bCache, bSpent>> PROVE PinOf(k)'
    BY <2>3, <2>7, <2>8, <2>9, <2>11 DEF b
  <2> QED
    BY <1>11, <2>4, <2>10, <2>11 DEF Pin, app, Pinning, PinRow
<1>12. ASSUME NEW p \in BPins, PinFails(p) PROVE PinOf(k)'
  BY <1>0, <1>10, <1>12 DEF PinFails
<1>13. ASSUME NEW p \in BPlain, Alter(p)
       PROVE  bBucket'[k] = bBucket[k] /\ UNCHANGED <<bCache, bPinned>>
  BY <1>0, <1>13, Keys DEF Alter
<1>14. ASSUME BRestart PROVE PinOf(k)'
  <2>1. bApp' = Booting /\ bPinned' = {} /\ UNCHANGED <<bBucket, bCache>>
    BY <1>14 DEF BRestart
  <2>2. /\ Booting.snap = NoRows /\ Booting.recent = NoRows /\ Booting.staged = NoRows
        /\ Booting.recovered = NoRows /\ Booting.acc = {} /\ Booting.queue = {}
        /\ Booting.cur = <<>> /\ NoRows[k] = NoRow
    BY <1>0, NoRowsType DEF Booting
  <2>3. Sound(Booting, bBucket[k], k) /\ Kept(Booting, k)
    BY <1>0, <2>2, RowFacts DEF Sound, Kept, May
  <2> QED
    BY <1>0, <2>1, <2>3
<1>15. CASE UNCHANGED bVars
  BY <1>0, <1>15 DEF bVars
<1>16. ASSUME RefreshDue \/ ApiRefresh PROVE PinOf(k)'
  BY <1>5, <1>16 DEF RefreshDue, ApiRefresh
<1>17. ASSUME NEW p \in BPlain, UploadOrDelete(p) PROVE PinOf(k)'
  BY <1>5, <1>13, <1>17 DEF UploadOrDelete
<1>18. ASSUME NEW p \in BPlain, Elsewhere(p) PROVE PinOf(k)'
  BY <1>10, <1>13, <1>18 DEF Elsewhere
<1> QED
  BY <1>1, <1>3, <1>4, <1>6, <1>7, <1>8, <1>9, <1>11, <1>12, <1>14, <1>15, <1>16, <1>17, <1>18
  DEF BNext, BTick

LEMMA PinsStart == BInit => BTypes /\ PinInv
<1> SUFFICES ASSUME BInit PROVE BTypes /\ PinInv
  OBVIOUS
<1>1. bApp \in BAppType
  BY BootingType DEF BInit
<1>2. bBucket \in [BKeys -> BTags] /\ bCache \in Seq(BRows) /\ bPinned \subseteq BPins
  BY Tags DEF BInit
<1>3. bSpent \in [changes : 0..BMaxChanges, faults : 0..BMaxFaults, restarts : 0..BMaxRestarts]
  BY BucketAssumption DEF BInit, BucketAssumption
<1>4. ASSUME NEW k \in BPins PROVE PinOf(k)
  <2>1. k \in BKeys /\ bBucket[k] \in {0, 1} /\ NoRows[k] = NoRow
    BY Keys, NoRowsType DEF BInit
  <2>2. /\ bApp.snap = NoRows /\ bApp.recent = NoRows /\ bApp.staged = NoRows
        /\ bApp.recovered = NoRows /\ bApp.acc = {} /\ bApp.queue = {} /\ bApp.cur = <<>>
    BY DEF BInit, Booting
  <2>3. Sound(bApp, bBucket[k], k) /\ Kept(bApp, k)
    BY <2>1, <2>2, RowFacts DEF Sound, Kept, May
  <2> QED
    BY <2>3 DEF BInit, PinOf
<1> QED
  BY <1>1, <1>2, <1>3, <1>4 DEF BTypes, PinInv, PinOf

\* Whatever listings, hashes, commits, failures and restarts do, a pin that this process
\* answered is served, with the digests of its bytes (merge_commits, recent_uploads and
\* start_hash of s3-ipfs-adapter/src/main.rs).
THEOREM PinsStayServed == BSpec => []PinsServed
<1>1. BInit => BTypes /\ PinInv
  BY PinsStart
<1>2. BTypes /\ PinInv /\ [BNext]_bVars => BTypes' /\ PinInv'
  <2> SUFFICES ASSUME BTypes, PinInv, [BNext]_bVars PROVE BTypes' /\ PinInv'
    OBVIOUS
  <2>1. BTypes'
    BY TypesKept
  <2>2. ASSUME NEW k \in BPins PROVE PinOf(k)'
    BY PinsKept
  <2> QED
    BY <2>1, <2>2 DEF PinInv, PinOf
<1>3. BTypes /\ PinInv => PinsServed
  BY DEF BTypes, PinInv, PinsServed, PinRow
<1> QED
  BY <1>1, <1>2, <1>3, PTL DEF BSpec

-------------------------------------------------------------------------------
(***************************************************************************)
(* The cache keeps its rows.  What is true of a pin is true of every key,  *)
(* with a version in place of the one a pin has: a version an object gets  *)
(* is newer than all that was listed, read or saved before, so a row of    *)
(* the object's version was read from that version alone; and while the    *)
(* snapshot or the cache has that row, the next commit will have it, or    *)
(* gives the object up.                                                    *)
(***************************************************************************)
Right(b) == Row(b, Bytes(b))

\* A row that is no newer than version n, of a key whose object has version b.
Fits(n, b, row) == row.tag <= n /\ (b # 0 /\ row.tag = b => row = Right(b))

\* What an index under way holds of a key k that is no pin, after n versions.
Plain(app, n, b, k) ==
    /\ app.recent[k] = NoRow
    /\ Fits(n, b, app.snap[k]) /\ Fits(n, b, app.staged[k]) /\ Fits(n, b, app.recovered[k])
    /\ \A m \in app.acc : m.key = k => m.tag <= n
    /\ \A q \in app.queue : q.meta.key = k => q.meta.tag <= n
    /\ app.cur # <<>> /\ app.cur[1].meta.key = k =>
           /\ app.cur[1].meta.tag <= n /\ Len(app.cur[1].leaves) < BWindows
           /\ app.cur[1].meta.tag = b =>
                  \A i \in 1..Len(app.cur[1].leaves) : app.cur[1].leaves[i] = b

PlainAt(app, cache, n, b, k) ==
    /\ b <= n /\ Plain(app, n, b, k)
    /\ \A i \in DOMAIN cache : Fits(n, b, cache[i][k])

PlainInv == \A k \in BPlain : PlainAt(bApp, bCache, bSpent.changes + 1, bBucket[k], k)

\* Of any key: the rows of its version are right.
Clear(app, b, k) ==
    /\ app.recent[k] \in {NoRow, Right(b)}
    /\ app.snap[k].tag = b => app.snap[k] = Right(b)
    /\ app.recovered[k].tag = b => app.recovered[k] = Right(b)
    /\ app.cur # <<>> /\ app.cur[1].meta.key = k /\ app.cur[1].meta.tag = b =>
           /\ Len(app.cur[1].leaves) < BWindows
           /\ \A i \in 1..Len(app.cur[1].leaves) : app.cur[1].leaves[i] = b

\* What is under way is about its version, ...
Straight(app, b, k) ==
    /\ app.staged[k] \in {NoRow, Right(b)}
    /\ app.phase \in {"list", "load"} => \A m \in app.acc : m.key = k => m.tag = b
    /\ \A q \in app.queue : q.meta.key = k => q.meta.tag = b
    /\ app.cur # <<>> /\ app.cur[1].meta.key = k => app.cur[1].meta.tag = b

\* ... and leads to it, or the object is given up.
Coming(app, b, k) ==
    \/ app.recent[k] = Right(b)
    \/ app.phase = "list" /\ (k > app.cont \/ Named(app, k))
    \/ app.phase = "load" /\ Named(app, k)
    \/ app.phase = "hash" /\ \/ app.staged[k] = Right(b) \/ k \in app.skipped
                             \/ \E q \in app.queue : q.meta.key = k
                             \/ app.cur # <<>> /\ app.cur[1].meta.key = k
    \/ app.phase = "ready"

Cached(cache, b, k) == cache # <<>> /\ cache[1][k] = Right(b)
Held(app, cache, b, k) == b # 0 /\ (app.snap[k] = Right(b) \/ Cached(cache, b, k))

Holds(app, cache, b, k) ==
    /\ Held(app, cache, b, k) => Straight(app, b, k) /\ Coming(app, b, k)
    /\ b # 0 /\ app.indexed /\ Cached(cache, b, k) => app.snap[k] \in {NoRow, Right(b)}

HoldsInv == \A k \in BKeys : Holds(bApp, bCache, bBucket[k], k)

-------------------------------------------------------------------------------
\* Versions and rows.

LEMMA Versions ==
    ASSUME BTypes
    PROVE  /\ BTags \subseteq Nat /\ bSpent.changes \in Nat /\ bSpent.changes + 1 \in Nat
           /\ \A k \in BKeys : bBucket[k] \in Nat
<1>1. BMaxChanges \in Nat
  BY BucketAssumption DEF BucketAssumption
<1> QED
  BY <1>1 DEF BTypes, BTags

LEMMA RightFacts ==
    ASSUME NEW b \in Nat
    PROVE  Right(b).tag = b /\ (b # 0 => Right(b) # NoRow) /\ Right(1) = PinRow
BY DEF Right, PinRow, NoRow, Row

LEMMA RowTags ==
    ASSUME NEW app \in BAppType, NEW k \in BKeys
    PROVE  /\ app.snap[k].tag \in BTags /\ app.staged[k].tag \in BTags
           /\ app.recovered[k].tag \in BTags /\ app.recent[k].tag \in BTags
           /\ \A m \in app.acc : m.tag \in BTags /\ m.key \in BKeys
           /\ \A q \in app.queue : q.meta.tag \in BTags /\ q.meta.key \in BKeys
           /\ app.cur # <<>> => app.cur[1] \in BJobs /\ app.cur[1].meta.tag \in BTags
                                /\ app.cur[1].meta.tag # 0 /\ app.cur[1].meta.key \in BKeys
<1>1. /\ app.snap \in BRows /\ app.staged \in BRows /\ app.recovered \in BRows /\ app.recent \in BRows
      /\ app.acc \in SUBSET BMeta /\ app.queue \in SUBSET BWaiting /\ app.cur \in Seq(BJobs)
  BY DEF BAppType
<1>2. app.cur # <<>> => app.cur[1] \in BJobs
  BY <1>1
<1> QED
  BY <1>1, <1>2 DEF BRows, BMeta, BWaiting, BJobs

\* Of a plain key, what Plain says is enough; of a pin, what Sound says.
LEMMA PlainIsClear ==
    ASSUME NEW app \in BAppType, NEW k \in BKeys, NEW n \in Nat, NEW b \in Nat, b # 0,
           Plain(app, n, b, k)
    PROVE  Clear(app, b, k)
BY DEF Plain, Fits, Clear

LEMMA PinIsClear ==
    ASSUME NEW app \in BAppType, NEW k \in BPins, NEW b \in Nat, b # 0, Sound(app, b, k)
    PROVE  Clear(app, b, k) /\ Straight(app, b, k)
<1>1. b = 1 /\ Right(b) = PinRow /\ NoRow.tag = 0
  BY RightFacts, RowFacts DEF Sound
<1>2. /\ app.snap[k] \in {NoRow, PinRow} /\ app.recent[k] \in {NoRow, PinRow}
      /\ app.staged[k] \in {NoRow, PinRow} /\ app.recovered[k] \in {NoRow, PinRow}
  BY DEF Sound, May
<1>3. Clear(app, b, k)
  BY <1>1, <1>2 DEF Clear, Sound
<1>4. Straight(app, b, k)
  BY <1>1, <1>2 DEF Straight, Sound
<1> QED
  BY <1>3, <1>4

LEMMA NoRowFits ==
    ASSUME NEW n \in Nat, NEW b \in Nat
    PROVE  Fits(n, b, NoRow)
BY RowFacts DEF Fits

\* A version that is new, or none, is in no row yet.
LEMMA NewVersion ==
    ASSUME NEW app \in BAppType, NEW cache \in Seq(BRows), NEW k \in BKeys, NEW n \in Nat, NEW b \in Nat,
           PlainAt(app, cache, n, b, k), NEW c \in {0, b, n + 1}
    PROVE  PlainAt(app, cache, n + 1, c, k)
<1>1. \A x \in BTags : x \in Nat
  BY BucketAssumption DEF BTags, BucketAssumption
<1>2. ASSUME NEW row, row.tag \in BTags, Fits(n, b, row)
      PROVE  Fits(n + 1, c, row)
  BY <1>1, <1>2 DEF Fits
<1>3. \A i \in DOMAIN cache : cache[i][k].tag \in BTags
  BY DEF BRows
<1>4. \A i \in DOMAIN cache : Fits(n + 1, c, cache[i][k])
  BY <1>2, <1>3 DEF PlainAt
<1>5. /\ app.snap[k].tag \in BTags /\ app.staged[k].tag \in BTags /\ app.recovered[k].tag \in BTags
      /\ \A m \in app.acc : m.tag \in BTags
      /\ \A q \in app.queue : q.meta.tag \in BTags
      /\ app.cur # <<>> => app.cur[1].meta.tag \in BTags /\ app.cur[1].meta.tag # 0
  BY RowTags
<1>6. /\ app.recent[k] = NoRow
      /\ Fits(n + 1, c, app.snap[k]) /\ Fits(n + 1, c, app.staged[k]) /\ Fits(n + 1, c, app.recovered[k])
  BY <1>2, <1>5 DEF PlainAt, Plain
<1>7. /\ \A m \in app.acc : m.key = k => m.tag <= n + 1
      /\ \A q \in app.queue : q.meta.key = k => q.meta.tag <= n + 1
  <2>1. \A x \in BTags : x <= n => x <= n + 1
    BY <1>1
  <2> QED
    BY <1>5, <2>1 DEF PlainAt, Plain
<1>8. app.cur # <<>> /\ app.cur[1].meta.key = k =>
          /\ app.cur[1].meta.tag <= n + 1 /\ Len(app.cur[1].leaves) < BWindows
          /\ app.cur[1].meta.tag = c => \A i \in 1..Len(app.cur[1].leaves) : app.cur[1].leaves[i] = c
  <2> SUFFICES ASSUME app.cur # <<>>, app.cur[1].meta.key = k
               PROVE  /\ app.cur[1].meta.tag <= n + 1 /\ Len(app.cur[1].leaves) < BWindows
                      /\ app.cur[1].meta.tag = c =>
                             \A i \in 1..Len(app.cur[1].leaves) : app.cur[1].leaves[i] = c
    OBVIOUS
  <2>1. /\ app.cur[1].meta.tag <= n /\ Len(app.cur[1].leaves) < BWindows
        /\ app.cur[1].meta.tag = b => \A i \in 1..Len(app.cur[1].leaves) : app.cur[1].leaves[i] = b
    BY DEF PlainAt, Plain
  <2>2. \A x \in BTags : x <= n => x <= n + 1 /\ x # n + 1
    BY <1>1
  <2>3. app.cur[1].meta.tag = c => c = b
    BY <1>5, <2>1, <2>2
  <2> QED
    BY <1>5, <2>1, <2>2, <2>3
<1>9. Plain(app, n + 1, c, k)
  BY <1>6, <1>7, <1>8 DEF Plain
<1>10. c <= n + 1
  BY DEF PlainAt
<1> QED
  BY <1>4, <1>9, <1>10 DEF PlainAt

-------------------------------------------------------------------------------
\* What the steps make of it.

LEMMA HashingPlain ==
    ASSUME NEW app \in BAppType, NEW k \in BPlain, NEW n \in Nat, NEW b \in Nat, Plain(app, n, b, k)
    PROVE  Plain(Hashing(app), n, b, k)
<1> DEFINE H == Hashing(app)
<1>0. k \in BKeys
  BY Keys
<1>1. /\ H.acc = {} /\ H.cur = <<>>
      /\ H.recent = Recent(app) /\ H.staged = Staged(app) /\ H.recovered = app.recovered
      /\ H.snap \in {app.snap, Union(Staged(app), Recent(app))}
      /\ \A q \in H.queue : q.meta \in app.acc
  BY HashingFacts
<1>2. Recent(app)[k] = NoRow
  BY <1>0, RecentFacts DEF Plain
<1>3. Fits(n, b, NoRow)
  BY NoRowFits
<1>4. \A m \in app.acc : Reused(app, m) = NoRow \/ (m.key = k => Fits(n, b, Reused(app, m)))
  BY DEF Reused, Plain
<1>5. Fits(n, b, Staged(app)[k])
  BY <1>0, <1>3, <1>4, StagedFacts
<1>6. Union(Staged(app), Recent(app))[k] =
          IF Staged(app)[k] # NoRow THEN Staged(app)[k] ELSE Recent(app)[k]
  BY <1>0, StagedFacts, RecentFacts, UnionFacts
<1>7. Fits(n, b, H.snap[k])
  BY <1>1, <1>2, <1>3, <1>5, <1>6 DEF Plain
<1> QED
  BY <1>1, <1>2, <1>5, <1>7 DEF Plain

LEMMA HashingHolds ==
    ASSUME NEW app \in BAppType, NEW k \in BKeys, NEW cache, NEW b \in Nat, Clear(app, b, k),
           app.phase \in {"list", "load"}, Holds(app, cache, b, k),
           Held(app, cache, b, k) => app.recent[k] = Right(b) \/ Named(app, k)
    PROVE  Holds(Hashing(app), cache, b, k)
<1> DEFINE H == Hashing(app)
           S == Staged(app)[k]
           T == Recent(app)[k]
<1>1. /\ H.phase = "hash" /\ H.acc = {} /\ H.cur = <<>>
      /\ H.recent = Recent(app) /\ H.staged = Staged(app)
      /\ H.snap \in {app.snap, Union(Staged(app), Recent(app))}
  BY HashingFacts
<1>2. /\ \A q \in H.queue : q.meta \in app.acc /\ Staged(app)[q.meta.key] = NoRow
      /\ \A m \in app.acc : Staged(app)[m.key] = NoRow => \E q \in H.queue : q.meta = m
      /\ H.indexed = app.indexed /\ (app.indexed => H.snap = app.snap)
  BY HashingQueues
<1>3. T = IF Named(app, k) THEN NoRow ELSE app.recent[k]
  BY RecentFacts
<1>4. \/ ~Named(app, k) /\ S = NoRow
      \/ \E m \in app.acc : m.key = k /\ S = Reused(app, m)
  BY StagedFacts
<1>5. Union(Staged(app), Recent(app))[k] = IF S # NoRow THEN S ELSE T
  BY StagedFacts, RecentFacts, UnionFacts
<1>6. b # 0 => Right(b) # NoRow
  BY RightFacts
<1>7. ASSUME Held(app, cache, b, k)
      PROVE  Straight(H, b, k) /\ Coming(H, b, k)
  <2>1. Straight(app, b, k)
    BY <1>7 DEF Holds
  <2>2. S \in {NoRow, Right(b)}
    BY <1>4, <2>1 DEF Straight, Clear, Reused
  <2>3. Straight(H, b, k)
    BY <1>1, <1>2, <2>1, <2>2 DEF Straight
  <2>4. CASE Named(app, k)
    <3>1. PICK m \in app.acc : m.key = k
      BY <2>4 DEF Named
    <3>2. S = NoRow => \E q \in H.queue : q.meta.key = k
      BY <1>2, <3>1
    <3> QED
      BY <1>1, <2>2, <2>3, <3>2 DEF Coming
  <2>5. CASE ~Named(app, k)
    <3>1. T = Right(b)
      BY <1>3, <1>7, <2>5
    <3> QED
      BY <1>1, <2>3, <3>1 DEF Coming
  <2> QED
    BY <2>4, <2>5
<1>8. ASSUME Held(H, cache, b, k), ~Held(app, cache, b, k)
      PROVE  Straight(H, b, k) /\ Coming(H, b, k)
  <2>1. b # 0 /\ H.snap[k] = Right(b) /\ app.snap[k] # Right(b)
    BY <1>8 DEF Held
  <2>2. (IF S # NoRow THEN S ELSE T) = Right(b)
    BY <1>1, <1>5, <2>1
  <2>3. \A q \in H.queue : q.meta.key # k
    <3>1. CASE S # NoRow
      BY <1>2, <3>1
    <3>2. CASE S = NoRow
      <4>1. T = Right(b) /\ ~Named(app, k)
        BY <1>3, <1>6, <2>1, <2>2, <3>2
      <4> QED
        BY <1>2, <4>1 DEF Named
    <3> QED
      BY <3>1, <3>2
  <2>4. S \in {NoRow, Right(b)}
    BY <2>2
  <2> QED
    BY <1>1, <2>2, <2>3, <2>4 DEF Straight, Coming
<1>9. Held(H, cache, b, k) => Straight(H, b, k) /\ Coming(H, b, k)
  BY <1>7, <1>8
<1>10. b # 0 /\ H.indexed /\ Cached(cache, b, k) => H.snap[k] \in {NoRow, Right(b)}
  BY <1>2 DEF Holds
<1> QED
  BY <1>9, <1>10 DEF Holds

LEMMA ListingShape ==
    ASSUME NEW app \in BAppType
    PROVE  /\ Listing(app).phase = "list" /\ Listing(app).cont = 0 /\ Listing(app).acc = {}
           /\ Listing(app).queue = {} /\ Listing(app).staged = NoRows /\ Listing(app).cur = <<>>
           /\ Listing(app).snap = app.snap /\ Listing(app).recent = app.recent
           /\ Listing(app).recovered = app.recovered /\ Listing(app).indexed = app.indexed
BY DEF Listing, BAppType

LEMMA ListingPlain ==
    ASSUME NEW app \in BAppType, NEW k \in BPlain, NEW n \in Nat, NEW b \in Nat, Plain(app, n, b, k)
    PROVE  Plain(Listing(app), n, b, k)
<1>1. NoRows[k] = NoRow
  BY Keys, NoRowsType
<1> QED
  BY <1>1, ListingShape, NoRowFits DEF Plain

LEMMA ListingHolds ==
    ASSUME NEW app \in BAppType, NEW k \in BKeys, NEW cache, NEW b \in Nat, Holds(app, cache, b, k)
    PROVE  Holds(Listing(app), cache, b, k)
<1>1. NoRows[k] = NoRow /\ k > 0
  BY Keys, NoRowsType
<1>2. Straight(Listing(app), b, k) /\ Coming(Listing(app), b, k)
  BY <1>1, ListingShape DEF Straight, Coming
<1> QED
  BY <1>2, ListingShape DEF Holds

\* Saving changes nothing that is under way; what it writes is what is served.
LEMMA SavesPlain ==
    ASSUME BTypes, NEW app \in BAppType, SavesCache(app), NEW k \in BPlain, NEW n \in Nat, NEW b \in Nat,
           PlainAt(app, bCache, n, b, k)
    PROVE  PlainAt(bApp', bCache', n, b, k)
<1>1. /\ bApp' = app \/ bApp' = [app EXCEPT !.saved = <<app.snap>>]
      /\ bCache' \in {bCache, <<app.snap>>}
  BY SavesCacheTypes
<1>2. Plain(bApp', n, b, k)
  BY <1>1 DEF PlainAt, Plain, BAppType
<1>3. \A i \in DOMAIN bCache' : Fits(n, b, bCache'[i][k])
  <2>1. CASE bCache' = bCache
    BY <2>1 DEF PlainAt
  <2>2. CASE bCache' = <<app.snap>>
    BY <2>2 DEF PlainAt, Plain
  <2> QED
    BY <1>1, <2>1, <2>2
<1> QED
  BY <1>2, <1>3 DEF PlainAt

LEMMA SavesHolds ==
    ASSUME BTypes, NEW app \in BAppType, SavesCache(app), NEW k \in BKeys, NEW b \in Nat,
           Holds(app, bCache, b, k)
    PROVE  Holds(bApp', bCache', b, k)
<1>1. /\ bApp' = app \/ bApp' = [app EXCEPT !.saved = <<app.snap>>]
      /\ bCache' \in {bCache, <<app.snap>>}
  BY SavesCacheTypes
<1>2. /\ bApp'.phase = app.phase /\ bApp'.cont = app.cont /\ bApp'.acc = app.acc
      /\ bApp'.queue = app.queue /\ bApp'.staged = app.staged /\ bApp'.cur = app.cur
      /\ bApp'.snap = app.snap /\ bApp'.recent = app.recent /\ bApp'.indexed = app.indexed
      /\ bApp'.skipped = app.skipped
  BY <1>1 DEF BAppType
<1>3. /\ Straight(app, b, k) => Straight(bApp', b, k)
      /\ Coming(app, b, k) => Coming(bApp', b, k)
  BY <1>2 DEF Straight, Coming, Named
<1>4. Cached(bCache', b, k) => Cached(bCache, b, k) \/ app.snap[k] = Right(b)
  BY <1>1 DEF Cached
<1> QED
  BY <1>2, <1>3, <1>4 DEF Holds, Held

LEMMA PagedShape ==
    ASSUME BTypes, NEW key \in BKeys
    PROVE  /\ Paged(key).phase = bApp.phase /\ Paged(key).cont = key
           /\ Paged(key).acc = bApp.acc \cup Page(key) /\ Paged(key).queue = bApp.queue
           /\ Paged(key).staged = bApp.staged /\ Paged(key).cur = bApp.cur
           /\ Paged(key).snap = bApp.snap /\ Paged(key).recent = bApp.recent
           /\ Paged(key).recovered = bApp.recovered /\ Paged(key).indexed = bApp.indexed
BY DEF Paged, BTypes, BAppType

LEMMA PagedPlain ==
    ASSUME BTypes, NEW k \in BPlain, NEW n \in Nat, bBucket[k] <= n, Plain(bApp, n, bBucket[k], k),
           NEW key \in BKeys
    PROVE  Plain(Paged(key), n, bBucket[k], k)
<1>1. \A m \in Page(key) : m.key = k => m.tag <= n
  BY DEF Page
<1> QED
  BY <1>1, PagedShape DEF Plain

LEMMA PagedHolds ==
    ASSUME BTypes, NEW k \in BKeys, Clear(bApp, bBucket[k], k), Holds(bApp, bCache, bBucket[k], k),
           bApp.phase = "list", NEW key \in BKeys, \A j \in BKeys : j > bApp.cont => key <= j
    PROVE  /\ Clear(Paged(key), bBucket[k], k) /\ Holds(Paged(key), bCache, bBucket[k], k)
           /\ Held(Paged(key), bCache, bBucket[k], k) =>
                  bApp.recent[k] = Right(bBucket[k]) \/ k > key \/ Named(Paged(key), k)
<1> DEFINE b == bBucket[k]
<1>1. b # 0 => \E m \in Page(k) : m.key = k
  <2>1. b # 0 => [key |-> k, tag |-> b] \in Page(k)
    BY DEF Page
  <2> QED
    BY <2>1
<1>2. \A m \in Page(key) : m.key = k => m.tag = b
  BY DEF Page
<1>3. Clear(Paged(key), b, k)
  BY PagedShape DEF Clear
<1>4. Held(Paged(key), bCache, b, k) => Held(bApp, bCache, b, k)
  BY PagedShape DEF Held
<1>5. ASSUME Held(bApp, bCache, b, k)
      PROVE  bApp.recent[k] = Right(b) \/ k > key \/ Named(Paged(key), k)
  <2>1. Coming(bApp, b, k) /\ b # 0
    BY <1>5 DEF Holds, Held
  <2>2. CASE bApp.recent[k] = Right(b)
    BY <2>2
  <2>3. CASE Named(bApp, k)
    BY <2>3, PagedShape DEF Named
  <2>4. CASE k > bApp.cont
    <3>1. k \in Nat /\ key \in Nat /\ key <= k
      BY <2>4, Keys
    <3>2. CASE k = key
      BY <1>1, <2>1, <3>2, PagedShape DEF Named
    <3>3. CASE k # key
      BY <3>1, <3>3
    <3> QED
      BY <3>2, <3>3
  <2> QED
    BY <2>1, <2>2, <2>3, <2>4 DEF Coming
<1>6. Held(bApp, bCache, b, k) => Straight(Paged(key), b, k) /\ Coming(Paged(key), b, k)
  <2>1. Held(bApp, bCache, b, k) => Straight(Paged(key), b, k)
    BY <1>2, PagedShape DEF Holds, Straight
  <2>2. Held(bApp, bCache, b, k) => Coming(Paged(key), b, k)
    BY <1>5, PagedShape DEF Coming
  <2> QED
    BY <2>1, <2>2
<1>7. b # 0 /\ Paged(key).indexed /\ Cached(bCache, b, k) => Paged(key).snap[k] \in {NoRow, Right(b)}
  BY PagedShape DEF Holds
<1> QED
  BY <1>3, <1>4, <1>5, <1>6, <1>7 DEF Holds

LEMMA NextShape ==
    ASSUME BTypes, HashNext
    PROVE  \E next \in bApp.queue, job \in BJobs :
               /\ job.meta = next.meta /\ job.leaves = <<>>
               /\ bApp'.queue = bApp.queue \ {next} /\ bApp'.cur = <<job>>
               /\ bApp'.phase = bApp.phase /\ bApp'.acc = bApp.acc /\ bApp'.staged = bApp.staged
               /\ bApp'.snap = bApp.snap /\ bApp'.recent = bApp.recent
               /\ bApp'.recovered = bApp.recovered /\ bApp'.indexed = bApp.indexed
               /\ bApp'.skipped = bApp.skipped
<1>1. PICK next \in bApp.queue :
          bApp' = [bApp EXCEPT !.queue = bApp.queue \ {next},
                      !.cur = <<[meta |-> next.meta, tries |-> next.tries, leaves |-> <<>>]>>]
  BY DEF HashNext
<1> DEFINE job == [meta |-> next.meta, tries |-> next.tries, leaves |-> <<>>]
<1>2. next \in BWaiting
  BY DEF BTypes, BAppType
<1>3. job \in BJobs /\ job.meta = next.meta /\ job.leaves = <<>>
  BY <1>2 DEF BWaiting, BJobs
<1> HIDE DEF job
<1>4. /\ bApp'.queue = bApp.queue \ {next} /\ bApp'.cur = <<job>>
      /\ bApp'.phase = bApp.phase /\ bApp'.acc = bApp.acc /\ bApp'.staged = bApp.staged
      /\ bApp'.snap = bApp.snap /\ bApp'.recent = bApp.recent
      /\ bApp'.recovered = bApp.recovered /\ bApp'.indexed = bApp.indexed
      /\ bApp'.skipped = bApp.skipped
  BY <1>1 DEF BTypes, BAppType, job
<1> QED
  BY <1>3, <1>4

\* A window is added, or is the last.
LEMMA WindowShape ==
    ASSUME BTypes, HashWindow
    PROVE  LET job == bApp.cur[1]
               key == job.meta.key
               leaves == Append(job.leaves, bBucket[key])
           IN  /\ bApp.phase = "hash" /\ bApp.cur # <<>> /\ job \in BJobs /\ key \in BKeys
               /\ bApp'.phase = bApp.phase /\ bApp'.acc = bApp.acc /\ bApp'.queue = bApp.queue
               /\ bApp'.snap = bApp.snap /\ bApp'.recent = bApp.recent
               /\ bApp'.recovered = bApp.recovered /\ bApp'.indexed = bApp.indexed
               /\ bApp'.skipped = bApp.skipped
               /\ \/ /\ Len(leaves) < BWindows /\ bApp'.staged = bApp.staged
                     /\ bApp'.cur # <<>> /\ bApp'.cur[1].meta = job.meta
                     /\ bApp'.cur[1].leaves = leaves
                  \/ /\ ~(Len(leaves) < BWindows) /\ bApp'.cur = <<>>
                     /\ bApp'.staged = [bApp.staged EXCEPT ![key] = Row(job.meta.tag, leaves)]
<1> DEFINE job == bApp.cur[1]
           key == job.meta.key
           leaves == Append(job.leaves, bBucket[key])
           staged == [bApp.staged EXCEPT ![key] = Row(job.meta.tag, leaves)]
           next == [job EXCEPT !.leaves = leaves]
<1>0. bApp \in BAppType
  BY DEF BTypes
<1>1. job \in BJobs /\ key \in BKeys /\ bApp.cur # <<>> /\ bApp.phase = "hash"
  BY JobFacts DEF HashWindow
<1>2. next.meta = job.meta /\ next.leaves = leaves
  BY <1>1 DEF BJobs
<1>3. bApp' = IF Len(leaves) < BWindows THEN [bApp EXCEPT !.cur = <<next>>]
              ELSE [bApp EXCEPT !.cur = <<>>, !.staged = staged]
  BY <1>0 DEF HashWindow, BAppType
<1> HIDE DEF next, staged, leaves, key, job
<1>4. CASE Len(leaves) < BWindows
  <2>1. /\ bApp'.cur = <<next>> /\ bApp'.staged = bApp.staged
        /\ bApp'.phase = bApp.phase /\ bApp'.acc = bApp.acc /\ bApp'.queue = bApp.queue
        /\ bApp'.snap = bApp.snap /\ bApp'.recent = bApp.recent
        /\ bApp'.recovered = bApp.recovered /\ bApp'.indexed = bApp.indexed
        /\ bApp'.skipped = bApp.skipped
    BY <1>0, <1>3, <1>4 DEF BAppType
  <2>2. bApp'.cur # <<>> /\ bApp'.cur[1] = next
    BY <2>1
  <2> QED
    BY <1>1, <1>2, <1>4, <2>1, <2>2 DEF leaves, key, job
<1>5. CASE ~(Len(leaves) < BWindows)
  <2>1. /\ bApp'.cur = <<>> /\ bApp'.staged = staged
        /\ bApp'.phase = bApp.phase /\ bApp'.acc = bApp.acc /\ bApp'.queue = bApp.queue
        /\ bApp'.snap = bApp.snap /\ bApp'.recent = bApp.recent
        /\ bApp'.recovered = bApp.recovered /\ bApp'.indexed = bApp.indexed
        /\ bApp'.skipped = bApp.skipped
    BY <1>0, <1>3, <1>5 DEF BAppType
  <2> QED
    BY <1>1, <1>5, <2>1 DEF staged, leaves, key, job
<1> QED
  BY <1>4, <1>5

LEMMA FailsShape ==
    ASSUME BTypes, HashFails
    PROVE  LET job == bApp.cur[1] IN
           /\ bApp.phase = "hash" /\ bApp.cur # <<>> /\ UNCHANGED <<bBucket, bCache, bPinned>>
           /\ bApp'.cur = <<>> /\ bApp'.phase = bApp.phase /\ bApp'.acc = bApp.acc
           /\ bApp'.staged = bApp.staged /\ bApp'.snap = bApp.snap /\ bApp'.recent = bApp.recent
           /\ bApp'.recovered = bApp.recovered /\ bApp'.indexed = bApp.indexed
           /\ \/ bApp'.queue = bApp.queue /\ bApp'.skipped = bApp.skipped \cup {job.meta.key}
              \/ /\ bApp'.skipped = bApp.skipped
                 /\ bApp'.queue = bApp.queue \cup {[meta |-> job.meta, tries |-> job.tries + 1]}
<1> DEFINE job == bApp.cur[1]
           again == [meta |-> job.meta, tries |-> job.tries + 1]
<1>1. /\ bApp.phase = "hash" /\ bApp.cur # <<>> /\ UNCHANGED <<bBucket, bCache, bPinned>>
      /\ \/ bApp' = [bApp EXCEPT !.cur = <<>>, !.skipped = bApp.skipped \cup {job.meta.key}]
         \/ bApp' = [bApp EXCEPT !.cur = <<>>, !.queue = bApp.queue \cup {again}]
  BY DEF HashFails, Failed
<1> HIDE DEF job, again
<1>2. /\ bApp'.cur = <<>> /\ bApp'.phase = bApp.phase /\ bApp'.acc = bApp.acc
      /\ bApp'.staged = bApp.staged /\ bApp'.snap = bApp.snap /\ bApp'.recent = bApp.recent
      /\ bApp'.recovered = bApp.recovered /\ bApp'.indexed = bApp.indexed
      /\ \/ bApp'.queue = bApp.queue /\ bApp'.skipped = bApp.skipped \cup {job.meta.key}
         \/ bApp'.skipped = bApp.skipped /\ bApp'.queue = bApp.queue \cup {again}
  BY <1>1 DEF BTypes, BAppType
<1> QED
  BY <1>1, <1>2 DEF job, again

\* The full index a commit makes.
Whole == [bApp EXCEPT !.phase = "ready", !.snap = Union(bApp.staged, bApp.recent),
             !.staged = NoRows, !.indexed = TRUE, !.recovered = NoRows]

LEMMA WholeShape ==
    ASSUME BTypes
    PROVE  /\ Whole \in BAppType /\ Whole.phase = "ready" /\ Whole.indexed = TRUE
           /\ Whole.snap = Union(bApp.staged, bApp.recent) /\ Whole.staged = NoRows
           /\ Whole.recovered = NoRows /\ Whole.recent = bApp.recent /\ Whole.acc = bApp.acc
           /\ Whole.queue = bApp.queue /\ Whole.cur = bApp.cur
           /\ \A k \in BKeys : /\ NoRows[k] = NoRow
                               /\ Whole.snap[k] = IF bApp.staged[k] # NoRow THEN bApp.staged[k]
                                                  ELSE bApp.recent[k]
<1> DEFINE whole == Union(bApp.staged, bApp.recent)
<1>1. bApp \in BAppType /\ bApp.staged \in BRows /\ bApp.recent \in BRows
  BY DEF BTypes, BAppType
<1>2. /\ whole \in BRows /\ NoRows \in BRows /\ \A k \in BKeys : NoRows[k] = NoRow
      /\ \A k \in BKeys : whole[k] = IF bApp.staged[k] # NoRow THEN bApp.staged[k] ELSE bApp.recent[k]
  BY <1>1, UnionFacts, NoRowsType
<1> HIDE DEF whole
<1>3. Whole = [bApp EXCEPT !.phase = "ready", !.snap = whole,
                  !.staged = NoRows, !.indexed = TRUE, !.recovered = NoRows]
  BY DEF Whole, whole
<1>4. Whole \in BAppType
  BY <1>1, <1>2, <1>3 DEF BAppType
<1>5. /\ Whole.phase = "ready" /\ Whole.indexed = TRUE
      /\ Whole.snap = whole /\ Whole.staged = NoRows
      /\ Whole.recovered = NoRows /\ Whole.recent = bApp.recent /\ Whole.acc = bApp.acc
      /\ Whole.queue = bApp.queue /\ Whole.cur = bApp.cur
  BY <1>1, <1>3 DEF BAppType
<1> QED
  BY <1>2, <1>4, <1>5 DEF whole

LEMMA PinningShape ==
    ASSUME BTypes, NEW p \in BPins
    PROVE  /\ Pinning(p) \in BAppType
           /\ \A k \in BKeys :
                  /\ Pinning(p).snap[k] = IF k = p THEN PinRow ELSE bApp.snap[k]
                  /\ Pinning(p).recent[k] = IF k = p THEN PinRow ELSE bApp.recent[k]
           /\ Pinning(p).acc = bApp.acc /\ Pinning(p).queue = bApp.queue /\ Pinning(p).cur = bApp.cur
           /\ Pinning(p).staged = bApp.staged /\ Pinning(p).recovered = bApp.recovered
           /\ Pinning(p).phase = bApp.phase /\ Pinning(p).cont = bApp.cont
           /\ Pinning(p).indexed = bApp.indexed /\ Pinning(p).skipped = bApp.skipped
<1> DEFINE app == Pinning(p)
           snap == [bApp.snap EXCEPT ![p] = PinRow]
           recent == [bApp.recent EXCEPT ![p] = PinRow]
<1>1. bApp \in BAppType /\ bApp.snap \in BRows /\ bApp.recent \in BRows
  BY DEF BTypes, BAppType
<1>2. app \in BAppType /\ app = [bApp EXCEPT !.snap = snap, !.recent = recent]
  BY PinningFacts
<1>3. \A k \in BKeys : /\ snap[k] = (IF k = p THEN PinRow ELSE bApp.snap[k])
                       /\ recent[k] = (IF k = p THEN PinRow ELSE bApp.recent[k])
  BY <1>1 DEF BRows
<1> HIDE DEF app, snap, recent
<1>4. /\ app.snap = snap /\ app.recent = recent
      /\ app.acc = bApp.acc /\ app.queue = bApp.queue /\ app.cur = bApp.cur
      /\ app.staged = bApp.staged /\ app.recovered = bApp.recovered
      /\ app.phase = bApp.phase /\ app.cont = bApp.cont
      /\ app.indexed = bApp.indexed /\ app.skipped = bApp.skipped
  BY <1>1, <1>2 DEF BAppType
<1> QED
  BY <1>2, <1>3, <1>4 DEF app

LEMMA FaultKeepsChanges ==
    ASSUME BTypes, BFault
    PROVE  bSpent'.changes = bSpent.changes
BY DEF BTypes, BFault

LEMMA SavesKeepsChanges ==
    ASSUME BTypes, NEW app, SavesCache(app)
    PROVE  bSpent'.changes = bSpent.changes
BY FaultKeepsChanges DEF SavesCache

LEMMA PlainKept ==
    ASSUME BTypes, PlainInv, [BNext]_bVars, NEW k \in BPlain
    PROVE  PlainAt(bApp', bCache', bSpent'.changes + 1, bBucket'[k], k)
<1> DEFINE n == bSpent.changes + 1
           b == bBucket[k]
           Goal == PlainAt(bApp', bCache', bSpent'.changes + 1, bBucket'[k], k)
<1>0. /\ k \in BKeys /\ n \in Nat /\ b \in Nat /\ bApp \in BAppType /\ bCache \in Seq(BRows)
      /\ bBucket \in [BKeys -> BTags] /\ PlainAt(bApp, bCache, n, b, k)
  BY Keys, Versions DEF PlainInv, BTypes
<1>1. b <= n /\ Plain(bApp, n, b, k) /\ \A i \in DOMAIN bCache : Fits(n, b, bCache[i][k])
  BY <1>0 DEF PlainAt
<1>2. ASSUME Plain(bApp', n, b, k), UNCHANGED <<bBucket, bCache>>, bSpent'.changes = bSpent.changes
      PROVE  Goal
  BY <1>1, <1>2 DEF PlainAt
<1>3. ASSUME ListPage PROVE Goal
  <2>1. PICK key \in BKeys :
            /\ key > bApp.cont /\ \A j \in BKeys : j > bApp.cont => key <= j
            /\ bApp' = IF \E j \in BKeys : j > key THEN Paged(key)
                       ELSE IF ~Paged(key).consulted /\ bCache # <<>>
                       THEN [Paged(key) EXCEPT !.phase = "load", !.tries = 0]
                       ELSE Hashing([Paged(key) EXCEPT !.consulted = TRUE])
    BY <1>3 DEF ListPage, Paged, Page
  <2> DEFINE app == Paged(key)
             load == [app EXCEPT !.phase = "load", !.tries = 0]
             read == [app EXCEPT !.consulted = TRUE]
  <2>2. Plain(app, n, b, k)
    BY <1>0, <1>1, PagedPlain
  <2>3. app \in BAppType /\ load \in BAppType /\ read \in BAppType
    BY PagedFacts
  <2>4. bApp' \in {app, load, Hashing(read)}
    BY <2>1
  <2> HIDE DEF app
  <2>5. Plain(load, n, b, k)
    BY <2>2, <2>3 DEF Plain, BAppType
  <2>6. Plain(read, n, b, k)
    BY <2>2, <2>3 DEF Plain, BAppType
  <2> HIDE DEF load, read
  <2>7. Plain(Hashing(read), n, b, k)
    BY <1>0, <2>3, <2>6, HashingPlain
  <2>8. Plain(bApp', n, b, k)
    BY <2>2, <2>4, <2>5, <2>7
  <2> QED
    BY <1>2, <1>3, <2>8 DEF ListPage
<1>4. ASSUME LoadCache PROVE Goal
  <2> DEFINE app == [bApp EXCEPT !.consulted = TRUE, !.recovered = bCache[1], !.saved = bCache]
  <2>1. bCache[1] \in BRows /\ 1 \in DOMAIN bCache
    BY <1>4, CacheFirst DEF LoadCache
  <2>2. app \in BAppType
    BY <1>0, <2>1 DEF BAppType
  <2>3. /\ app.acc = bApp.acc /\ app.queue = bApp.queue /\ app.staged = bApp.staged
        /\ app.cur = bApp.cur /\ app.snap = bApp.snap /\ app.recent = bApp.recent
        /\ app.recovered = bCache[1]
    BY <1>0 DEF BAppType
  <2>4. bApp' = Hashing(app) /\ UNCHANGED <<bBucket, bCache, bSpent>>
    BY <1>4 DEF LoadCache
  <2> HIDE DEF app
  <2>5. Plain(app, n, b, k)
    BY <1>1, <2>1, <2>3 DEF Plain
  <2>6. Plain(Hashing(app), n, b, k)
    BY <1>0, <2>2, <2>5, HashingPlain
  <2> QED
    BY <1>2, <2>4, <2>6
<1>5. ASSUME LoadFails PROVE Goal
  <2> DEFINE app == [bApp EXCEPT !.consulted = TRUE]
             more == [bApp EXCEPT !.tries = bApp.tries + 1]
  <2>1. bApp' \in {Hashing(app), more} /\ UNCHANGED <<bBucket, bCache>> /\ BFault
    BY <1>5 DEF LoadFails
  <2>2. app \in BAppType
    BY <1>0 DEF BAppType
  <2>3. Plain(app, n, b, k) /\ Plain(more, n, b, k)
    BY <1>0, <1>1 DEF Plain, BAppType
  <2> HIDE DEF app, more
  <2>4. Plain(Hashing(app), n, b, k)
    BY <1>0, <2>2, <2>3, HashingPlain
  <2> QED
    BY <1>2, <2>1, <2>3, <2>4, FaultKeepsChanges
<1>6. ASSUME HashNext PROVE Goal
  <2>1. PICK next \in bApp.queue, job \in BJobs :
               /\ job.meta = next.meta /\ job.leaves = <<>>
               /\ bApp'.queue = bApp.queue \ {next} /\ bApp'.cur = <<job>>
               /\ bApp'.phase = bApp.phase /\ bApp'.acc = bApp.acc /\ bApp'.staged = bApp.staged
               /\ bApp'.snap = bApp.snap /\ bApp'.recent = bApp.recent
               /\ bApp'.recovered = bApp.recovered /\ bApp'.indexed = bApp.indexed
               /\ bApp'.skipped = bApp.skipped
    BY <1>6, NextShape
  <2>2. Len(job.leaves) = 0 /\ 0 < BWindows /\ bApp'.cur[1] = job
    BY <2>1, BucketAssumption DEF BucketAssumption
  <2>3. job.meta.key = k => /\ job.meta.tag <= n /\ Len(job.leaves) < BWindows
                            /\ \A i \in 1..Len(job.leaves) : job.leaves[i] = b
    BY <1>1, <2>1, <2>2 DEF Plain
  <2>4. Plain(bApp', n, b, k)
    BY <1>1, <2>1, <2>2, <2>3 DEF Plain
  <2> QED
    BY <1>2, <1>6, <2>4 DEF HashNext
<1>7. ASSUME HashWindow PROVE Goal
  <2> DEFINE job == bApp.cur[1]
             key == job.meta.key
             leaves == Append(job.leaves, bBucket[key])
             row == Row(job.meta.tag, leaves)
  <2>1. /\ bApp.phase = "hash" /\ bApp.cur # <<>> /\ job \in BJobs /\ key \in BKeys
        /\ bApp'.phase = bApp.phase /\ bApp'.acc = bApp.acc /\ bApp'.queue = bApp.queue
        /\ bApp'.snap = bApp.snap /\ bApp'.recent = bApp.recent
        /\ bApp'.recovered = bApp.recovered /\ bApp'.indexed = bApp.indexed
        /\ bApp'.skipped = bApp.skipped
        /\ \/ /\ Len(leaves) < BWindows /\ bApp'.staged = bApp.staged
              /\ bApp'.cur # <<>> /\ bApp'.cur[1].meta = job.meta
              /\ bApp'.cur[1].leaves = leaves
           \/ /\ ~(Len(leaves) < BWindows) /\ bApp'.cur = <<>>
              /\ bApp'.staged = [bApp.staged EXCEPT ![key] = row]
    BY <1>7, WindowShape
  <2>2. job.leaves \in Seq(BTags) /\ bBucket[key] \in BTags /\ BWindows \in Nat
    BY <1>0, <2>1, BucketAssumption DEF BJobs, BucketAssumption
  <2>3. leaves \in Seq(BTags) /\ Len(leaves) = Len(job.leaves) + 1
    BY <2>2
  <2>4. key = k => job.meta.tag <= n /\ Len(job.leaves) < BWindows
    BY <1>1, <2>1 DEF Plain
  <2>5. ASSUME key = k, job.meta.tag = b
        PROVE  \A i \in 1..Len(leaves) : leaves[i] = b
    <3>1. \A i \in 1..Len(job.leaves) : job.leaves[i] = b
      BY <1>1, <2>1, <2>5, SMTT(30) DEF Plain
    <3> QED
      BY <2>2, <2>5, <3>1
  <2>6. CASE Len(leaves) < BWindows
    <3> HIDE DEF leaves, row
    <3>1. /\ bApp'.cur # <<>> /\ bApp'.cur[1].meta = job.meta /\ bApp'.cur[1].leaves = leaves
          /\ bApp'.staged = bApp.staged
      BY <2>1, <2>6
    <3>2. Plain(bApp', n, b, k)
      BY <1>1, <2>1, <2>4, <2>5, <2>6, <3>1 DEF Plain
    <3> QED
      BY <1>2, <1>7, <3>2 DEF HashWindow
  <2>7. CASE ~(Len(leaves) < BWindows)
    <3>1. ASSUME key = k PROVE Fits(n, b, row)
      <4>1. row.tag = job.meta.tag
        BY DEF Row
      <4>2. ASSUME row.tag = b PROVE row = Right(b)
        <5>1. \A i \in 1..Len(leaves) : leaves[i] = b
          BY <2>5, <3>1, <4>1, <4>2
        <5>2. Len(leaves) = BWindows
          BY <2>2, <2>3, <2>4, <2>7, <3>1
        <5>3. leaves = Bytes(b)
          <6> HIDE DEF leaves
          <6> QED
            BY <2>2, <2>3, <5>1, <5>2 DEF Bytes
        <5> QED
          BY <4>1, <4>2, <5>3 DEF Right
      <4> QED
        BY <2>4, <3>1, <4>1, <4>2 DEF Fits
    <3>2. bApp.staged \in BRows
      BY <1>0 DEF BAppType
    <3> HIDE DEF leaves, row
    <3>3. bApp'.cur = <<>> /\ bApp'.staged = [bApp.staged EXCEPT ![key] = row]
      BY <2>1, <2>7
    <3>4. bApp'.staged[k] = IF key = k THEN row ELSE bApp.staged[k]
      BY <1>0, <2>1, <3>2, <3>3 DEF BRows
    <3>5. Fits(n, b, bApp'.staged[k])
      BY <1>1, <3>1, <3>4 DEF Plain
    <3>6. Plain(bApp', n, b, k)
      BY <1>1, <2>1, <3>3, <3>5 DEF Plain
    <3> QED
      BY <1>2, <1>7, <3>6 DEF HashWindow
  <2> QED
    BY <2>6, <2>7
<1>8. ASSUME HashFails PROVE Goal
  <2> DEFINE job == bApp.cur[1]
             again == [meta |-> job.meta, tries |-> job.tries + 1]
  <2>1. /\ bApp.phase = "hash" /\ bApp.cur # <<>> /\ UNCHANGED <<bBucket, bCache, bPinned>>
        /\ bApp'.cur = <<>> /\ bApp'.phase = bApp.phase /\ bApp'.acc = bApp.acc
        /\ bApp'.staged = bApp.staged /\ bApp'.snap = bApp.snap /\ bApp'.recent = bApp.recent
        /\ bApp'.recovered = bApp.recovered /\ bApp'.indexed = bApp.indexed
        /\ \/ bApp'.queue = bApp.queue /\ bApp'.skipped = bApp.skipped \cup {job.meta.key}
           \/ bApp'.skipped = bApp.skipped /\ bApp'.queue = bApp.queue \cup {again}
    BY <1>8, FailsShape
  <2>2. again.meta = job.meta
    OBVIOUS
  <2> HIDE DEF again
  <2>3. \A q \in bApp'.queue : q.meta.key = k => q.meta.tag <= n
    BY <1>1, <2>1, <2>2 DEF Plain
  <2>4. Plain(bApp', n, b, k)
    BY <1>1, <2>1, <2>3 DEF Plain
  <2>5. bSpent'.changes = bSpent.changes
    BY <1>8, FaultKeepsChanges DEF HashFails
  <2> QED
    BY <1>2, <2>1, <2>4, <2>5
<1>9. ASSUME CommitIndex PROVE Goal
  <2>1. SavesCache(Whole) /\ bBucket' = bBucket
    BY <1>9 DEF CommitIndex, Whole
  <2>2. /\ Whole \in BAppType /\ Whole.staged = NoRows /\ Whole.recovered = NoRows
        /\ Whole.recent = bApp.recent /\ Whole.acc = bApp.acc
        /\ Whole.queue = bApp.queue /\ Whole.cur = bApp.cur
        /\ NoRows[k] = NoRow
        /\ Whole.snap[k] = IF bApp.staged[k] # NoRow THEN bApp.staged[k] ELSE bApp.recent[k]
    BY <1>0, WholeShape
  <2>3. Fits(n, b, NoRow)
    BY <1>0, NoRowFits
  <2>4. Plain(Whole, n, b, k)
    BY <1>1, <2>2, <2>3 DEF Plain
  <2>5. PlainAt(Whole, bCache, n, b, k)
    BY <1>1, <2>4 DEF PlainAt
  <2>6. PlainAt(bApp', bCache', n, b, k)
    BY <1>0, <2>1, <2>2, <2>5, SavesPlain
  <2>7. bSpent'.changes = bSpent.changes
    BY <2>1, SavesKeepsChanges
  <2> QED
    BY <2>1, <2>6, <2>7
<1>10. ASSUME NEW p \in BPins, Pin(p) PROVE Goal
  <2>1. k # p /\ bBucket'[k] = b
    BY <1>0, <1>10, Keys DEF Pin
  <2>2. CASE UNCHANGED <<bApp, bCache, bSpent>>
    BY <1>0, <2>1, <2>2
  <2>3. /\ Pinning(p) \in BAppType
        /\ Pinning(p).snap[k] = bApp.snap[k] /\ Pinning(p).recent[k] = bApp.recent[k]
        /\ Pinning(p).acc = bApp.acc /\ Pinning(p).queue = bApp.queue /\ Pinning(p).cur = bApp.cur
        /\ Pinning(p).staged = bApp.staged /\ Pinning(p).recovered = bApp.recovered
    BY <1>0, <2>1, PinningShape
  <2>4. PlainAt(Pinning(p), bCache, n, b, k)
    BY <1>1, <2>3 DEF PlainAt, Plain
  <2>5. CASE SavesCache(Pinning(p))
    <3>1. PlainAt(bApp', bCache', n, b, k)
      BY <1>0, <2>3, <2>4, <2>5, SavesPlain
    <3>2. bSpent'.changes = bSpent.changes
      BY <2>5, SavesKeepsChanges
    <3> QED
      BY <2>1, <3>1, <3>2
  <2>6. CASE bApp' = Pinning(p) /\ UNCHANGED <<bCache, bSpent>>
    BY <2>1, <2>4, <2>6
  <2> QED
    BY <1>10, <2>2, <2>5, <2>6 DEF Pin, Pinning, PinRow
<1>11. ASSUME NEW p \in BPins, PinFails(p) PROVE Goal
  <2>1. k # p /\ bBucket'[k] = b /\ UNCHANGED <<bApp, bCache>>
    BY <1>0, <1>11, Keys DEF PinFails
  <2>2. bSpent'.changes = bSpent.changes
    BY <1>11, FaultKeepsChanges DEF PinFails
  <2> QED
    BY <1>0, <2>1, <2>2
<1>12. ASSUME NEW app \in BAppType, Plain(app, n, b, k), bApp' = app, bCache' = bCache,
              bSpent'.changes = bSpent.changes + 1, bBucket'[k] \in {0, b, n + 1}
       PROVE  Goal
  <2>1. PlainAt(app, bCache, n, b, k)
    BY <1>1, <1>12 DEF PlainAt
  <2>2. PlainAt(app, bCache, n + 1, bBucket'[k], k)
    BY <1>0, <1>12, <2>1, NewVersion
  <2> QED
    BY <1>12, <2>2
<1>13. Listing(bApp) \in BAppType /\ Plain(Listing(bApp), n, b, k)
  BY <1>0, <1>1, ListingType, ListingPlain
<1>14. ASSUME NEW p \in BPlain, Alter(p)
       PROVE  /\ bCache' = bCache /\ bSpent'.changes = bSpent.changes + 1
              /\ bBucket'[k] \in {0, b, n + 1}
  <2>1. bSpent' = [bSpent EXCEPT !.changes = @ + 1] /\ bCache' = bCache
        /\ (bBucket' = [bBucket EXCEPT ![p] = bSpent.changes + 2] \/ bBucket' = [bBucket EXCEPT ![p] = 0])
    BY <1>14 DEF Alter
  <2>2. bSpent'.changes = bSpent.changes + 1
    BY <2>1 DEF BTypes
  <2>3. bSpent.changes + 2 = n + 1
    BY Versions
  <2>4. bBucket'[k] \in {0, b, bSpent.changes + 2}
    BY <1>0, <2>1
  <2> QED
    BY <2>1, <2>2, <2>3, <2>4
<1>15. ASSUME NEW p \in BPlain, UploadOrDelete(p) PROVE Goal
  BY <1>12, <1>13, <1>14, <1>15 DEF UploadOrDelete
<1>16. ASSUME NEW p \in BPlain, Elsewhere(p) PROVE Goal
  BY <1>0, <1>1, <1>12, <1>14, <1>16 DEF Elsewhere
<1>17. ASSUME ApiRefresh PROVE Goal
  <2>1. bSpent'.changes = bSpent.changes + 1
    BY <1>17 DEF ApiRefresh, BTypes
  <2> QED
    BY <1>12, <1>13, <1>17, <2>1 DEF ApiRefresh
<1>18. ASSUME RefreshDue PROVE Goal
  BY <1>2, <1>13, <1>18 DEF RefreshDue
<1>19. ASSUME BRestart PROVE Goal
  <2>1. bApp' = Booting /\ UNCHANGED <<bBucket, bCache>> /\ bSpent'.changes = bSpent.changes
    BY <1>19 DEF BRestart, BTypes
  <2>2. /\ Booting.snap = NoRows /\ Booting.recent = NoRows /\ Booting.staged = NoRows
        /\ Booting.recovered = NoRows /\ Booting.acc = {} /\ Booting.queue = {}
        /\ Booting.cur = <<>> /\ NoRows[k] = NoRow
    BY <1>0, NoRowsType DEF Booting
  <2>3. Fits(n, b, NoRow)
    BY <1>0, NoRowFits
  <2>4. Plain(Booting, n, b, k)
    BY <2>2, <2>3 DEF Plain
  <2> QED
    BY <1>2, <2>1, <2>4
<1>20. ASSUME UNCHANGED bVars PROVE Goal
  BY <1>0, <1>20 DEF bVars
<1> HIDE DEF Goal
<1>21. Goal
  BY <1>3, <1>4, <1>5, <1>6, <1>7, <1>8, <1>9, <1>10, <1>11, <1>15, <1>16, <1>17, <1>18, <1>19, <1>20
  DEF BNext, BTick
<1> QED
  BY <1>21 DEF Goal

LEMMA ClearNow ==
    ASSUME BTypes, PinInv, PlainInv, NEW k \in BKeys, bBucket[k] # 0
    PROVE  Clear(bApp, bBucket[k], k)
<1>0. bApp \in BAppType /\ bBucket[k] \in Nat /\ bSpent.changes + 1 \in Nat
  BY Versions DEF BTypes
<1>1. CASE k \in BPins
  BY <1>0, <1>1, PinIsClear DEF PinInv
<1>2. CASE k \in BPlain
  BY <1>0, <1>2, PlainIsClear DEF PlainInv, PlainAt
<1> QED
  BY <1>1, <1>2 DEF BKeys

\* The upload of a pin: its row is right, and waits for the commit.
LEMMA PinningHolds ==
    ASSUME BTypes, PinInv, HoldsInv, NEW p \in BPins, NEW k \in BKeys,
           NEW b \in Nat, b = IF k = p THEN 1 ELSE bBucket[k]
    PROVE  Holds(Pinning(p), bCache, b, k)
<1> DEFINE app == Pinning(p)
<1>0. bApp \in BAppType
  BY DEF BTypes
<1>1. /\ app \in BAppType
      /\ app.snap[k] = IF k = p THEN PinRow ELSE bApp.snap[k]
      /\ app.recent[k] = IF k = p THEN PinRow ELSE bApp.recent[k]
      /\ app.acc = bApp.acc /\ app.queue = bApp.queue /\ app.cur = bApp.cur
      /\ app.staged = bApp.staged /\ app.recovered = bApp.recovered
      /\ app.phase = bApp.phase /\ app.cont = bApp.cont
      /\ app.indexed = bApp.indexed /\ app.skipped = bApp.skipped
  BY PinningShape
<1> HIDE DEF app
<1>2. CASE k = p
  <2>1. Sound(bApp, 1, k)
    BY <1>0, <1>2, ThereNow DEF PinInv
  <2>2. Sound(app, 1, k)
    BY <1>1, <1>2, <2>1 DEF Sound, May
  <2>3. Straight(app, 1, k)
    BY <1>1, <1>2, <2>2, PinIsClear
  <2>4. Right(1) = PinRow
    BY RightFacts
  <2>5. Coming(app, 1, k)
    BY <1>1, <1>2, <2>4 DEF Coming
  <2> QED
    BY <1>1, <1>2, <2>3, <2>4, <2>5 DEF Holds, app
<1>3. CASE k # p
  <2>1. Holds(bApp, bCache, b, k)
    BY <1>3 DEF HoldsInv
  <2>2. /\ Straight(bApp, b, k) => Straight(app, b, k)
        /\ Coming(bApp, b, k) => Coming(app, b, k)
    BY <1>1, <1>3 DEF Straight, Coming, Named
  <2> QED
    BY <1>1, <1>3, <2>1, <2>2 DEF Holds, Held, app
<1> QED
  BY <1>2, <1>3

LEMMA WholeHolds ==
    ASSUME BTypes, PinInv, PlainInv, HoldsInv, CommitIndex, NEW k \in BKeys, bBucket[k] # 0
    PROVE  Holds(Whole, bCache, bBucket[k], k)
<1> DEFINE b == bBucket[k]
<1>0. bApp.phase = "hash" /\ bApp.cur = <<>> /\ bApp.queue = {} /\ b \in Nat
  BY Versions DEF CommitIndex
<1>1. /\ Whole.phase = "ready" /\ Whole.staged = NoRows /\ Whole.acc = bApp.acc
      /\ Whole.queue = bApp.queue /\ Whole.cur = bApp.cur /\ NoRows[k] = NoRow
      /\ Whole.snap[k] = IF bApp.staged[k] # NoRow THEN bApp.staged[k] ELSE bApp.recent[k]
  BY WholeShape
<1>2. Clear(bApp, b, k) /\ Holds(bApp, bCache, b, k)
  BY ClearNow DEF HoldsInv
<1>3. Whole.snap[k] \in {NoRow, Right(b)} => Straight(Whole, b, k) /\ Coming(Whole, b, k)
  BY <1>0, <1>1 DEF Straight, Coming
<1>4. bApp.recent[k] \in {NoRow, Right(b)}
  BY <1>2 DEF Clear
<1>5. ASSUME Cached(bCache, b, k) PROVE Whole.snap[k] \in {NoRow, Right(b)}
  <2>1. bApp.staged[k] \in {NoRow, Right(b)}
    BY <1>2, <1>5 DEF Holds, Held, Straight
  <2> QED
    BY <1>1, <1>4, <2>1
<1> QED
  BY <1>3, <1>5 DEF Holds, Held

\* A version nothing has yet.
LEMMA NothingHeld ==
    ASSUME NEW app \in BAppType, NEW cache \in Seq(BRows), NEW k \in BPlain, NEW n \in Nat, NEW b \in Nat,
           PlainAt(app, cache, n, b, k), NEW c \in {0, n + 1}
    PROVE  ~Held(app, cache, c, k) /\ Holds(app, cache, c, k)
<1>1. k \in BKeys /\ c \in Nat /\ Right(c).tag = c
  BY Keys, RightFacts
<1>2. ASSUME c # 0 PROVE app.snap[k] # Right(c) /\ ~Cached(cache, c, k)
  <2>1. app.snap[k].tag <= n /\ \A i \in DOMAIN cache : cache[i][k].tag <= n
    BY DEF PlainAt, Plain, Fits
  <2>2. cache # <<>> => 1 \in DOMAIN cache
    OBVIOUS
  <2>3. ~(c <= n)
    BY <1>2
  <2> QED
    BY <1>1, <2>1, <2>2, <2>3 DEF Cached
<1> QED
  BY <1>2 DEF Holds, Held

LEMMA HoldsKept ==
    ASSUME BTypes, PinInv, PlainInv, HoldsInv, [BNext]_bVars, NEW k \in BKeys
    PROVE  Holds(bApp', bCache', bBucket'[k], k)
<1> DEFINE b == bBucket[k]
           Goal == Holds(bApp', bCache', bBucket'[k], k)
<1>0. /\ b \in Nat /\ bApp \in BAppType /\ bCache \in Seq(BRows) /\ bBucket \in [BKeys -> BTags]
      /\ Holds(bApp, bCache, b, k)
  BY Versions DEF HoldsInv, BTypes
<1>1. ASSUME bBucket'[k] = 0 PROVE Goal
  BY <1>1 DEF Holds, Held
<1>2. b # 0 => Clear(bApp, b, k)
  BY ClearNow
<1>3. ASSUME NEW app, Holds(app, bCache, b, k), bApp' = app, bBucket'[k] = b, bCache' = bCache
      PROVE  Goal
  BY <1>3
<1>4. ASSUME ListPage, b # 0 PROVE Goal
  <2>1. PICK key \in BKeys :
            /\ key > bApp.cont /\ \A j \in BKeys : j > bApp.cont => key <= j
            /\ bApp' = IF \E j \in BKeys : j > key THEN Paged(key)
                       ELSE IF ~Paged(key).consulted /\ bCache # <<>>
                       THEN [Paged(key) EXCEPT !.phase = "load", !.tries = 0]
                       ELSE Hashing([Paged(key) EXCEPT !.consulted = TRUE])
    BY <1>4 DEF ListPage, Paged, Page
  <2> DEFINE app == Paged(key)
             load == [app EXCEPT !.phase = "load", !.tries = 0]
             read == [app EXCEPT !.consulted = TRUE]
  <2>2. bApp.phase = "list" /\ UNCHANGED <<bBucket, bCache>>
    BY <1>4 DEF ListPage
  <2>3. /\ Clear(app, b, k) /\ Holds(app, bCache, b, k)
        /\ Held(app, bCache, b, k) => bApp.recent[k] = Right(b) \/ k > key \/ Named(app, k)
    BY <1>0, <1>2, <1>4, <2>1, <2>2, PagedHolds
  <2>4. app.phase = "list" /\ app.recent = bApp.recent
    BY <2>2, PagedShape
  <2>5. app \in BAppType /\ load \in BAppType /\ read \in BAppType
    BY PagedFacts
  <2> HIDE DEF app
  <2>6. ASSUME \E j \in BKeys : j > key PROVE Goal
    BY <1>3, <2>1, <2>2, <2>3, <2>6 DEF app
  <2>7. ASSUME ~\E j \in BKeys : j > key
        PROVE  Held(app, bCache, b, k) => app.recent[k] = Right(b) \/ Named(app, k)
    BY <2>3, <2>4, <2>7
  <2>8. ASSUME ~\E j \in BKeys : j > key, bApp' = load PROVE Goal
    <3>1. /\ load.phase = "load" /\ load.acc = app.acc /\ load.queue = app.queue
          /\ load.staged = app.staged /\ load.cur = app.cur /\ load.snap = app.snap
          /\ load.recent = app.recent /\ load.indexed = app.indexed
      BY <2>5 DEF BAppType
    <3> HIDE DEF load
    <3>2. Held(load, bCache, b, k) => Held(app, bCache, b, k)
      BY <3>1 DEF Held
    <3>3. Straight(app, b, k) => Straight(load, b, k)
      BY <2>4, <3>1 DEF Straight
    <3>4. app.recent[k] = Right(b) \/ Named(app, k) => Coming(load, b, k)
      BY <3>1 DEF Coming, Named
    <3>5. Holds(load, bCache, b, k)
      BY <2>3, <2>7, <2>8, <3>1, <3>2, <3>3, <3>4 DEF Holds
    <3> QED
      BY <1>3, <2>2, <2>8, <3>5
  <2>9. ASSUME ~\E j \in BKeys : j > key, bApp' = Hashing(read) PROVE Goal
    <3>1. /\ read.phase = app.phase /\ read.acc = app.acc /\ read.queue = app.queue
          /\ read.staged = app.staged /\ read.cur = app.cur /\ read.snap = app.snap
          /\ read.recent = app.recent /\ read.indexed = app.indexed
          /\ read.recovered = app.recovered /\ read.cont = app.cont
      BY <2>5 DEF BAppType
    <3> HIDE DEF read
    <3>2. Held(read, bCache, b, k) => Held(app, bCache, b, k)
      BY <3>1 DEF Held
    <3>3. Straight(app, b, k) => Straight(read, b, k)
      BY <3>1 DEF Straight
    <3>4. Coming(app, b, k) => Coming(read, b, k)
      BY <2>4, <3>1 DEF Coming, Named
    <3>5. Holds(read, bCache, b, k)
      BY <2>3, <3>1, <3>2, <3>3, <3>4 DEF Holds
    <3>6. Clear(read, b, k)
      BY <2>3, <3>1 DEF Clear
    <3>7. Held(read, bCache, b, k) => read.recent[k] = Right(b) \/ Named(read, k)
      BY <2>7, <2>9, <3>1, <3>2 DEF Named
    <3>8. Holds(Hashing(read), bCache, b, k)
      BY <1>0, <2>4, <2>5, <3>1, <3>5, <3>6, <3>7, HashingHolds
    <3> QED
      BY <1>3, <2>2, <2>9, <3>8
  <2> QED
    BY <2>1, <2>6, <2>8, <2>9 DEF app
<1>5. ASSUME b # 0, bApp.phase = "load", NEW app \in BAppType, Clear(app, b, k), app.phase = "load",
             app.snap = bApp.snap, app.acc = bApp.acc, app.recent = bApp.recent,
             app.staged = bApp.staged, app.queue = bApp.queue, app.cur = bApp.cur,
             app.indexed = bApp.indexed,
             bApp' = Hashing(app), UNCHANGED <<bBucket, bCache>>
      PROVE  Goal
  <2>1. Held(app, bCache, b, k) => Held(bApp, bCache, b, k)
    BY <1>5 DEF Held
  <2>2. Straight(bApp, b, k) => Straight(app, b, k)
    BY <1>5 DEF Straight
  <2>3. Coming(bApp, b, k) => Coming(app, b, k) /\ (app.recent[k] = Right(b) \/ Named(app, k))
    BY <1>5 DEF Coming, Named
  <2>4. /\ Holds(app, bCache, b, k)
        /\ Held(app, bCache, b, k) => app.recent[k] = Right(b) \/ Named(app, k)
    BY <1>0, <1>5, <2>1, <2>2, <2>3 DEF Holds
  <2>5. Holds(Hashing(app), bCache, b, k)
    BY <1>0, <1>5, <2>4, HashingHolds
  <2> QED
    BY <1>3, <1>5, <2>5
<1>6. ASSUME LoadCache, b # 0 PROVE Goal
  <2> DEFINE app == [bApp EXCEPT !.consulted = TRUE, !.recovered = bCache[1], !.saved = bCache]
  <2>1. bCache[1] \in BRows /\ 1 \in DOMAIN bCache
    BY <1>6, CacheFirst DEF LoadCache
  <2>2. app \in BAppType
    BY <1>0, <2>1 DEF BAppType
  <2>3. /\ app.acc = bApp.acc /\ app.queue = bApp.queue /\ app.staged = bApp.staged
        /\ app.cur = bApp.cur /\ app.snap = bApp.snap /\ app.recent = bApp.recent
        /\ app.recovered = bCache[1] /\ app.phase = bApp.phase /\ app.indexed = bApp.indexed
    BY <1>0 DEF BAppType
  <2>4. bApp' = Hashing(app) /\ bApp.phase = "load" /\ UNCHANGED <<bBucket, bCache>>
    BY <1>6 DEF LoadCache
  <2>5. bCache[1][k].tag = b => bCache[1][k] = Right(b)
    <3>1. CASE k \in BPins
      <4>1. May(b, bCache[1][k])
        BY <2>1, <3>1 DEF PinInv
      <4> QED
        BY <1>0, <1>6, <4>1, RowFacts, RightFacts DEF May
    <3>2. CASE k \in BPlain
      BY <1>6, <2>1, <3>2 DEF PlainInv, PlainAt, Fits
    <3> QED
      BY <3>1, <3>2 DEF BKeys
  <2> HIDE DEF app
  <2>6. Clear(app, b, k)
    BY <1>2, <1>6, <2>3, <2>5 DEF Clear
  <2> QED
    BY <1>5, <1>6, <2>2, <2>3, <2>4, <2>6
<1>7. ASSUME LoadFails, b # 0 PROVE Goal
  <2> DEFINE app == [bApp EXCEPT !.consulted = TRUE]
             more == [bApp EXCEPT !.tries = bApp.tries + 1]
  <2>1. /\ bApp.phase = "load" /\ UNCHANGED <<bBucket, bCache>>
        /\ bApp' = Hashing(app) \/ bApp' = more
    BY <1>7 DEF LoadFails
  <2>2. ASSUME bApp' = Hashing(app) PROVE Goal
    <3>1. app \in BAppType
      BY <1>0 DEF BAppType
    <3>2. /\ app.acc = bApp.acc /\ app.queue = bApp.queue /\ app.staged = bApp.staged
          /\ app.cur = bApp.cur /\ app.snap = bApp.snap /\ app.recent = bApp.recent
          /\ app.recovered = bApp.recovered /\ app.phase = bApp.phase /\ app.indexed = bApp.indexed
      BY <1>0 DEF BAppType
    <3> HIDE DEF app
    <3>3. Clear(app, b, k)
      BY <1>2, <1>7, <3>2 DEF Clear
    <3> QED
      BY <1>5, <1>7, <2>1, <2>2, <3>1, <3>2, <3>3
  <2>3. ASSUME bApp' = more PROVE Goal
    <3>1. /\ more.acc = bApp.acc /\ more.queue = bApp.queue /\ more.staged = bApp.staged
          /\ more.cur = bApp.cur /\ more.snap = bApp.snap /\ more.recent = bApp.recent
          /\ more.phase = bApp.phase /\ more.cont = bApp.cont /\ more.indexed = bApp.indexed
          /\ more.skipped = bApp.skipped
      BY <1>0 DEF BAppType
    <3> HIDE DEF more
    <3>2. /\ Straight(bApp, b, k) => Straight(more, b, k)
          /\ Coming(bApp, b, k) => Coming(more, b, k)
      BY <3>1 DEF Straight, Coming, Named
    <3>3. Holds(more, bCache, b, k)
      BY <1>0, <3>1, <3>2 DEF Holds, Held
    <3> QED
      BY <1>3, <2>1, <2>3, <3>3
  <2> QED
    BY <2>1, <2>2, <2>3
<1>8. Listing(bApp) \in BAppType /\ Holds(Listing(bApp), bCache, b, k)
  BY <1>0, ListingType, ListingHolds
<1>9. ASSUME RefreshDue \/ ApiRefresh PROVE Goal
  BY <1>3, <1>8, <1>9 DEF RefreshDue, ApiRefresh
<1>10. ASSUME HashNext, b # 0 PROVE Goal
  <2>1. PICK next \in bApp.queue, job \in BJobs :
               /\ job.meta = next.meta /\ job.leaves = <<>>
               /\ bApp'.queue = bApp.queue \ {next} /\ bApp'.cur = <<job>>
               /\ bApp'.phase = bApp.phase /\ bApp'.acc = bApp.acc /\ bApp'.staged = bApp.staged
               /\ bApp'.snap = bApp.snap /\ bApp'.recent = bApp.recent
               /\ bApp'.recovered = bApp.recovered /\ bApp'.indexed = bApp.indexed
               /\ bApp'.skipped = bApp.skipped
    BY <1>10, NextShape
  <2>2. /\ bApp'.cur # <<>> /\ bApp'.cur[1] = job /\ bApp.phase = "hash" /\ bApp.cur = <<>>
        /\ UNCHANGED <<bBucket, bCache>>
    BY <1>10, <2>1 DEF HashNext
  <2>3. Straight(bApp, b, k) => Straight(bApp', b, k)
    BY <2>1, <2>2 DEF Straight
  <2>4. Coming(bApp, b, k) => Coming(bApp', b, k)
    BY <2>1, <2>2 DEF Coming
  <2>5. Holds(bApp', bCache, b, k)
    BY <1>0, <2>1, <2>3, <2>4 DEF Holds, Held
  <2> QED
    BY <2>2, <2>5
<1>11. ASSUME HashWindow, b # 0 PROVE Goal
  <2> DEFINE job == bApp.cur[1]
             key == job.meta.key
             leaves == Append(job.leaves, bBucket[key])
             row == Row(job.meta.tag, leaves)
  <2>1. /\ bApp.phase = "hash" /\ bApp.cur # <<>> /\ job \in BJobs /\ key \in BKeys
        /\ bApp'.phase = bApp.phase /\ bApp'.acc = bApp.acc /\ bApp'.queue = bApp.queue
        /\ bApp'.snap = bApp.snap /\ bApp'.recent = bApp.recent
        /\ bApp'.recovered = bApp.recovered /\ bApp'.indexed = bApp.indexed
        /\ bApp'.skipped = bApp.skipped
        /\ \/ /\ Len(leaves) < BWindows /\ bApp'.staged = bApp.staged
              /\ bApp'.cur # <<>> /\ bApp'.cur[1].meta = job.meta
              /\ bApp'.cur[1].leaves = leaves
           \/ /\ ~(Len(leaves) < BWindows) /\ bApp'.cur = <<>>
              /\ bApp'.staged = [bApp.staged EXCEPT ![key] = row]
    BY <1>11, WindowShape
  <2>2. UNCHANGED <<bBucket, bCache>>
    BY <1>11 DEF HashWindow
  <2>3. job.leaves \in Seq(BTags) /\ bBucket[key] \in BTags /\ BWindows \in Nat
    BY <1>0, <2>1, BucketAssumption DEF BJobs, BucketAssumption
  <2>4. leaves \in Seq(BTags) /\ Len(leaves) = Len(job.leaves) + 1
    BY <2>3
  <2>5. CASE Len(leaves) < BWindows
    <3> HIDE DEF leaves, row
    <3>1. /\ bApp'.cur # <<>> /\ bApp'.cur[1].meta = job.meta /\ bApp'.staged = bApp.staged
      BY <2>1, <2>5
    <3>2. Straight(bApp, b, k) => Straight(bApp', b, k)
      BY <2>1, <3>1 DEF Straight
    <3>3. Coming(bApp, b, k) => Coming(bApp', b, k)
      BY <2>1, <3>1 DEF Coming
    <3>4. Holds(bApp', bCache, b, k)
      BY <1>0, <2>1, <3>2, <3>3 DEF Holds, Held
    <3> QED
      BY <2>2, <3>4
  <2>6. CASE ~(Len(leaves) < BWindows)
    <3>1. ASSUME key = k, Straight(bApp, b, k) PROVE row = Right(b)
      <4>1. job.meta.tag = b
        BY <2>1, <3>1 DEF Straight
      <4>2. Len(job.leaves) < BWindows /\ \A i \in 1..Len(job.leaves) : job.leaves[i] = b
        BY <1>2, <1>11, <2>1, <3>1, <4>1 DEF Clear
      <4>3. \A i \in 1..Len(leaves) : leaves[i] = b
        <5>1. PICK read \in Seq(BTags) : read = job.leaves
          BY <2>3
        <5>2. b \in BTags /\ leaves = Append(read, b)
          BY <2>3, <3>1, <5>1
        <5>3. \A i \in 1..Len(read) : read[i] = b
          BY <4>2, <5>1
        <5> HIDE DEF job, leaves, b
        <5>4. Len(leaves) = Len(read) + 1 /\ \A i \in 1..(Len(read) + 1) : leaves[i] = IF i <= Len(read) THEN read[i] ELSE b
          BY <5>2
        <5> QED
          BY <5>3, <5>4
      <4>4. Len(leaves) = BWindows
        BY <2>3, <2>4, <2>6, <4>2
      <4>5. leaves = Bytes(b)
        <5> HIDE DEF leaves
        <5> QED
          BY <2>3, <2>4, <4>3, <4>4 DEF Bytes
      <4> QED
        BY <4>1, <4>5 DEF Right
    <3>2. bApp.staged \in BRows
      BY <1>0 DEF BAppType
    <3> HIDE DEF leaves, row
    <3>3. bApp'.cur = <<>> /\ bApp'.staged = [bApp.staged EXCEPT ![key] = row]
      BY <2>1, <2>6
    <3>4. bApp'.staged[k] = IF key = k THEN row ELSE bApp.staged[k]
      BY <2>1, <3>2, <3>3 DEF BRows
    <3>5. Straight(bApp, b, k) => Straight(bApp', b, k)
      BY <2>1, <3>1, <3>3, <3>4 DEF Straight
    <3>6. Straight(bApp, b, k) /\ Coming(bApp, b, k) => Coming(bApp', b, k)
      BY <2>1, <3>1, <3>4 DEF Coming
    <3>7. Holds(bApp', bCache, b, k)
      BY <1>0, <2>1, <3>5, <3>6 DEF Holds, Held
    <3> QED
      BY <2>2, <3>7
  <2> QED
    BY <2>5, <2>6
<1>12. ASSUME HashFails, b # 0 PROVE Goal
  <2> DEFINE job == bApp.cur[1]
             again == [meta |-> job.meta, tries |-> job.tries + 1]
  <2>1. /\ bApp.phase = "hash" /\ bApp.cur # <<>> /\ UNCHANGED <<bBucket, bCache, bPinned>>
        /\ bApp'.cur = <<>> /\ bApp'.phase = bApp.phase /\ bApp'.acc = bApp.acc
        /\ bApp'.staged = bApp.staged /\ bApp'.snap = bApp.snap /\ bApp'.recent = bApp.recent
        /\ bApp'.recovered = bApp.recovered /\ bApp'.indexed = bApp.indexed
        /\ \/ bApp'.queue = bApp.queue /\ bApp'.skipped = bApp.skipped \cup {job.meta.key}
           \/ bApp'.skipped = bApp.skipped /\ bApp'.queue = bApp.queue \cup {again}
    BY <1>12, FailsShape
  <2>2. again.meta = job.meta
    OBVIOUS
  <2> HIDE DEF again
  <2>3. Straight(bApp, b, k) => Straight(bApp', b, k)
    BY <2>1, <2>2 DEF Straight
  <2>4. Coming(bApp, b, k) => Coming(bApp', b, k)
    BY <2>1, <2>2 DEF Coming
  <2>5. Holds(bApp', bCache, b, k)
    BY <1>0, <2>1, <2>3, <2>4 DEF Holds, Held
  <2> QED
    BY <2>1, <2>5
<1>13. ASSUME CommitIndex, b # 0 PROVE Goal
  <2>1. Holds(Whole, bCache, b, k) /\ Whole \in BAppType
    BY <1>13, WholeHolds, WholeShape
  <2>2. SavesCache(Whole) /\ bBucket' = bBucket
    BY <1>13 DEF CommitIndex, Whole
  <2> QED
    BY <1>0, <2>1, <2>2, SavesHolds
<1>14. ASSUME NEW p \in BPins, Pin(p) PROVE Goal
  <2>1. PICK c : c = bBucket'[k]
    OBVIOUS
  <2>2. c \in Nat /\ c = IF k = p THEN 1 ELSE b
    BY <1>0, <1>14, <2>1 DEF Pin
  <2>3. Holds(Pinning(p), bCache, c, k) /\ Pinning(p) \in BAppType
    BY <2>2, PinningHolds, PinningShape
  <2>4. ASSUME bApp.snap[p] # NoRow, UNCHANGED <<bApp, bCache, bSpent>> PROVE Goal
    <3>1. bBucket[p] = 1
      BY <2>4 DEF PinInv, Sound, May
    <3>2. c = b
      BY <2>2, <3>1
    <3> QED
      BY <1>0, <2>1, <2>4, <3>2
  <2>5. ASSUME SavesCache(Pinning(p)) PROVE Goal
    BY <2>1, <2>2, <2>3, <2>5, SavesHolds
  <2>6. ASSUME bApp' = Pinning(p), UNCHANGED <<bCache, bSpent>> PROVE Goal
    BY <2>1, <2>3, <2>6
  <2> QED
    BY <1>14, <2>4, <2>5, <2>6 DEF Pin, Pinning, PinRow
<1>15. ASSUME NEW p \in BPins, PinFails(p) PROVE Goal
  <2>1. bBucket'[k] \in {b, 1} /\ (k # p => bBucket'[k] = b) /\ UNCHANGED <<bApp, bCache>>
    BY <1>0, <1>15, Keys DEF PinFails
  <2>2. CASE bBucket'[k] = b
    BY <1>0, <2>1, <2>2
  <2>3. CASE k = p /\ bBucket'[k] = 1 /\ b # 1
    <3>1. bApp.snap[k] = NoRow /\ \A i \in DOMAIN bCache : bCache[i][k] = NoRow
      BY <2>3 DEF PinInv, Sound, May
    <3>2. bCache # <<>> => bCache[1][k] = NoRow
      BY <1>0, <3>1
    <3>3. Right(1) # NoRow
      BY RightFacts, RowFacts
    <3>4. Holds(bApp, bCache, 1, k)
      BY <3>1, <3>2, <3>3 DEF Holds, Held, Cached
    <3> QED
      BY <2>1, <2>3, <3>4
  <2> QED
    BY <2>1, <2>2, <2>3
<1>16. ASSUME NEW p \in BPlain, Alter(p), NEW app \in BAppType, bApp' = app, Holds(app, bCache, b, k),
              k \in BPlain => Plain(app, bSpent.changes + 1, b, k)
       PROVE  Goal
  <2>1. /\ bCache' = bCache /\ bBucket'[k] \in {0, b, bSpent.changes + 2}
        /\ bBucket'[k] \in {0, bSpent.changes + 2} => k = p \/ bBucket'[k] = b
    BY <1>0, <1>16, Keys DEF Alter
  <2>2. CASE bBucket'[k] = b
    BY <1>3, <1>16, <2>1, <2>2
  <2>3. CASE bBucket'[k] # b
    <3>1. k \in BPlain
      BY <1>16, <2>1, <2>3
    <3>2. PICK n \in Nat : n = bSpent.changes + 1
      BY Versions
    <3>3. bSpent.changes + 2 = n + 1
      BY <3>2, Versions
    <3>4. PlainAt(app, bCache, n, b, k)
      BY <1>16, <3>1, <3>2 DEF PlainInv, PlainAt
    <3>5. Holds(app, bCache, bBucket'[k], k)
      BY <1>0, <2>1, <2>3, <3>1, <3>3, <3>4, NothingHeld
    <3> QED
      BY <1>16, <2>1, <3>5
  <2> QED
    BY <2>2, <2>3
<1>17. k \in BPlain => /\ Plain(bApp, bSpent.changes + 1, b, k)
                       /\ Plain(Listing(bApp), bSpent.changes + 1, b, k)
  BY <1>0, Versions, ListingPlain DEF PlainInv, PlainAt
<1>18. ASSUME NEW p \in BPlain, UploadOrDelete(p) PROVE Goal
  BY <1>8, <1>16, <1>17, <1>18 DEF UploadOrDelete
<1>19. ASSUME NEW p \in BPlain, Elsewhere(p) PROVE Goal
  BY <1>0, <1>16, <1>17, <1>19 DEF Elsewhere
<1>20. ASSUME BRestart, b # 0 PROVE Goal
  <2>1. bApp' = Booting /\ UNCHANGED <<bBucket, bCache>>
    BY <1>20 DEF BRestart
  <2>2. /\ Booting.snap = NoRows /\ Booting.staged = NoRows /\ Booting.acc = {} /\ Booting.queue = {}
        /\ Booting.cur = <<>> /\ Booting.phase = "list" /\ Booting.cont = 0 /\ Booting.indexed = FALSE
        /\ NoRows[k] = NoRow
    BY NoRowsType DEF Booting
  <2>3. k > 0
    BY Keys
  <2>4. Straight(Booting, b, k) /\ Coming(Booting, b, k)
    BY <2>2, <2>3 DEF Straight, Coming
  <2>5. Holds(Booting, bCache, b, k)
    BY <2>2, <2>4 DEF Holds
  <2> QED
    BY <2>1, <2>5
<1>21. ASSUME UNCHANGED bVars PROVE Goal
  BY <1>0, <1>21 DEF bVars
<1>22. ListPage \/ LoadCache \/ LoadFails \/ HashNext \/ HashWindow \/ HashFails \/ CommitIndex
       \/ BRestart => bBucket'[k] = b
  BY DEF ListPage, LoadCache, LoadFails, HashNext, HashWindow, HashFails, CommitIndex, BRestart
<1> HIDE DEF Goal, b
<1>23. Goal
  BY <1>1, <1>4, <1>6, <1>7, <1>9, <1>10, <1>11, <1>12, <1>13, <1>14, <1>15, <1>18, <1>19, <1>20, <1>21,
     <1>22
  DEF BNext, BTick
<1> QED
  BY <1>23 DEF Goal, b

-------------------------------------------------------------------------------
\* A save drops no row of an object that is not given up.
LEMMA SaveKeepsRow ==
    ASSUME BTypes, PinInv, PlainInv, HoldsInv, [BNext]_bVars, NEW k \in BKeys,
           bCache # <<>>, bBucket[k] # 0, bCache[1][k] = Right(bBucket[k]), ~GivenUp(k)
    PROVE  bCache'[1][k] = bCache[1][k]
<1> DEFINE b == bBucket[k]
<1>0. /\ b \in Nat /\ Right(b) # NoRow /\ Held(bApp, bCache, b, k) /\ Cached(bCache, b, k)
      /\ Holds(bApp, bCache, b, k) /\ Clear(bApp, b, k)
  BY Versions, RightFacts, ClearNow DEF Held, Cached, HoldsInv
<1>1. Straight(bApp, b, k) /\ Coming(bApp, b, k)
  BY <1>0 DEF Holds
<1>2. ASSUME NEW app \in BAppType, SavesCache(app), app.snap[k] = Right(b)
      PROVE  bCache'[1][k] = bCache[1][k]
  <2>1. bCache' \in {bCache, <<app.snap>>}
    BY <1>2, SavesCacheTypes
  <2> QED
    BY <1>2, <2>1
<1>3. ASSUME CommitIndex PROVE bCache'[1][k] = bCache[1][k]
  <2>1. /\ SavesCache(Whole) /\ bApp.phase = "hash" /\ bApp.cur = <<>> /\ bApp.queue = {}
    BY <1>3 DEF CommitIndex, Whole
  <2>2. bApp.staged[k] = Right(b) \/ (bApp.staged[k] = NoRow /\ bApp.recent[k] = Right(b))
    BY <1>1, <2>1 DEF Straight, Coming, GivenUp
  <2>3. Whole \in BAppType /\ Whole.snap[k] = Right(b)
    BY <1>0, <2>2, WholeShape
  <2> QED
    BY <1>2, <2>1, <2>3
<1>4. ASSUME NEW p \in BPins, Pin(p) PROVE bCache'[1][k] = bCache[1][k]
  <2>1. CASE bCache' = bCache
    BY <2>1
  <2>2. CASE bCache' # bCache
    <3>1. bApp.snap[p] = NoRow /\ bApp.indexed /\ SavesCache(Pinning(p))
      <4>1. /\ bApp.snap[p] = NoRow
            /\ IF Persists(Pinning(p)) THEN SavesCache(Pinning(p))
               ELSE bApp' = Pinning(p) /\ UNCHANGED <<bCache, bSpent>>
        BY <1>4, <2>2 DEF Pin, Pinning, PinRow
      <4>2. Pinning(p).indexed = bApp.indexed
        BY PinningShape
      <4> QED
        BY <2>2, <4>1, <4>2 DEF Persists
    <3>2. bApp.snap[k] # NoRow /\ bApp.snap[k] = Right(b) /\ k # p
      BY <1>0, <3>1 DEF GivenUp, Holds
    <3>3. Pinning(p) \in BAppType /\ Pinning(p).snap[k] = Right(b)
      BY <3>2, PinningShape
    <3> QED
      BY <1>2, <3>1, <3>3
  <2> QED
    BY <2>1, <2>2
<1>5. CommitIndex \/ (\E p \in BPins : Pin(p)) \/ bCache' = bCache
  BY DEF BNext, BTick, ListPage, LoadCache, LoadFails, RefreshDue, HashNext, HashWindow, HashFails,
         ApiRefresh, BRestart, PinFails, UploadOrDelete, Elsewhere, Alter, bVars
<1> QED
  BY <1>3, <1>4, <1>5

\* BTypes with what is known of the rows.
IndexInv == BTypes /\ PinInv /\ PlainInv /\ HoldsInv

LEMMA IndexStarts == BInit => IndexInv
<1> SUFFICES ASSUME BInit PROVE IndexInv
  OBVIOUS
<1>1. BTypes /\ PinInv
  BY PinsStart
<1>2. /\ bApp.snap = NoRows /\ bApp.recent = NoRows /\ bApp.staged = NoRows
      /\ bApp.recovered = NoRows /\ bApp.acc = {} /\ bApp.queue = {} /\ bApp.cur = <<>>
      /\ bApp.phase = "list" /\ bApp.cont = 0 /\ bApp.indexed = FALSE
      /\ bCache = <<>> /\ bSpent.changes = 0
  BY DEF BInit, Booting
<1>3. ASSUME NEW k \in BKeys
      PROVE  bBucket[k] \in {0, 1} /\ NoRows[k] = NoRow /\ k > 0
  BY Keys, NoRowsType DEF BInit
<1>4. ASSUME NEW k \in BPlain
      PROVE  PlainAt(bApp, bCache, bSpent.changes + 1, bBucket[k], k)
  <2>1. k \in BKeys /\ bSpent.changes + 1 = 1
    BY <1>2, Keys
  <2>2. Fits(1, bBucket[k], NoRow)
    BY <1>3, <2>1, NoRowFits
  <2>3. Plain(bApp, 1, bBucket[k], k)
    BY <1>2, <1>3, <2>1, <2>2 DEF Plain
  <2>4. bBucket[k] <= 1
    BY <1>3, <2>1
  <2> QED
    BY <1>2, <2>1, <2>3, <2>4 DEF PlainAt
<1>5. ASSUME NEW k \in BKeys
      PROVE  Holds(bApp, bCache, bBucket[k], k)
  <2>1. Straight(bApp, bBucket[k], k) /\ Coming(bApp, bBucket[k], k)
    BY <1>2, <1>3 DEF Straight, Coming
  <2> QED
    BY <1>2, <2>1 DEF Holds
<1> QED
  BY <1>1, <1>4, <1>5 DEF IndexInv, PlainInv, HoldsInv

LEMMA IndexKept == IndexInv /\ [BNext]_bVars => IndexInv'
<1> SUFFICES ASSUME IndexInv, [BNext]_bVars PROVE IndexInv'
  OBVIOUS
<1>1. BTypes /\ PinInv /\ PlainInv /\ HoldsInv
  BY DEF IndexInv
<1>2. BTypes'
  BY <1>1, TypesKept
<1>3. PinInv'
  <2>1. ASSUME NEW k \in BPins PROVE PinOf(k)'
    BY <1>1, PinsKept
  <2> QED
    BY <2>1 DEF PinInv, PinOf
<1>4. PlainInv'
  BY <1>1, PlainKept DEF PlainInv
<1>5. HoldsInv'
  BY <1>1, HoldsKept DEF HoldsInv
<1> QED
  BY <1>2, <1>3, <1>4, <1>5 DEF IndexInv

\* The variables are what they should be, and no object is served with bytes of another
\* version than its own: size and ETag bind what was hashed (start_hash, tick of
\* s3-ipfs-adapter/src/main.rs).
THEOREM ServedBytesMatch == BSpec => []BTypeOK
<1>1. IndexInv => BTypeOK
  <2> SUFFICES ASSUME IndexInv PROVE BTypeOK
    OBVIOUS
  <2>1. ASSUME NEW k \in BKeys, bBucket[k] # 0, bApp.snap[k].tag = bBucket[k]
        PROVE  bApp.snap[k].leaves = Bytes(bBucket[k])
    <3>1. bApp.snap[k] = Right(bBucket[k])
      BY <2>1, ClearNow DEF IndexInv, Clear
    <3> QED
      BY <3>1 DEF Right, Row
  <2> QED
    BY <2>1 DEF IndexInv, BTypeOK, BytesMatch
<1> QED
  BY <1>1, IndexStarts, IndexKept, PTL DEF BSpec

\* A row of the cache that still tells what the bucket holds stays in it, through listings
\* and hashes that begin anew, boots, pins before the first full index and saves that fail
\* or take effect unseen, unless its object was given up on (save_leaves_cache,
\* merge_commits and commit_index of s3-ipfs-adapter/src/main.rs).
THEOREM CacheKeepsRows == BSpec => RowsKept
<1>1. IndexInv /\ [BNext]_bVars =>
          [\A k \in BKeys :
              /\ bCache # <<>> /\ bBucket[k] # 0
              /\ bCache[1][k] = Row(bBucket[k], Bytes(bBucket[k])) /\ ~GivenUp(k)
              => bCache'[1][k] = bCache[1][k]]_bVars
  BY SaveKeepsRow DEF IndexInv, Right
<1> QED
  BY <1>1, IndexStarts, IndexKept, PTL DEF BSpec, RowsKept

-------------------------------------------------------------------------------
(***************************************************************************)
(* The walk of the DHT.                                                    *)
(***************************************************************************)

\* The least of a set of numbers.
Less == {p \in Nat \X Nat : p[1] < p[2]}

LEMMA LessFounded == IsWellFoundedOn(Less, Nat)
<1>1. Less = OpToRel(<, Nat)
  BY Zenon DEF Less, OpToRel
<1> QED
  BY <1>1, NatLessThanWellFounded

LEMMA LeastNat ==
    ASSUME NEW T, T \subseteq Nat, T # {}
    PROVE  \E n \in T : \A m \in T : n <= m
<1>1. PICK n \in T : \A m \in T : ~ (<<m, n>> \in Less)
  BY LessFounded, WFMin, Zenon
<1>2. ASSUME NEW m \in T PROVE n <= m
  <2>1. m \in Nat /\ n \in Nat
    OBVIOUS
  <2>2. m < n => <<m, n>> \in Less
    BY <2>1 DEF Less
  <2> QED
    BY <1>1, <2>1, <2>2
<1> QED
  BY <1>2

\* What holds of 0 and, with a number, of the next holds of all: T is where it holds.
LEMMA MinIs ==
    ASSUME NEW T, T \subseteq Nat, T # {}
    PROVE  Min(T) \in T /\ \A m \in T : Min(T) <= m
BY LeastNat DEF Min

\* Those of a set of numbers that come up to one of them, its rank many.
UpTo(p, S) == {q \in S : q <= p}

LEMMA UpToHas == ASSUME NEW S, NEW p, NEW q PROVE q \in UpTo(p, S) <=> q \in S /\ q <= p
BY Zenon DEF UpTo

LEMMA UpToFinite ==
    ASSUME NEW S, S \subseteq Nat, NEW p \in Nat
    PROVE  IsFiniteSet(UpTo(p, S)) /\ Rank(p, S) \in Nat /\ Rank(p, S) = Cardinality(UpTo(p, S))
<1>1. UpTo(p, S) \subseteq 0..p
  <2> SUFFICES ASSUME NEW q \in UpTo(p, S) PROVE q \in 0..p
    OBVIOUS
  <2>1. q \in Nat /\ q <= p
    BY UpToHas
  <2> QED
    BY <2>1
<1>2. IsFiniteSet(0..p)
  BY FS_Interval
<1>3. IsFiniteSet(UpTo(p, S))
  BY <1>1, <1>2, FS_Subset
<1> QED
  BY <1>3, FS_CardinalityType DEF UpTo, Rank

LEMMA RanksRise ==
    ASSUME NEW S, S \subseteq Nat, NEW p \in Nat, NEW q \in Nat, p <= q
    PROVE  Rank(p, S) <= Rank(q, S)
<1>1. ASSUME NEW r \in UpTo(p, S) PROVE r \in UpTo(q, S)
  <2>1. r \in S /\ r \in Nat /\ r <= p
    BY UpToHas
  <2>2. r <= q
    BY <2>1
  <2> QED
    BY <2>1, <2>2, UpToHas
<1>2. UpTo(p, S) \in SUBSET UpTo(q, S)
  BY <1>1
<1>3. Cardinality(UpTo(p, S)) <= Cardinality(UpTo(q, S))
  BY <1>2, UpToFinite, FS_Subset
<1> QED
  BY <1>3, UpToFinite

\* If not all of S is among its first n, these are n.
Foremost(n, S) == {p \in S : Rank(p, S) <= n}

LEMMA FirstMany ==
    ASSUME NEW S, S \subseteq Nat, NEW n \in Nat \ {0}, NEW p \in S, p \notin Foremost(n, S)
    PROVE  Cardinality(Foremost(n, S)) = n /\ \A c \in Foremost(n, S) : c < p
<1>1. \A c \in S : Rank(c, S) \in Nat
  BY UpToFinite
<1>2. PICK q \in S \ Foremost(n, S) : \A m \in S \ Foremost(n, S) : q <= m
  BY LeastNat
<1>3. Rank(q, S) > n /\ q \in Nat
  BY <1>1, <1>2 DEF Foremost
<1>4. \A c \in S : q <= c => c \notin Foremost(n, S)
  <2> SUFFICES ASSUME NEW c \in S, q <= c PROVE c \notin Foremost(n, S)
    OBVIOUS
  <2>1. Rank(q, S) <= Rank(c, S) /\ Rank(c, S) \in Nat /\ Rank(q, S) \in Nat
    BY <1>1, <1>2, <1>3, RanksRise
  <2> QED
    BY <1>3, <2>1 DEF Foremost
<1>5. Foremost(n, S) = UpTo(q, S) \ {q} /\ q \in UpTo(q, S)
  <2>1. ASSUME NEW c \in S PROVE c \in Foremost(n, S) <=> c <= q /\ c # q
    BY <1>2, <1>3, <1>4, <2>1
  <2> QED
    BY <1>2, <1>3, <2>1 DEF Foremost, UpTo
<1>6. PICK u \in Nat : u = Rank(q, S)
  BY <1>1, <1>2
<1>7. IsFiniteSet(Foremost(n, S)) /\ Cardinality(Foremost(n, S)) = u - 1
  <2>1. IsFiniteSet(UpTo(q, S)) /\ Cardinality(UpTo(q, S)) = u
    BY <1>3, <1>6, UpToFinite
  <2> QED
    BY <1>5, <2>1, FS_RemoveElement
<1>8. u - 1 <= n
  <2>1. CASE Foremost(n, S) = {}
    BY <1>7, <2>1, FS_EmptySet
  <2>2. CASE Foremost(n, S) # {}
    <3>1. PICK T : T = {m \in Nat : \A c \in Foremost(n, S) : c <= m}
      OBVIOUS
    <3>2. q \in T
      BY <1>3, <1>5, <3>1 DEF UpTo
    <3>3. PICK m \in T : \A k \in T : m <= k
      BY <3>1, <3>2, LeastNat
    <3>4. m \in Foremost(n, S)
      <4> SUFFICES ASSUME m \notin Foremost(n, S) PROVE FALSE
        OBVIOUS
      <4>1. PICK c \in Foremost(n, S) : TRUE
        BY <2>2
      <4>2. c \in Nat /\ c <= m /\ c # m /\ m \in Nat
        BY <3>1, <4>1 DEF Foremost
      <4>3. m - 1 \in Nat
        BY <4>2
      <4>4. \A d \in Foremost(n, S) : d \in Nat /\ d <= m /\ d # m
        BY <3>1 DEF Foremost
      <4>5. m - 1 \in T
        BY <3>1, <4>2, <4>3, <4>4
      <4> QED
        BY <3>3, <4>2, <4>5
    <3>5. Foremost(n, S) \subseteq UpTo(m, S) /\ m \in Nat
      BY <3>1, <3>4 DEF Foremost, UpTo
    <3>6. Rank(m, S) <= n /\ Rank(m, S) \in Nat
      BY <1>1, <3>4 DEF Foremost
    <3>7. Cardinality(Foremost(n, S)) <= Rank(m, S)
      <4>1. IsFiniteSet(UpTo(m, S)) /\ Cardinality(UpTo(m, S)) = Rank(m, S)
        BY <3>5, UpToFinite
      <4>2. Foremost(n, S) \in SUBSET UpTo(m, S)
        BY <3>5
      <4> QED
        BY <4>1, <4>2, FS_Subset
    <3> QED
      BY <1>6, <1>7, <3>6, <3>7
  <2> QED
    BY <2>1, <2>2
<1>9. Cardinality(Foremost(n, S)) = n
  BY <1>3, <1>6, <1>7, <1>8
<1>10. ASSUME NEW c \in Foremost(n, S) PROVE c < p
  <2>1. q <= p /\ p \in Nat /\ c \in Nat
    BY <1>2, <1>10 DEF Foremost
  <2>2. c <= q /\ c # q
    BY <1>5, <1>10 DEF UpTo
  <2> QED
    BY <1>3, <2>1, <2>2
<1> QED
  BY <1>9, <1>10

\* The inductive invariant: who is asked was tried, and so was who failed, as far as there
\* is an address; and whoever has an address is a candidate.
CandStates == {"unknown", "fresh", "querying", "responded", "failed"}
Dhts == [state : {"walking", "storing", "done", "failed"}, job : {"recover", "publish"},
         cand : [KPeers -> CandStates], addressed : SUBSET KPeers, dialed : SUBSET KPeers,
         conns : [KPeers -> {"none", "climbing", "asked", "flushing"}],
         queue : SUBSET KPeers, ok : Nat, best : Nat]

Sane(dht, tried) ==
    /\ dht \in Dhts
    /\ \A p \in KPeers :
          /\ dht.cand[p] = "querying" => p \in tried
          /\ p \in dht.addressed => dht.cand[p] # "unknown" /\ (dht.cand[p] = "failed" => p \in tried)

KInv == Sane(kDht, kTried)

LEMMA PeersAreNumbers == KPeers \subseteq Nat /\ \A dht, state : In(dht, state) \subseteq KPeers
BY WalkAssumption DEF In

LEMMA NoConnsTyped == NoConns \in [KPeers -> {"none", "climbing", "asked", "flushing"}] /\ \A p \in KPeers : NoConns[p] = "none"
BY DEF NoConns

LEMMA AddAllSane ==
    ASSUME NEW d, NEW tried, Sane(d, tried), NEW told \in SUBSET [peer : KPeers, addressed : BOOLEAN]
    PROVE  Sane(AddAll(d, told), tried)
<1>1. PICK named : named = {t.peer : t \in told}
  OBVIOUS
<1>2. PICK reachable : reachable = {t.peer : t \in {x \in told : x.addressed}}
  OBVIOUS
<1>3. PICK cand : cand = [p \in KPeers |->
                             IF p \notin named \/ d.cand[p] \notin {"unknown", "failed"} THEN d.cand[p]
                             ELSE IF p \in reachable THEN "fresh" ELSE "failed"]
  OBVIOUS
<1>4. d \in Dhts /\ d.cand \in [KPeers -> CandStates] /\ d.addressed \in SUBSET KPeers
  BY DEF Sane, Dhts
<1>5. AddAll(d, told) = [d EXCEPT !.addressed = @ \cup reachable, !.cand = cand]
  BY <1>1, <1>2, <1>3, <1>4 DEF AddAll
<1>6. reachable \in SUBSET KPeers /\ reachable \subseteq named
  BY <1>1, <1>2
<1>7. cand \in [KPeers -> CandStates]
  BY <1>3, <1>4 DEF CandStates
<1>8. d.addressed \cup reachable \in SUBSET KPeers
  BY <1>4, <1>6
<1>9. PICK a : a = d.addressed \cup reachable
  OBVIOUS
<1>10. AddAll(d, told) = [d EXCEPT !.addressed = a, !.cand = cand]
  BY <1>5, <1>9
<1>11. AddAll(d, told) \in Dhts
  BY <1>4, <1>7, <1>8, <1>9, <1>10 DEF Dhts
<1>12. AddAll(d, told).cand = cand /\ AddAll(d, told).addressed = a
  BY <1>4, <1>10 DEF Dhts
<1>13. ASSUME NEW p \in KPeers
       PROVE  /\ cand[p] = "querying" => p \in tried
              /\ p \in a => cand[p] # "unknown" /\ (cand[p] = "failed" => p \in tried)
  <2>1. /\ d.cand[p] = "querying" => p \in tried
        /\ p \in d.addressed => d.cand[p] # "unknown" /\ (d.cand[p] = "failed" => p \in tried)
    BY DEF Sane
  <2>2. CASE p \notin named \/ d.cand[p] \notin {"unknown", "failed"}
    <3>1. cand[p] = d.cand[p]
      BY <1>3, <2>2
    <3>2. p \notin named => p \notin reachable
      BY <1>6
    <3> QED
      BY <1>9, <2>1, <2>2, <3>1, <3>2
  <2>3. CASE p \in named /\ d.cand[p] \in {"unknown", "failed"}
    <3>1. cand[p] = IF p \in reachable THEN "fresh" ELSE "failed"
      BY <1>3, <2>3
    <3> QED
      BY <1>9, <2>1, <2>3, <3>1
  <2> QED
    BY <2>2, <2>3
<1> QED
  BY <1>11, <1>12, <1>13 DEF Sane

\* What a step makes of the state is sane if what it drives is.
LEMMA EndedSane ==
    ASSUME NEW d, NEW tried, Sane(d, tried)
    PROVE  Sane(Ended(d), tried) /\ Ended(d).state \in {"done", "failed"}
<1>1. d \in Dhts
  BY DEF Sane
<1>2. PICK e : e = IF d.ok > 0 THEN "done" ELSE "failed"
  OBVIOUS
<1>3. e \in {"done", "failed"}
  BY <1>2
<1>4. Ended(d) = [d EXCEPT !.conns = NoConns, !.queue = {}, !.state = e]
  BY <1>1, <1>2 DEF Ended
<1>5. Ended(d) \in Dhts
  BY <1>1, <1>3, <1>4, NoConnsTyped DEF Dhts
<1>6. Ended(d).cand = d.cand /\ Ended(d).addressed = d.addressed /\ Ended(d).state = e
  BY <1>1, <1>4 DEF Dhts
<1> QED
  BY <1>3, <1>5, <1>6 DEF Sane

LEMMA ClosestAmong == \A d : Closest(d) \subseteq KPeers
BY DEF Closest, In

LEMMA StoringSane ==
    ASSUME NEW d, NEW tried, Sane(d, tried), In(d, "responded") # {}
    PROVE  /\ Sane(Storing(d), tried) /\ Storing(d).state = "storing"
           /\ Storing(d).cand = d.cand /\ Storing(d).addressed = d.addressed
           /\ Storing(d).queue = Closest(d)
<1>1. d \in Dhts
  BY DEF Sane
<1>2. PICK q : q = Closest(d)
  OBVIOUS
<1>3. q \in SUBSET KPeers
  BY <1>2, ClosestAmong
<1>4. Storing(d) = [d EXCEPT !.state = "storing", !.conns = NoConns, !.dialed = {}, !.queue = q]
  BY <1>2 DEF Storing
<1>5. Storing(d) \in Dhts
  BY <1>1, <1>3, <1>4, NoConnsTyped DEF Dhts
<1>6. /\ Storing(d).cand = d.cand /\ Storing(d).addressed = d.addressed
      /\ Storing(d).state = "storing" /\ Storing(d).queue = q
  BY <1>1, <1>4 DEF Dhts
<1> QED
  BY <1>2, <1>5, <1>6 DEF Sane

LEMMA ConvergedSane ==
    ASSUME NEW d, NEW tried, Sane(d, tried)
    PROVE  /\ Sane(Converged(d), tried)
           /\ Converged(d).state = "storing" /\ d.state # "storing" =>
                 /\ LookupDone(d) \/ Stalled(d)
                 /\ Converged(d).cand = d.cand /\ Converged(d).addressed = d.addressed
                 /\ Converged(d).queue = Closest(d)
<1>1. d \in Dhts
  BY DEF Sane
<1>2. CASE d.state # "walking" \/ ~(LookupDone(d) \/ Stalled(d))
  <2>1. Converged(d) = d
    BY <1>2 DEF Converged
  <2> QED
    BY <2>1
<1>3. CASE d.state = "walking" /\ (LookupDone(d) \/ Stalled(d)) /\ d.job = "recover"
  <2>1. Converged(d) = [d EXCEPT !.conns = NoConns, !.state = "done"]
    BY <1>3 DEF Converged
  <2>2. Converged(d) \in Dhts
    BY <1>1, <2>1, NoConnsTyped DEF Dhts
  <2>3. Converged(d).cand = d.cand /\ Converged(d).addressed = d.addressed /\ Converged(d).state = "done"
    BY <1>1, <2>1 DEF Dhts
  <2> QED
    BY <2>2, <2>3 DEF Sane
<1>4. CASE d.state = "walking" /\ (LookupDone(d) \/ Stalled(d)) /\ d.job # "recover"
  <2>1. Converged(d) = Storing(d)
    BY <1>4 DEF Converged
  <2>2. CASE In(d, "responded") = {}
    <3>1. Storing(d) = Ended(d)
      BY <2>2 DEF Storing
    <3> QED
      BY <2>1, <3>1, EndedSane
  <2>3. CASE In(d, "responded") # {}
    BY <1>4, <2>1, <2>3, StoringSane
  <2> QED
    BY <2>2, <2>3
<1> QED
  BY <1>2, <1>3, <1>4

\* The slices of drive: what an action makes of the state, before the walk goes on.
Drives(d) ==
    /\ Becomes(d) /\ Sane(d, kTried') /\ d.state = kDht.state
    /\ \A p \in KPeers : d.conns[p] = "none" /\ d.cand[p] = "querying" => kDht.conns[p] = "none"

LEMMA BecomesSane ==
    ASSUME NEW d, Becomes(d), Sane(d, kTried')
    PROVE  KInv' /\ (kDht'.state = "storing" => kDht' = Converged(d))
<1>1. kDht' = IF AllStored(Converged(d)) THEN Ended(Converged(d)) ELSE Converged(d)
  BY Zenon DEF Becomes
<1>2. Sane(Converged(d), kTried')
  BY ConvergedSane
<1>3. Sane(Ended(Converged(d)), kTried') /\ Ended(Converged(d)).state \in {"done", "failed"}
  BY <1>2, EndedSane
<1> QED
  BY <1>1, <1>2, <1>3 DEF KInv

LEMMA DialDrives ==
    ASSUME KInv, NEW connected \in BOOLEAN, Dial(connected) PROVE \E d : Drives(d)
<1>1. kDht \in Dhts
  BY DEF KInv, Sane
<1>2. PICK p : p = Nearest
  OBVIOUS
<1>3. p \in KPeers /\ kDht.cand[p] = "fresh"
  <2>1. Fresh(kDht) \subseteq KPeers /\ Fresh(kDht) # {}
    BY PeersAreNumbers DEF Dial, Fresh
  <2>2. p \in Fresh(kDht)
    BY <1>2, <2>1, PeersAreNumbers, MinIs DEF Nearest
  <2> QED
    BY <2>2 DEF Fresh, In
<1>4. PICK asked : asked = [kDht EXCEPT !.cand[p] = "querying", !.dialed = @ \cup {p}]
  OBVIOUS
<1>5. PICK d : d = IF p \in kDht.dialed THEN asked
                   ELSE IF connected THEN [asked EXCEPT !.conns[p] = "climbing"]
                   ELSE [asked EXCEPT !.cand[p] = "failed"]
  OBVIOUS
<1>6. Becomes(d) /\ kTried' = kTried \cup {p}
  BY <1>2, <1>4, <1>5 DEF Dial
<1>7. asked \in Dhts
  BY <1>1, <1>3, <1>4 DEF Dhts, CandStates
<1>8. d \in Dhts
  BY <1>3, <1>5, <1>7 DEF Dhts, CandStates
<1>9. d.state = kDht.state /\ d.addressed = kDht.addressed
  BY <1>1, <1>4, <1>5, <1>7 DEF Dhts
<1>10. \A r \in KPeers : r # p => d.cand[r] = kDht.cand[r] /\ d.conns[r] = kDht.conns[r]
  BY <1>1, <1>4, <1>5, <1>7 DEF Dhts
<1>11. /\ d.cand[p] \in {"querying", "failed"}
       /\ d.conns[p] = "none" => kDht.conns[p] = "none" \/ d.cand[p] # "querying"
  BY <1>1, <1>3, <1>4, <1>5, <1>7 DEF Dhts
<1>12. Sane(d, kTried')
  BY <1>6, <1>8, <1>9, <1>10, <1>11 DEF KInv, Sane
<1> QED
  BY <1>6, <1>9, <1>10, <1>11, <1>12 DEF Drives

LEMMA StoreDialDrives ==
    ASSUME KInv, NEW connected \in BOOLEAN, StoreDial(connected) PROVE \E d : Drives(d)
<1>1. kDht \in Dhts
  BY DEF KInv, Sane
<1>2. PICK p : p = Min(kDht.queue)
  OBVIOUS
<1>3. p \in KPeers
  BY <1>1, <1>2, PeersAreNumbers, MinIs DEF StoreDial, Dhts
<1>4. PICK left : left = [kDht EXCEPT !.queue = @ \ {p}]
  OBVIOUS
<1>5. PICK d : d = IF connected THEN [left EXCEPT !.conns[p] = "climbing"] ELSE left
  OBVIOUS
<1>6. Becomes(d) /\ kTried' = kTried
  BY <1>2, <1>4, <1>5 DEF StoreDial
<1>7. left \in Dhts
  BY <1>1, <1>4 DEF Dhts
<1>8. d \in Dhts
  BY <1>3, <1>5, <1>7 DEF Dhts
<1>9. d.state = kDht.state /\ d.addressed = kDht.addressed /\ d.cand = kDht.cand
  BY <1>1, <1>4, <1>5, <1>7 DEF Dhts
<1>10. \A r \in KPeers : d.conns[r] = kDht.conns[r] \/ d.conns[r] = "climbing"
  BY <1>1, <1>3, <1>4, <1>5, <1>7 DEF Dhts
<1>11. Sane(d, kTried')
  BY <1>6, <1>8, <1>9 DEF KInv, Sane
<1> QED
  BY <1>6, <1>9, <1>10, <1>11 DEF Drives

LEMMA AnswerDrives ==
    ASSUME KInv, NEW p \in KPeers, NEW told \in KTells[p], Answer(p, told) PROVE \E d : Drives(d)
<1>1. kDht \in Dhts
  BY DEF KInv, Sane
<1>2. PICK b : b = IF KHolds[p] > kDht.best THEN KHolds[p] ELSE kDht.best
  OBVIOUS
<1>3. PICK seen : seen = [kDht EXCEPT !.conns[p] = "flushing", !.best = b]
  OBVIOUS
<1>4. PICK more : more = AddAll(seen, told)
  OBVIOUS
<1>5. PICK d : d = [more EXCEPT !.cand[p] = "responded"]
  OBVIOUS
<1>6. b \in Nat
  BY <1>1, <1>2, WalkAssumption DEF Dhts
<1>7. Becomes(d) /\ kTried' = kTried
  <2>1. seen = [kDht EXCEPT !.conns[p] = "flushing", !.best = IF KHolds[p] > @ THEN KHolds[p] ELSE @]
    BY <1>1, <1>2, <1>3 DEF Dhts
  <2> QED
    BY <1>4, <1>5, <2>1 DEF Answer
<1>8. seen \in Dhts
  BY <1>1, <1>3, <1>6 DEF Dhts
<1>9. seen.cand = kDht.cand /\ seen.addressed = kDht.addressed /\ seen.state = kDht.state
  BY <1>1, <1>3 DEF Dhts
<1>10. Sane(seen, kTried)
  BY <1>8, <1>9 DEF KInv, Sane
<1>11. told \in SUBSET [peer : KPeers, addressed : BOOLEAN]
  BY WalkAssumption
<1>12. Sane(more, kTried)
  BY <1>4, <1>10, <1>11, AddAllSane
<1>13. more.state = seen.state /\ more.conns = seen.conns
  BY <1>4, <1>8 DEF AddAll, Dhts
<1>14. more \in Dhts
  BY <1>12 DEF Sane
<1>15. d \in Dhts
  BY <1>5, <1>14 DEF Dhts, CandStates
<1>16. d.state = kDht.state /\ d.addressed = more.addressed /\ d.conns = seen.conns
  BY <1>5, <1>9, <1>13, <1>14 DEF Dhts
<1>17. d.cand[p] = "responded" /\ \A r \in KPeers \ {p} : d.cand[r] = more.cand[r] /\ d.conns[r] = kDht.conns[r]
  BY <1>1, <1>3, <1>5, <1>14, <1>16 DEF Dhts
<1>18. Sane(d, kTried)
  BY <1>12, <1>15, <1>16, <1>17 DEF Sane
<1> QED
  BY <1>7, <1>16, <1>17, <1>18 DEF Drives

LEMMA ReapedDrives ==
    ASSUME KInv, NEW p \in KPeers, Becomes(Reaped(kDht, p)), kTried' = kTried
    PROVE  \E d : Drives(d)
<1>1. kDht \in Dhts
  BY DEF KInv, Sane
<1>2. PICK c : c = IF kDht.cand[p] = "querying" THEN "failed" ELSE kDht.cand[p]
  OBVIOUS
<1>3. PICK d : d = [kDht EXCEPT !.conns[p] = "none", !.cand[p] = c]
  OBVIOUS
<1>4. Reaped(kDht, p) = d
  BY <1>1, <1>2, <1>3 DEF Reaped, Dhts
<1>5. c \in CandStates
  BY <1>1, <1>2 DEF Dhts, CandStates
<1>6. d \in Dhts
  BY <1>1, <1>3, <1>5 DEF Dhts
<1>7. d.state = kDht.state /\ d.addressed = kDht.addressed /\ d.cand[p] = c
  BY <1>1, <1>3 DEF Dhts
<1>8. \A r \in KPeers \ {p} : d.cand[r] = kDht.cand[r] /\ d.conns[r] = kDht.conns[r]
  BY <1>1, <1>3 DEF Dhts
<1>9. Sane(d, kTried')
  BY <1>2, <1>6, <1>7, <1>8 DEF KInv, Sane
<1> QED
  BY <1>2, <1>4, <1>7, <1>8, <1>9 DEF Drives

\* Steps that do not drive the walk on.
LEMMA AskKeeps == ASSUME KInv, NEW p \in KPeers, Ask(p) PROVE KInv' /\ kDht'.state = kDht.state
<1>1. kDht \in Dhts
  BY DEF KInv, Sane
<1>2. kDht'.cand = kDht.cand /\ kDht'.addressed = kDht.addressed /\ kDht'.state = kDht.state
  BY <1>1 DEF Ask, Dhts
<1>3. kDht' \in Dhts
  <2>1. CASE kDht.state = "walking"
    BY <1>1, <2>1 DEF Ask, Dhts
  <2>2. CASE kDht.state # "walking"
    <3>1. PICK n \in Nat : n = kDht.ok + 1
      BY <1>1 DEF Dhts
    <3>2. kDht' = [kDht EXCEPT !.conns[p] = "flushing", !.ok = n]
      BY <1>1, <2>2, <3>1 DEF Ask, Dhts
    <3> QED
      BY <1>1, <3>2 DEF Dhts
  <2> QED
    BY <2>1, <2>2
<1> QED
  BY <1>2, <1>3 DEF KInv, Sane, Ask

LEMMA DeadlineKeeps == ASSUME KInv, Deadline PROVE KInv' /\ kDht'.state # "storing"
BY EndedSane DEF KInv, Deadline

LEMMA NextDrives ==
    ASSUME KInv, [KNext]_kVars
    PROVE  (\E d : Drives(d)) \/ (KInv' /\ (kDht'.state = "storing" => kDht.state = "storing"))
<1>1. ASSUME NEW connected \in BOOLEAN, Dial(connected) PROVE \E d : Drives(d)
  BY <1>1, DialDrives
<1>2. ASSUME NEW connected \in BOOLEAN, StoreDial(connected) PROVE \E d : Drives(d)
  BY <1>2, StoreDialDrives
<1>3. ASSUME NEW p \in KPeers, Ask(p) PROVE KInv' /\ kDht'.state = kDht.state
  BY <1>3, AskKeeps
<1>4. ASSUME NEW p \in KPeers, CloseConn(p) PROVE \E d : Drives(d)
  BY <1>4, ReapedDrives DEF CloseConn
<1>5. ASSUME NEW p \in KPeers, Break(p) PROVE \E d : Drives(d)
  BY <1>5, ReapedDrives DEF Break
<1>6. ASSUME NEW p \in KPeers, NEW told \in KTells[p], Answer(p, told) PROVE \E d : Drives(d)
  BY <1>6, AnswerDrives
<1>7. CASE Deadline
  BY <1>7, DeadlineKeeps
<1>8. CASE UNCHANGED kVars
  BY <1>8 DEF kVars, KInv
<1> QED
  BY <1>1, <1>2, <1>3, <1>4, <1>5, <1>6, <1>7, <1>8 DEF KNext, Drive

-------------------------------------------------------------------------------
\* What is left when a walk converges.

LEMMA NoneNearer ==
    ASSUME NEW d, d \in Dhts, Fresh(d) = {}, NEW p \in KPeers, p \notin Closest(d),
           d.cand[p] \in {"fresh", "responded"}
    PROVE  Cardinality(Closest(d)) = KStores /\ \A c \in Closest(d) : c < p
<1>1. PICK S : S = In(d, "responded")
  OBVIOUS
<1>2. S \subseteq KPeers /\ S \subseteq Nat /\ Closest(d) = Foremost(KStores, S)
  BY <1>1, PeersAreNumbers DEF Closest, Foremost
<1>3. CASE d.cand[p] = "responded"
  <2>1. p \in S /\ p \notin Foremost(KStores, S) /\ KStores \in Nat \ {0}
    BY <1>1, <1>2, <1>3, WalkAssumption DEF In
  <2> QED
    BY <1>2, <2>1, FirstMany
<1>4. CASE d.cand[p] = "fresh"
  <2>1. p \in In(d, "fresh")
    BY <1>4 DEF In
  <2>2. Cardinality(Closest(d)) = KStores /\ ~ \E c \in Closest(d) : p < c
    BY <2>1 DEF Fresh
  <2>3. ASSUME NEW c \in Closest(d) PROVE c < p
    <3>1. c \in Nat /\ p \in Nat /\ c # p
      BY <2>3, PeersAreNumbers, ClosestAmong
    <3>2. ~ (p < c)
      BY <2>2, <2>3
    <3> QED
      BY <3>1, <3>2
  <2> QED
    BY <2>2, <2>3
<1> QED
  BY <1>3, <1>4

LEMMA StoredClosest ==
    ASSUME KInv, NEW d, Drives(d), kDht.state = "walking", kDht'.state = "storing",
           NEW p \in kDht'.addressed \ kDht'.queue
    PROVE  \/ /\ p \in kTried' /\ kDht'.cand[p] # "responded"
              /\ kDht'.cand[p] = "querying" => kDht.conns[p] = "none"
           \/ Cardinality(kDht'.queue) = KStores /\ \A c \in kDht'.queue : c < p
<1>1. Sane(d, kTried') /\ d \in Dhts /\ d.state = "walking"
  BY DEF Drives, Sane
<1>2. kDht' = Converged(d)
  BY <1>1, BecomesSane DEF Drives
<1>3. /\ LookupDone(d) \/ Stalled(d)
      /\ kDht'.cand = d.cand /\ kDht'.addressed = d.addressed /\ kDht'.queue = Closest(d)
  BY <1>1, <1>2, ConvergedSane
<1>4. p \in KPeers /\ p \in d.addressed /\ p \notin Closest(d)
  BY <1>1, <1>3 DEF Dhts
<1>5. Fresh(d) = {}
  BY <1>3 DEF LookupDone, Stalled
<1>6. d.cand[p] \in {"fresh", "querying", "responded", "failed"}
  BY <1>1, <1>4 DEF Sane, Dhts, CandStates
<1>7. CASE d.cand[p] \in {"fresh", "responded"}
  BY <1>1, <1>3, <1>4, <1>5, <1>7, NoneNearer
<1>8. CASE d.cand[p] = "failed"
  BY <1>1, <1>3, <1>4, <1>8 DEF Sane
<1>9. CASE d.cand[p] = "querying"
  <2>1. Stalled(d)
    BY <1>3, <1>4, <1>9 DEF LookupDone, In
  <2>2. d.conns[p] = "none"
    BY <1>4, <2>1 DEF Stalled, Open
  <2> QED
    BY <1>1, <1>3, <1>4, <1>9, <2>2 DEF Sane, Drives
<1> QED
  BY <1>6, <1>7, <1>8, <1>9

LEMMA InitSane == KInit => KInv
<1> SUFFICES ASSUME KInit PROVE KInv
  OBVIOUS
<1>1. PICK job \in {"recover", "publish"} : kDht = Begun(job) /\ kTried = {}
  BY DEF KInit
<1>2. PICK d : d = [state |-> "walking", job |-> job, cand |-> [p \in KPeers |-> "unknown"],
                    addressed |-> {}, dialed |-> {}, conns |-> NoConns, queue |-> {},
                    ok |-> 0, best |-> 0]
  OBVIOUS
<1>3. PICK told : told = {[peer |-> p, addressed |-> TRUE] : p \in KBootstrap}
  OBVIOUS
<1>4. told \in SUBSET [peer : KPeers, addressed : BOOLEAN]
  <2> SUFFICES ASSUME NEW t \in told PROVE t \in [peer : KPeers, addressed : BOOLEAN]
    OBVIOUS
  <2>1. PICK p \in KBootstrap : t = [peer |-> p, addressed |-> TRUE]
    BY <1>3
  <2>2. p \in KPeers
    BY WalkAssumption
  <2> QED
    BY <2>1, <2>2
<1>5. kDht = AddAll(d, told)
  BY <1>1, <1>2, <1>3 DEF Begun
<1>6. d \in Dhts
  BY <1>2, NoConnsTyped DEF Dhts, CandStates
<1>7. Sane(d, kTried)
  BY <1>2, <1>6 DEF Sane
<1> QED
  BY <1>4, <1>5, <1>7, AddAllSane DEF KInv

\* A record is stored with the closest peers there are to be found: when the walk of a
\* publication converges, no peer it could have reached and that is closer than one it
\* chose was left out, whatever peers tell of others, refuse, or leave unanswered
\* (Lookup of kad.rs; spawn_dials, check_convergence and begin_storing of p2p.rs).
THEOREM ClosestAreStored == KSpec => StoresClosest
<1>1. KInit => KInv
  BY InitSane
<1>2. KInv /\ [KNext]_kVars => KInv'
  <2> SUFFICES ASSUME KInv, [KNext]_kVars PROVE KInv'
    OBVIOUS
  <2>1. ASSUME NEW d, Drives(d) PROVE KInv'
    BY <2>1, BecomesSane DEF Drives
  <2> QED
    BY <2>1, NextDrives
<1>3. KInv /\ [KNext]_kVars =>
        [kDht.state = "walking" /\ kDht'.state = "storing" =>
            LET chosen == kDht'.queue
            IN  \A p \in kDht'.addressed \ chosen :
                   \/ /\ p \in kTried' /\ kDht'.cand[p] # "responded"
                      /\ kDht'.cand[p] = "querying" => kDht.conns[p] = "none"
                   \/ Cardinality(chosen) = KStores /\ \A c \in chosen : c < p]_kVars
  <2> SUFFICES ASSUME KInv, [KNext]_kVars, kDht.state = "walking", kDht'.state = "storing",
                      NEW p \in kDht'.addressed \ kDht'.queue
               PROVE  \/ /\ p \in kTried' /\ kDht'.cand[p] # "responded"
                         /\ kDht'.cand[p] = "querying" => kDht.conns[p] = "none"
                      \/ Cardinality(kDht'.queue) = KStores /\ \A c \in kDht'.queue : c < p
    OBVIOUS
  <2>1. PICK d : Drives(d)
    BY NextDrives
  <2> QED
    BY <2>1, StoredClosest
<1> QED
  BY <1>1, <1>2, <1>3, PTL DEF KSpec, StoresClosest
===============================================================================
