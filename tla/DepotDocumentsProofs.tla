------------------------- MODULE DepotDocumentsProofs -------------------------
(***************************************************************************)
(* Proofs about the documents that depot's servers share, for every number *)
(* of servers, names, pushes, rounds, revisions and faults, and about the  *)
(* packs a repository's manifest lists, for any lengths and pushes.        *)
(*                                                                         *)
(* The rollback witness: a server's first look is as new as every record   *)
(* that was written.  The registry: what was acknowledged stays until      *)
(* somebody deletes it, and the servers change one registry, one entry at  *)
(* a time.  The packs: at rest their number is logarithmic in their        *)
(* length.                                                                 *)
(***************************************************************************)
EXTENDS DepotWitness, DepotRegistry, DepotMerge, FiniteSetTheorems, WellFoundedInduction, TLAPS

-------------------------------------------------------------------------------
\* The witness: its inductive invariant.

Docs == [rev : Nat, writer : Nat]
Records == [rev : Nat, writer : Nat, tag : Nat]
Minds == [copy : Docs, checked : BOOLEAN, known : Records, lag : Docs,
          rolled : SUBSET Docs, down : BOOLEAN, pc : {"idle", "check", "note", "raise"},
          got : Docs, seen : SUBSET Records, duty : Nat, rev : Nat, writer : Nat, round : Nat]

Shapes ==
    /\ wdoc \in Docs /\ wkept \subseteq Docs /\ IsFiniteSet(wkept)
    /\ wrec \in Records
    /\ wsrv \in [WServers -> Minds]
    /\ wnoted \subseteq Nat /\ wstale \subseteq WServers
    /\ wspent \in [faults : Nat, rollbacks : Nat, tags : Nat]

\* A tag is drawn once, and the record that is not there has none.
TagsDrawn ==
    /\ wrec.tag <= wspent.tags
    /\ wrec.tag = 0 => wrec = NoRecord
    /\ \A s \in WServers : /\ wsrv[s].known.tag <= wspent.tags
                           /\ wsrv[s].known.tag = 0 => wsrv[s].known = NoRecord

\* So who knows the witness's tag knows its record.
TagsName == \A s \in WServers : wsrv[s].known.tag = wrec.tag => wsrv[s].known = wrec

\* Only an acceptance lowers the record, and whom it passed by is stale.
KnownOlder ==
    \A s \in WServers : s \notin wstale => wsrv[s].known.rev <= wrec.rev

NotedHeld == \A r \in wnoted : r <= wrec.rev

Coherent == TagsDrawn /\ TagsName /\ KnownOlder /\ NotedHeld
WInv == Shapes /\ Coherent

-------------------------------------------------------------------------------
LEMMA WInitInv == WInit => WInv
<1> SUFFICES ASSUME WInit PROVE WInv
  OBVIOUS
<1> USE DEF WInit, Boot, Missing, NoRecord, None
<1>1. IsFiniteSet({Missing})
  BY FS_Singleton
<1>2. Shapes
  BY <1>1 DEF Shapes, Docs, Records, Minds
<1>3. Coherent
  BY DEF Coherent, TagsDrawn, TagsName, KnownOlder, NotedHeld
<1> QED
  BY <1>2, <1>3 DEF WInv

\* The part of the shapes that the order of the records rests on.
Types ==
    /\ wrec \in Records /\ wrec.rev \in Nat /\ wrec.tag \in Nat
    /\ \A s \in WServers : /\ wsrv[s].known \in Records
                           /\ wsrv[s].known.rev \in Nat /\ wsrv[s].known.tag \in Nat
    /\ wnoted \subseteq Nat /\ wspent.tags \in Nat

LEMMA TypesOfShapes == (Shapes => Types) /\ (Shapes' => Types')
BY DEF Shapes, Types, Minds, Records

\* A step of one server that leaves the record alone and learns at most what the
\* record is keeps what everybody knows in order.
LEMMA Learning ==
    ASSUME WInv, Shapes', NEW s \in WServers,
           wrec' = wrec, wspent'.tags >= wspent.tags,
           \A r \in WServers \ {s} : wsrv'[r].known = wsrv[r].known,
           wsrv'[s].known \in {wsrv[s].known, wrec, NoRecord},
           \/ wstale' = wstale
           \/ wstale' = wstale \ {s} /\ wsrv'[s].known = NoRecord,
           \A r \in wnoted' : r \in wnoted \/ r <= wrec.rev
    PROVE  Coherent'
<1>1. Types /\ Types'
  BY TypesOfShapes DEF WInv
<1>2. TagsDrawn /\ TagsName /\ KnownOlder /\ NotedHeld
  BY DEF WInv, Coherent
<1>3. NoRecord \in Records /\ NoRecord.rev = 0 /\ NoRecord.tag = 0
  BY DEF NoRecord, None, Records
<1>4. TagsDrawn'
  BY <1>1, <1>2, <1>3 DEF TagsDrawn, Types
<1>5. TagsName'
  BY <1>1, <1>2, <1>3 DEF TagsDrawn, TagsName, Types
<1>6. KnownOlder'
  BY <1>1, <1>2, <1>3 DEF KnownOlder, Types
<1>7. NotedHeld'
  BY <1>1, <1>2 DEF NotedHeld, Types
<1> QED
  BY <1>4, <1>5, <1>6, <1>7 DEF Coherent

\* A step that writes a newer record, of a tag drawn now, and whose writer knows
\* that one or none.
LEMMA Raising ==
    ASSUME WInv, Shapes', NEW s \in WServers,
           wspent'.tags = wspent.tags + 1, wrec'.tag = wspent'.tags, wrec'.rev >= wrec.rev,
           \A r \in WServers \ {s} : wsrv'[r].known = wsrv[r].known,
           wsrv'[s].known \in {wrec', NoRecord},
           wstale' = wstale,
           \A r \in wnoted' : r \in wnoted \/ r <= wrec'.rev
    PROVE  Coherent'
<1>1. Types /\ Types'
  BY TypesOfShapes DEF WInv
<1>2. TagsDrawn /\ TagsName /\ KnownOlder /\ NotedHeld
  BY DEF WInv, Coherent
<1>3. NoRecord \in Records /\ NoRecord.rev = 0 /\ NoRecord.tag = 0
  BY DEF NoRecord, None, Records
<1>4. TagsDrawn'
  BY <1>1, <1>2, <1>3 DEF TagsDrawn, Types
<1>5. TagsName'
  <2> SUFFICES ASSUME NEW r \in WServers, wsrv'[r].known.tag = wrec'.tag
               PROVE  wsrv'[r].known = wrec'
    BY DEF TagsName
  <2>1. wrec'.tag > wspent.tags /\ wspent.tags >= 0
    BY <1>1 DEF Types
  <2>2. CASE r = s
    BY <2>1, <2>2, <1>1, <1>3 DEF Types
  <2>3. CASE r # s
    <3>1. wsrv[r].known.tag <= wspent.tags
      BY <1>2 DEF TagsDrawn
    <3>2. wsrv'[r].known = wsrv[r].known
      BY <2>3
    <3> QED
      BY <3>1, <3>2, <2>1, <1>1 DEF Types
  <2> QED
    BY <2>2, <2>3
<1>6. KnownOlder'
  BY <1>1, <1>2, <1>3 DEF KnownOlder, Types
<1>7. NotedHeld'
  <2> SUFFICES ASSUME NEW r \in wnoted' PROVE r <= wrec'.rev
    BY DEF NotedHeld
  <2>1. r \in Nat /\ (r \in wnoted => r <= wrec.rev)
    BY <1>1, <1>2 DEF NotedHeld, Types
  <2> QED
    BY <2>1, <1>1 DEF Types
<1> QED
  BY <1>4, <1>5, <1>6, <1>7 DEF Coherent

\* What Set leaves of the servers.
LEMMA Setting ==
    ASSUME Shapes, NEW s \in WServers, NEW x \in Minds, Set(s, x)
    PROVE  /\ wsrv' \in [WServers -> Minds]
           /\ wsrv'[s] = x
           /\ \A r \in WServers \ {s} : wsrv'[r] = wsrv[r]
BY DEF Set, Shapes

LEMMA Constants ==
    /\ Missing \in Docs /\ NoRecord \in Records
    /\ Boot \in Minds /\ Boot.known = NoRecord
BY DEF Missing, NoRecord, Boot, None, Docs, Records, Minds

\* What raising ends in.
LEMMA Ends ==
    ASSUME NEW x \in Minds, NEW known \in Records
    PROVE  /\ Unwritten(x) \in Minds
           /\ Unwritten(x).known = x.known /\ Unwritten(x).checked = x.checked
           /\ Written(x, known) \in Minds
           /\ Written(x, known).known = known /\ Written(x, known).checked = x.checked
<1>1. Idle(x) \in Minds /\ Idle(x).known = x.known /\ Idle(x).checked = x.checked
  BY DEF Idle, Minds, None
<1>2. [rev |-> x.rev, writer |-> x.writer] \in Docs
  BY DEF Minds, Docs
<1>3. Missing \in Docs
  BY Constants
<1>4. /\ Unwritten(x) \in Minds
      /\ Unwritten(x).known = x.known /\ Unwritten(x).checked = x.checked
  BY <1>1, <1>2 DEF Unwritten, Minds
<1>5. /\ Written(x, known) \in Minds
      /\ Written(x, known).known = known /\ Written(x, known).checked = x.checked
  BY <1>1, <1>3 DEF Written, Minds
<1> QED
  BY <1>4, <1>5

-------------------------------------------------------------------------------
\* The steps that touch neither the record nor what is known of it.
LEMMA LoadInv == ASSUME WInv, NEW s \in WServers, Load(s) PROVE WInv'
<1> DEFINE x == wsrv[s]
<1>1. x \in Minds /\ wdoc \in Docs
  BY DEF WInv, Shapes
<1>2. PICK y \in Minds : Set(s, y) /\ y.known = x.known
  <2>1. [x EXCEPT !.copy = wdoc] \in Minds /\ [x EXCEPT !.copy = wdoc].known = x.known
    BY <1>1 DEF Minds
  <2>2. /\ [x EXCEPT !.pc = "check", !.got = wdoc] \in Minds
        /\ [x EXCEPT !.pc = "check", !.got = wdoc].known = x.known
    BY <1>1 DEF Minds
  <2> QED
    BY <2>1, <2>2 DEF Load
<1>3. Shapes'
  BY <1>2, Setting DEF WInv, Shapes, Load
<1>4. Coherent'
  BY <1>2, <1>3, Setting, Learning DEF WInv, Shapes, Load
<1> QED
  BY <1>3, <1>4 DEF WInv

LEMMA SaveDocInv == ASSUME WInv, NEW s \in WServers, SaveDoc(s) PROVE WInv'
<1> DEFINE x == wsrv[s]
           new == [rev |-> x.copy.rev + 1, writer |-> Cardinality(wkept)]
           noting == [x EXCEPT !.copy = new, !.pc = "note", !.duty = new.rev,
                               !.rev = new.rev, !.writer = new.writer]
<1>1. x \in Minds /\ x.copy.rev \in Nat
  BY DEF WInv, Shapes, Minds, Docs
<1>2. Cardinality(wkept) \in Nat
  BY FS_CardinalityType DEF WInv, Shapes
<1>3. new \in Docs /\ new.rev \in Nat /\ new.writer \in Nat
  BY <1>1, <1>2 DEF Docs
<1> HIDE DEF new
<1>4. noting \in Minds /\ noting.known = x.known
  BY <1>1, <1>3 DEF Minds
<1>5. /\ wdoc' = new /\ wkept' = wkept \cup {new}
      /\ (Set(s, noting) /\ wspent' = wspent) \/ (WFault /\ wsrv' = wsrv)
      /\ wrec' = wrec /\ wnoted' = wnoted /\ wstale' = wstale
  BY DEF SaveDoc, new
<1> HIDE DEF noting
<1>6. IsFiniteSet(wkept')
  BY <1>5, FS_AddElement DEF WInv, Shapes
<1>7. wspent' \in [faults : Nat, rollbacks : Nat, tags : Nat] /\ wspent'.tags = wspent.tags
  BY <1>5 DEF WFault, WInv, Shapes
<1>8. /\ wsrv' \in [WServers -> Minds] /\ wsrv'[s].known = x.known
      /\ \A r \in WServers \ {s} : wsrv'[r] = wsrv[r]
  BY <1>4, <1>5, Setting DEF WInv, Shapes
<1>9. Shapes'
  BY <1>3, <1>5, <1>6, <1>7, <1>8 DEF WInv, Shapes
<1>10. Coherent'
  BY <1>5, <1>7, <1>8, <1>9, Learning DEF WInv, Shapes
<1> QED
  BY <1>9, <1>10 DEF WInv

LEMMA NoteInv == ASSUME WInv, NEW s \in WServers, Note(s) PROVE WInv'
<1> DEFINE x == wsrv[s]
<1>1. x \in Minds
  BY DEF WInv, Shapes
<1>2. PICK y \in Minds : Set(s, y) /\ y.known = x.known
  <2>1. [x EXCEPT !.pc = "raise"] \in Minds /\ [x EXCEPT !.pc = "raise"].known = x.known
    BY <1>1 DEF Minds
  <2>2. Unwritten(x) \in Minds /\ Unwritten(x).known = x.known
    BY <1>1, Constants, Ends
  <2> QED
    BY <2>1, <2>2 DEF Note
<1>3. Shapes'
  BY <1>2, Setting DEF WInv, Shapes, Note
<1>4. Coherent'
  BY <1>2, <1>3, Setting, Learning DEF WInv, Shapes, Note
<1> QED
  BY <1>3, <1>4 DEF WInv

LEMMA RetryInv == ASSUME WInv, NEW s \in WServers, Retry(s) PROVE WInv'
<1> DEFINE x == wsrv[s]
           y == [x EXCEPT !.pc = "raise", !.lag = Missing, !.rev = x.lag.rev, !.writer = x.lag.writer]
<1>1. x \in Minds
  BY DEF WInv, Shapes
<1>2. Set(s, y)
  BY DEF Retry
<1>3. y \in Minds /\ y.known = x.known
  BY <1>1, Constants DEF Minds, Docs
<1> HIDE DEF y
<1>4. Shapes'
  BY <1>2, <1>3, Setting DEF WInv, Shapes, Retry
<1>5. Coherent'
  BY <1>2, <1>3, <1>4, Setting, Learning DEF WInv, Shapes, Retry
<1> QED
  BY <1>4, <1>5 DEF WInv

LEMMA RecoverInv == ASSUME WInv, NEW s \in WServers, Recover(s) PROVE WInv'
<1> DEFINE y == [wsrv[s] EXCEPT !.down = FALSE]
<1>1. y \in Minds /\ y.known = wsrv[s].known
  BY DEF WInv, Shapes, Minds
<1>2. Set(s, y)
  BY DEF Recover
<1> HIDE DEF y
<1>3. Shapes'
  BY <1>1, <1>2, Setting DEF WInv, Shapes, Recover
<1>4. Coherent'
  BY <1>1, <1>2, <1>3, Setting, Learning DEF WInv, Shapes, Recover
<1> QED
  BY <1>3, <1>4 DEF WInv

LEMMA RollbackInv == ASSUME WInv, Rollback PROVE WInv'
<1>1. Shapes'
  BY DEF WInv, Shapes, Rollback
<1>2. Coherent'
  BY DEF WInv, Shapes, Rollback, Coherent, TagsDrawn, TagsName, KnownOlder, NotedHeld
<1> QED
  BY <1>1, <1>2 DEF WInv

LEMMA CrashInv == ASSUME WInv, NEW s \in WServers, WCrash(s) PROVE WInv'
<1>1. wspent' \in [faults : Nat, rollbacks : Nat, tags : Nat] /\ wspent'.tags = wspent.tags
  BY DEF WCrash, WFault, WInv, Shapes
<1>2. Shapes'
  BY <1>1, Constants, Setting DEF WInv, Shapes, WCrash
<1>3. Coherent'
  BY <1>1, <1>2, Constants, Setting, Learning DEF WInv, Shapes, WCrash
<1> QED
  BY <1>2, <1>3 DEF WInv

-------------------------------------------------------------------------------
\* The steps that read the record.
LEMMA CheckInv == ASSUME WInv, NEW s \in WServers, Check(s) PROVE WInv'
<1> DEFINE x == wsrv[s]
           read == [x EXCEPT !.pc = "idle", !.got = Missing, !.known = wrec]
<1>1. x \in Minds /\ wrec \in Records /\ Missing \in Docs
  BY Constants DEF WInv, Shapes
<1>2. read \in Minds /\ read.known = wrec
  BY <1>1 DEF Minds
<1>3. /\ wspent' \in [faults : Nat, rollbacks : Nat, tags : Nat] /\ wspent'.tags = wspent.tags
      /\ UNCHANGED <<wdoc, wkept, wrec, wnoted, wstale>>
  BY DEF Check, WFault, WInv, Shapes
<1>4. PICK y \in Minds : Set(s, y) /\ y.known \in {x.known, wrec}
  <2>1. /\ [read EXCEPT !.copy = x.got, !.checked = TRUE, !.rolled = {}] \in Minds
        /\ [read EXCEPT !.copy = x.got, !.checked = TRUE, !.rolled = {}].known = wrec
    BY <1>1, <1>2 DEF Minds
  <2>2. /\ [read EXCEPT !.rolled = {x.got}] \in Minds
        /\ [read EXCEPT !.rolled = {x.got}].known = wrec
    BY <1>1, <1>2 DEF Minds
  <2>3. /\ [x EXCEPT !.pc = "idle", !.got = Missing] \in Minds
        /\ [x EXCEPT !.pc = "idle", !.got = Missing].known = x.known
    BY <1>1 DEF Minds
  <2> QED
    BY <2>1, <2>2, <2>3 DEF Check
<1>5. Shapes'
  BY <1>3, <1>4, Setting DEF WInv, Shapes
<1>6. Coherent'
  BY <1>3, <1>4, <1>5, Setting, Learning DEF WInv, Shapes
<1> QED
  BY <1>5, <1>6 DEF WInv

LEMMA RaiseReadInv == ASSUME WInv, NEW s \in WServers, RaiseRead(s) PROVE WInv'
<1> DEFINE x == wsrv[s]
<1>1. x \in Minds /\ wrec \in Records
  BY DEF WInv, Shapes
<1>2. /\ wspent' \in [faults : Nat, rollbacks : Nat, tags : Nat] /\ wspent'.tags = wspent.tags
      /\ UNCHANGED <<wdoc, wkept, wrec, wnoted, wstale>>
  BY DEF RaiseRead, WFault, WInv, Shapes
<1>3. PICK y \in Minds : Set(s, y) /\ y.known \in {x.known, wrec}
  <2>1. /\ [x EXCEPT !.known = wrec, !.seen = {wrec}] \in Minds
        /\ [x EXCEPT !.known = wrec, !.seen = {wrec}].known = wrec
    BY <1>1 DEF Minds
  <2>2. Unwritten(x) \in Minds /\ Unwritten(x).known = x.known
    BY <1>1, Ends
  <2> QED
    BY <2>1, <2>2 DEF RaiseRead
<1>4. Shapes'
  BY <1>2, <1>3, Setting DEF WInv, Shapes
<1>5. Coherent'
  BY <1>2, <1>3, <1>4, Setting, Learning DEF WInv, Shapes
<1> QED
  BY <1>4, <1>5 DEF WInv

-------------------------------------------------------------------------------
\* The steps that write it.  A PUT that is accepted replaces the very record its
\* writer knows, which is older than what it writes: the record only rises.
LEMMA RaisePutInv == ASSUME WInv, NEW s \in WServers, RaisePut(s) PROVE WInv'
<1> DEFINE x == wsrv[s]
           new == [rev |-> x.rev, writer |-> x.writer, tag |-> wspent.tags + 1]
           forgot == [x EXCEPT !.known = NoRecord]
           again == IF x.round + 1 < WRounds
                    THEN [x EXCEPT !.known = NoRecord, !.seen = {}, !.round = @ + 1]
                    ELSE Unwritten(forgot)
           drawn == [wspent EXCEPT !.tags = @ + 1]
           noted == wnoted \cup (IF s \in wstale THEN {} ELSE {x.rev})
<1>1. /\ x \in Minds /\ wspent.tags \in Nat /\ x.rev \in Nat /\ x.known \in Records
      /\ x.known.rev \in Nat /\ x.known.tag \in Nat /\ wrec.rev \in Nat
  BY DEF WInv, Shapes, Minds, Records
<1>2. new \in Records /\ new.tag = wspent.tags + 1 /\ new.rev = x.rev
  BY <1>1 DEF Records, Minds
<1>3. again \in Minds /\ again.known = NoRecord
  <2>1. forgot \in Minds /\ forgot.known = NoRecord
    BY <1>1, Constants DEF Minds
  <2>2. Unwritten(forgot) \in Minds /\ Unwritten(forgot).known = NoRecord
    BY <2>1, Constants, Ends
  <2>3. /\ [x EXCEPT !.known = NoRecord, !.seen = {}, !.round = @ + 1] \in Minds
        /\ [x EXCEPT !.known = NoRecord, !.seen = {}, !.round = @ + 1].known = NoRecord
    <3>1. x.round + 1 \in Nat
      BY <1>1 DEF Minds
    <3> QED
      BY <1>1, <3>1, Constants DEF Minds
  <2> QED
    BY <2>2, <2>3
<1>4. /\ Written(x, x.known) \in Minds /\ Written(x, x.known).known = x.known
      /\ Written(x, new) \in Minds /\ Written(x, new).known = new
  BY <1>1, <1>2, Ends
<1>5. /\ drawn \in [faults : Nat, rollbacks : Nat, tags : Nat]
      /\ drawn.tags = wspent.tags + 1
      /\ [drawn EXCEPT !.faults = @ + 1] \in [faults : Nat, rollbacks : Nat, tags : Nat]
      /\ [drawn EXCEPT !.faults = @ + 1].tags = wspent.tags + 1
  <2>1. wspent \in [faults : Nat, rollbacks : Nat, tags : Nat]
    BY DEF WInv, Shapes
  <2>2. wspent.tags + 1 \in Nat /\ wspent.faults + 1 \in Nat
    BY <2>1
  <2> QED
    BY <2>1, <2>2
<1>6. Replaces(wrec, x.known) => wrec.rev = x.known.rev
  BY DEF Replaces, WInv, Coherent, TagsName
<1>7. noted \subseteq Nat /\ wnoted \subseteq Nat
  BY <1>1 DEF WInv, Shapes
<1>8. wdoc' = wdoc /\ wkept' = wkept /\ wstale' = wstale
  BY DEF RaisePut
<1>9. \/ /\ x.known.rev >= x.rev
         /\ Set(s, Written(x, x.known)) /\ wnoted' = noted /\ wrec' = wrec /\ wspent' = wspent
      \/ /\ x.known.rev < x.rev /\ Replaces(wrec, x.known)
         /\ wrec' = new /\ wspent' = drawn
         /\ Set(s, Written(x, new)) /\ wnoted' = noted
      \/ /\ Set(s, again) /\ wrec' = wrec /\ wnoted' = wnoted /\ wspent' = wspent
      \/ /\ x.known.rev < x.rev
         /\ wspent' = [drawn EXCEPT !.faults = @ + 1]
         /\ wrec' = wrec \/ (Replaces(wrec, x.known) /\ wrec' = new)
         /\ Set(s, again) /\ wnoted' = wnoted
  BY Zenon DEF RaisePut
<1> HIDE DEF x, new, again, drawn, noted
<1>10. CASE /\ x.known.rev >= x.rev
            /\ Set(s, Written(x, x.known)) /\ wnoted' = noted /\ wrec' = wrec /\ wspent' = wspent
  <2>1. Shapes'
    BY <1>4, <1>7, <1>8, <1>10, Setting DEF WInv, Shapes
  <2>2. \A r \in wnoted' : r \in wnoted \/ r <= wrec.rev
    BY <1>1, <1>10 DEF WInv, Coherent, KnownOlder, noted, x
  <2> QED
    BY <1>1, <1>4, <1>8, <1>10, <2>1, <2>2, Setting, Learning DEF WInv, x
<1>11. CASE /\ x.known.rev < x.rev /\ Replaces(wrec, x.known)
            /\ wrec' = new /\ wspent' = drawn
            /\ Set(s, Written(x, new)) /\ wnoted' = noted
  <2>1. Shapes'
    BY <1>2, <1>4, <1>5, <1>7, <1>8, <1>11, Setting DEF WInv, Shapes
  <2>2. \A r \in wnoted' : r \in wnoted \/ r <= wrec'.rev
    BY <1>1, <1>2, <1>11 DEF noted
  <2>3. wrec'.rev >= wrec.rev
    BY <1>1, <1>2, <1>6, <1>11
  <2> QED
    BY <1>2, <1>4, <1>5, <1>8, <1>11, <2>1, <2>2, <2>3, Setting, Raising DEF WInv
<1>12. CASE Set(s, again) /\ wrec' = wrec /\ wnoted' = wnoted /\ wspent' = wspent
  <2>1. Shapes'
    BY <1>3, <1>8, <1>12, Setting DEF WInv, Shapes
  <2> QED
    BY <1>1, <1>3, <1>8, <1>12, <2>1, Setting, Learning DEF WInv
<1>13. CASE /\ x.known.rev < x.rev
            /\ wspent' = [drawn EXCEPT !.faults = @ + 1]
            /\ wrec' = wrec \/ (Replaces(wrec, x.known) /\ wrec' = new)
            /\ Set(s, again) /\ wnoted' = wnoted
  <2>1. Shapes'
    BY <1>2, <1>3, <1>5, <1>8, <1>13, Setting DEF WInv, Shapes
  <2>2. CASE wrec' = wrec
    BY <1>1, <1>3, <1>5, <1>8, <1>13, <2>1, <2>2, Setting, Learning DEF WInv
  <2>3. CASE Replaces(wrec, x.known) /\ wrec' = new
    <3>1. wrec'.rev >= wrec.rev
      BY <1>1, <1>2, <1>6, <1>13, <2>3
    <3> QED
      BY <1>2, <1>3, <1>5, <1>8, <1>13, <2>1, <2>3, <3>1, Setting, Raising DEF WInv
  <2> QED
    BY <1>13, <2>2, <2>3
<1> QED
  BY <1>9, <1>10, <1>11, <1>12, <1>13

\* An acceptance lowers the record, after which nothing counts as noted and only
\* who forgets everything is not stale.
LEMMA AcceptInv == ASSUME WInv, NEW s \in WServers, Accept(s) PROVE WInv'
<1> DEFINE x == wsrv[s]
           y == [x EXCEPT !.rolled = {}, !.known = NoRecord, !.copy = Missing, !.duty = 0]
<1>1. /\ x \in Minds /\ wspent.tags \in Nat /\ wrec \in Records
      /\ wspent \in [faults : Nat, rollbacks : Nat, tags : Nat]
  BY DEF WInv, Shapes
<1>2. y \in Minds /\ y.known = NoRecord
  BY <1>1, Constants DEF Minds
<1>3. /\ wrec' \in Records
      /\ wrec' = NoRecord \/ wrec'.tag = wspent.tags + 1
  <2>1. PICK got \in x.rolled :
          wrec' = IF got = Missing THEN NoRecord
                  ELSE [rev |-> got.rev, writer |-> got.writer, tag |-> wspent.tags + 1]
    BY DEF Accept
  <2>2. got.rev \in Nat /\ got.writer \in Nat
    BY <1>1, <2>1 DEF Minds, Docs
  <2> QED
    BY <1>1, <2>1, <2>2, Constants DEF Records
<1>4. /\ wspent' \in [faults : Nat, rollbacks : Nat, tags : Nat]
      /\ wspent'.tags = wspent.tags + 1
      /\ wnoted' = {} /\ wdoc' = wdoc /\ wkept' = wkept
  <2>1. wspent.tags + 1 \in Nat /\ wspent.faults + 1 \in Nat
    BY <1>1
  <2> QED
    BY <1>1, <2>1 DEF Accept
<1>5. \/ Set(s, y) /\ wstale' = WServers \ {s}
      \/ wsrv' = wsrv /\ wstale' = WServers
  BY DEF Accept
<1> HIDE DEF y
<1>6. Shapes'
  BY <1>2, <1>3, <1>4, <1>5, Setting DEF WInv, Shapes
<1>7. /\ \A r \in WServers : wsrv'[r].known = wsrv[r].known \/ wsrv'[r].known = NoRecord
      /\ \A r \in WServers : r \notin wstale' => wsrv'[r].known = NoRecord
  BY <1>2, <1>5, Setting DEF WInv
<1>8. Types /\ Types'
  BY <1>6, TypesOfShapes DEF WInv
<1>9. NoRecord.tag = 0 /\ NoRecord.rev = 0
  BY DEF NoRecord
<1>10. /\ TagsDrawn
       /\ \A r \in WServers : /\ wsrv'[r].known.tag <= wspent.tags
                              /\ wsrv'[r].known.tag = 0 => wsrv'[r].known = NoRecord
  BY <1>1, <1>7, <1>9 DEF WInv, Coherent, TagsDrawn
<1>11. TagsDrawn'
  BY <1>1, <1>3, <1>4, <1>8, <1>9, <1>10 DEF TagsDrawn, Types
<1>12. TagsName'
  BY <1>1, <1>3, <1>8, <1>9, <1>10 DEF TagsName, Types
<1>13. KnownOlder'
  BY <1>7, <1>8, <1>9 DEF KnownOlder, Types
<1>14. NotedHeld'
  BY <1>4 DEF NotedHeld
<1> QED
  BY <1>6, <1>11, <1>12, <1>13, <1>14 DEF WInv, Coherent

-------------------------------------------------------------------------------
LEMMA WStepInv == WInv /\ [WNext]_wvars => WInv'
<1> SUFFICES ASSUME WInv, [WNext]_wvars PROVE WInv'
  OBVIOUS
<1>1. CASE UNCHANGED wvars
  BY <1>1 DEF wvars, WInv, Shapes, Coherent, TagsDrawn, TagsName, KnownOlder, NotedHeld
<1>2. CASE Rollback
  BY <1>2, RollbackInv
<1>3. ASSUME NEW s \in WServers,
             WWork(s) \/ Load(s) \/ SaveDoc(s) \/ Recover(s) \/ Accept(s) \/ WCrash(s)
      PROVE  WInv'
  BY <1>3, NoteInv, RetryInv, RaiseReadInv, RaisePutInv, CheckInv, LoadInv, SaveDocInv,
     RecoverInv, AcceptInv, CrashInv DEF WWork
<1> QED
  BY <1>1, <1>2, <1>3 DEF WNext

\* Only a check makes a server take a document at its first look.
LEMMA OnlyCheck ==
    ASSUME WInv, [WNext]_wvars, NEW s \in WServers, ~wsrv[s].checked, wsrv'[s].checked
    PROVE  Check(s)
<1>1. wsrv \in [WServers -> Minds] /\ ~Boot.checked
  BY DEF WInv, Shapes, Boot
<1>2. ~UNCHANGED wvars /\ ~Rollback
  BY DEF wvars, Rollback
<1>3. PICK p \in WServers :
        WWork(p) \/ Load(p) \/ SaveDoc(p) \/ Recover(p) \/ Accept(p) \/ WCrash(p)
  BY <1>2 DEF WNext
<1>4. p = s
  BY <1>1, <1>3 DEF WWork, Note, Retry, RaiseRead, RaisePut, Check, Load, SaveDoc, Recover,
                    Accept, WCrash, Set
<1> DEFINE x == wsrv[s]
<1>5. x \in Minds
  BY <1>1
<1>6. \A y : y.checked = x.checked => ~Set(s, y)
  BY <1>1 DEF Set
<1>7. ~Load(s) /\ ~Recover(s) /\ ~WCrash(s) /\ ~Accept(s)
  <2>1. ~Load(s)
    <3>1. ~Set(s, [x EXCEPT !.pc = "check", !.got = wdoc])
      BY <1>1, <1>5 DEF Set, Minds
    <3> QED
      BY <3>1 DEF Load
  <2>2. ~Recover(s)
    <3>1. ~Set(s, [x EXCEPT !.down = FALSE])
      BY <1>1, <1>5 DEF Set, Minds
    <3> QED
      BY <3>1 DEF Recover
  <2>3. ~WCrash(s)
    <3>1. ~Set(s, Boot)
      BY <1>1, <1>5 DEF Set, Minds
    <3> QED
      BY <3>1 DEF WCrash
  <2>4. ~Accept(s)
    <3>1. ~Set(s, [x EXCEPT !.rolled = {}, !.known = NoRecord, !.copy = Missing, !.duty = 0])
      <4>1. [x EXCEPT !.rolled = {}, !.known = NoRecord, !.copy = Missing, !.duty = 0].checked = x.checked
        BY <1>5 DEF Minds
      <4> QED
        BY <4>1, <1>6
    <3>2. ~UNCHANGED wsrv
      OBVIOUS
    <3> QED
      BY <3>1, <3>2 DEF Accept
  <2> QED
    BY <2>1, <2>2, <2>3, <2>4
<1>8. ~SaveDoc(s)
  BY DEF SaveDoc
<1>9. ~Set(s, Unwritten(x))
  BY <1>5, <1>6, Constants, Ends
<1>10. ~Note(s) /\ ~Retry(s) /\ ~RaiseRead(s)
  <2>1. ~Set(s, [x EXCEPT !.pc = "raise"])
    BY <1>1, <1>5 DEF Set, Minds
  <2>2. ~Set(s, [x EXCEPT !.pc = "raise", !.lag = Missing, !.rev = x.lag.rev, !.writer = x.lag.writer])
    <3>1. [x EXCEPT !.pc = "raise", !.lag = Missing, !.rev = x.lag.rev, !.writer = x.lag.writer].checked = x.checked
      BY <1>5 DEF Minds
    <3> QED
      BY <3>1, <1>6
  <2>3. ~Set(s, [x EXCEPT !.known = wrec, !.seen = {wrec}])
    <3>1. [x EXCEPT !.known = wrec, !.seen = {wrec}].checked = x.checked
      BY <1>5 DEF Minds
    <3> QED
      BY <3>1, <1>6
  <2> QED
    BY <1>9, <2>1, <2>2, <2>3 DEF Note, Retry, RaiseRead
<1>11. ~RaisePut(s)
  <2>1. \A known \in Records : ~Set(s, Written(x, known))
    BY <1>5, <1>6, Ends
  <2>2. x.known \in Records /\ [rev |-> x.rev, writer |-> x.writer, tag |-> wspent.tags + 1] \in Records
    BY <1>5 DEF WInv, Shapes, Minds, Records
  <2>3. /\ [x EXCEPT !.known = NoRecord] \in Minds
        /\ [x EXCEPT !.known = NoRecord].checked = x.checked
    BY <1>5, Constants DEF Minds
  <2>4. ~Set(s, Unwritten([x EXCEPT !.known = NoRecord]))
    BY <1>6, <2>3, Constants, Ends
  <2>5. ~Set(s, [x EXCEPT !.known = NoRecord, !.seen = {}, !.round = @ + 1])
    <3>1. [x EXCEPT !.known = NoRecord, !.seen = {}, !.round = @ + 1].checked = x.checked
      BY <1>5 DEF Minds
    <3> QED
      BY <3>1, <1>6
  <2> QED
    BY <2>1, <2>2, <2>4, <2>5 DEF RaisePut
<1> QED
  BY <1>3, <1>4, <1>7, <1>8, <1>10, <1>11 DEF WWork

\* And one that finds nothing older.
LEMMA CheckFresh ==
    ASSUME WInv, NEW s \in WServers, Check(s), ~wsrv[s].checked, wsrv'[s].checked,
           NEW r \in wnoted
    PROVE  wsrv'[s].copy.rev >= r
<1> DEFINE x == wsrv[s]
           read == [x EXCEPT !.pc = "idle", !.got = Missing, !.known = wrec]
<1>1. x \in Minds /\ x.got.rev \in Nat /\ wrec.rev \in Nat /\ r \in Nat
  BY DEF WInv, Shapes, Minds, Docs, Records
<1>2. r <= wrec.rev
  BY DEF WInv, Coherent, NotedHeld
<1>3. wsrv \in [WServers -> Minds]
  BY DEF WInv, Shapes
<1>4. CASE ~Older(wrec, x.got) /\ Set(s, [read EXCEPT !.copy = x.got, !.checked = TRUE, !.rolled = {}])
  <2>1. wsrv'[s].copy = x.got
    BY <1>1, <1>3, <1>4 DEF Set, Minds
  <2> QED
    BY <1>1, <1>2, <1>4, <2>1 DEF Older
<1>5. CASE Set(s, [read EXCEPT !.rolled = {x.got}])
  BY <1>1, <1>3, <1>5 DEF Set, Minds
<1>6. CASE Set(s, [x EXCEPT !.pc = "idle", !.got = Missing])
  BY <1>1, <1>3, <1>6 DEF Set, Minds
<1> QED
  BY <1>4, <1>5, <1>6 DEF Check

\* What a server does not know better it takes only as new as every revision that
\* was witnessed before: witness.rs's promise, however many servers share the
\* witness, whatever they know of it and whatever fails.
THEOREM FirstLookIsFresh == WSpec => FirstLookFresh
<1>1. WInv /\ [WNext]_wvars =>
        [\A s \in WServers :
            ~wsrv[s].checked /\ wsrv[s]'.checked => \A r \in wnoted : wsrv[s]'.copy.rev >= r]_wvars
  BY OnlyCheck, CheckFresh
<1> QED
  BY <1>1, WInitInv, WStepInv, PTL DEF WSpec, FirstLookFresh

-------------------------------------------------------------------------------
\* The registry: its inductive invariant.

RegDocs == [rev : Nat, writer : Nat, ids : [GNames -> Ids \cup {NoId}], public : SUBSET Ids]
RepoMans == [writer : Nat, pushes : SUBSET GPushes]
Memories == UNION {[held -> RepoMans] : held \in SUBSET Ids}
RegMinds == [reg : RegDocs, fresh : BOOLEAN, mem : Memories]
RegCalls == [kind : {"none", "register", "delete", "publish", "commit"},
             st : {"read", "put", "settle", "wipe"}, name : GNames \cup {"none"},
             id : Ids \cup {NoId}, push : GPushes \cup {"none"}, round : Nat, nonce : Nat]
RegPushes == [st : {"new", "going", "commit", "refused", "done"}, s : GServers \cup {"none"},
              name : GNames \cup {"none"}, id : Ids \cup {NoId}, created : BOOLEAN]

RegTypes ==
    /\ greg \in RegDocs /\ gman \in [Ids -> RepoMans] /\ gsrv \in [GServers -> RegMinds]
    /\ gcall \in [GServers -> RegCalls] /\ gpush \in [GPushes -> RegPushes]
    /\ gasked \subseteq Ids /\ gtold \subseteq GNames \X Ids
    /\ gspent \in [ids : Nat, calls : Nat, faults : Nat, nonces : Nat]

\* A nonce names one version: who has the ETag of a document has the document.
NoncesName ==
    /\ greg.writer <= gspent.nonces
    /\ \A i \in Ids : /\ gman[i].writer <= gspent.nonces
                      /\ gman[i].writer = None => gman[i] = NoGman
    /\ \A s \in GServers :
          /\ gsrv[s].reg.writer <= gspent.nonces
          /\ gsrv[s].reg.writer = greg.writer => gsrv[s].reg = greg
          /\ \A i \in Loaded(gsrv[s]) :
                /\ gsrv[s].mem[i].writer <= gspent.nonces
                /\ gsrv[s].mem[i].writer = None => gsrv[s].mem[i] = NoGman
                /\ gsrv[s].mem[i].writer = gman[i].writer => gsrv[s].mem[i] = gman[i]

\* Whoever speaks of an id speaks of it under the one name it was drawn for.
Bears(n, i) ==
    \/ greg.ids[n] = i
    \/ \E s \in GServers : gsrv[s].reg.ids[n] = i
    \/ \E s \in GServers : gcall[s].kind \in {"register", "commit"} /\ gcall[s].name = n /\ gcall[s].id = i
    \/ \E p \in GPushes : gpush[p].st # "new" /\ gpush[p].name = n /\ gpush[p].id = i
OneName ==
    /\ \A i \in Ids : \A n \in GNames : Bears(n, i) =>
           i <= gspent.ids /\ \A m \in GNames : Bears(m, i) => m = n
    /\ \A p \in GPushes : gpush[p].st # "new" =>
           gpush[p].id \in Ids /\ gpush[p].name \in GNames /\ gpush[p].s \in GServers

\* What a server knows of a repository was true once, and still is unless somebody set
\* out to delete it.
Holds(i) == i \in gasked \/ \E n \in GNames : greg.ids[n] = i
Standing ==
    /\ \A i \in gasked : i <= gspent.ids
    /\ \A s \in GServers : /\ \A n \in GNames : \A i \in Ids : gsrv[s].reg.ids[n] = i => Holds(i)
                           /\ \A i \in Loaded(gsrv[s]) : Holds(i)
    /\ AcknowledgedStays

\* A call that creates a repository, of which it has not yet offered a registry, and a push
\* that may still start one: nobody else creates that id, and nobody has seen it.
Unoffered(c) == c.kind = "register" /\ c.round = 0 /\ c.st \in {"read", "put"}
Bringing(q) == q.st = "going" /\ q.created
Alone ==
    \A i \in Ids :
        LET Calls == {s \in GServers : gcall[s].kind = "register" /\ gcall[s].id = i}
            Brings == {p \in GPushes : Bringing(gpush[p]) /\ gpush[p].id = i}
        IN
        /\ \A s \in Calls : Unoffered(gcall[s]) => ~Holds(i)
        /\ \A p \in Brings : ~Holds(i)
        /\ \A s, r \in Calls : s = r
        /\ \A p, q \in Brings : p = q
        /\ Calls = {} \/ Brings = {}

\* A call that commits a push has the push's name and id, and the repository in memory;
\* what a round is about to write, or has sent, fits what it read.
Pushing(c) == /\ c.push \in GPushes /\ gpush[c.push].st # "new"
              /\ gpush[c.push].name = c.name /\ gpush[c.push].id = c.id
CallFits(s) ==
    LET c == gcall[s]
        i == gsrv[s].reg.ids[c.name]
    IN
    /\ c.kind \in {"register", "commit"} => c.id \in Ids /\ c.name \in GNames
    /\ c.kind \in {"delete", "publish"} => c.name \in GNames /\ c.push = "none"
    /\ c.kind = "register" /\ c.push # "none" => Pushing(c)
    /\ c.kind = "commit" => Pushing(c) /\ c.id \in Loaded(gsrv[s])
    /\ c.kind = "register" /\ c.st = "put" => i = NoId
    /\ c.kind \in {"delete", "publish"} /\ c.st \in {"put", "settle"} => i \in Ids
    /\ c.kind = "delete" /\ c.st = "settle" => i \in gasked
    /\ c.kind = "register" /\ c.st = "settle" /\ greg.writer = c.nonce => greg.ids[c.name] = c.id
    /\ c.st = "wipe" => c.id \in gasked
    /\ c.nonce <= gspent.nonces

GInv == RegTypes /\ NoncesName /\ OneName /\ Standing /\ Alone /\ \A s \in GServers : CallFits(s)

-------------------------------------------------------------------------------
\* What a step of s that concerns the name n may do.

Drawing(n, m, i) == m = n /\ i = gspent.ids + 1 /\ gspent'.ids = gspent.ids + 1

\* The bucket: the registry is replaced by who has it, a manifest likewise or wiped.
RegistryMoves(s) ==
    \/ greg' = greg
    \/ /\ greg'.writer = gspent.nonces + 1 /\ gspent'.nonces = gspent.nonces + 1
       /\ \A m \in GNames :
             \/ greg'.ids[m] = greg.ids[m]
             \/ /\ greg.ids[m] = NoId /\ gcall[s].kind = "register" /\ m = gcall[s].name
                /\ greg'.ids[m] = gcall[s].id /\ ~Unoffered(gcall'[s])
             \/ greg'.ids[m] = NoId /\ greg.ids[m] \in gasked'
ManifestMoves ==
    \A i \in Ids :
        \/ gman'[i] = gman[i]
        \/ gman'[i] = NoGman /\ i \in gasked
        \/ /\ gman'[i].writer = gspent.nonces + 1 /\ gspent'.nonces = gspent.nonces + 1
           /\ gman[i].pushes \subseteq gman'[i].pushes

\* The server: its copy is what it was or what is stored, and so are the manifests.
MindMoves(s) ==
    /\ gsrv'[s].reg = gsrv[s].reg \/ gsrv'[s].reg = greg'
    /\ \A i \in Loaded(gsrv'[s]) :
          \/ i \in Loaded(gsrv[s]) /\ gsrv'[s].mem[i] = gsrv[s].mem[i]
          \/ gsrv'[s].mem[i] = gman'[i] /\ (i \in Loaded(gsrv[s]) \/ Holds(i)')

PushMoves(s, n) ==
    /\ \A p \in GPushes :
          \/ gpush'[p] = gpush[p]
          \/ /\ gpush[p].st = "new" /\ gpush'[p].st = "going" /\ gpush'[p].name \in GNames
             /\ gpush'[p].id \in Ids /\ gpush'[p].s \in GServers
             /\ \/ Drawing(n, gpush'[p].name, gpush'[p].id) /\ gpush'[p].created
                \/ Bears(gpush'[p].name, gpush'[p].id) /\ ~gpush'[p].created
          \/ /\ gpush[p].st # "new" /\ gpush'[p].st \in {"commit", "refused", "done"}
             /\ gpush'[p].name = gpush[p].name /\ gpush'[p].id = gpush[p].id
             /\ gpush'[p].s = gpush[p].s
             /\ gpush'[p].st = "done" => /\ gcall[s].kind = "commit" /\ gcall[s].push = p
                                         /\ p \in gman'[gpush[p].id].pushes
    /\ \A p, q \in GPushes : gpush[p].st = "new" /\ gpush[q].st = "new"
                             /\ gpush'[p].st # "new" /\ gpush'[q].st # "new" => p = q

\* The call: it goes on, takes up a push, or draws an id.
CallMoves(s, n) ==
    LET c == gcall[s]
        d == gcall'[s]
    IN d.kind \in {"register", "commit"} =>
         \/ /\ c.kind \in {"register", "commit"} /\ d.name = c.name /\ d.id = c.id
            /\ d.kind = "register" => c.kind = "register" /\ (Unoffered(d) => Unoffered(c))
         \/ \E p \in GPushes :
               /\ gpush[p].st = "going" /\ gpush'[p].st # "going"
               /\ d.name = gpush[p].name /\ d.id = gpush[p].id
               /\ d.kind = "register" => gpush[p].created
         \/ d.kind = "register" /\ Drawing(n, d.name, d.id) /\ \A p \in GPushes : gpush'[p] = gpush[p]

GStep(s, n) ==
    /\ RegTypes'
    /\ \A r \in GServers \ {s} : gsrv'[r] = gsrv[r] /\ gcall'[r] = gcall[r]
    /\ gspent.nonces <= gspent'.nonces /\ gspent.ids <= gspent'.ids
    /\ gasked \subseteq gasked'
    /\ \A i \in gasked' : i \in gasked \/ Holds(i)
    /\ \A t \in gtold' : t \in gtold \/ greg'.ids[t[1]] = t[2] \/ t[2] \in gasked'
    /\ RegistryMoves(s) /\ ManifestMoves /\ MindMoves(s) /\ PushMoves(s, n) /\ CallMoves(s, n)
    /\ CallFits(s)'

LEMMA Typed ==
    ASSUME RegTypes
    PROVE  /\ gspent.nonces \in Nat /\ gspent.ids \in Nat
           /\ greg.writer \in Nat /\ greg.ids \in [GNames -> Ids \cup {NoId}]
           /\ \A i \in Ids : gman[i] \in RepoMans /\ gman[i].writer \in Nat /\ i \in Nat \ {0}
           /\ \A s \in GServers : /\ gsrv[s].reg \in RegDocs /\ gsrv[s].reg.writer \in Nat
                                  /\ gsrv[s].reg.ids \in [GNames -> Ids \cup {NoId}]
                                  /\ gsrv[s].mem \in Memories
                                  /\ Loaded(gsrv[s]) \subseteq Ids
                                  /\ \A i \in Loaded(gsrv[s]) : /\ gsrv[s].mem[i] \in RepoMans
                                                                /\ gsrv[s].mem[i].writer \in Nat
                                  /\ gcall[s].nonce \in Nat /\ gcall[s] \in RegCalls
           /\ \A p \in GPushes : gpush[p] \in RegPushes
<1>1. GMaxIds \in Nat
  BY RegistryAssumption
<1>2. \A i \in Ids : i \in Nat \ {0}
  BY <1>1 DEF Ids
<1>3. \A d \in RegDocs : d.writer \in Nat /\ d.ids \in [GNames -> Ids \cup {NoId}]
  BY DEF RegDocs
<1>4. \A m \in RepoMans : m.writer \in Nat
  BY DEF RepoMans
<1>5. ASSUME NEW m \in Memories PROVE DOMAIN m \subseteq Ids /\ \A i \in DOMAIN m : m[i] \in RepoMans
  BY DEF Memories
<1>6. \A x \in RegMinds : x.reg \in RegDocs /\ x.mem \in Memories
  BY DEF RegMinds
<1>7. \A c \in RegCalls : c.nonce \in Nat
  BY DEF RegCalls
<1>8. /\ gspent.nonces \in Nat /\ gspent.ids \in Nat /\ greg \in RegDocs
      /\ \A i \in Ids : gman[i] \in RepoMans
      /\ \A s \in GServers : gsrv[s] \in RegMinds /\ gcall[s] \in RegCalls
      /\ \A p \in GPushes : gpush[p] \in RegPushes
  BY DEF RegTypes
<1>9. ASSUME NEW s \in GServers
      PROVE  /\ gsrv[s].reg \in RegDocs /\ gsrv[s].mem \in Memories
             /\ Loaded(gsrv[s]) \subseteq Ids
             /\ \A i \in Loaded(gsrv[s]) : gsrv[s].mem[i] \in RepoMans
  BY <1>5, <1>6, <1>8 DEF Loaded
<1> QED
  BY <1>2, <1>3, <1>4, <1>7, <1>8, <1>9

\* What was registered or was to be deleted stays so.
LEMMA HoldsStays ==
    ASSUME GInv, NEW s \in GServers, NEW n, GStep(s, n)
    PROVE  /\ \A i \in Ids : \A m \in GNames : greg.ids[m] = i => greg'.ids[m] = i \/ i \in gasked'
           /\ \A i \in Ids : Holds(i) => Holds(i)'
<1>1. ASSUME NEW i \in Ids, NEW m \in GNames, greg.ids[m] = i PROVE greg'.ids[m] = i \/ i \in gasked'
  <2>1. i # NoId
    BY Typed DEF GInv, NoId
  <2> QED
    BY <1>1, <2>1 DEF GStep, RegistryMoves
<1>2. ASSUME NEW i \in Ids, Holds(i) PROVE Holds(i)'
  BY <1>1, <1>2 DEF Holds, GStep
<1> QED
  BY <1>1, <1>2

LEMMA StepNonces ==
    ASSUME GInv, NEW s \in GServers, NEW n, GStep(s, n)
    PROVE  NoncesName'
<1>1. RegTypes /\ RegTypes' /\ NoncesName
  BY DEF GInv, GStep
<1> DEFINE N == gspent.nonces
           M == gspent'.nonces
<1>2. N \in Nat /\ M \in Nat /\ N <= M
  BY <1>1, Typed DEF GStep, RegTypes
<1> HIDE DEF N, M
<1>3. greg' = greg \/ (greg'.writer = N + 1 /\ M = N + 1)
  BY DEF GStep, RegistryMoves, N, M
<1>4. greg.writer \in Nat /\ greg.writer <= N
  BY <1>1, Typed DEF NoncesName, N
<1>5. greg'.writer <= M
  BY <1>2, <1>3, <1>4
<1>6. ASSUME NEW i \in Ids
      PROVE  /\ gman'[i].writer <= M /\ (gman'[i].writer = None => gman'[i] = NoGman)
             /\ gman'[i] = gman[i] \/ gman'[i] = NoGman \/ (gman'[i].writer = N + 1 /\ M = N + 1)
  <2>1. gman'[i] = gman[i] \/ gman'[i] = NoGman \/ (gman'[i].writer = N + 1 /\ M = N + 1)
    BY DEF GStep, ManifestMoves, N, M
  <2>2. gman[i].writer <= N /\ (gman[i].writer = None => gman[i] = NoGman) /\ gman[i].writer \in Nat
    BY <1>1, Typed DEF NoncesName, N
  <2>3. NoGman.writer = 0
    BY DEF NoGman, None
  <2> QED
    BY <1>2, <2>1, <2>2, <2>3 DEF None
<1>7. ASSUME NEW r \in GServers
      PROVE  gsrv'[r].reg.writer <= M /\ (gsrv'[r].reg.writer = greg'.writer => gsrv'[r].reg = greg')
  <2>1. gsrv'[r].reg = gsrv[r].reg \/ gsrv'[r].reg = greg'
    BY DEF GStep, MindMoves
  <2>2. /\ gsrv[r].reg.writer <= N /\ gsrv[r].reg.writer \in Nat
        /\ gsrv[r].reg.writer = greg.writer => gsrv[r].reg = greg
    BY <1>1, Typed DEF NoncesName, N
  <2> QED
    BY <1>2, <1>3, <1>5, <2>1, <2>2
<1>8. ASSUME NEW r \in GServers, NEW i \in Loaded(gsrv'[r])
      PROVE  /\ gsrv'[r].mem[i].writer <= M
             /\ gsrv'[r].mem[i].writer = None => gsrv'[r].mem[i] = NoGman
             /\ gsrv'[r].mem[i].writer = gman'[i].writer => gsrv'[r].mem[i] = gman'[i]
  <2>1. i \in Ids
    <3>1. RegTypes' => \A q \in GServers : Loaded(gsrv'[q]) \subseteq Ids
      <4>1. RegTypes' => \A q \in GServers : gsrv'[q].mem \in Memories
        BY DEF RegTypes, RegMinds
      <4> QED
        BY <4>1 DEF Memories, Loaded
    <3> QED
      BY <1>1, <3>1
  <2>2. \/ i \in Loaded(gsrv[r]) /\ gsrv'[r].mem[i] = gsrv[r].mem[i]
        \/ gsrv'[r].mem[i] = gman'[i]
    BY <1>8 DEF GStep, MindMoves
  <2>3. CASE gsrv'[r].mem[i] = gman'[i]
    BY <1>6, <2>1, <2>3
  <2>4. CASE i \in Loaded(gsrv[r]) /\ gsrv'[r].mem[i] = gsrv[r].mem[i]
    <3>1. PICK m : m = gsrv[r].mem[i]
      OBVIOUS
    <3>2. /\ m.writer <= N /\ m.writer \in Nat /\ (m.writer = None => m = NoGman)
          /\ m.writer = gman[i].writer => m = gman[i]
      BY <1>1, <2>4, <3>1, Typed DEF NoncesName, N
    <3>3. m.writer = gman'[i].writer => m = gman'[i]
      <4>1. CASE gman'[i] = NoGman
        BY <3>2, <4>1 DEF NoGman, None
      <4> QED
        BY <1>2, <1>6, <2>1, <3>2, <4>1
    <3> QED
      BY <1>2, <2>4, <3>1, <3>2, <3>3
  <2> QED
    BY <2>2, <2>3, <2>4
<1> QED
  BY <1>5, <1>6, <1>7, <1>8 DEF NoncesName, M

\* Nobody bears a new name but for an id drawn in this step.
LEMMA NewBearer ==
    ASSUME GInv, NEW s \in GServers, NEW n, GStep(s, n), NEW m \in GNames, NEW i \in Ids, Bears(m, i)'
    PROVE  Bears(m, i) \/ Drawing(n, m, i)
<1>0. i # NoId
  BY Typed DEF GInv, NoId
<1>1. ASSUME greg'.ids[m] = i PROVE Bears(m, i)
  <2>1. CASE greg'.ids[m] = greg.ids[m]
    BY <1>1, <2>1 DEF Bears
  <2>2. CASE gcall[s].kind = "register" /\ m = gcall[s].name /\ greg'.ids[m] = gcall[s].id
    BY <1>1, <2>2 DEF Bears
  <2> QED
    BY <1>0, <1>1, <2>1, <2>2 DEF GStep, RegistryMoves
<1>2. ASSUME NEW r \in GServers, gsrv'[r].reg.ids[m] = i PROVE Bears(m, i)
  <2>1. gsrv'[r].reg = gsrv[r].reg \/ gsrv'[r].reg = greg'
    BY DEF GStep, MindMoves
  <2> QED
    BY <1>1, <1>2, <2>1 DEF Bears
<1>3. ASSUME NEW r \in GServers, gcall'[r].kind \in {"register", "commit"}, gcall'[r].name = m,
             gcall'[r].id = i
      PROVE  Bears(m, i) \/ Drawing(n, m, i)
  <2>1. CASE r # s
    BY <1>3, <2>1 DEF GStep, Bears
  <2>2. CASE r = s
    BY <1>3, <2>2 DEF GStep, CallMoves, Bears
  <2> QED
    BY <2>1, <2>2
<1>4. ASSUME NEW p \in GPushes, gpush'[p].st # "new", gpush'[p].name = m, gpush'[p].id = i
      PROVE  Bears(m, i) \/ Drawing(n, m, i)
  BY <1>4 DEF GStep, PushMoves, Bears
<1> QED
  BY <1>1, <1>2, <1>3, <1>4 DEF Bears

LEMMA StepNames ==
    ASSUME GInv, NEW s \in GServers, NEW n, GStep(s, n)
    PROVE  OneName'
<1>1. gspent.ids \in Nat /\ gspent'.ids \in Nat /\ gspent.ids <= gspent'.ids
  BY Typed DEF GInv, GStep, RegTypes
<1>2. ASSUME NEW i \in Ids, NEW k \in GNames, Bears(k, i)' PROVE i <= gspent'.ids
  <2>1. Bears(k, i) \/ Drawing(n, k, i)
    BY <1>2, NewBearer
  <2>2. i \in Nat
    BY Typed DEF GInv
  <2> QED
    BY <1>1, <2>1, <2>2 DEF GInv, OneName, Drawing
<1>3. ASSUME NEW i \in Ids, NEW k \in GNames, Bears(k, i)', NEW m \in GNames, Bears(m, i)' PROVE m = k
  <2>1. Bears(k, i) \/ Drawing(n, k, i)
    BY <1>3, NewBearer
  <2>2. Bears(m, i) \/ Drawing(n, m, i)
    BY <1>3, NewBearer
  <2>3. Bears(k, i) \/ Bears(m, i) => i # gspent.ids + 1
    BY <1>1, Typed DEF GInv, OneName
  <2> QED
    BY <2>1, <2>2, <2>3 DEF GInv, OneName, Drawing
<1>4. ASSUME NEW p \in GPushes, gpush'[p].st # "new"
      PROVE  gpush'[p].id \in Ids /\ gpush'[p].name \in GNames /\ gpush'[p].s \in GServers
  BY <1>4 DEF GStep, PushMoves, GInv, OneName
<1> QED
  BY <1>2, <1>3, <1>4 DEF OneName

LEMMA StepStanding ==
    ASSUME GInv, NEW s \in GServers, NEW n, GStep(s, n)
    PROVE  Standing'
<1>0. RegTypes /\ RegTypes' /\ Standing /\ gspent.ids \in Nat /\ gspent'.ids \in Nat
      /\ gspent.ids <= gspent'.ids /\ gasked' \subseteq Ids
  BY Typed DEF GInv, GStep, RegTypes
<1>1. ASSUME NEW i \in gasked' PROVE i <= gspent'.ids
  <2>1. i \in Ids /\ i \in Nat
    BY <1>0, Typed
  <2>2. i <= gspent.ids
    <3>1. CASE i \in gasked
      BY <1>0, <3>1 DEF Standing
    <3>2. CASE i \notin gasked
      <4>1. Holds(i)
        BY <3>2 DEF GStep
      <4>2. PICK m \in GNames : greg.ids[m] = i
        BY <3>2, <4>1 DEF Holds
      <4> QED
        BY <2>1, <4>2 DEF Bears, GInv, OneName
    <3> QED
      BY <3>1, <3>2
  <2> QED
    BY <1>0, <2>1, <2>2
<1>2. ASSUME NEW r \in GServers, NEW m \in GNames, NEW i \in Ids, gsrv'[r].reg.ids[m] = i
      PROVE  Holds(i)'
  <2>1. gsrv'[r].reg = gsrv[r].reg \/ gsrv'[r].reg = greg'
    BY DEF GStep, MindMoves
  <2>2. CASE gsrv'[r].reg = gsrv[r].reg
    BY <1>0, <1>2, <2>2, HoldsStays DEF Standing
  <2>3. CASE gsrv'[r].reg = greg'
    BY <1>2, <2>3 DEF Holds
  <2> QED
    BY <2>1, <2>2, <2>3
<1>3. ASSUME NEW r \in GServers, NEW i \in Loaded(gsrv'[r]) PROVE Holds(i)'
  <2>1. i \in Loaded(gsrv[r]) \/ Holds(i)'
    BY <1>3 DEF GStep, MindMoves
  <2>2. i \in Loaded(gsrv[r]) => i \in Ids /\ Holds(i)
    BY <1>0, Typed DEF Standing
  <2> QED
    BY <2>1, <2>2, HoldsStays
<1>4. ASSUME NEW t \in gtold' PROVE greg'.ids[t[1]] = t[2] \/ t[2] \in gasked'
  <2>1. t \in gtold => greg.ids[t[1]] = t[2] \/ t[2] \in gasked
    BY <1>0 DEF Standing, AcknowledgedStays
  <2>2. t[1] \in GNames /\ t[2] \in Ids
    BY <1>0 DEF RegTypes
  <2>3. gasked \subseteq gasked' /\ (t \in gtold \/ greg'.ids[t[1]] = t[2] \/ t[2] \in gasked')
    BY DEF GStep
  <2> QED
    BY <2>1, <2>2, <2>3, HoldsStays
<1>5. ASSUME NEW p \in GPushes, gpush'[p].st = "done", gpush'[p].id \notin gasked'
      PROVE  greg'.ids[gpush'[p].name] = gpush'[p].id /\ p \in gman'[gpush'[p].id].pushes
  <2> DEFINE q == gpush[p]
  <2>1. /\ q.st # "new" /\ gpush'[p].name = q.name /\ gpush'[p].id = q.id
        /\ q.st = "done" \/ (gcall[s].kind = "commit" /\ gcall[s].push = p /\ p \in gman'[q.id].pushes)
    BY <1>5 DEF GStep, PushMoves
  <2>2. q.id \notin gasked
    BY <1>5, <2>1 DEF GStep
  <2> HIDE DEF q
  <2>3. q.id \in Ids /\ q.name \in GNames /\ greg.ids[q.name] = q.id /\ p \in gman'[q.id].pushes
    <3>1. CASE q.st = "done"
      <4>1. greg.ids[q.name] = q.id /\ p \in gman[q.id].pushes
        BY <1>0, <2>2, <3>1 DEF Standing, AcknowledgedStays, q
      <4>2. q.id \in Ids /\ q.name \in GNames
        BY <2>1 DEF GInv, OneName, q
      <4>3. gman'[q.id] = gman[q.id] \/ gman[q.id].pushes \subseteq gman'[q.id].pushes
        BY <2>2, <4>2 DEF GStep, ManifestMoves
      <4> QED
        BY <4>1, <4>2, <4>3
    <3>2. CASE gcall[s].kind = "commit" /\ gcall[s].push = p /\ p \in gman'[q.id].pushes
      <4>1. /\ q.id = gcall[s].id /\ q.name = gcall[s].name /\ q.id \in Loaded(gsrv[s])
            /\ q.id \in Ids /\ q.name \in GNames
        BY <3>2 DEF GInv, CallFits, Pushing, q
      <4>2. Holds(q.id)
        BY <1>0, <4>1 DEF Standing
      <4>3. PICK m \in GNames : greg.ids[m] = q.id
        BY <2>2, <4>2 DEF Holds
      <4>4. Bears(m, q.id) /\ Bears(q.name, q.id)
        BY <2>1, <4>3 DEF Bears, q
      <4>5. m = q.name
        BY <4>1, <4>4 DEF GInv, OneName
      <4> QED
        BY <3>2, <4>1, <4>3, <4>5
    <3> QED
      BY <2>1, <3>1, <3>2
  <2>4. greg'.ids[q.name] = q.id
    BY <1>5, <2>1, <2>3, HoldsStays
  <2> QED
    BY <2>1, <2>3, <2>4
<1> QED
  BY <1>1, <1>2, <1>3, <1>4, <1>5 DEF Standing, AcknowledgedStays

\* An id drawn in this step is nobody's yet.
LEMMA Fresh ==
    ASSUME GInv, NEW i \in Ids, i = gspent.ids + 1
    PROVE  /\ ~Holds(i)
           /\ \A r \in GServers : gcall[r].kind = "register" => gcall[r].id # i
           /\ \A p \in GPushes : gpush[p].st # "new" => gpush[p].id # i
<1>1. gspent.ids \in Nat
  BY Typed DEF GInv
<1>2. \A m \in GNames : ~Bears(m, i)
  BY <1>1 DEF GInv, OneName
<1>3. ~Holds(i)
  BY <1>1, <1>2 DEF Holds, Bears, GInv, Standing
<1>4. \A r \in GServers : gcall[r].kind = "register" => gcall[r].id # i
  BY <1>2 DEF Bears, GInv, CallFits
<1>5. \A p \in GPushes : gpush[p].st # "new" => gpush[p].id # i
  BY <1>2 DEF Bears, GInv, OneName
<1> QED
  BY <1>3, <1>4, <1>5

\* Who claims an id after a step claimed it before, in one way or the other, or draws it.
LEMMA Claims ==
    ASSUME GInv, NEW s \in GServers, NEW n, GStep(s, n), NEW i \in Ids
    PROVE  /\ \A r \in GServers : gcall'[r].kind = "register" /\ gcall'[r].id = i =>
                 \/ /\ gcall[r].kind = "register" /\ gcall[r].id = i
                    /\ Unoffered(gcall'[r]) => Unoffered(gcall[r])
                 \/ r = s /\ \E p \in GPushes : Bringing(gpush[p]) /\ gpush[p].id = i
                                                /\ ~Bringing(gpush'[p])
                 \/ r = s /\ i = gspent.ids + 1 /\ \A p \in GPushes : gpush'[p] = gpush[p]
           /\ \A p \in GPushes : Bringing(gpush'[p]) /\ gpush'[p].id = i =>
                 \/ Bringing(gpush[p]) /\ gpush[p].id = i
                 \/ i = gspent.ids + 1 /\ gpush[p].st = "new"
<1>1. ASSUME NEW r \in GServers, gcall'[r].kind = "register", gcall'[r].id = i
      PROVE  \/ /\ gcall[r].kind = "register" /\ gcall[r].id = i
                /\ Unoffered(gcall'[r]) => Unoffered(gcall[r])
             \/ r = s /\ \E p \in GPushes : Bringing(gpush[p]) /\ gpush[p].id = i
                                            /\ ~Bringing(gpush'[p])
             \/ r = s /\ i = gspent.ids + 1 /\ \A p \in GPushes : gpush'[p] = gpush[p]
  <2>1. CASE r # s
    BY <1>1, <2>1 DEF GStep
  <2>2. CASE r = s
    <3>1. CallMoves(s, n)
      BY DEF GStep
    <3> QED
      BY <1>1, <2>2, <3>1 DEF CallMoves, Drawing, Bringing
  <2> QED
    BY <2>1, <2>2
<1>2. ASSUME NEW p \in GPushes, Bringing(gpush'[p]), gpush'[p].id = i
      PROVE  \/ Bringing(gpush[p]) /\ gpush[p].id = i
             \/ i = gspent.ids + 1 /\ gpush[p].st = "new"
  <2>1. PushMoves(s, n)
    BY DEF GStep
  <2> QED
    BY <1>2, <2>1 DEF PushMoves, Bringing, Drawing
<1> QED
  BY <1>1, <1>2

\* An id that is held after a step was held before, or is the one its creator registers.
LEMMA NewHeld ==
    ASSUME GInv, NEW s \in GServers, NEW n, GStep(s, n), NEW i \in Ids, Holds(i)', ~Holds(i)
    PROVE  gcall[s].kind = "register" /\ gcall[s].id = i /\ ~Unoffered(gcall'[s])
<1>1. i \notin gasked'
  BY DEF GStep, Holds
<1>2. PICK m \in GNames : greg'.ids[m] = i
  BY <1>1 DEF Holds
<1>3. i # NoId /\ greg.ids[m] # i
  BY Typed DEF GInv, NoId, Holds
<1>4. RegistryMoves(s)
  BY DEF GStep
<1> QED
  BY <1>2, <1>3, <1>4 DEF RegistryMoves

LEMMA StepAlone ==
    ASSUME GInv, NEW s \in GServers, NEW n, GStep(s, n)
    PROVE  Alone'
<1> SUFFICES ASSUME NEW i \in Ids
             PROVE  /\ \A r \in GServers : gcall'[r].kind = "register" /\ gcall'[r].id = i
                                           /\ Unoffered(gcall'[r]) => ~Holds(i)'
                    /\ \A p \in GPushes : Bringing(gpush'[p]) /\ gpush'[p].id = i => ~Holds(i)'
                    /\ \A r, t \in GServers : /\ gcall'[r].kind = "register" /\ gcall'[r].id = i
                                              /\ gcall'[t].kind = "register" /\ gcall'[t].id = i
                                              => r = t
                    /\ \A p, q \in GPushes : /\ Bringing(gpush'[p]) /\ gpush'[p].id = i
                                             /\ Bringing(gpush'[q]) /\ gpush'[q].id = i
                                             => p = q
                    /\ \A r \in GServers : \A p \in GPushes :
                          gcall'[r].kind = "register" /\ gcall'[r].id = i
                          => ~(Bringing(gpush'[p]) /\ gpush'[p].id = i)
  BY DEF Alone, Unoffered, Bringing
<1> DEFINE Calling(r) == gcall[r].kind = "register" /\ gcall[r].id = i
           Brings(p) == Bringing(gpush[p]) /\ gpush[p].id = i
           New == i = gspent.ids + 1
<1>1. /\ \A r \in GServers : Calling(r) /\ Unoffered(gcall[r]) => ~Holds(i)
      /\ \A p \in GPushes : Brings(p) => ~Holds(i)
      /\ \A r, t \in GServers : Calling(r) /\ Calling(t) => r = t
      /\ \A p, q \in GPushes : Brings(p) /\ Brings(q) => p = q
      /\ \A r \in GServers : \A p \in GPushes : Calling(r) => ~Brings(p)
  BY DEF GInv, Alone
<1>2. New => /\ ~Holds(i)
             /\ \A r \in GServers : ~Calling(r)
             /\ \A p \in GPushes : ~Brings(p)
  BY Fresh DEF Bringing
<1>3. ASSUME NEW r \in GServers, gcall'[r].kind = "register", gcall'[r].id = i
      PROVE  \/ Calling(r) /\ (Unoffered(gcall'[r]) => Unoffered(gcall[r]))
             \/ r = s /\ \E p \in GPushes : Brings(p) /\ ~Bringing(gpush'[p])
             \/ r = s /\ New /\ \A p \in GPushes : gpush'[p] = gpush[p]
  BY <1>3, Claims
<1>4. ASSUME NEW p \in GPushes, Bringing(gpush'[p]), gpush'[p].id = i
      PROVE  Brings(p) \/ (New /\ gpush[p].st = "new" /\ gpush'[p].st # "new")
  BY <1>4, Claims DEF Bringing
<1>5. Holds(i)' /\ ~Holds(i) => Calling(s) /\ ~Unoffered(gcall'[s])
  BY NewHeld
<1>6. \A p, q \in GPushes : gpush[p].st = "new" /\ gpush[q].st = "new"
                            /\ gpush'[p].st # "new" /\ gpush'[q].st # "new" => p = q
  BY DEF GStep, PushMoves
<1> HIDE DEF Calling, Brings, New
<1>7. ASSUME NEW r \in GServers, gcall'[r].kind = "register", gcall'[r].id = i, Unoffered(gcall'[r])
      PROVE  ~Holds(i)'
  BY <1>1, <1>2, <1>3, <1>5, <1>7
<1>8. ASSUME NEW p \in GPushes, Bringing(gpush'[p]), gpush'[p].id = i PROVE ~Holds(i)'
  BY <1>1, <1>2, <1>4, <1>5, <1>8
<1>9. ASSUME NEW r \in GServers, gcall'[r].kind = "register", gcall'[r].id = i,
             NEW t \in GServers, gcall'[t].kind = "register", gcall'[t].id = i
      PROVE  r = t
  BY <1>1, <1>2, <1>3, <1>9
<1>10. ASSUME NEW p \in GPushes, Bringing(gpush'[p]), gpush'[p].id = i,
              NEW q \in GPushes, Bringing(gpush'[q]), gpush'[q].id = i
       PROVE  p = q
  BY <1>1, <1>2, <1>4, <1>6, <1>10
<1>11. ASSUME NEW r \in GServers, gcall'[r].kind = "register", gcall'[r].id = i,
              NEW p \in GPushes, Bringing(gpush'[p]), gpush'[p].id = i
       PROVE  FALSE
  BY <1>1, <1>2, <1>3, <1>4, <1>11
<1> QED
  BY <1>7, <1>8, <1>9, <1>10, <1>11

LEMMA StepFits ==
    ASSUME GInv, NEW s \in GServers, NEW n, GStep(s, n)
    PROVE  \A r \in GServers : CallFits(r)'
<1> SUFFICES ASSUME NEW r \in GServers, r # s
             PROVE  CallFits(r)'
  BY DEF GStep
<1>1. gcall'[r] = gcall[r] /\ gsrv'[r] = gsrv[r] /\ gasked \subseteq gasked'
  BY DEF GStep
<1>2. PICK c : c = gcall[r]
  OBVIOUS
<1>3. PICK x : x = gsrv[r]
  OBVIOUS
<1>4. \A p \in GPushes : gpush[p].st # "new" =>
          gpush'[p].st # "new" /\ gpush'[p].name = gpush[p].name /\ gpush'[p].id = gpush[p].id
  BY DEF GStep, PushMoves
<1>5. c.nonce <= gspent'.nonces /\ (greg'.writer = c.nonce => greg' = greg)
  <2>1. gspent.nonces \in Nat /\ gspent'.nonces \in Nat /\ gspent.nonces <= gspent'.nonces /\ c.nonce \in Nat
    BY <1>2, Typed DEF GInv, GStep, RegTypes
  <2>2. c.nonce <= gspent.nonces
    BY <1>2 DEF GInv, CallFits
  <2>3. greg' = greg \/ greg'.writer = gspent.nonces + 1
    BY DEF GStep, RegistryMoves
  <2> QED
    BY <2>1, <2>2, <2>3
<1>6. /\ c.kind \in {"register", "commit"} => c.id \in Ids /\ c.name \in GNames
      /\ c.kind \in {"delete", "publish"} => c.name \in GNames /\ c.push = "none"
      /\ (c.kind = "register" /\ c.push # "none") \/ c.kind = "commit" =>
            /\ c.push \in GPushes /\ gpush[c.push].st # "new"
            /\ gpush[c.push].name = c.name /\ gpush[c.push].id = c.id
      /\ c.kind = "commit" => c.id \in DOMAIN x.mem
      /\ c.kind = "register" /\ c.st = "put" => x.reg.ids[c.name] = NoId
      /\ c.kind \in {"delete", "publish"} /\ c.st \in {"put", "settle"} => x.reg.ids[c.name] \in Ids
      /\ c.kind = "delete" /\ c.st = "settle" => x.reg.ids[c.name] \in gasked
      /\ c.kind = "register" /\ c.st = "settle" /\ greg.writer = c.nonce => greg.ids[c.name] = c.id
      /\ c.st = "wipe" => c.id \in gasked
  BY <1>2, <1>3 DEF GInv, CallFits, Pushing, Loaded
<1>7. gcall'[r] = c /\ gsrv'[r] = x
  BY <1>1, <1>2, <1>3
<1> QED
  BY <1>1, <1>4, <1>5, <1>6, <1>7 DEF CallFits, Pushing, Loaded

LEMMA StepKeeps ==
    ASSUME GInv, NEW s \in GServers, NEW n, GStep(s, n)
    PROVE  GInv'
<1>1. RegTypes'
  BY DEF GStep
<1> QED
  BY <1>1, StepNonces, StepNames, StepStanding, StepAlone, StepFits DEF GInv

-------------------------------------------------------------------------------
\* Memories.

LEMMA MemoryIs ==
    ASSUME NEW held \in SUBSET Ids, NEW f, f = [i \in held |-> f[i]],
           \A i \in held : f[i] \in RepoMans
    PROVE  f \in Memories /\ DOMAIN f = held
<1>1. f \in [held -> RepoMans]
  OBVIOUS
<1> QED
  BY <1>1 DEF Memories

LEMMA InMemory ==
    ASSUME NEW m \in Memories
    PROVE  DOMAIN m \subseteq Ids /\ \A i \in DOMAIN m : m[i] \in RepoMans
BY DEF Memories

LEMMA HoldIs ==
    ASSUME NEW m \in Memories, NEW i \in Ids, NEW v \in RepoMans
    PROVE  /\ Hold(m, i, v) \in Memories /\ DOMAIN Hold(m, i, v) = DOMAIN m \cup {i}
           /\ Hold(m, i, v)[i] = v
           /\ \A j \in DOMAIN m \ {i} : Hold(m, i, v)[j] = m[j]
<1> DEFINE f == [j \in DOMAIN m \cup {i} |-> IF j = i THEN v ELSE m[j]]
<1>1. \A j \in DOMAIN m \cup {i} : f[j] \in RepoMans
  BY InMemory
<1>2. f = [j \in DOMAIN m \cup {i} |-> f[j]]
  OBVIOUS
<1>3. DOMAIN m \cup {i} \in SUBSET Ids
  BY InMemory
<1>4. f \in Memories /\ DOMAIN f = DOMAIN m \cup {i}
  <2> HIDE DEF f
  <2> QED
    BY <1>1, <1>2, <1>3, MemoryIs
<1> QED
  BY <1>4 DEF Hold

LEMMA DropIs ==
    ASSUME NEW m \in Memories, NEW gone
    PROVE  /\ Drop(m, gone) \in Memories /\ DOMAIN Drop(m, gone) = DOMAIN m \ gone
           /\ \A j \in DOMAIN m \ gone : Drop(m, gone)[j] = m[j]
<1> DEFINE f == [j \in DOMAIN m \ gone |-> m[j]]
<1>1. \A j \in DOMAIN m \ gone : f[j] \in RepoMans
  BY InMemory
<1>2. f = [j \in DOMAIN m \ gone |-> f[j]]
  OBVIOUS
<1>3. DOMAIN m \ gone \in SUBSET Ids
  BY InMemory
<1>4. f \in Memories /\ DOMAIN f = DOMAIN m \ gone
  <2> HIDE DEF f
  <2> QED
    BY <1>1, <1>2, <1>3, MemoryIs
<1> QED
  BY <1>4 DEF Drop

-------------------------------------------------------------------------------
\* What a server comes to know by looking a name up.

Learns(s, y) ==
    /\ y \in RegMinds
    /\ y.reg = gsrv[s].reg \/ y.reg = greg
    /\ \A i \in Loaded(y) :
          \/ i \in Loaded(gsrv[s]) /\ y.mem[i] = gsrv[s].mem[i]
          \/ y.mem[i] = gman[i] /\ (i \in Loaded(gsrv[s]) \/ Holds(i))

LEMMA MindIs ==
    ASSUME NEW x \in RegMinds
    PROVE  /\ x = [reg |-> x.reg, fresh |-> x.fresh, mem |-> x.mem]
           /\ x.reg \in RegDocs /\ x.fresh \in BOOLEAN /\ x.mem \in Memories
BY DEF RegMinds

LEMMA ReadIs ==
    ASSUME GInv, NEW s \in GServers
    PROVE  /\ Learns(s, Read(gsrv[s])) /\ Read(gsrv[s]).reg = greg
           /\ Loaded(Read(gsrv[s])) \subseteq Loaded(gsrv[s])
<1>1. PICK x \in RegMinds : x = gsrv[s]
  BY DEF GInv, RegTypes
<1>2. greg \in RegDocs
  BY DEF GInv, RegTypes
<1> DEFINE gone == DOMAIN x.mem \ {greg.ids[n] : n \in GNames}
           m == IF greg = x.reg THEN x.mem ELSE Drop(x.mem, gone)
<1>3. /\ m \in Memories /\ DOMAIN m \subseteq DOMAIN x.mem
      /\ \A i \in DOMAIN m : m[i] = x.mem[i]
  <2>1. x.mem \in Memories
    BY MindIs
  <2> HIDE DEF gone
  <2>2. /\ Drop(x.mem, gone) \in Memories /\ DOMAIN Drop(x.mem, gone) \subseteq DOMAIN x.mem
        /\ \A i \in DOMAIN Drop(x.mem, gone) : Drop(x.mem, gone)[i] = x.mem[i]
    <3>1. PICK f \in Memories : f = x.mem
      BY <2>1
    <3>2. PICK d : d = Drop(f, gone)
      OBVIOUS
    <3>3. /\ d \in Memories /\ DOMAIN d = DOMAIN f \ gone
          /\ \A j \in DOMAIN f \ gone : d[j] = f[j]
      BY <3>2, DropIs
    <3> QED
      BY <3>1, <3>2, <3>3
  <2> QED
    BY <2>1, <2>2
<1>4. Read(x) = [x EXCEPT !.reg = greg, !.fresh = TRUE, !.mem = m]
  BY DEF Read
<1> HIDE DEF m, gone
<1>5. Read(x) \in RegMinds
  BY <1>1, <1>2, <1>3, <1>4 DEF RegMinds
<1>6. Read(x).reg = greg /\ Read(x).mem = m
  <2>1. x \in [reg : RegDocs, fresh : BOOLEAN, mem : Memories]
    BY <1>1 DEF RegMinds
  <2> QED
    BY <1>4, <2>1
<1> QED
  BY <1>1, <1>3, <1>5, <1>6 DEF Learns, Loaded

LEMMA MetaIs ==
    ASSUME GInv, NEW s \in GServers, NEW n \in GNames
    PROVE  /\ Learns(s, Meta(gsrv[s], n))
           /\ Loaded(Meta(gsrv[s], n)) \subseteq Loaded(gsrv[s])
<1>1. Learns(s, gsrv[s])
  BY DEF Learns, GInv, RegTypes
<1> QED
  BY <1>1, ReadIs DEF Meta

LEMMA OpenedIs ==
    ASSUME GInv, NEW s \in GServers, NEW n \in GNames
    PROVE  /\ Learns(s, Opened(gsrv[s], n))
           /\ Opened(gsrv[s], n).reg.ids[n] \in Ids \cup {NoId}
           /\ Opened(gsrv[s], n).reg.ids[n] \in Ids => Bears(n, Opened(gsrv[s], n).reg.ids[n])
<1>1. PICK y : y = Meta(gsrv[s], n)
  OBVIOUS
<1>2. Learns(s, y) /\ y \in RegMinds
  BY <1>1, MetaIs DEF Learns
<1>3. y.reg \in RegDocs /\ y.mem \in Memories /\ y.reg.ids[n] \in Ids \cup {NoId}
  BY <1>2, MindIs DEF RegDocs
<1>4. PICK i \in Ids \cup {NoId} : i = y.reg.ids[n]
  BY <1>3
<1>5. i \in Ids => Bears(n, i) /\ Holds(i)
  BY <1>2, <1>4 DEF Learns, Bears, Holds, GInv, Standing
<1>6. CASE i = NoId
  <2>1. Opened(gsrv[s], n) = y
    BY <1>1, <1>4, <1>6 DEF Opened
  <2> QED
    BY <1>2, <1>3, <1>4, <1>5, <2>1
<1>7. CASE i \in Ids /\ i # NoId
  <2>1. gman[i] \in RepoMans
    BY <1>7, Typed DEF GInv
  <2>2. Opened(gsrv[s], n) = [y EXCEPT !.mem = Hold(@, i, gman[i])]
    BY <1>1, <1>4, <1>7 DEF Opened
  <2> DEFINE m == Hold(y.mem, i, gman[i])
             z == [y EXCEPT !.mem = Hold(@, i, gman[i])]
  <2>3. /\ m \in Memories /\ DOMAIN m = DOMAIN y.mem \cup {i} /\ m[i] = gman[i]
        /\ \A j \in DOMAIN y.mem \ {i} : m[j] = y.mem[j]
    <3>1. PICK v : v = gman[i]
      OBVIOUS
    <3>2. PICK f : f = y.mem
      OBVIOUS
    <3>3. f \in Memories /\ v \in RepoMans
      BY <1>3, <2>1, <3>1, <3>2
    <3> QED
      BY <1>7, <3>1, <3>2, <3>3, HoldIs
  <2>4. z = [reg |-> y.reg, fresh |-> y.fresh, mem |-> m]
    BY <1>2, MindIs
  <2> HIDE DEF m, z
  <2>5. z \in RegMinds /\ z.reg = y.reg /\ z.mem = m
    BY <1>2, <2>3, <2>4, MindIs DEF RegMinds
  <2>6. Learns(s, z)
    BY <1>2, <1>5, <1>7, <2>3, <2>5 DEF Learns, Loaded
  <2> QED
    BY <1>4, <1>5, <2>2, <2>5, <2>6 DEF z
<1> QED
  BY <1>6, <1>7

-------------------------------------------------------------------------------
\* What the steps have in common.

LEMMA Blank ==
    /\ NoReg \in RegDocs /\ NoGman \in RepoMans /\ NoGcall \in RegCalls /\ NoGpush \in RegPushes
    /\ NewServer \in RegMinds /\ Loaded(NewServer) = {} /\ NewServer.reg = NoReg
<1>1. NoReg \in RegDocs
  BY DEF NoReg, RegDocs, None
<1>2. NoGman \in RepoMans
  BY DEF NoGman, RepoMans, None
<1>3. NoGcall \in RegCalls
  BY DEF NoGcall, RegCalls, None
<1>4. NoGpush \in RegPushes
  BY DEF NoGpush, RegPushes
<1> DEFINE m == [i \in {} |-> NoGman]
<1>5. m \in Memories /\ DOMAIN m = {}
  <2>1. m = [i \in {} |-> m[i]]
    OBVIOUS
  <2> HIDE DEF m
  <2> QED
    BY <2>1, MemoryIs
<1> HIDE DEF m
<1>6. NewServer = [reg |-> NoReg, fresh |-> FALSE, mem |-> m]
  BY DEF NewServer, m
<1>7. NewServer \in RegMinds /\ NewServer.mem = m /\ NewServer.reg = NoReg
  BY <1>1, <1>5, <1>6 DEF RegMinds
<1> QED
  BY <1>1, <1>2, <1>3, <1>4, <1>5, <1>7 DEF Loaded

LEMMA Frames ==
    ASSUME GInv, NEW s \in GServers, NEW y \in RegMinds, NEW d \in RegCalls
    PROVE  /\ gsrv' = [gsrv EXCEPT ![s] = y] =>
                 /\ gsrv' \in [GServers -> RegMinds] /\ gsrv'[s] = y
                 /\ \A r \in GServers \ {s} : gsrv'[r] = gsrv[r]
           /\ gcall' = [gcall EXCEPT ![s] = d] =>
                 /\ gcall' \in [GServers -> RegCalls] /\ gcall'[s] = d
                 /\ \A r \in GServers \ {s} : gcall'[r] = gcall[r]
BY DEF GInv, RegTypes

LEMMA LearnMoves ==
    ASSUME GInv, NEW s \in GServers, NEW y, Learns(s, y), gsrv'[s] = y,
           greg' = greg, gman' = gman, gasked' = gasked
    PROVE  MindMoves(s)
<1>1. \A i : Holds(i) => Holds(i)'
  BY DEF Holds
<1> QED
  BY <1>1 DEF Learns, MindMoves, Loaded

LEMMA EndMoves ==
    ASSUME GInv, NEW s \in GServers, NEW n, NEW p \in GPushes, gpush[p].st # "new",
           NEW how \in {"commit", "refused", "done"}, PushEnds(p, how),
           how = "done" => /\ gcall[s].kind = "commit" /\ gcall[s].push = p
                           /\ p \in gman'[gpush[p].id].pushes
    PROVE  PushMoves(s, n) /\ gpush' \in [GPushes -> RegPushes]
<1>1. gpush \in [GPushes -> RegPushes]
  BY DEF GInv, RegTypes
<1>2. PICK q \in RegPushes : q = gpush[p]
  BY <1>1
<1>3. /\ [q EXCEPT !.st = how] \in RegPushes
      /\ [q EXCEPT !.st = how].st = how /\ [q EXCEPT !.st = how].name = q.name
      /\ [q EXCEPT !.st = how].id = q.id /\ [q EXCEPT !.st = how].s = q.s
  BY DEF RegPushes
<1>4. gpush' = [gpush EXCEPT ![p] = [q EXCEPT !.st = how]]
  BY <1>1, <1>2 DEF PushEnds
<1>5. PICK z : z = [q EXCEPT !.st = how]
  OBVIOUS
<1>6. z \in RegPushes /\ z.st = how /\ z.name = q.name /\ z.id = q.id /\ z.s = q.s
  BY <1>3, <1>5
<1>7. /\ gpush' \in [GPushes -> RegPushes] /\ gpush'[p] = z
      /\ \A o \in GPushes \ {p} : gpush'[o] = gpush[o]
  BY <1>1, <1>4, <1>5, <1>6
<1>8. \A o \in GPushes : gpush[o].st = "new" => gpush'[o].st = "new"
  BY <1>7
<1> QED
  BY <1>2, <1>6, <1>7, <1>8 DEF PushMoves

\* A step that leaves the bucket and the deletions as they are.
LEMMA QuietStep ==
    ASSUME GInv, NEW s \in GServers, NEW n,
           greg' = greg, gman' = gman, gasked' = gasked,
           gsrv' \in [GServers -> RegMinds], gcall' \in [GServers -> RegCalls],
           gpush' \in [GPushes -> RegPushes], gtold' \subseteq GNames \X Ids,
           gspent' \in [ids : Nat, calls : Nat, faults : Nat, nonces : Nat],
           gspent.nonces <= gspent'.nonces, gspent.ids <= gspent'.ids,
           \A r \in GServers \ {s} : gsrv'[r] = gsrv[r] /\ gcall'[r] = gcall[r],
           \A t \in gtold' : t \in gtold \/ greg.ids[t[1]] = t[2],
           MindMoves(s), PushMoves(s, n), CallMoves(s, n), CallFits(s)'
    PROVE  GStep(s, n)
<1>1. RegTypes'
  BY DEF RegTypes, GInv
<1>2. RegistryMoves(s) /\ ManifestMoves
  BY DEF RegistryMoves, ManifestMoves
<1> QED
  BY <1>1, <1>2 DEF GStep

LEMMA SameMoves ==
    ASSUME GInv, NEW s \in GServers, NEW n
    PROVE  /\ gpush' = gpush => PushMoves(s, n) /\ gpush' \in [GPushes -> RegPushes]
           /\ gsrv' = gsrv => MindMoves(s) /\ gsrv' \in [GServers -> RegMinds]
           /\ gspent' = gspent => gspent' \in [ids : Nat, calls : Nat, faults : Nat, nonces : Nat]
                                  /\ gspent.nonces <= gspent'.nonces /\ gspent.ids <= gspent'.ids
<1>1. RegTypes /\ gspent.nonces \in Nat /\ gspent.ids \in Nat
  BY Typed DEF GInv
<1> QED
  BY <1>1 DEF RegTypes, PushMoves, MindMoves

LEMMA FaultIs ==
    ASSUME GInv
    PROVE  /\ GFault => /\ gspent' \in [ids : Nat, calls : Nat, faults : Nat, nonces : Nat]
                        /\ gspent'.nonces = gspent.nonces /\ gspent'.ids = gspent.ids
                        /\ gspent.nonces <= gspent'.nonces /\ gspent.ids <= gspent'.ids
           /\ \A s \in GServers : AdminCall(s) =>
                        /\ gspent' \in [ids : Nat, calls : Nat, faults : Nat, nonces : Nat]
                        /\ gspent.nonces <= gspent'.nonces /\ gspent.ids <= gspent'.ids
<1>1. gspent \in [ids : Nat, calls : Nat, faults : Nat, nonces : Nat]
  BY DEF GInv, RegTypes
<1>2. ASSUME NEW g \in [ids : Nat, calls : Nat, faults : Nat, nonces : Nat]
      PROVE  /\ [g EXCEPT !.faults = @ + 1] \in [ids : Nat, calls : Nat, faults : Nat, nonces : Nat]
             /\ [g EXCEPT !.calls = @ + 1] \in [ids : Nat, calls : Nat, faults : Nat, nonces : Nat]
             /\ [g EXCEPT !.faults = @ + 1].nonces = g.nonces /\ [g EXCEPT !.faults = @ + 1].ids = g.ids
             /\ [g EXCEPT !.calls = @ + 1].nonces = g.nonces /\ [g EXCEPT !.calls = @ + 1].ids = g.ids
             /\ g.nonces <= g.nonces /\ g.ids <= g.ids
  OBVIOUS
<1> QED
  BY <1>1, <1>2 DEF GFault, AdminCall

-------------------------------------------------------------------------------
\* Calls begin.

LEMMA CreateStep ==
    ASSUME GInv, NEW s \in GServers, NEW n \in GNames, Create(s, n)
    PROVE  GStep(s, n)
<1>1. PICK g \in [ids : Nat, calls : Nat, faults : Nat, nonces : Nat] : g = gspent
  BY DEF GInv, RegTypes
<1>2. PICK y : y = Meta(gsrv[s], n)
  OBVIOUS
<1> DEFINE i == g.ids + 1
           d == [NoGcall EXCEPT !.kind = "register", !.name = n, !.id = i]
<1>3. /\ i \in Ids /\ gspent' = [g EXCEPT !.calls = @ + 1, !.ids = @ + 1]
      /\ gsrv' = [gsrv EXCEPT ![s] = y] /\ gcall' = [gcall EXCEPT ![s] = d]
      /\ greg' = greg /\ gman' = gman /\ gpush' = gpush /\ gtold' = gtold /\ gasked' = gasked
  BY <1>1, <1>2, RegistryAssumption DEF Create, Ids
<1>4. /\ gspent' \in [ids : Nat, calls : Nat, faults : Nat, nonces : Nat]
      /\ gspent'.nonces = g.nonces /\ gspent'.ids = i /\ g.nonces <= g.nonces /\ g.ids <= i
  <2>1. g.ids \in Nat /\ g.calls \in Nat /\ g.nonces \in Nat
    OBVIOUS
  <2>2. PICK h : h = [g EXCEPT !.calls = @ + 1, !.ids = @ + 1]
    OBVIOUS
  <2>3. h \in [ids : Nat, calls : Nat, faults : Nat, nonces : Nat]
    <3>1. g.ids + 1 \in Nat /\ g.calls + 1 \in Nat
      BY <2>1
    <3>2. h = [g EXCEPT !.calls = g.calls + 1, !.ids = g.ids + 1]
      BY <2>2
    <3>3. \A a, b \in Nat : [g EXCEPT !.calls = a, !.ids = b]
                               \in [ids : Nat, calls : Nat, faults : Nat, nonces : Nat]
      OBVIOUS
    <3> QED
      BY <3>1, <3>2, <3>3
  <2>4. h.nonces = g.nonces /\ h.ids = g.ids + 1
    BY <2>2
  <2> QED
    BY <1>3, <2>1, <2>2, <2>3, <2>4
<1>5. /\ d \in RegCalls /\ d.kind = "register" /\ d.st = "read" /\ d.name = n /\ d.id = i
      /\ d.push = "none" /\ d.nonce = 0
  BY <1>3 DEF NoGcall, RegCalls, None
<1>6. Learns(s, y) /\ y \in RegMinds
  BY <1>2, MetaIs DEF Learns
<1> HIDE DEF d
<1>7. /\ gsrv' \in [GServers -> RegMinds] /\ gsrv'[s] = y
      /\ gcall' \in [GServers -> RegCalls] /\ gcall'[s] = d
      /\ \A r \in GServers \ {s} : gsrv'[r] = gsrv[r] /\ gcall'[r] = gcall[r]
  BY <1>3, <1>5, <1>6, Frames
<1>8. MindMoves(s)
  BY <1>3, <1>6, <1>7, LearnMoves
<1>9. CallMoves(s, n)
  BY <1>1, <1>3, <1>4, <1>5, <1>7 DEF CallMoves, Drawing
<1>10. CallFits(s)'
  <2>1. 0 <= gspent'.nonces
    BY <1>4
  <2> QED
    BY <1>3, <1>5, <1>7, <2>1 DEF CallFits
<1>11. gtold' \subseteq GNames \X Ids
  BY <1>3 DEF GInv, RegTypes
<1> QED
  BY <1>1, <1>3, <1>4, <1>7, <1>8, <1>9, <1>10, <1>11, SameMoves, QuietStep

LEMMA DeleteStep ==
    ASSUME GInv, NEW s \in GServers, NEW n \in GNames, Delete(s, n)
    PROVE  GStep(s, n)
<1> DEFINE d == [NoGcall EXCEPT !.kind = "delete", !.name = n]
<1>1. /\ AdminCall(s) /\ gcall' = [gcall EXCEPT ![s] = d]
      /\ greg' = greg /\ gman' = gman /\ gsrv' = gsrv /\ gpush' = gpush /\ gtold' = gtold
      /\ gasked' = gasked
  BY DEF Delete
<1>2. /\ d \in RegCalls /\ d.kind = "delete" /\ d.st = "read" /\ d.name = n /\ d.push = "none"
      /\ d.nonce = 0
  BY DEF NoGcall, RegCalls, None
<1> HIDE DEF d
<1>3. gsrv[s] \in RegMinds
  BY DEF GInv, RegTypes
<1>4. /\ gcall' \in [GServers -> RegCalls] /\ gcall'[s] = d
      /\ \A r \in GServers \ {s} : gcall'[r] = gcall[r]
  BY <1>1, <1>2, <1>3, Frames
<1>5. CallMoves(s, n)
  BY <1>2, <1>4 DEF CallMoves
<1>6. /\ gspent' \in [ids : Nat, calls : Nat, faults : Nat, nonces : Nat]
      /\ gspent.nonces <= gspent'.nonces /\ gspent.ids <= gspent'.ids
  BY <1>1, FaultIs
<1>7. CallFits(s)'
  <2>1. 0 <= gspent'.nonces
    BY <1>6
  <2> QED
    BY <1>2, <1>4, <2>1 DEF CallFits
<1>8. gtold' \subseteq GNames \X Ids
  BY <1>1 DEF GInv, RegTypes
<1> QED
  BY <1>1, <1>4, <1>5, <1>6, <1>7, <1>8, SameMoves, QuietStep

LEMMA PatchStep ==
    ASSUME GInv, NEW s \in GServers, NEW n \in GNames, Patch(s, n)
    PROVE  GStep(s, n)
<1>1. PICK y : y = Opened(gsrv[s], n)
  OBVIOUS
<1> DEFINE d == [NoGcall EXCEPT !.kind = "publish", !.name = n, !.id = y.reg.ids[n]]
<1>2. /\ AdminCall(s) /\ gcall' = [gcall EXCEPT ![s] = d] /\ gsrv' = [gsrv EXCEPT ![s] = y]
      /\ greg' = greg /\ gman' = gman /\ gpush' = gpush /\ gtold' = gtold /\ gasked' = gasked
  BY <1>1 DEF Patch
<1>3. Learns(s, y) /\ y \in RegMinds /\ y.reg.ids[n] \in Ids \cup {NoId}
  BY <1>1, OpenedIs DEF Learns
<1>4. /\ d \in RegCalls /\ d.kind = "publish" /\ d.st = "read" /\ d.name = n /\ d.push = "none"
      /\ d.nonce = 0
  BY <1>3 DEF NoGcall, RegCalls, None
<1> HIDE DEF d
<1>5. /\ gsrv' \in [GServers -> RegMinds] /\ gsrv'[s] = y
      /\ gcall' \in [GServers -> RegCalls] /\ gcall'[s] = d
      /\ \A r \in GServers \ {s} : gsrv'[r] = gsrv[r] /\ gcall'[r] = gcall[r]
  BY <1>2, <1>3, <1>4, Frames
<1>6. MindMoves(s)
  BY <1>2, <1>3, <1>5, LearnMoves
<1>7. CallMoves(s, n)
  BY <1>4, <1>5 DEF CallMoves
<1>8. /\ gspent' \in [ids : Nat, calls : Nat, faults : Nat, nonces : Nat]
      /\ gspent.nonces <= gspent'.nonces /\ gspent.ids <= gspent'.ids
  BY <1>2, FaultIs
<1>9. CallFits(s)'
  <2>1. 0 <= gspent'.nonces
    BY <1>8
  <2> QED
    BY <1>4, <1>5, <2>1 DEF CallFits
<1>10. gtold' \subseteq GNames \X Ids
  BY <1>2 DEF GInv, RegTypes
<1> QED
  BY <1>2, <1>5, <1>6, <1>7, <1>8, <1>9, <1>10, SameMoves, QuietStep

LEMMA PushBeginStep ==
    ASSUME GInv, NEW p \in GPushes, NEW s \in GServers, NEW n \in GNames, PushBegin(p, s, n)
    PROVE  GStep(s, n)
<1>1. PICK g \in [ids : Nat, calls : Nat, faults : Nat, nonces : Nat] : g = gspent
  BY DEF GInv, RegTypes
<1>2. PICK y : y = Opened(gsrv[s], n)
  OBVIOUS
<1>3. PICK i : i = y.reg.ids[n]
  OBVIOUS
<1>4. /\ Learns(s, y) /\ y \in RegMinds /\ i \in Ids \cup {NoId}
      /\ i \in Ids => Bears(n, i)
  BY <1>2, <1>3, OpenedIs DEF Learns
<1> DEFINE q == [st |-> "going", s |-> s, name |-> n, created |-> i = NoId,
                 id |-> IF i = NoId THEN g.ids + 1 ELSE i]
<1>5. /\ gpush[p] = NoGpush /\ gcall[s] = NoGcall
      /\ gsrv' = [gsrv EXCEPT ![s] = y]
      /\ i = NoId => g.ids < GMaxIds
      /\ gpush' = [gpush EXCEPT ![p] = q]
      /\ gspent' = IF i = NoId THEN [g EXCEPT !.ids = @ + 1] ELSE g
      /\ greg' = greg /\ gman' = gman /\ gcall' = gcall /\ gtold' = gtold /\ gasked' = gasked
  BY <1>1, <1>2, <1>3 DEF PushBegin, GFree
<1>6. /\ gspent' \in [ids : Nat, calls : Nat, faults : Nat, nonces : Nat]
      /\ gspent'.nonces = g.nonces /\ g.nonces <= g.nonces /\ g.ids <= gspent'.ids
      /\ i = NoId => gspent'.ids = g.ids + 1
  <2>1. CASE i = NoId
    BY <1>5, <2>1
  <2>2. CASE i # NoId
    BY <1>5, <2>2
  <2> QED
    BY <2>1, <2>2
<1>7. /\ q \in RegPushes /\ q.st = "going" /\ q.name = n /\ q.id \in Ids /\ q.s = s
      /\ \/ q.created /\ q.id = g.ids + 1 /\ i = NoId
         \/ ~q.created /\ q.id = i /\ i \in Ids
  <2>1. CASE i = NoId
    <3>1. g.ids + 1 \in Ids
      BY <1>5, <2>1, RegistryAssumption DEF Ids
    <3>2. q.created /\ q.created \in BOOLEAN
      BY <2>1
    <3>3. q = [st |-> "going", s |-> s, name |-> n, created |-> q.created, id |-> g.ids + 1]
      BY <2>1
    <3> QED
      BY <2>1, <3>1, <3>2, <3>3 DEF RegPushes
  <2>2. CASE i # NoId
    <3>1. i \in Ids
      BY <1>4, <2>2
    <3>2. ~q.created /\ q.created \in BOOLEAN
      BY <2>2
    <3>3. q = [st |-> "going", s |-> s, name |-> n, created |-> q.created, id |-> i]
      BY <2>2
    <3> QED
      BY <3>1, <3>2, <3>3 DEF RegPushes
  <2> QED
    BY <2>1, <2>2
<1> HIDE DEF q
<1>8. gpush \in [GPushes -> RegPushes] /\ gcall \in [GServers -> RegCalls]
  BY DEF GInv, RegTypes
<1>9. /\ gpush' \in [GPushes -> RegPushes] /\ gpush'[p] = q
      /\ \A o \in GPushes \ {p} : gpush'[o] = gpush[o]
  BY <1>5, <1>7, <1>8
<1>10. /\ gsrv' \in [GServers -> RegMinds] /\ gsrv'[s] = y
       /\ \A r \in GServers \ {s} : gsrv'[r] = gsrv[r] /\ gcall'[r] = gcall[r]
  BY <1>4, <1>5, <1>8, Blank, Frames
<1>11. MindMoves(s)
  BY <1>4, <1>5, <1>10, LearnMoves
<1>12. PushMoves(s, n)
  <2>1. gpush[p].st = "new"
    BY <1>5 DEF NoGpush
  <2>2. \/ Drawing(n, q.name, q.id) /\ q.created
        \/ Bears(q.name, q.id) /\ ~q.created
    BY <1>1, <1>4, <1>6, <1>7 DEF Drawing
  <2>3. \A o \in GPushes : gpush[o].st = "new" /\ gpush'[o].st # "new" => o = p
    BY <1>9
  <2> QED
    BY <1>7, <1>9, <2>1, <2>2, <2>3 DEF PushMoves
<1>13. CallMoves(s, n)
  BY <1>5 DEF CallMoves, NoGcall
<1>14. CallFits(s)'
  <2>1. 0 <= gspent'.nonces
    BY <1>6
  <2> QED
    BY <1>5, <2>1 DEF CallFits, NoGcall, None
<1>15. gtold' \subseteq GNames \X Ids
  BY <1>5 DEF GInv, RegTypes
<1> QED
  BY <1>1, <1>5, <1>6, <1>8, <1>9, <1>10, <1>11, <1>12, <1>13, <1>14, <1>15, QuietStep

LEMMA CommitBeginStep ==
    ASSUME GInv, NEW p \in GPushes, CommitBegin(p), NEW n
    PROVE  gpush[p].s \in GServers /\ GStep(gpush[p].s, n)
<1>1. PICK q \in RegPushes : q = gpush[p]
  BY DEF GInv, RegTypes
<1>2. q.st = "going"
  BY <1>1 DEF CommitBegin
<1>3. PICK s \in GServers : s = q.s
  BY <1>1, <1>2 DEF GInv, OneName
<1>4. q.id \in Ids /\ q.name \in GNames
  BY <1>1, <1>2 DEF GInv, OneName
<1>5. /\ gcall[s] = NoGcall
      /\ greg' = greg /\ gman' = gman /\ gsrv' = gsrv /\ gtold' = gtold /\ gasked' = gasked
      /\ gspent' = gspent
  BY <1>1, <1>3 DEF CommitBegin, GFree
<1>6. \A how \in {"commit", "refused"} : PushEnds(p, how) =>
          PushMoves(s, n) /\ gpush' \in [GPushes -> RegPushes] /\ gpush'[p].st = how
          /\ gpush'[p].name = q.name /\ gpush'[p].id = q.id
  <2> SUFFICES ASSUME NEW how \in {"commit", "refused"}, PushEnds(p, how)
               PROVE  /\ PushMoves(s, n) /\ gpush' \in [GPushes -> RegPushes] /\ gpush'[p].st = how
                      /\ gpush'[p].name = q.name /\ gpush'[p].id = q.id
    OBVIOUS
  <2>1. PushMoves(s, n) /\ gpush' \in [GPushes -> RegPushes]
    BY <1>1, <1>2, EndMoves
  <2>2. gpush'[p] = [q EXCEPT !.st = how]
    BY <1>1 DEF PushEnds, GInv, RegTypes
  <2>3. [q EXCEPT !.st = how].st = how /\ [q EXCEPT !.st = how].name = q.name
        /\ [q EXCEPT !.st = how].id = q.id
    BY DEF RegPushes
  <2> QED
    BY <2>1, <2>2, <2>3
<1>7. PushMoves(s, n) /\ gpush' \in [GPushes -> RegPushes]
  BY <1>6 DEF CommitBegin
<1>8. gtold' \subseteq GNames \X Ids /\ gcall \in [GServers -> RegCalls] /\ gspent.nonces \in Nat
  BY <1>5, Typed DEF GInv, RegTypes
<1>9. /\ gcall' \in [GServers -> RegCalls]
      /\ \A r \in GServers \ {s} : gcall'[r] = gcall[r]
      /\ CallMoves(s, n) /\ CallFits(s)'
  <2>1. CASE gcall' = gcall
    <3>1. CallMoves(s, n)
      BY <1>5, <2>1 DEF CallMoves, NoGcall
    <3>2. CallFits(s)'
      BY <1>5, <1>8, <2>1 DEF CallFits, NoGcall, None
    <3> QED
      BY <1>8, <2>1, <3>1, <3>2
  <2>2. CASE gcall' # gcall
    <3>1. PICK x : x = gsrv[s]
      OBVIOUS
    <3> DEFINE k == IF q.id \in Loaded(x) THEN "commit" ELSE "register"
               t == IF q.id \in Loaded(x) THEN "put" ELSE "read"
               d == [NoGcall EXCEPT !.kind = k, !.st = t, !.push = p, !.name = q.name, !.id = q.id]
    <3>2. /\ Begins(x, q) /\ PushEnds(p, "commit")
          /\ gcall' = [gcall EXCEPT ![s] = d]
      BY <1>1, <1>3, <2>2, <3>1 DEF CommitBegin
    <3>21. /\ k \in {"commit", "register"} /\ t \in {"put", "read"}
           /\ k = "commit" => t = "put" /\ q.id \in Loaded(x)
           /\ k = "register" => t = "read" /\ q.created
      BY <3>2 DEF Begins
    <3> HIDE DEF k, t
    <3>3. /\ d \in RegCalls /\ d.push = p /\ d.name = q.name /\ d.id = q.id /\ d.nonce = 0
          /\ d.kind = k /\ d.st = t
      BY <1>4, <3>21 DEF NoGcall, RegCalls, None
    <3> HIDE DEF d
    <3>4. gcall' \in [GServers -> RegCalls] /\ gcall'[s] = d
          /\ \A r \in GServers \ {s} : gcall'[r] = gcall[r]
      BY <1>8, <3>2, <3>3
    <3>5. gpush'[p].st = "commit" /\ gpush'[p].name = q.name /\ gpush'[p].id = q.id
      BY <1>6, <3>2
    <3>6. CallMoves(s, n)
      BY <1>1, <1>2, <3>21, <3>3, <3>4, <3>5 DEF CallMoves
    <3>7. CallFits(s)'
      BY <1>4, <1>5, <1>8, <3>1, <3>21, <3>3, <3>4, <3>5 DEF CallFits, Pushing, Loaded
    <3> QED
      BY <3>4, <3>6, <3>7
  <2> QED
    BY <2>1, <2>2
<1>10. GStep(s, n)
  BY <1>5, <1>7, <1>8, <1>9, SameMoves, QuietStep
<1> QED
  BY <1>1, <1>3, <1>10

-------------------------------------------------------------------------------
\* How calls end and go on.

\* Who is in a call has the push it serves.
LEMMA CallPush ==
    ASSUME GInv, NEW s \in GServers, gcall[s].kind # "none", gcall[s].push # "none"
    PROVE  gcall[s].push \in GPushes /\ gpush[gcall[s].push].st # "new"
<1>1. gcall[s] \in RegCalls
  BY DEF GInv, RegTypes
<1> QED
  BY <1>1 DEF RegCalls, GInv, CallFits, Pushing

LEMMA LeaveIs ==
    ASSUME GInv, NEW s \in GServers, NEW n, GLeave(s), gspent'.nonces \in Nat
    PROVE  /\ gcall' \in [GServers -> RegCalls] /\ gcall'[s] = NoGcall
           /\ \A r \in GServers \ {s} : gcall'[r] = gcall[r]
           /\ CallMoves(s, n) /\ CallFits(s)' /\ ~Unoffered(gcall'[s])
<1>1. /\ gcall' \in [GServers -> RegCalls] /\ gcall'[s] = NoGcall
      /\ \A r \in GServers \ {s} : gcall'[r] = gcall[r]
  BY Blank DEF GInv, RegTypes, GLeave
<1>2. CallMoves(s, n)
  BY <1>1 DEF CallMoves, NoGcall
<1>3. CallFits(s)'
  BY <1>1 DEF CallFits, NoGcall, None
<1>4. ~Unoffered(gcall'[s])
  BY <1>1 DEF Unoffered, NoGcall
<1> QED
  BY <1>1, <1>2, <1>3, <1>4

LEMMA RefuseIs ==
    ASSUME GInv, NEW s \in GServers, NEW n, Refuse(s), gcall[s].kind # "none", gspent'.nonces \in Nat
    PROVE  /\ gcall' \in [GServers -> RegCalls] /\ gcall'[s] = NoGcall
           /\ \A r \in GServers \ {s} : gcall'[r] = gcall[r]
           /\ CallMoves(s, n) /\ CallFits(s)' /\ ~Unoffered(gcall'[s])
           /\ PushMoves(s, n) /\ gpush' \in [GPushes -> RegPushes]
<1>1. PushMoves(s, n) /\ gpush' \in [GPushes -> RegPushes]
  <2>1. CASE gcall[s].push = "none"
    BY <2>1, SameMoves DEF Refuse
  <2>2. CASE gcall[s].push # "none"
    <3>1. PICK p \in GPushes : p = gcall[s].push /\ gpush[p].st # "new"
      BY <2>2, CallPush
    <3>2. PushEnds(p, "refused")
      BY <2>2, <3>1 DEF Refuse, PushEnds
    <3> QED
      BY <3>1, <3>2, EndMoves
  <2> QED
    BY <2>1, <2>2
<1> QED
  BY <1>1, LeaveIs DEF Refuse

\* What a server may come to have in memory beside what is stored after the step.
Recalls(s, x) ==
    \A i \in Loaded(x) :
        \/ i \in Loaded(gsrv[s]) /\ x.mem[i] = gsrv[s].mem[i]
        \/ x.mem[i] = gman[i] /\ (i \in Loaded(gsrv[s]) \/ Holds(i)')

LEMMA RegisteredIs ==
    ASSUME GInv, NEW s \in GServers, NEW n, NEW x \in RegMinds, Registered(s, x),
           gcall[s].kind = "register", gman' = gman, gpush' = gpush,
           x.reg = greg', greg'.ids[gcall[s].name] = gcall[s].id, Recalls(s, x),
           gspent'.nonces \in Nat, gcall[s].nonce <= gspent'.nonces
    PROVE  /\ gsrv' \in [GServers -> RegMinds] /\ gcall' \in [GServers -> RegCalls]
           /\ \A r \in GServers \ {s} : gsrv'[r] = gsrv[r] /\ gcall'[r] = gcall[r]
           /\ gtold' \subseteq GNames \X Ids
           /\ \A t \in gtold' : t \in gtold \/ greg'.ids[t[1]] = t[2]
           /\ MindMoves(s) /\ CallMoves(s, n) /\ CallFits(s)' /\ ~Unoffered(gcall'[s])
<1>1. PICK c \in RegCalls : c = gcall[s]
  BY DEF GInv, RegTypes
<1>2. c.id \in Ids /\ c.name \in GNames
  BY <1>1 DEF GInv, CallFits
<1>3. gman[c.id] \in RepoMans /\ gtold \subseteq GNames \X Ids
  BY <1>2, Typed DEF GInv, RegTypes
<1>4. CASE c.push = "none"
  <2>1. /\ gtold' = gtold \cup {<<c.name, c.id>>} /\ gsrv' = [gsrv EXCEPT ![s] = x] /\ GLeave(s)
    BY <1>1, <1>4 DEF Registered
  <2>2. /\ gcall' \in [GServers -> RegCalls]
        /\ \A r \in GServers \ {s} : gcall'[r] = gcall[r]
        /\ CallMoves(s, n) /\ CallFits(s)' /\ ~Unoffered(gcall'[s])
    BY <2>1, LeaveIs
  <2>3. /\ gsrv' \in [GServers -> RegMinds] /\ gsrv'[s] = x
        /\ \A r \in GServers \ {s} : gsrv'[r] = gsrv[r]
    BY <2>1, <1>1, Frames
  <2>4. MindMoves(s)
    BY <2>3 DEF MindMoves, Recalls, Loaded
  <2>5. /\ gtold' \subseteq GNames \X Ids
        /\ \A t \in gtold' : t \in gtold \/ greg'.ids[t[1]] = t[2]
    BY <1>1, <1>2, <1>3, <2>1
  <2> QED
    BY <2>2, <2>3, <2>4, <2>5
<1>5. CASE c.push # "none"
  <2>1. PICK v \in RepoMans : v = gman[c.id]
    BY <1>3
  <2> DEFINE m == Hold(x.mem, c.id, v)
             y == [x EXCEPT !.mem = m]
             d == [c EXCEPT !.kind = "commit", !.st = "put", !.round = 0]
  <2>2. gtold' = gtold /\ gsrv' = [gsrv EXCEPT ![s] = y] /\ gcall' = [gcall EXCEPT ![s] = d]
    BY <1>1, <1>5, <2>1 DEF Registered
  <2>3. /\ m \in Memories /\ DOMAIN m = DOMAIN x.mem \cup {c.id} /\ m[c.id] = v
        /\ \A j \in DOMAIN x.mem \ {c.id} : m[j] = x.mem[j]
    <3>1. PICK f \in Memories : f = x.mem
      BY MindIs
    <3>2. PICK i \in Ids : i = c.id
      BY <1>2
    <3>3. PICK h : h = Hold(f, i, v)
      OBVIOUS
    <3>4. h \in Memories /\ DOMAIN h = DOMAIN f \cup {i} /\ h[i] = v
      BY <3>3, HoldIs
    <3>5. \A j \in DOMAIN f \ {i} : Hold(f, i, v)[j] = f[j]
      BY HoldIs
    <3> QED
      BY <3>1, <3>2, <3>3, <3>4, <3>5
  <2> HIDE DEF m
  <2>4. y \in RegMinds /\ y.reg = x.reg /\ y.mem = m
    BY <2>3 DEF RegMinds
  <2> HIDE DEF y
  <2>5. /\ d \in RegCalls /\ d.kind = "commit" /\ d.st = "put" /\ d.name = c.name /\ d.id = c.id
        /\ d.push = c.push /\ d.nonce = c.nonce
    BY DEF RegCalls
  <2> HIDE DEF d
  <2>6. /\ gsrv' \in [GServers -> RegMinds] /\ gsrv'[s] = y
        /\ gcall' \in [GServers -> RegCalls] /\ gcall'[s] = d
        /\ \A r \in GServers \ {s} : gsrv'[r] = gsrv[r] /\ gcall'[r] = gcall[r]
    BY <2>2, <2>4, <2>5, Frames
  <2>7. Holds(c.id)'
    BY <1>1, <1>2 DEF Holds
  <2>8. MindMoves(s)
    <3>1. ASSUME NEW i \in DOMAIN m
          PROVE  \/ i \in Loaded(gsrv[s]) /\ m[i] = gsrv[s].mem[i]
                 \/ m[i] = gman[i] /\ (i \in Loaded(gsrv[s]) \/ Holds(i)')
      <4>1. CASE i = c.id
        BY <2>1, <2>3, <2>7, <3>1, <4>1
      <4>2. CASE i # c.id
        BY <2>3, <3>1, <4>2 DEF Recalls, Loaded
      <4> QED
        BY <4>1, <4>2
    <3>2. y.reg = greg' /\ Loaded(gsrv'[s]) = DOMAIN m /\ gsrv'[s].mem = m
      BY <2>4, <2>6 DEF Loaded
    <3> QED
      BY <2>6, <3>1, <3>2 DEF MindMoves
  <2>9. CallMoves(s, n)
    BY <1>1, <2>5, <2>6 DEF CallMoves
  <2>10. CallFits(s)'
    <3>1. c.push \in GPushes /\ gpush[c.push].st # "new" /\ gpush[c.push].name = c.name
          /\ gpush[c.push].id = c.id
      BY <1>1, <1>5 DEF GInv, CallFits, Pushing
    <3>2. c.id \in Loaded(gsrv'[s])
      BY <2>3, <2>4, <2>6 DEF Loaded
    <3> QED
      BY <1>1, <1>2, <2>5, <2>6, <3>1, <3>2 DEF CallFits, Pushing
  <2>11. ~Unoffered(gcall'[s])
    BY <2>5, <2>6 DEF Unoffered
  <2> QED
    BY <1>3, <2>2, <2>6, <2>8, <2>9, <2>10, <2>11
<1> QED
  BY <1>4, <1>5

LEMMA AgainIs ==
    ASSUME GInv, NEW s \in GServers, NEW n, Again(s),
           gcall[s].kind \in {"register", "delete", "publish"}, gspent'.nonces \in Nat
    PROVE  /\ gcall' \in [GServers -> RegCalls] /\ ~Unoffered(gcall'[s])
           /\ \A r \in GServers \ {s} : gcall'[r] = gcall[r]
           /\ CallMoves(s, n) /\ PushMoves(s, n) /\ gpush' \in [GPushes -> RegPushes]
           /\ CallFits(s)'
<1>1. CASE Refuse(s)
  BY <1>1, RefuseIs
<1>2. CASE ~Refuse(s)
  <2>1. PICK c \in RegCalls : c = gcall[s]
    BY DEF GInv, RegTypes
  <2> DEFINE d == [c EXCEPT !.st = "read", !.round = @ + 1, !.nonce = None]
  <2>2. gcall' = [gcall EXCEPT ![s] = d] /\ gpush' = gpush
    BY <1>2, <2>1 DEF Again
  <2>3. /\ d \in RegCalls /\ d.kind = c.kind /\ d.st = "read" /\ d.name = c.name /\ d.id = c.id
        /\ d.push = c.push /\ d.round # 0 /\ d.nonce = 0
    <3>1. c.round \in Nat /\ c.round + 1 \in Nat /\ c.round + 1 # 0
      BY DEF RegCalls
    <3>2. d = [c EXCEPT !.st = "read", !.round = c.round + 1, !.nonce = None]
      OBVIOUS
    <3> HIDE DEF d
    <3> QED
      BY <3>1, <3>2 DEF RegCalls, None
  <2> HIDE DEF d
  <2>4. gsrv[s] \in RegMinds
    BY DEF GInv, RegTypes
  <2>5. /\ gcall' \in [GServers -> RegCalls] /\ gcall'[s] = d
        /\ \A r \in GServers \ {s} : gcall'[r] = gcall[r]
    BY <2>2, <2>3, <2>4, Frames
  <2>6. ~Unoffered(gcall'[s])
    BY <2>3, <2>5 DEF Unoffered
  <2>7. CallMoves(s, n)
    BY <2>1, <2>3, <2>5 DEF CallMoves, Unoffered
  <2>8. CallFits(s)'
    <3>1. /\ c.kind = "register" => c.id \in Ids /\ c.name \in GNames
          /\ c.kind \in {"delete", "publish"} => c.name \in GNames /\ c.push = "none"
          /\ c.kind = "register" /\ c.push # "none" =>
                /\ c.push \in GPushes /\ gpush[c.push].st # "new"
                /\ gpush[c.push].name = c.name /\ gpush[c.push].id = c.id
      BY <2>1 DEF GInv, CallFits, Pushing
    <3>2. 0 <= gspent'.nonces /\ c.kind \in {"register", "delete", "publish"}
      BY <2>1
    <3> QED
      BY <2>2, <2>3, <2>5, <3>1, <3>2 DEF CallFits, Pushing
  <2> QED
    BY <2>2, <2>5, <2>6, <2>7, <2>8, SameMoves
<1> QED
  BY <1>1, <1>2

LEMMA ReadRegistryStep ==
    ASSUME GInv, NEW s \in GServers, NEW n, ReadRegistry(s)
    PROVE  GStep(s, n)
<1>1. PICK c \in RegCalls : c = gcall[s]
  BY DEF GInv, RegTypes
<1>2. PICK x : x = Read(gsrv[s])
  OBVIOUS
<1>3. x \in RegMinds /\ Learns(s, x) /\ x.reg = greg
  BY <1>2, ReadIs DEF Learns
<1>4. PICK i : i = greg.ids[c.name]
  OBVIOUS
<1>5. /\ greg' = greg /\ gman' = gman /\ gasked' = gasked /\ gspent' = gspent
      /\ c.kind \in {"register", "delete", "publish"} /\ c.st = "read"
  BY <1>1 DEF ReadRegistry
<1>6. /\ gspent.nonces \in Nat /\ gtold \subseteq GNames \X Ids /\ c.nonce <= gspent.nonces
      /\ c.name \in GNames /\ (c.kind = "register" => c.id \in Ids) /\ i \in Ids \cup {NoId}
  BY <1>1, <1>4, <1>5, Typed DEF GInv, RegTypes, CallFits
<1>7. /\ gspent' \in [ids : Nat, calls : Nat, faults : Nat, nonces : Nat]
      /\ gspent.nonces <= gspent'.nonces /\ gspent.ids <= gspent'.ids
  BY <1>5, SameMoves
<1> DEFINE Proceeds == /\ gsrv' = [gsrv EXCEPT ![s] = x]
                       /\ gcall' = [gcall EXCEPT ![s].st = "put"]
                       /\ gpush' = gpush /\ gtold' = gtold
           Refuses == gsrv' = [gsrv EXCEPT ![s] = x] /\ Refuse(s) /\ gtold' = gtold
<1>8. \/ c.kind = "register" /\ i = NoId /\ Proceeds
      \/ c.kind = "register" /\ i = c.id /\ Registered(s, x) /\ gpush' = gpush
      \/ c.kind # "register" /\ i # NoId /\ Proceeds
      \/ Refuses
  BY <1>1, <1>2, <1>3, <1>4 DEF ReadRegistry, Own
<1>9. CASE Refuses
  <2>1. /\ gcall' \in [GServers -> RegCalls]
        /\ \A r \in GServers \ {s} : gcall'[r] = gcall[r]
        /\ CallMoves(s, n) /\ CallFits(s)'
        /\ PushMoves(s, n) /\ gpush' \in [GPushes -> RegPushes]
    BY <1>1, <1>5, <1>6, <1>9, RefuseIs
  <2>2. /\ gsrv' \in [GServers -> RegMinds] /\ gsrv'[s] = x
        /\ \A r \in GServers \ {s} : gsrv'[r] = gsrv[r]
    BY <1>1, <1>3, <1>9, Frames
  <2>3. MindMoves(s)
    BY <1>3, <1>5, <2>2, LearnMoves
  <2>4. gtold' = gtold
    BY <1>9
  <2> QED
    BY <1>5, <1>6, <1>7, <2>1, <2>2, <2>3, <2>4, QuietStep
<1>10. CASE c.kind = "register" /\ i = c.id /\ Registered(s, x) /\ gpush' = gpush
  <2>1. Recalls(s, x)
    <3>1. \A j : Holds(j) => Holds(j)'
      BY <1>5 DEF Holds
    <3> QED
      BY <1>3, <3>1 DEF Learns, Recalls
  <2>2. /\ gsrv' \in [GServers -> RegMinds] /\ gcall' \in [GServers -> RegCalls]
        /\ \A r \in GServers \ {s} : gsrv'[r] = gsrv[r] /\ gcall'[r] = gcall[r]
        /\ gtold' \subseteq GNames \X Ids
        /\ \A t \in gtold' : t \in gtold \/ greg'.ids[t[1]] = t[2]
        /\ MindMoves(s) /\ CallMoves(s, n) /\ CallFits(s)'
    BY <1>1, <1>3, <1>4, <1>5, <1>6, <1>10, <2>1, RegisteredIs
  <2> QED
    BY <1>5, <1>7, <1>10, <2>2, SameMoves, QuietStep
<1>11. CASE Proceeds /\ (c.kind = "register" <=> i = NoId)
  <2> DEFINE d == [c EXCEPT !.st = "put"]
  <2>1. gcall' = [gcall EXCEPT ![s] = d]
    BY <1>1, <1>11 DEF GInv, RegTypes
  <2>2. /\ d \in RegCalls /\ d.kind = c.kind /\ d.st = "put" /\ d.name = c.name /\ d.id = c.id
        /\ d.push = c.push /\ d.round = c.round /\ d.nonce = c.nonce
    BY DEF RegCalls
  <2> HIDE DEF d
  <2>3. /\ gsrv' \in [GServers -> RegMinds] /\ gsrv'[s] = x
        /\ gcall' \in [GServers -> RegCalls] /\ gcall'[s] = d
        /\ \A r \in GServers \ {s} : gsrv'[r] = gsrv[r] /\ gcall'[r] = gcall[r]
    <3>1. gsrv' = [gsrv EXCEPT ![s] = x]
      BY <1>11
    <3> QED
      BY <1>3, <2>1, <2>2, <3>1, Frames
  <2>4. MindMoves(s)
    BY <1>3, <1>5, <2>3, LearnMoves
  <2>5. CallMoves(s, n)
    BY <1>1, <1>5, <2>2, <2>3 DEF CallMoves, Unoffered
  <2>6. CallFits(s)'
    <3>1. /\ c.kind \in {"delete", "publish"} => c.push = "none"
          /\ c.kind = "register" /\ c.push # "none" =>
                /\ c.push \in GPushes /\ gpush[c.push].st # "new"
                /\ gpush[c.push].name = c.name /\ gpush[c.push].id = c.id
      BY <1>1 DEF GInv, CallFits, Pushing
    <3>2. gsrv'[s].reg.ids[c.name] = i
      BY <1>3, <1>4, <2>3
    <3> QED
      BY <1>5, <1>6, <1>11, <2>2, <2>3, <3>1, <3>2 DEF CallFits, Pushing
  <2>7. gtold' = gtold /\ gpush' = gpush
    BY <1>11
  <2> QED
    BY <1>5, <1>6, <1>7, <2>3, <2>4, <2>5, <2>6, <2>7, SameMoves, QuietStep
<1> QED
  BY <1>8, <1>9, <1>10, <1>11

-------------------------------------------------------------------------------
\* The registry is written.

\* The registry r that is stored after the step, and that the call takes to be its own.
LEMMA StoredIs ==
    ASSUME GInv, NEW s \in GServers, NEW n, NEW r \in RegDocs, Stored(s, r), greg' = r,
           gcall[s].kind \in {"register", "delete", "publish"}, gcall[s].st \in {"put", "settle"},
           gman' = gman, gpush' = gpush, gasked \subseteq gasked',
           gcall[s].kind = "register" => r.ids[gcall[s].name] = gcall[s].id,
           gcall[s].kind = "delete" => gsrv[s].reg.ids[gcall[s].name] \in gasked',
           gspent'.nonces \in Nat, gcall[s].nonce <= gspent'.nonces
    PROVE  /\ gsrv' \in [GServers -> RegMinds] /\ gcall' \in [GServers -> RegCalls]
           /\ \A o \in GServers \ {s} : gsrv'[o] = gsrv[o] /\ gcall'[o] = gcall[o]
           /\ gtold' \subseteq GNames \X Ids
           /\ \A t \in gtold' : t \in gtold \/ greg'.ids[t[1]] = t[2]
           /\ MindMoves(s) /\ CallMoves(s, n) /\ CallFits(s)' /\ ~Unoffered(gcall'[s])
<1>1. PICK c \in RegCalls : c = gcall[s]
  BY DEF GInv, RegTypes
<1>2. PICK w \in RegMinds : w = gsrv[s]
  BY DEF GInv, RegTypes
<1>3. PICK i : i = w.reg.ids[c.name]
  OBVIOUS
<1>4. gtold \subseteq GNames \X Ids
  BY DEF GInv, RegTypes
<1> DEFINE x == [w EXCEPT !.reg = r]
<1>5. x \in RegMinds /\ x.reg = r /\ x.mem = w.mem
  BY DEF RegMinds
<1>6. \/ c.kind = "register" /\ Registered(s, x)
      \/ /\ c.kind = "delete" /\ gtold' = gtold
         /\ gsrv' = [gsrv EXCEPT ![s] = [x EXCEPT !.mem = Drop(@, {i})]]
         /\ gcall' = [gcall EXCEPT ![s] = [c EXCEPT !.st = "wipe", !.id = i]]
      \/ c.kind = "publish" /\ gtold' = gtold /\ gsrv' = [gsrv EXCEPT ![s] = x] /\ GLeave(s)
  BY <1>1, <1>2, <1>3 DEF Stored
<1> HIDE DEF x
<1>7. CASE c.kind = "register" /\ Registered(s, x)
  <2>1. Recalls(s, x)
    BY <1>2, <1>5 DEF Recalls, Loaded
  <2> QED
    BY <1>1, <1>5, <1>7, <2>1, RegisteredIs
<1>8. CASE /\ c.kind = "publish" /\ gtold' = gtold
           /\ gsrv' = [gsrv EXCEPT ![s] = x] /\ GLeave(s)
  <2>1. /\ gsrv' \in [GServers -> RegMinds] /\ gsrv'[s] = x
        /\ \A o \in GServers \ {s} : gsrv'[o] = gsrv[o]
    BY <1>1, <1>5, <1>8, Frames
  <2>2. MindMoves(s)
    BY <1>2, <1>5, <2>1 DEF MindMoves, Loaded
  <2> QED
    BY <1>4, <1>8, <2>1, <2>2, LeaveIs
<1>9. CASE /\ c.kind = "delete" /\ gtold' = gtold
           /\ gsrv' = [gsrv EXCEPT ![s] = [x EXCEPT !.mem = Drop(@, {i})]]
           /\ gcall' = [gcall EXCEPT ![s] = [c EXCEPT !.st = "wipe", !.id = i]]
  <2>1. i \in Ids /\ i \in gasked'
    BY <1>1, <1>2, <1>3, <1>9 DEF GInv, CallFits
  <2> DEFINE m == Drop(x.mem, {i})
             y == [x EXCEPT !.mem = m]
             d == [c EXCEPT !.st = "wipe", !.id = i]
  <2>2. gsrv' = [gsrv EXCEPT ![s] = y] /\ gcall' = [gcall EXCEPT ![s] = d]
    BY <1>9
  <2>3. /\ m \in Memories /\ DOMAIN m = DOMAIN x.mem \ {i}
        /\ \A j \in DOMAIN x.mem \ {i} : m[j] = x.mem[j]
    <3>1. PICK f \in Memories : f = x.mem
      BY <1>5, MindIs
    <3>2. PICK h : h = Drop(f, {i})
      OBVIOUS
    <3>3. h \in Memories /\ DOMAIN h = DOMAIN f \ {i}
      BY <3>2, DropIs
    <3>4. \A j \in DOMAIN f \ {i} : h[j] = f[j]
      BY <3>2, DropIs
    <3> QED
      BY <3>1, <3>2, <3>3, <3>4
  <2> HIDE DEF m
  <2>4. y \in RegMinds /\ y.reg = r /\ y.mem = m
    BY <1>5, <2>3 DEF RegMinds
  <2> HIDE DEF y
  <2>5. /\ d \in RegCalls /\ d.kind = "delete" /\ d.st = "wipe" /\ d.id = i /\ d.name = c.name
        /\ d.push = c.push /\ d.nonce = c.nonce
    BY <1>9, <2>1 DEF RegCalls
  <2> HIDE DEF d
  <2>6. /\ gsrv' \in [GServers -> RegMinds] /\ gsrv'[s] = y
        /\ gcall' \in [GServers -> RegCalls] /\ gcall'[s] = d
        /\ \A o \in GServers \ {s} : gsrv'[o] = gsrv[o] /\ gcall'[o] = gcall[o]
    BY <2>2, <2>4, <2>5, Frames
  <2>7. MindMoves(s)
    BY <1>2, <1>5, <2>3, <2>4, <2>6 DEF MindMoves, Loaded
  <2>8. CallMoves(s, n)
    BY <2>5, <2>6 DEF CallMoves
  <2>9. CallFits(s)'
    <3>1. c.name \in GNames /\ c.push = "none"
      BY <1>1, <1>9 DEF GInv, CallFits
    <3> QED
      BY <1>1, <2>1, <2>5, <2>6, <3>1 DEF CallFits
  <2>10. ~Unoffered(gcall'[s])
    BY <2>5, <2>6 DEF Unoffered
  <2> QED
    BY <1>4, <1>9, <2>6, <2>7, <2>8, <2>9, <2>10
<1> QED
  BY <1>6, <1>7, <1>8, <1>9

\* The registry r is the stored one with the change of the call.
Changed(s, r, nonce) ==
    LET c == gcall[s] IN
    /\ r \in RegDocs /\ r.writer = nonce /\ r.rev = greg.rev + 1
    /\ \A m \in GNames \ {c.name} : r.ids[m] = greg.ids[m]
    /\ c.kind = "register" => greg.ids[c.name] = NoId /\ r.ids[c.name] = c.id
    /\ c.kind = "delete" => r.ids[c.name] = NoId
    /\ c.kind = "publish" => r.ids = greg.ids /\ \E i \in Ids : r.public = greg.public \cup {i}

\* That is what a call wants stored, when what it read is what is stored.
LEMMA RewrittenIs ==
    ASSUME GInv, NEW s \in GServers, gcall[s].st = "put", NEW nonce \in Nat,
           gcall[s].kind \in {"register", "delete", "publish"}, gsrv[s].reg = greg,
           NEW r, r = [Rewritten(s) EXCEPT !.rev = @ + 1, !.writer = nonce]
    PROVE  Changed(s, r, nonce)
<1>1. PICK c \in RegCalls : c = gcall[s]
  BY DEF GInv, RegTypes
<1>2. PICK g \in RegDocs : g = greg
  BY DEF GInv, RegTypes
<1>3. /\ g.rev \in Nat /\ g.rev + 1 \in Nat /\ g.ids \in [GNames -> Ids \cup {NoId}]
      /\ g.public \in SUBSET Ids
      /\ g = [rev |-> g.rev, writer |-> g.writer, ids |-> g.ids, public |-> g.public]
  BY DEF RegDocs
<1>4. PICK i : i = g.ids[c.name]
  OBVIOUS
<1>5. /\ c.name \in GNames /\ c.kind \in {"register", "delete", "publish"}
      /\ c.kind = "register" => c.id \in Ids /\ i = NoId
      /\ c.kind \in {"delete", "publish"} => i \in Ids
  BY <1>1, <1>2, <1>4 DEF GInv, CallFits
<1>6. ASSUME NEW u \in [GNames -> Ids \cup {NoId}], NEW p \in SUBSET Ids,
             r = [g EXCEPT !.rev = g.rev + 1, !.writer = nonce, !.ids = u, !.public = p]
      PROVE  r \in RegDocs /\ r.writer = nonce /\ r.rev = g.rev + 1 /\ r.ids = u /\ r.public = p
  BY <1>3, <1>6 DEF RegDocs
<1>7. CASE c.kind = "register"
  <2> DEFINE u == [g.ids EXCEPT ![c.name] = c.id]
  <2>1. r = [g EXCEPT !.rev = g.rev + 1, !.writer = nonce, !.ids = u, !.public = g.public]
    BY <1>1, <1>2, <1>3, <1>7 DEF Rewritten
  <2>2. u \in [GNames -> Ids \cup {NoId}] /\ u[c.name] = c.id
        /\ \A m \in GNames \ {c.name} : u[m] = g.ids[m]
    BY <1>3, <1>5, <1>7
  <2> HIDE DEF u
  <2>3. r \in RegDocs /\ r.writer = nonce /\ r.rev = g.rev + 1 /\ r.ids = u
    BY <1>3, <1>6, <2>1, <2>2
  <2> QED
    BY <1>1, <1>2, <1>4, <1>5, <1>7, <2>2, <2>3 DEF Changed
<1>8. CASE c.kind = "delete"
  <2> DEFINE u == [g.ids EXCEPT ![c.name] = NoId]
  <2>1. r = [g EXCEPT !.rev = g.rev + 1, !.writer = nonce, !.ids = u, !.public = g.public \ {i}]
    BY <1>1, <1>2, <1>3, <1>4, <1>8 DEF Rewritten
  <2>2. u \in [GNames -> Ids \cup {NoId}] /\ u[c.name] = NoId
        /\ \A m \in GNames \ {c.name} : u[m] = g.ids[m]
    BY <1>3, <1>5
  <2>3. g.public \ {i} \in SUBSET Ids
    BY <1>3
  <2> HIDE DEF u
  <2>4. r \in RegDocs /\ r.writer = nonce /\ r.rev = g.rev + 1 /\ r.ids = u
    BY <1>6, <2>1, <2>2, <2>3
  <2> QED
    BY <1>1, <1>2, <1>8, <2>2, <2>4 DEF Changed
<1>9. CASE c.kind = "publish"
  <2>1. r = [g EXCEPT !.rev = g.rev + 1, !.writer = nonce, !.ids = g.ids, !.public = g.public \cup {i}]
    BY <1>1, <1>2, <1>3, <1>4, <1>9 DEF Rewritten
  <2>2. g.public \cup {i} \in SUBSET Ids /\ i \in Ids
    BY <1>3, <1>5, <1>9
  <2>3. /\ r \in RegDocs /\ r.writer = nonce /\ r.rev = g.rev + 1 /\ r.ids = g.ids
        /\ r.public = g.public \cup {i}
    BY <1>3, <1>6, <2>1, <2>2
  <2> QED
    BY <1>1, <1>2, <1>9, <2>2, <2>3 DEF Changed
<1> QED
  BY <1>5, <1>7, <1>8, <1>9

\* A registry that takes the place of the one its writer read.
LEMMA WrittenMoves ==
    ASSUME GInv, NEW s \in GServers, NEW r, greg' = r,
           r = [Rewritten(s) EXCEPT !.rev = @ + 1, !.writer = gspent.nonces + 1],
           gcall[s].kind \in {"register", "delete", "publish"}, gcall[s].st = "put",
           gsrv[s].reg = greg, gspent'.nonces = gspent.nonces + 1, ~Unoffered(gcall'[s]),
           gcall[s].kind = "delete" => gsrv[s].reg.ids[gcall[s].name] \in gasked'
    PROVE  RegistryMoves(s)
<1>1. PICK N \in Nat : N = gspent.nonces + 1
  BY Typed DEF GInv
<1>2. PICK c : c = gcall[s]
  OBVIOUS
<1>4. Changed(s, r, N)
  <2>1. r = [Rewritten(s) EXCEPT !.rev = @ + 1, !.writer = N]
    BY <1>1
  <2> QED
    BY <2>1, RewrittenIs
<1>3. /\ r.writer = gspent.nonces + 1
      /\ \A m \in GNames \ {c.name} : r.ids[m] = greg.ids[m]
      /\ c.kind = "register" => greg.ids[c.name] = NoId /\ r.ids[c.name] = c.id
      /\ c.kind = "delete" => r.ids[c.name] = NoId
      /\ c.kind = "publish" => r.ids = greg.ids
  BY <1>1, <1>2, <1>4 DEF Changed
<1> QED
  BY <1>2, <1>3 DEF RegistryMoves

LEMMA PutRegistryStep ==
    ASSUME GInv, NEW s \in GServers, NEW n, PutRegistry(s)
    PROVE  GStep(s, n)
<1>1. PICK c \in RegCalls : c = gcall[s]
  BY DEF GInv, RegTypes
<1>2. PICK i : i = gsrv[s].reg.ids[c.name]
  OBVIOUS
<1>3. PICK N \in Nat : N = gspent.nonces + 1 /\ gspent.nonces < N
  BY Typed DEF GInv
<1>4. PICK r : r = [Rewritten(s) EXCEPT !.rev = @ + 1, !.writer = N]
  OBVIOUS
<1>5. /\ c.kind \in {"register", "delete", "publish"} /\ c.st = "put" /\ gman' = gman
      /\ gasked' = IF c.kind = "delete" THEN gasked \cup {i} ELSE gasked
  BY <1>1, <1>2 DEF PutRegistry
<1>6. /\ c.name \in GNames /\ (c.kind = "register" => c.id \in Ids) /\ c.nonce <= gspent.nonces
      /\ c.kind \in {"delete", "publish"} => i \in Ids /\ c.push = "none"
      /\ c.kind = "register" => i = NoId
      /\ c.kind = "register" /\ c.push # "none" =>
            /\ c.push \in GPushes /\ gpush[c.push].st # "new"
            /\ gpush[c.push].name = c.name /\ gpush[c.push].id = c.id
  BY <1>1, <1>2, <1>5 DEF GInv, CallFits, Pushing
<1>7. c.kind = "delete" => Holds(i)
  BY <1>2, <1>6 DEF GInv, Standing
<1>8. /\ gasked \subseteq gasked' /\ gasked' \subseteq Ids
      /\ \A j \in gasked' : j \in gasked \/ Holds(j)
      /\ c.kind = "delete" => i \in gasked'
  BY <1>5, <1>6, <1>7 DEF GInv, RegTypes
<1>9. PICK g \in [ids : Nat, calls : Nat, faults : Nat, nonces : Nat] : g = gspent
  BY DEF GInv, RegTypes
<1>10. /\ [g EXCEPT !.nonces = N] \in [ids : Nat, calls : Nat, faults : Nat, nonces : Nat]
       /\ [g EXCEPT !.nonces = N].nonces = N /\ [g EXCEPT !.nonces = N].ids = g.ids
  OBVIOUS
<1>11. PICK h : h = [g EXCEPT !.nonces = N]
  OBVIOUS
<1>12. /\ [h EXCEPT !.faults = @ + 1] \in [ids : Nat, calls : Nat, faults : Nat, nonces : Nat]
       /\ [h EXCEPT !.faults = @ + 1].nonces = N /\ [h EXCEPT !.faults = @ + 1].ids = g.ids
  <2>1. h \in [ids : Nat, calls : Nat, faults : Nat, nonces : Nat] /\ h.nonces = N /\ h.ids = g.ids
    BY <1>10, <1>11
  <2> QED
    BY <2>1
<1>13. g.nonces <= N /\ c.nonce <= N /\ g.ids <= g.ids /\ g.nonces <= g.nonces
  <2>1. g.nonces \in Nat /\ g.ids \in Nat /\ c.nonce \in Nat
    BY DEF RegCalls
  <2> QED
    BY <1>3, <1>6, <1>9, <2>1
<1>14. Accepts(greg, gsrv[s].reg.writer) => gsrv[s].reg = greg
  BY DEF Accepts, GInv, NoncesName
<1>15. \/ /\ Accepts(greg, gsrv[s].reg.writer) /\ greg' = r /\ gspent' = h
          /\ Stored(s, r) /\ gpush' = gpush
       \/ /\ Again(s) /\ greg' = greg /\ gsrv' = gsrv /\ gtold' = gtold /\ gspent' = gspent
       \/ /\ gspent' = [h EXCEPT !.faults = @ + 1]
          /\ greg' = greg \/ (Accepts(greg, gsrv[s].reg.writer) /\ greg' = r)
          /\ gcall' = [gcall EXCEPT ![s] = [c EXCEPT !.st = "settle", !.nonce = N]]
          /\ gsrv' = gsrv /\ gtold' = gtold /\ gpush' = gpush
  BY <1>1, <1>3, <1>4, <1>9, <1>11 DEF PutRegistry
<1>16. /\ gtold \subseteq GNames \X Ids /\ gman \in [Ids -> RepoMans] /\ greg \in RegDocs
       /\ gsrv \in [GServers -> RegMinds] /\ gpush \in [GPushes -> RegPushes]
  BY DEF GInv, RegTypes
<1>17. ManifestMoves
  BY <1>5 DEF ManifestMoves
<1>18. gsrv[s].reg = greg =>
          /\ r \in RegDocs /\ r.writer = N /\ (c.kind = "register" => r.ids[c.name] = c.id)
  <2> SUFFICES ASSUME gsrv[s].reg = greg
               PROVE  r \in RegDocs /\ r.writer = N /\ (c.kind = "register" => r.ids[c.name] = c.id)
    OBVIOUS
  <2>1. gcall[s].st = "put" /\ gcall[s].kind \in {"register", "delete", "publish"}
    BY <1>1, <1>5
  <2>2. Changed(s, r, N)
    BY <1>4, <2>1, RewrittenIs
  <2> QED
    BY <1>1, <2>2 DEF Changed
<1>19. CASE /\ Accepts(greg, gsrv[s].reg.writer) /\ greg' = r /\ gspent' = h
            /\ Stored(s, r) /\ gpush' = gpush
  <2>1. /\ gspent' \in [ids : Nat, calls : Nat, faults : Nat, nonces : Nat]
        /\ gspent'.nonces = N /\ gspent'.ids = g.ids
    BY <1>10, <1>11, <1>19
  <2>2. gsrv[s].reg = greg /\ r \in RegDocs /\ (c.kind = "register" => r.ids[c.name] = c.id)
    BY <1>14, <1>18, <1>19
  <2>3. /\ gsrv' \in [GServers -> RegMinds] /\ gcall' \in [GServers -> RegCalls]
        /\ \A o \in GServers \ {s} : gsrv'[o] = gsrv[o] /\ gcall'[o] = gcall[o]
        /\ gtold' \subseteq GNames \X Ids
        /\ \A t \in gtold' : t \in gtold \/ greg'.ids[t[1]] = t[2]
        /\ MindMoves(s) /\ CallMoves(s, n) /\ CallFits(s)' /\ ~Unoffered(gcall'[s])
    BY <1>1, <1>2, <1>5, <1>8, <1>13, <1>19, <2>1, <2>2, StoredIs
  <2>4. RegistryMoves(s)
    BY <1>1, <1>2, <1>3, <1>4, <1>5, <1>8, <1>19, <2>1, <2>2, <2>3, WrittenMoves
  <2>5. PushMoves(s, n) /\ gpush' \in [GPushes -> RegPushes]
    BY <1>19, SameMoves
  <2>6. RegTypes'
    BY <1>5, <1>8, <1>16, <1>19, <2>1, <2>2, <2>3, <2>5 DEF RegTypes
  <2> QED
    BY <1>8, <1>9, <1>13, <1>17, <2>1, <2>3, <2>4, <2>5, <2>6 DEF GStep
<1>20. CASE /\ Again(s) /\ greg' = greg /\ gsrv' = gsrv /\ gtold' = gtold /\ gspent' = gspent
  <2>1. gspent'.nonces \in Nat /\ gspent' = g
    BY <1>9, <1>20
  <2>2. /\ gcall' \in [GServers -> RegCalls]
        /\ \A o \in GServers \ {s} : gcall'[o] = gcall[o]
        /\ CallMoves(s, n) /\ PushMoves(s, n) /\ gpush' \in [GPushes -> RegPushes]
        /\ CallFits(s)'
    BY <1>1, <1>5, <1>20, <2>1, AgainIs
  <2>3. RegistryMoves(s) /\ MindMoves(s)
    BY <1>20 DEF RegistryMoves, MindMoves
  <2>4. RegTypes'
    BY <1>5, <1>8, <1>16, <1>20, <2>1, <2>2 DEF RegTypes
  <2> QED
    BY <1>8, <1>9, <1>13, <1>17, <1>20, <2>1, <2>2, <2>3, <2>4 DEF GStep
<1>21. CASE /\ gspent' = [h EXCEPT !.faults = @ + 1]
            /\ greg' = greg \/ (Accepts(greg, gsrv[s].reg.writer) /\ greg' = r)
            /\ gcall' = [gcall EXCEPT ![s] = [c EXCEPT !.st = "settle", !.nonce = N]]
            /\ gsrv' = gsrv /\ gtold' = gtold /\ gpush' = gpush
  <2> DEFINE d == [c EXCEPT !.st = "settle", !.nonce = N]
  <2>1. /\ gspent' \in [ids : Nat, calls : Nat, faults : Nat, nonces : Nat]
        /\ gspent'.nonces = N /\ gspent'.ids = g.ids
    BY <1>12, <1>21
  <2>2. /\ d \in RegCalls /\ d.kind = c.kind /\ d.st = "settle" /\ d.name = c.name
        /\ d.id = c.id /\ d.push = c.push /\ d.nonce = N
    BY DEF RegCalls
  <2>3. gcall' = [gcall EXCEPT ![s] = d]
    BY <1>21
  <2> HIDE DEF d
  <2>4. gsrv[s] \in RegMinds
    BY <1>16
  <2>5. /\ gcall' \in [GServers -> RegCalls] /\ gcall'[s] = d
        /\ \A o \in GServers \ {s} : gcall'[o] = gcall[o]
    BY <2>2, <2>3, <2>4, Frames
  <2>6. CallMoves(s, n)
    BY <1>1, <1>5, <2>2, <2>5 DEF CallMoves, Unoffered
  <2>7. ~Unoffered(gcall'[s])
    BY <2>2, <2>5 DEF Unoffered
  <2>8. greg' # greg => greg' = r /\ gsrv[s].reg = greg /\ r \in RegDocs /\ r.writer = N
                        /\ (c.kind = "register" => r.ids[c.name] = c.id)
    BY <1>14, <1>18, <1>21
  <2>9. RegistryMoves(s)
    <3>1. CASE greg' = greg
      BY <3>1, SMTT(30) DEF RegistryMoves
    <3>2. CASE greg' # greg
      BY <1>1, <1>2, <1>3, <1>4, <1>5, <1>8, <2>1, <2>7, <2>8, <3>2, WrittenMoves
    <3> QED
      BY <3>1, <3>2
  <2>10. MindMoves(s)
    BY <1>21 DEF MindMoves
  <2>11. CallFits(s)'
    <3>1. c.kind = "register" /\ greg'.writer = N => greg'.ids[c.name] = c.id
      <4>1. greg.writer # N
        BY <1>3, Typed DEF GInv, NoncesName
      <4> QED
        BY <2>8, <4>1
    <3>2. N <= N
      OBVIOUS
    <3>3. gsrv'[s] = gsrv[s] /\ gpush' = gpush
      BY <1>21
    <3> QED
      BY <1>1, <1>2, <1>5, <1>6, <1>8, <2>1, <2>2, <2>5, <3>1, <3>2, <3>3 DEF CallFits, Pushing
  <2>12. PushMoves(s, n) /\ gpush' \in [GPushes -> RegPushes]
    BY <1>21, SameMoves
  <2>13. RegTypes'
    BY <1>5, <1>8, <1>16, <1>21, <2>1, <2>5, <2>8, <2>12 DEF RegTypes
  <2> QED
    BY <1>8, <1>9, <1>13, <1>17, <1>21, <2>1, <2>5, <2>6, <2>9, <2>10, <2>11, <2>12, <2>13 DEF GStep
<1> QED
  BY <1>15, <1>19, <1>20, <1>21

LEMMA SettleRegistryStep ==
    ASSUME GInv, NEW s \in GServers, NEW n, SettleRegistry(s)
    PROVE  GStep(s, n)
<1>1. PICK c \in RegCalls : c = gcall[s]
  BY DEF GInv, RegTypes
<1>2. PICK r \in RegDocs : r = greg
  BY DEF GInv, RegTypes
<1>3. /\ c.kind \in {"register", "delete", "publish"} /\ c.st = "settle"
      /\ greg' = greg /\ gman' = gman /\ gasked' = gasked
  BY <1>1 DEF SettleRegistry
<1>4. /\ gspent.nonces \in Nat /\ c.nonce <= gspent.nonces /\ gtold \subseteq GNames \X Ids
      /\ gspent.ids \in Nat
  BY <1>1, Typed DEF GInv, RegTypes, CallFits
<1>5. \/ /\ r.writer = c.nonce /\ Stored(s, r) /\ gpush' = gpush /\ gspent' = gspent
      \/ /\ Again(s) \/ Refuse(s)
         /\ gspent' = gspent \/ GFault
         /\ gsrv' = gsrv /\ gtold' = gtold
  BY <1>1, <1>2 DEF SettleRegistry, ReadBack
<1>6. CASE r.writer = c.nonce /\ Stored(s, r) /\ gpush' = gpush /\ gspent' = gspent
  <2>1. /\ c.kind = "register" => r.ids[c.name] = c.id
        /\ c.kind = "delete" => gsrv[s].reg.ids[c.name] \in gasked'
    BY <1>1, <1>2, <1>3, <1>6 DEF GInv, CallFits
  <2>2. gspent'.nonces \in Nat /\ c.nonce <= gspent'.nonces
    BY <1>4, <1>6
  <2>3. /\ gsrv' \in [GServers -> RegMinds] /\ gcall' \in [GServers -> RegCalls]
        /\ \A o \in GServers \ {s} : gsrv'[o] = gsrv[o] /\ gcall'[o] = gcall[o]
        /\ gtold' \subseteq GNames \X Ids
        /\ \A t \in gtold' : t \in gtold \/ greg'.ids[t[1]] = t[2]
        /\ MindMoves(s) /\ CallMoves(s, n) /\ CallFits(s)'
    BY <1>1, <1>2, <1>3, <1>6, <2>1, <2>2, StoredIs
  <2> QED
    BY <1>3, <1>6, <2>3, SameMoves, QuietStep
<1>7. CASE /\ Again(s) \/ Refuse(s)
           /\ gspent' = gspent \/ GFault
           /\ gsrv' = gsrv /\ gtold' = gtold
  <2>1. /\ gspent' \in [ids : Nat, calls : Nat, faults : Nat, nonces : Nat]
        /\ gspent.nonces <= gspent'.nonces /\ gspent.ids <= gspent'.ids
    BY <1>7, SameMoves, FaultIs
  <2>2. gspent'.nonces \in Nat
    BY <2>1
  <2>3. /\ gcall' \in [GServers -> RegCalls]
        /\ \A o \in GServers \ {s} : gcall'[o] = gcall[o]
        /\ CallMoves(s, n) /\ PushMoves(s, n) /\ gpush' \in [GPushes -> RegPushes]
        /\ CallFits(s)'
    BY <1>1, <1>3, <1>7, <2>2, AgainIs, RefuseIs
  <2> QED
    BY <1>3, <1>4, <1>7, <2>1, <2>3, SameMoves, QuietStep
<1> QED
  BY <1>5, <1>6, <1>7

-------------------------------------------------------------------------------
\* Objects and manifests.

LEMMA WipeStep ==
    ASSUME GInv, NEW s \in GServers, NEW n, Wipe(s)
    PROVE  GStep(s, n)
<1>1. PICK i : i = gcall[s].id
  OBVIOUS
<1>2. i \in gasked /\ i \in Ids
  BY <1>1 DEF Wipe, GInv, CallFits, RegTypes
<1>3. /\ greg' = greg /\ gsrv' = gsrv /\ gpush' = gpush /\ gtold' = gtold /\ gasked' = gasked
      /\ GLeave(s)
      /\ gman' = [gman EXCEPT ![i] = NoGman] \/ gman' = gman
      /\ gspent' = gspent \/ GFault
  BY <1>1 DEF Wipe
<1>4. /\ gspent' \in [ids : Nat, calls : Nat, faults : Nat, nonces : Nat]
      /\ gspent.nonces <= gspent'.nonces /\ gspent.ids <= gspent'.ids
  BY <1>3, SameMoves, FaultIs
<1>5. gspent'.nonces \in Nat
  BY <1>4
<1>6. /\ gcall' \in [GServers -> RegCalls]
      /\ \A o \in GServers \ {s} : gcall'[o] = gcall[o]
      /\ CallMoves(s, n) /\ CallFits(s)'
  BY <1>3, <1>5, LeaveIs
<1>7. gman \in [Ids -> RepoMans]
  BY DEF GInv, RegTypes
<1>8. gman' \in [Ids -> RepoMans] /\ ManifestMoves
  BY <1>2, <1>3, <1>7, Blank DEF ManifestMoves
<1>9. RegTypes'
  BY <1>3, <1>4, <1>6, <1>8 DEF RegTypes, GInv
<1>10. RegistryMoves(s) /\ MindMoves(s) /\ PushMoves(s, n)
  BY <1>3, SameMoves DEF RegistryMoves, MindMoves
<1> QED
  BY <1>3, <1>4, <1>6, <1>8, <1>9, <1>10 DEF GStep

LEMMA PutManifestStep ==
    ASSUME GInv, NEW s \in GServers, NEW n, PutManifest(s)
    PROVE  GStep(s, n)
<1>1. PICK c \in RegCalls : c = gcall[s]
  BY DEF GInv, RegTypes
<1>2. PICK w \in RegMinds : w = gsrv[s]
  BY DEF GInv, RegTypes
<1>3. /\ c.kind = "commit" /\ c.st = "put"
      /\ greg' = greg /\ gtold' = gtold /\ gasked' = gasked
  BY <1>1 DEF PutManifest
<1>4. /\ c.id \in Ids /\ c.name \in GNames /\ c.id \in DOMAIN w.mem
      /\ c.push \in GPushes /\ gpush[c.push].st # "new"
      /\ gpush[c.push].name = c.name /\ gpush[c.push].id = c.id
  BY <1>1, <1>2, <1>3 DEF GInv, CallFits, Pushing, Loaded
<1>5. PICK i \in Ids : i = c.id
  BY <1>4
<1>6. PICK p \in GPushes : p = c.push
  BY <1>4
<1>7. PICK copy : copy = w.mem[i]
  OBVIOUS
<1>8. copy \in RepoMans /\ w.mem \in Memories
  <2>1. w.mem \in Memories
    BY MindIs
  <2> QED
    BY <1>4, <1>5, <1>7, <2>1, InMemory
<1>9. PICK v \in RepoMans : v = gman[i]
  BY DEF GInv, RegTypes
<1>10. v.writer = copy.writer => copy = v
  BY <1>2, <1>4, <1>5, <1>7, <1>9 DEF GInv, NoncesName, Loaded
<1>11. PICK N \in Nat : N = gspent.nonces + 1 /\ gspent.nonces < N
  <2>1. gspent.nonces \in Nat
    BY Typed DEF GInv
  <2>2. gspent.nonces + 1 \in Nat /\ gspent.nonces < gspent.nonces + 1
    BY <2>1
  <2> QED
    BY <2>2
<1> DEFINE new == [writer |-> N, pushes |-> copy.pushes \cup {p}]
<1>12. new \in RepoMans /\ new.writer = N /\ p \in new.pushes /\ copy.pushes \subseteq new.pushes
  BY <1>8 DEF RepoMans
<1>13. PICK g \in [ids : Nat, calls : Nat, faults : Nat, nonces : Nat] : g = gspent
  BY DEF GInv, RegTypes
<1>14. g.ids \in Nat /\ g.nonces \in Nat /\ g.nonces <= N /\ g.ids <= g.ids /\ g.nonces <= g.nonces
  BY <1>11, <1>13
<1>15. /\ gman \in [Ids -> RepoMans] /\ gtold \subseteq GNames \X Ids
       /\ gsrv \in [GServers -> RegMinds]
  BY DEF GInv, RegTypes
<1> HIDE DEF new
<1>16. ASSUME NEW u \in RepoMans, gsrv' = [gsrv EXCEPT ![s].mem = Hold(@, i, u)], gman'[i] = u
       PROVE  /\ gsrv' \in [GServers -> RegMinds] /\ MindMoves(s)
              /\ \A o \in GServers \ {s} : gsrv'[o] = gsrv[o]
  <2> DEFINE m == Hold(w.mem, i, u)
             y == [w EXCEPT !.mem = m]
  <2>1. gsrv' = [gsrv EXCEPT ![s] = y]
    BY <1>2, <1>15, <1>16
  <2>2. /\ m \in Memories /\ DOMAIN m = DOMAIN w.mem \cup {i} /\ m[i] = u
        /\ \A j \in DOMAIN w.mem \ {i} : m[j] = w.mem[j]
    <3>1. PICK f \in Memories : f = w.mem
      BY <1>8
    <3>2. PICK h : h = Hold(f, i, u)
      OBVIOUS
    <3>3. h \in Memories /\ DOMAIN h = DOMAIN f \cup {i} /\ h[i] = u
      BY <3>2, HoldIs
    <3>4. \A j \in DOMAIN f \ {i} : Hold(f, i, u)[j] = f[j]
      BY HoldIs
    <3> QED
      BY <3>1, <3>2, <3>3, <3>4
  <2> HIDE DEF m
  <2>3. y \in RegMinds /\ y.reg = w.reg /\ y.mem = m
    BY <2>2 DEF RegMinds
  <2> HIDE DEF y
  <2>4. /\ gsrv' \in [GServers -> RegMinds] /\ gsrv'[s] = y
        /\ \A o \in GServers \ {s} : gsrv'[o] = gsrv[o]
    BY <1>1, <2>1, <2>3, Frames
  <2>5. MindMoves(s)
    <3>1. ASSUME NEW j \in DOMAIN m
          PROVE  \/ j \in Loaded(gsrv[s]) /\ m[j] = gsrv[s].mem[j]
                 \/ m[j] = gman'[j] /\ j \in Loaded(gsrv[s])
      <4>1. CASE j = i
        BY <1>2, <1>4, <1>5, <1>16, <2>2, <4>1 DEF Loaded
      <4>2. CASE j # i
        BY <1>2, <2>2, <3>1, <4>2 DEF Loaded
      <4> QED
        BY <4>1, <4>2
    <3>2. gsrv'[s].reg = gsrv[s].reg /\ gsrv'[s].mem = m /\ Loaded(gsrv'[s]) = DOMAIN m
      BY <1>2, <2>3, <2>4 DEF Loaded
    <3> QED
      BY <3>1, <3>2 DEF MindMoves
  <2> QED
    BY <2>4, <2>5
<1>17. gspent' \in [ids : Nat, calls : Nat, faults : Nat, nonces : Nat]
       /\ gspent.nonces <= gspent'.nonces /\ gspent.ids <= gspent'.ids
       /\ (gspent' = gspent \/ gspent'.nonces = N)
  <2>1. \/ gspent' = g \/ gspent' = [g EXCEPT !.nonces = N]
        \/ gspent' = [g EXCEPT !.faults = g.faults + 1, !.nonces = N]
    BY <1>11, <1>13 DEF PutManifest
  <2>2. [g EXCEPT !.nonces = N] \in [ids : Nat, calls : Nat, faults : Nat, nonces : Nat]
        /\ [g EXCEPT !.nonces = N].nonces = N /\ [g EXCEPT !.nonces = N].ids = g.ids
    OBVIOUS
  <2>3. \A a \in Nat : /\ [g EXCEPT !.faults = a, !.nonces = N]
                              \in [ids : Nat, calls : Nat, faults : Nat, nonces : Nat]
                       /\ [g EXCEPT !.faults = a, !.nonces = N].nonces = N
                       /\ [g EXCEPT !.faults = a, !.nonces = N].ids = g.ids
    OBVIOUS
  <2>4. g.faults + 1 \in Nat
    OBVIOUS
  <2>5. CASE gspent' = g
    BY <1>13, <1>14, <2>5
  <2>6. CASE gspent' = [g EXCEPT !.nonces = N]
    BY <1>13, <1>14, <2>2, <2>6
  <2>7. CASE gspent' = [g EXCEPT !.faults = g.faults + 1, !.nonces = N]
    <3>1. PICK a \in Nat : a = g.faults + 1
      BY <2>4
    <3>2. gspent' = [g EXCEPT !.faults = a, !.nonces = N]
      BY <2>7, <3>1
    <3> QED
      BY <1>13, <1>14, <2>3, <3>2
  <2> QED
    BY <2>1, <2>5, <2>6, <2>7
<1>18. \/ /\ v.writer = copy.writer /\ gman' = [gman EXCEPT ![i] = new]
          /\ gspent'.nonces = N
          /\ gsrv' = [gsrv EXCEPT ![s].mem = Hold(@, i, new)]
          /\ PushEnds(p, "done") /\ GLeave(s)
       \/ Refuse(s) /\ gsrv' = gsrv /\ gman' = gman
       \/ /\ gsrv' = [gsrv EXCEPT ![s].mem = Hold(@, i, v)]
          /\ gcall' = [gcall EXCEPT ![s].round = @ + 1]
          /\ gpush' = gpush /\ gman' = gman
       \/ /\ v.writer = copy.writer
          /\ gman' = gman \/ gman' = [gman EXCEPT ![i] = new]
          /\ gspent'.nonces = N
          /\ PushEnds(p, "refused") /\ GLeave(s) /\ gsrv' = gsrv
  <2>1. new = [writer |-> gspent.nonces + 1, pushes |-> gsrv[s].mem[gcall[s].id].pushes \cup {gcall[s].push}]
    BY <1>1, <1>2, <1>5, <1>6, <1>7, <1>11 DEF new
  <2>2. [g EXCEPT !.nonces = N].nonces = N /\ [g EXCEPT !.faults = g.faults + 1, !.nonces = N].nonces = N
    OBVIOUS
  <2> QED
    BY <1>1, <1>2, <1>5, <1>6, <1>7, <1>9, <1>11, <1>13, <2>1, <2>2 DEF PutManifest
<1>19. RegistryMoves(s)
  BY <1>3 DEF RegistryMoves
<1>20. gspent'.nonces \in Nat
  BY <1>17
<1>21. CASE /\ v.writer = copy.writer /\ gman' = [gman EXCEPT ![i] = new]
            /\ gspent'.nonces = N
            /\ gsrv' = [gsrv EXCEPT ![s].mem = Hold(@, i, new)]
            /\ PushEnds(p, "done") /\ GLeave(s)
  <2>1. gman' \in [Ids -> RepoMans] /\ gman'[i] = new /\ \A j \in Ids \ {i} : gman'[j] = gman[j]
    BY <1>12, <1>15, <1>21
  <2>2. ManifestMoves
    BY <1>9, <1>10, <1>11, <1>12, <1>21, <2>1 DEF ManifestMoves
  <2>3. /\ gsrv' \in [GServers -> RegMinds] /\ MindMoves(s)
        /\ \A o \in GServers \ {s} : gsrv'[o] = gsrv[o]
    BY <1>12, <1>16, <1>21, <2>1
  <2>4. PushMoves(s, n) /\ gpush' \in [GPushes -> RegPushes]
    BY <1>1, <1>3, <1>4, <1>5, <1>6, <1>12, <1>21, <2>1, EndMoves
  <2>5. /\ gcall' \in [GServers -> RegCalls]
        /\ \A o \in GServers \ {s} : gcall'[o] = gcall[o]
        /\ CallMoves(s, n) /\ CallFits(s)'
    BY <1>20, <1>21, LeaveIs
  <2>6. RegTypes'
    BY <1>3, <1>17, <2>1, <2>3, <2>4, <2>5 DEF RegTypes, GInv
  <2> QED
    BY <1>3, <1>17, <1>19, <2>2, <2>3, <2>4, <2>5, <2>6 DEF GStep
<1>22. CASE Refuse(s) /\ gsrv' = gsrv /\ gman' = gman
  <2>1. /\ gcall' \in [GServers -> RegCalls]
        /\ \A o \in GServers \ {s} : gcall'[o] = gcall[o]
        /\ CallMoves(s, n) /\ CallFits(s)'
        /\ PushMoves(s, n) /\ gpush' \in [GPushes -> RegPushes]
    BY <1>1, <1>3, <1>20, <1>22, RefuseIs
  <2> QED
    BY <1>3, <1>15, <1>17, <1>22, <2>1, SameMoves, QuietStep
<1>23. CASE /\ gsrv' = [gsrv EXCEPT ![s].mem = Hold(@, i, v)]
            /\ gcall' = [gcall EXCEPT ![s].round = @ + 1]
            /\ gpush' = gpush /\ gman' = gman
  <2> DEFINE d == [c EXCEPT !.round = @ + 1]
  <2>1. gcall' = [gcall EXCEPT ![s] = d]
    BY <1>1, <1>23 DEF GInv, RegTypes
  <2>2. /\ d \in RegCalls /\ d.kind = "commit" /\ d.st = "put" /\ d.name = c.name /\ d.id = c.id
        /\ d.push = c.push /\ d.nonce = c.nonce
    BY <1>3 DEF RegCalls
  <2> HIDE DEF d
  <2>3. gsrv[s] \in RegMinds
    BY <1>15
  <2>4. /\ gcall' \in [GServers -> RegCalls] /\ gcall'[s] = d
        /\ \A o \in GServers \ {s} : gcall'[o] = gcall[o]
    BY <2>1, <2>2, <2>3, Frames
  <2>5. gman'[i] = v
    BY <1>9, <1>23
  <2>6. /\ gsrv' \in [GServers -> RegMinds] /\ MindMoves(s)
        /\ \A o \in GServers \ {s} : gsrv'[o] = gsrv[o]
    BY <1>16, <1>23, <2>5
  <2>7. CallMoves(s, n)
    BY <1>1, <1>3, <2>2, <2>4 DEF CallMoves
  <2>8. i \in Loaded(gsrv'[s])
    <3>1. gsrv'[s] = [w EXCEPT !.mem = Hold(w.mem, i, v)]
      BY <1>2, <1>15, <1>23
    <3>2. [w EXCEPT !.mem = Hold(w.mem, i, v)].mem = Hold(w.mem, i, v)
      BY DEF RegMinds
    <3>3. PICK f \in Memories : f = w.mem
      BY <1>8
    <3>4. DOMAIN Hold(f, i, v) = DOMAIN f \cup {i}
      BY HoldIs
    <3> QED
      BY <3>1, <3>2, <3>3, <3>4 DEF Loaded
  <2>9. CallFits(s)'
    <3>1. c.nonce <= gspent'.nonces
      <4>1. c.nonce \in Nat /\ c.nonce <= gspent.nonces /\ gspent.nonces \in Nat
        BY <1>1, Typed DEF GInv, CallFits
      <4> QED
        BY <1>17, <1>20, <4>1
    <3> QED
      BY <1>4, <1>5, <1>23, <2>2, <2>4, <2>8, <3>1 DEF CallFits, Pushing
  <2> QED
    BY <1>3, <1>15, <1>17, <1>23, <2>4, <2>6, <2>7, <2>9, SameMoves, QuietStep
<1>24. CASE /\ v.writer = copy.writer
            /\ gman' = gman \/ gman' = [gman EXCEPT ![i] = new]
            /\ gspent'.nonces = N
            /\ PushEnds(p, "refused") /\ GLeave(s) /\ gsrv' = gsrv
  <2>1. gman' \in [Ids -> RepoMans] /\ ManifestMoves
    <3>1. CASE gman' = gman
      BY <1>15, <3>1 DEF ManifestMoves
    <3>2. CASE gman' = [gman EXCEPT ![i] = new]
      <4>1. gman' \in [Ids -> RepoMans] /\ gman'[i] = new /\ \A j \in Ids \ {i} : gman'[j] = gman[j]
        BY <1>12, <1>15, <3>2
      <4> QED
        BY <1>9, <1>10, <1>11, <1>12, <1>24, <4>1 DEF ManifestMoves
    <3> QED
      BY <1>24, <3>1, <3>2
  <2>2. PushMoves(s, n) /\ gpush' \in [GPushes -> RegPushes]
    BY <1>4, <1>6, <1>24, EndMoves
  <2>3. /\ gcall' \in [GServers -> RegCalls]
        /\ \A o \in GServers \ {s} : gcall'[o] = gcall[o]
        /\ CallMoves(s, n) /\ CallFits(s)'
    BY <1>20, <1>24, LeaveIs
  <2>4. RegTypes'
    BY <1>3, <1>15, <1>17, <1>24, <2>1, <2>2, <2>3 DEF RegTypes, GInv
  <2> QED
    BY <1>3, <1>17, <1>19, <1>24, <2>1, <2>2, <2>3, <2>4, SameMoves DEF GStep
<1> QED
  BY <1>18, <1>21, <1>22, <1>23, <1>24

LEMMA ExpireStep ==
    ASSUME GInv, NEW s \in GServers, NEW n, GExpire(s)
    PROVE  GStep(s, n)
<1>1. PICK w \in RegMinds : w = gsrv[s]
  BY DEF GInv, RegTypes
<1> DEFINE y == [w EXCEPT !.fresh = FALSE]
<1>2. /\ gsrv' = [gsrv EXCEPT ![s] = y] /\ greg' = greg /\ gman' = gman /\ gcall' = gcall
      /\ gpush' = gpush /\ gtold' = gtold /\ gasked' = gasked /\ gspent' = gspent
  BY <1>1 DEF GExpire, GInv, RegTypes
<1>3. y \in RegMinds /\ y.reg = w.reg /\ y.mem = w.mem
  BY DEF RegMinds
<1> HIDE DEF y
<1>4. gcall \in [GServers -> RegCalls] /\ gcall[s] \in RegCalls /\ gtold \subseteq GNames \X Ids
  BY DEF GInv, RegTypes
<1>5. /\ gsrv' \in [GServers -> RegMinds] /\ gsrv'[s] = y
      /\ \A o \in GServers \ {s} : gsrv'[o] = gsrv[o]
  BY <1>2, <1>3, <1>4, Frames
<1>6. MindMoves(s)
  BY <1>1, <1>3, <1>5 DEF MindMoves, Loaded
<1>7. CallMoves(s, n)
  BY <1>2 DEF CallMoves, Unoffered
<1>8. CallFits(s)'
  <2>1. gsrv'[s].reg = gsrv[s].reg /\ Loaded(gsrv'[s]) = Loaded(gsrv[s])
    BY <1>1, <1>3, <1>5 DEF Loaded
  <2> QED
    BY <1>2, <2>1 DEF GInv, CallFits, Pushing
<1> QED
  BY <1>2, <1>4, <1>5, <1>6, <1>7, <1>8, SameMoves, QuietStep

LEMMA CrashStep ==
    ASSUME GInv, NEW s \in GServers, NEW n, GCrash(s)
    PROVE  GStep(s, n)
<1> DEFINE y == [NewServer EXCEPT !.reg = greg, !.fresh = TRUE]
<1>1. /\ GFault /\ gsrv' = [gsrv EXCEPT ![s] = y] /\ GLeave(s)
      /\ greg' = greg /\ gman' = gman /\ gtold' = gtold /\ gasked' = gasked
      /\ gpush' = [p \in GPushes |-> IF gpush[p].s = s /\ gpush[p].st \in {"going", "commit"}
                                     THEN [gpush[p] EXCEPT !.st = "refused"] ELSE gpush[p]]
  BY DEF GCrash
<1>2. /\ gpush \in [GPushes -> RegPushes] /\ greg \in RegDocs /\ gtold \subseteq GNames \X Ids
      /\ gcall[s] \in RegCalls
  BY DEF GInv, RegTypes
<1>3. y \in RegMinds /\ y.reg = greg /\ Loaded(y) = {}
  <2>1. PICK w \in RegMinds : w = NewServer
    BY Blank
  <2>2. PICK z : z = [w EXCEPT !.reg = greg, !.fresh = TRUE]
    OBVIOUS
  <2>3. w \in [reg : RegDocs, fresh : BOOLEAN, mem : Memories]
    BY DEF RegMinds
  <2>4. z \in RegMinds
    BY <1>2, <2>2, <2>3 DEF RegMinds
  <2>5. z.reg = greg /\ z.mem = w.mem
    BY <2>2, <2>3
  <2> QED
    BY <2>1, <2>2, <2>4, <2>5, Blank DEF Loaded
<1> HIDE DEF y
<1>4. /\ gsrv' \in [GServers -> RegMinds] /\ gsrv'[s] = y
      /\ \A o \in GServers \ {s} : gsrv'[o] = gsrv[o]
  BY <1>1, <1>2, <1>3, Frames
<1>5. MindMoves(s)
  BY <1>1, <1>3, <1>4 DEF MindMoves
<1>6. /\ gspent' \in [ids : Nat, calls : Nat, faults : Nat, nonces : Nat]
      /\ gspent.nonces <= gspent'.nonces /\ gspent.ids <= gspent'.ids
  BY <1>1, FaultIs
<1>7. gspent'.nonces \in Nat
  BY <1>6
<1>8. /\ gcall' \in [GServers -> RegCalls]
      /\ \A o \in GServers \ {s} : gcall'[o] = gcall[o]
      /\ CallMoves(s, n) /\ CallFits(s)'
  BY <1>1, <1>7, LeaveIs
<1>9. ASSUME NEW p \in GPushes
      PROVE  /\ gpush'[p] \in RegPushes
             /\ \/ gpush'[p] = gpush[p]
                \/ /\ gpush[p].st # "new" /\ gpush'[p].st = "refused"
                   /\ gpush'[p].name = gpush[p].name /\ gpush'[p].id = gpush[p].id
                   /\ gpush'[p].s = gpush[p].s
  <2>1. PICK q \in RegPushes : q = gpush[p]
    BY <1>2
  <2>2. gpush'[p] = q \/ (q.st \in {"going", "commit"} /\ gpush'[p] = [q EXCEPT !.st = "refused"])
    BY <1>1, <2>1
  <2>3. /\ [q EXCEPT !.st = "refused"] \in RegPushes
        /\ [q EXCEPT !.st = "refused"].st = "refused" /\ [q EXCEPT !.st = "refused"].name = q.name
        /\ [q EXCEPT !.st = "refused"].id = q.id /\ [q EXCEPT !.st = "refused"].s = q.s
    BY DEF RegPushes
  <2> QED
    BY <2>1, <2>2, <2>3
<1>10. gpush' \in [GPushes -> RegPushes]
  BY <1>1, <1>9
<1>11. PushMoves(s, n)
  BY <1>9 DEF PushMoves
<1> QED
  BY <1>1, <1>2, <1>4, <1>5, <1>6, <1>8, <1>10, <1>11, QuietStep

-------------------------------------------------------------------------------
\* Every step keeps the invariant.

LEMMA InitHolds == GInit => GInv
<1> SUFFICES ASSUME GInit PROVE GInv
  OBVIOUS
<1>1. /\ greg = NoReg /\ gman = [i \in Ids |-> NoGman]
      /\ gsrv = [s \in GServers |-> NewServer] /\ gcall = [s \in GServers |-> NoGcall]
      /\ gpush = [p \in GPushes |-> NoGpush] /\ gtold = {} /\ gasked = {}
      /\ gspent = [ids |-> 0, calls |-> 0, faults |-> 0, nonces |-> 0]
  BY DEF GInit
<1>2. RegTypes
  BY <1>1, Blank DEF RegTypes
<1>3. /\ \A s \in GServers : gsrv[s] = NewServer /\ Loaded(gsrv[s]) = {} /\ gsrv[s].reg = NoReg
      /\ \A s \in GServers : gcall[s] = NoGcall
      /\ \A p \in GPushes : gpush[p] = NoGpush
      /\ \A n \in GNames : greg.ids[n] = NoId
      /\ NoReg.writer = 0 /\ NoGman.writer = 0 /\ gspent.nonces = 0
  BY <1>1, Blank DEF NoReg, NoGman, None
<1>4. NoId \notin Ids
  BY RegistryAssumption DEF Ids, NoId
<1>5. NoncesName
  BY <1>1, <1>3 DEF NoncesName, None
<1>6. \A n \in GNames : \A i \in Ids : ~Bears(n, i)
  BY <1>1, <1>3, <1>4 DEF Bears, NoGcall, NoGpush
<1>7. OneName
  BY <1>3, <1>6 DEF OneName, NoGpush
<1>8. Standing
  <2>1. \A s \in GServers : \A n \in GNames : gsrv[s].reg.ids[n] = NoId
    BY <1>1, <1>3
  <2> QED
    BY <1>1, <1>3, <1>4, <2>1 DEF Standing, AcknowledgedStays, NoGpush
<1>9. Alone
  BY <1>3 DEF Alone, Bringing, NoGcall, NoGpush
<1>10. \A s \in GServers : CallFits(s)
  BY <1>3 DEF CallFits, NoGcall, None
<1> QED
  BY <1>2, <1>5, <1>7, <1>8, <1>9, <1>10 DEF GInv

LEMMA NextKeeps ==
    ASSUME GInv, [GNext]_gvars
    PROVE  GInv'
<1>1. CASE UNCHANGED gvars
  <2> USE <1>1 DEF gvars
  <2>1. RegTypes'
    BY DEF GInv, RegTypes
  <2>2. NoncesName'
    BY DEF GInv, NoncesName
  <2>3. OneName'
    BY DEF GInv, OneName, Bears
  <2>4. Standing'
    BY DEF GInv, Standing, Holds, AcknowledgedStays
  <2>5. Alone'
    BY DEF GInv, Alone, Holds, Unoffered, Bringing
  <2>6. \A s \in GServers : CallFits(s)'
    BY DEF GInv, CallFits, Pushing
  <2> QED
    BY <2>1, <2>2, <2>3, <2>4, <2>5, <2>6 DEF GInv
<1>2. CASE GNext
  <2>1. ASSUME NEW s \in GServers, NEW n \in GNames, Create(s, n) \/ Delete(s, n) \/ Patch(s, n)
        PROVE  GInv'
    BY <2>1, CreateStep, DeleteStep, PatchStep, StepKeeps
  <2>2. ASSUME NEW s \in GServers, NEW p \in GPushes, NEW n \in GNames, PushBegin(p, s, n)
        PROVE  GInv'
    BY <2>2, PushBeginStep, StepKeeps
  <2>3. ASSUME NEW s \in GServers, ReadRegistry(s) \/ PutRegistry(s) \/ SettleRegistry(s)
        PROVE  GInv'
    BY <2>3, ReadRegistryStep, PutRegistryStep, SettleRegistryStep, StepKeeps
  <2>4. ASSUME NEW s \in GServers, Wipe(s) \/ PutManifest(s) \/ GExpire(s) \/ GCrash(s)
        PROVE  GInv'
    BY <2>4, WipeStep, PutManifestStep, ExpireStep, CrashStep, StepKeeps
  <2>5. ASSUME NEW p \in GPushes, CommitBegin(p)
        PROVE  GInv'
    <3>1. PICK s \in GServers : s = gpush[p].s /\ GStep(s, "none")
      BY <2>5, CommitBeginStep
    <3> QED
      BY <3>1, StepKeeps
  <2> QED
    BY <1>2, <2>1, <2>2, <2>3, <2>4, <2>5 DEF GNext
<1> QED
  BY <1>1, <1>2

\* The invariant holds in every state.
THEOREM RegistryInvariant == GSpec => []GInv
<1>1. GInit => GInv
  BY InitHolds
<1>2. GInv /\ [GNext]_gvars => GInv'
  BY NextKeeps
<1> QED
  BY <1>1, <1>2, PTL DEF GSpec

\* A creation that was acknowledged keeps its name and a push that was acknowledged is in
\* the manifest its name stands for, until somebody deletes the repository: whatever the
\* servers do between each other's rounds, lose and try again (register, commit, api.rs).
THEOREM AcknowledgedKept == GSpec => []AcknowledgedStays
<1>1. GInv => AcknowledgedStays
  BY DEF GInv, Standing
<1> QED
  BY <1>1, RegistryInvariant, PTL

-------------------------------------------------------------------------------
\* A write of the registry is one change, and brings nothing back but by its creator.

LEMMA OneWrite ==
    ASSUME GInv, NEW s \in GServers, PutRegistry(s), greg' # greg
    PROVE  OneEntry /\ \A n \in GNames : BroughtBack(n) => ByItsCreation(n)
<1>1. PICK c \in RegCalls : c = gcall[s]
  BY DEF GInv, RegTypes
<1>2. PICK N \in Nat : N = gspent.nonces + 1
  BY Typed DEF GInv
<1>3. PICK r : r = [Rewritten(s) EXCEPT !.rev = @ + 1, !.writer = N]
  OBVIOUS
<1>4. /\ c.kind \in {"register", "delete", "publish"} /\ c.st = "put"
      /\ greg' = r /\ Accepts(greg, gsrv[s].reg.writer)
  BY <1>1, <1>2, <1>3 DEF PutRegistry
<1>5. gsrv[s].reg = greg
  BY <1>4 DEF Accepts, GInv, NoncesName
<1>6. Changed(s, r, N)
  <2>1. gcall[s].st = "put" /\ gcall[s].kind \in {"register", "delete", "publish"}
    BY <1>1, <1>4
  <2> QED
    BY <1>3, <1>5, <2>1, RewrittenIs
<1>7. /\ greg'.rev = greg.rev + 1
      /\ \A m \in GNames \ {c.name} : greg'.ids[m] = greg.ids[m]
      /\ c.kind = "register" => greg.ids[c.name] = NoId /\ greg'.ids[c.name] = c.id
      /\ c.kind = "delete" => greg'.ids[c.name] = NoId
      /\ c.kind = "publish" => greg'.ids = greg.ids
                               /\ \E i \in Ids : greg'.public = greg.public \cup {i}
  BY <1>1, <1>4, <1>6 DEF Changed
<1>8. c.name \in GNames /\ c.round \in Nat
  BY <1>1, <1>4 DEF GInv, CallFits, RegCalls
<1>9. OneEntry
  BY <1>4, <1>7, <1>8 DEF OneEntry
<1>10. ASSUME NEW n \in GNames, BroughtBack(n) PROVE ByItsCreation(n)
  <2>1. n = c.name /\ c.kind = "register" /\ greg'.ids[n] = c.id /\ c.id \in gasked
    <3>1. greg'.ids[n] # greg.ids[n] /\ greg'.ids[n] \in gasked
      BY <1>10 DEF BroughtBack
    <3>2. NoId \notin gasked
      BY RegistryAssumption DEF GInv, RegTypes, Ids, NoId
    <3> QED
      BY <1>4, <1>7, <3>1, <3>2
  <2>2. c.round # 0
    <3>1. c.id \in Ids /\ Holds(c.id)
      BY <2>1 DEF Holds, GInv, RegTypes
    <3>2. ~Unoffered(gcall[s])
      BY <1>1, <2>1, <3>1 DEF GInv, Alone
    <3> QED
      BY <1>1, <1>4, <2>1, <3>2 DEF Unoffered
  <2>3. c.round > 0
    BY <1>8, <2>2
  <2> QED
    BY <1>1, <2>1, <2>3 DEF ByItsCreation
<1> QED
  BY <1>9, <1>10

\* Together the servers behave as one registry: every write of theirs adds, removes or
\* publishes one repository, and none brings back a deleted one but a further round of
\* its own creation (save_registry, register, delete).
THEOREM RegistryIsOne == GSpec => OneRegistry
<1>1. GInv /\ [GNext]_gvars =>
          [greg' # greg => OneEntry /\ \A n \in GNames : BroughtBack(n) => ByItsCreation(n)]_gvars
  <2> SUFFICES ASSUME GInv, GNext, greg' # greg
               PROVE  OneEntry /\ \A n \in GNames : BroughtBack(n) => ByItsCreation(n)
    OBVIOUS
  <2>1. \E s \in GServers : PutRegistry(s)
    <3>1. \A s \in GServers : \A n \in GNames : ~Create(s, n) /\ ~Delete(s, n) /\ ~Patch(s, n)
      BY DEF Create, Delete, Patch
    <3>2. \A s \in GServers, p \in GPushes, n \in GNames : ~PushBegin(p, s, n)
      BY DEF PushBegin
    <3>3. \A p \in GPushes : ~CommitBegin(p)
      BY DEF CommitBegin
    <3>4. \A s \in GServers : ~ReadRegistry(s)
      BY DEF ReadRegistry
    <3>5. \A s \in GServers : ~SettleRegistry(s)
      BY DEF SettleRegistry
    <3>6. \A s \in GServers : ~Wipe(s) /\ ~PutManifest(s) /\ ~GExpire(s) /\ ~GCrash(s)
      BY DEF Wipe, PutManifest, GExpire, GCrash
    <3> QED
      BY <3>1, <3>2, <3>3, <3>4, <3>5, <3>6 DEF GNext
  <2> QED
    BY <2>1, OneWrite
<1> QED
  BY <1>1, RegistryInvariant, PTL DEF GSpec, OneRegistry

-------------------------------------------------------------------------------
(***************************************************************************)
(* The number of packs.                                                    *)
(***************************************************************************)

\* Induction over the numbers.
Less == {p \in Nat \X Nat : p[1] < p[2]}

LEMMA LessFounded == IsWellFoundedOn(Less, Nat)
<1>1. Less = OpToRel(<, Nat)
  BY Zenon DEF Less, OpToRel
<1> QED
  BY <1>1, NatLessThanWellFounded

LEMMA LeastNat ==
    ASSUME NEW T, T \subseteq Nat, T # {}
    PROVE  \E n \in T : \A m \in T : n <= m
<1>1. PICK n \in T : \A m \in T : ~ (<<m, n>> \in Less)
  BY LessFounded, WFMin, Zenon
<1>2. ASSUME NEW m \in T PROVE n <= m
  <2>1. m \in Nat /\ n \in Nat
    OBVIOUS
  <2>2. m < n => <<m, n>> \in Less
    BY <2>1 DEF Less
  <2> QED
    BY <1>1, <2>1, <2>2
<1> QED
  BY <1>2

LEMMA AllNat ==
    ASSUME NEW T, 0 \in T, \A n \in Nat : n \in T => n + 1 \in T
    PROVE  Nat \subseteq T
<1> SUFFICES ASSUME Nat \ T # {} PROVE FALSE
  OBVIOUS
<1>1. PICK n \in Nat \ T : \A m \in Nat \ T : n <= m
  BY LeastNat
<1>2. n # 0 /\ n - 1 \in Nat /\ (n - 1) + 1 = n
  BY <1>1
<1>3. n - 1 \in T
  BY <1>1, <1>2
<1> QED
  BY <1>1, <1>2, <1>3

\* A power of two counts the subsets of a set, so the next one is twice as much.
Power(k) == 2 ^ k

LEMMA Subsets ==
    ASSUME NEW k \in Nat
    PROVE  IsFiniteSet(SUBSET (1..k)) /\ Power(k) = Cardinality(SUBSET (1..k)) /\ Power(k) \in Nat
<1>1. IsFiniteSet(1..k) /\ Cardinality(1..k) = k
  BY FS_Interval
<1>2. IsFiniteSet(SUBSET (1..k)) /\ Cardinality(SUBSET (1..k)) = 2 ^ Cardinality(1..k)
  BY <1>1, FS_SUBSET, Zenon
<1>3. Power(k) = Cardinality(SUBSET (1..k))
  BY <1>1, <1>2, Zenon DEF Power
<1> QED
  BY <1>2, <1>3, FS_CardinalityType

LEMMA Doubles == ASSUME NEW k \in Nat, NEW l, l = k + 1 PROVE Power(l) = 2 * Power(k)
<1>1. PICK A : A = SUBSET (1..k)
  OBVIOUS
<1>2. PICK B : B = {s \cup {l} : s \in A}
  OBVIOUS
<1>3. l \in Nat /\ l \notin 1..k /\ \A i : i \in 1..l <=> i \in 1..k \/ i = l
  OBVIOUS
<1>4. SUBSET (1..l) = A \cup B
  <2>1. ASSUME NEW s \in SUBSET (1..l) PROVE s \in A \cup B
    <3>1. CASE l \in s
      <4>1. s \ {l} \in A /\ s = (s \ {l}) \cup {l}
        BY <1>1, <1>3, <3>1
      <4> QED
        BY <1>2, <4>1
    <3>2. CASE l \notin s
      BY <1>1, <1>3, <3>2
    <3> QED
      BY <3>1, <3>2
  <2>2. ASSUME NEW t \in A \cup B PROVE t \in SUBSET (1..l)
    <3>1. CASE t \in A
      BY <1>1, <1>3, <3>1
    <3>2. CASE t \in B
      <4>1. PICK s \in A : t = s \cup {l}
        BY <1>2, <3>2
      <4> QED
        BY <1>1, <1>3, <4>1
    <3> QED
      BY <3>1, <3>2
  <2> QED
    BY <2>1, <2>2
<1>5. A \cap B = {}
  BY <1>1, <1>2, <1>3
<1>6. PICK f : f = [s \in A |-> s \cup {l}]
  OBVIOUS
<1>7. f \in Bijection(A, B)
  <2>1. f \in [A -> B]
    BY <1>2, <1>6
  <2>2. ASSUME NEW s \in A, NEW t \in A, f[s] = f[t] PROVE s = t
    <3>1. s \cup {l} = t \cup {l} /\ l \notin s /\ l \notin t
      BY <1>1, <1>3, <1>6, <2>2
    <3> QED
      BY <3>1
  <2>3. \A t \in B : \E s \in A : f[s] = t
    BY <1>2, <1>6
  <2> QED
    BY <2>1, <2>2, <2>3 DEF Bijection, Injection, Surjection, IsInjective
<1>8. IsFiniteSet(A) /\ Power(k) = Cardinality(A) /\ Power(k) \in Nat
  BY <1>1, Subsets
<1>9. IsFiniteSet(B) /\ Cardinality(B) = Cardinality(A)
  BY <1>7, <1>8, FS_Bijection DEF ExistsBijection
<1>10. Cardinality(A \cup B) = Cardinality(A) + Cardinality(B) - Cardinality(A \cap B)
  BY <1>8, <1>9, FS_Union
<1>11. Cardinality(A \cap B) = 0
  BY <1>5, FS_EmptySet
<1>12. Power(l) = Cardinality(A \cup B)
  BY <1>3, <1>4, Subsets
<1> QED
  BY <1>8, <1>9, <1>10, <1>11, <1>12

LEMMA PowerOfNothing == Power(0) = 1
<1>1. Power(0) = Cardinality(SUBSET (1..0))
  BY Subsets
<1>2. SUBSET (1..0) = {{}}
  OBVIOUS
<1> QED
  BY <1>1, <1>2, FS_Singleton

-------------------------------------------------------------------------------
\* A sum of lengths is no less than each of them.
FirstOf(s) == CHOOSE x \in s : TRUE
Adding(ls, A, iter) ==
    iter = [s \in A |-> IF s = {} THEN 0 ELSE ls[FirstOf(s)] + iter[s \ {FirstOf(s)}]]

LEMMA SumIs ==
    ASSUME NEW ls, NEW S
    PROVE  SumFunctionOnSet(ls, S) = (CHOOSE iter : Adding(ls, SUBSET S, iter))[S]
BY DEF SumFunctionOnSet, FoldFunctionOnSet, MapThenFoldSet, Adding, FirstOf

LEMMA OneFewer ==
    ASSUME NEW s, IsFiniteSet(s), s # {}
    PROVE  /\ FirstOf(s) \in s /\ IsFiniteSet(s \ {FirstOf(s)}) /\ Cardinality(s) \in Nat
           /\ Cardinality(s \ {FirstOf(s)}) = Cardinality(s) - 1 /\ Cardinality(s) > 0
<1>1. FirstOf(s) \in s
  BY DEF FirstOf
<1> QED
  BY <1>1, FS_RemoveElement, FS_CardinalityType, FS_EmptySet

LEMMA AddingExists ==
    ASSUME NEW ls, NEW S, IsFiniteSet(S)
    PROVE  \E iter : Adding(ls, SUBSET S, iter)
<1> DEFINE Small(n) == {s \in SUBSET S : Cardinality(s) <= n}
           T == {n \in Nat : \E iter : Adding(ls, Small(n), iter)}
<1>0. \A s \in SUBSET S : IsFiniteSet(s) /\ Cardinality(s) \in Nat /\ Cardinality(s) <= Cardinality(S)
  BY FS_Subset, FS_CardinalityType
<1>1. 0 \in T
  <2>1. \A s \in Small(0) : s = {}
    BY <1>0, FS_EmptySet
  <2>2. Adding(ls, Small(0), [s \in Small(0) |-> 0])
    BY <2>1 DEF Adding
  <2> QED
    BY <2>2
<1>2. ASSUME NEW n \in Nat, n \in T PROVE n + 1 \in T
  <2>1. PICK iter : Adding(ls, Small(n), iter)
    BY <1>2
  <2> DEFINE next == [s \in Small(n + 1) |->
                        IF s = {} THEN 0 ELSE ls[FirstOf(s)] + iter[s \ {FirstOf(s)}]]
  <2>2. ASSUME NEW s \in Small(n) PROVE s \in Small(n + 1) /\ next[s] = iter[s]
    <3>1. s \in Small(n + 1)
      BY <1>0
    <3>2. iter[s] = IF s = {} THEN 0 ELSE ls[FirstOf(s)] + iter[s \ {FirstOf(s)}]
      BY <2>1 DEF Adding
    <3> QED
      BY <3>1, <3>2
  <2>3. \A s \in Small(n + 1) : s # {} => s \ {FirstOf(s)} \in Small(n)
    BY <1>0, OneFewer
  <2>4. \A s \in Small(n + 1) : s # {} => next[s \ {FirstOf(s)}] = iter[s \ {FirstOf(s)}]
    BY <2>2, <2>3
  <2>5. Adding(ls, Small(n + 1), next)
    BY <2>4 DEF Adding
  <2> HIDE DEF next, Small
  <2> QED
    BY <2>5
<1>3. Cardinality(S) \in Nat /\ Small(Cardinality(S)) = SUBSET S
  BY <1>0
<1>4. Cardinality(S) \in T
  <2> HIDE DEF T
  <2>1. Nat \subseteq T
    BY <1>1, <1>2, AllNat
  <2> QED
    BY <1>3, <2>1
<1> QED
  BY <1>3, <1>4

LEMMA SumAtLeast ==
    ASSUME NEW ls, NEW S, IsFiniteSet(S), \A i \in S : ls[i] \in Nat
    PROVE  SumFunctionOnSet(ls, S) \in Nat /\ \A i \in S : ls[i] <= SumFunctionOnSet(ls, S)
<1>1. PICK iter : iter = CHOOSE it : Adding(ls, SUBSET S, it)
  OBVIOUS
<1>2. Adding(ls, SUBSET S, iter)
  BY <1>1, AddingExists
<1>3. \A s \in SUBSET S : IsFiniteSet(s) /\ Cardinality(s) \in Nat
  BY FS_Subset, FS_CardinalityType
<1>4. PICK T : T = {n \in Nat : \A s \in SUBSET S : Cardinality(s) = n => iter[s] \in Nat /\ \A i \in s : ls[i] <= iter[s]}
  OBVIOUS
<1>5. 0 \in T
  <2>1. ASSUME NEW s \in SUBSET S, Cardinality(s) = 0 PROVE iter[s] \in Nat /\ \A i \in s : ls[i] <= iter[s]
    <3>1. s = {}
      BY <1>3, <2>1, FS_EmptySet
    <3>2. iter[s] = 0
      BY <1>2, <3>1 DEF Adding
    <3> QED
      BY <3>1, <3>2
  <2> QED
    BY <1>4, <2>1
<1>6. ASSUME NEW n \in Nat, n \in T PROVE n + 1 \in T
  <2>1. ASSUME NEW s \in SUBSET S, Cardinality(s) = n + 1 PROVE iter[s] \in Nat /\ \A i \in s : ls[i] <= iter[s]
    <3>1. s # {}
      BY <2>1, FS_EmptySet
    <3>2. PICK x \in s : x = FirstOf(s)
      BY <1>3, <3>1, OneFewer
    <3>3. PICK rest : rest = s \ {x}
      OBVIOUS
    <3>4. rest \in SUBSET S /\ Cardinality(rest) = n
      BY <1>3, <2>1, <3>1, <3>2, <3>3, OneFewer
    <3>5. iter[rest] \in Nat /\ \A i \in rest : ls[i] <= iter[rest]
      BY <1>4, <1>6, <3>4
    <3>6. iter[s] = ls[x] + iter[rest]
      BY <1>2, <3>1, <3>2, <3>3 DEF Adding
    <3>7. ls[x] \in Nat
      OBVIOUS
    <3>8. iter[s] \in Nat /\ ls[x] <= iter[s] /\ iter[rest] <= iter[s]
      BY <3>5, <3>6, <3>7
    <3>9. ASSUME NEW i \in s PROVE ls[i] <= iter[s]
      <4>1. CASE i = x
        BY <3>8, <4>1
      <4>2. CASE i \in rest
        <5>1. ls[i] \in Nat /\ ls[i] <= iter[rest]
          BY <3>4, <3>5, <4>2
        <5> QED
          BY <3>5, <3>8, <5>1
      <4> QED
        BY <3>3, <4>1, <4>2
    <3> QED
      BY <3>8, <3>9
  <2>2. PICK l \in Nat : l = n + 1
    OBVIOUS
  <2>3. l \in T
    BY <1>4, <2>1, <2>2
  <2> QED
    BY <2>2, <2>3
<1>7. Nat \subseteq T
  BY <1>5, <1>6, AllNat
<1>8. PICK c \in Nat : c = Cardinality(S)
  BY <1>3
<1>9. iter[S] \in Nat /\ \A i \in S : ls[i] <= iter[S]
  <2>1. c \in T
    BY <1>7
  <2> QED
    BY <1>4, <1>8, <2>1
<1>10. SumFunctionOnSet(ls, S) = iter[S]
  BY <1>1, SumIs
<1> QED
  BY <1>9, <1>10

-------------------------------------------------------------------------------
\* What a repack picks: the oldest pack it merges is the first, or stands on one that is twice as
\* long as all it merges; and where it merges nothing, the last pack stands so on the one before.

LEMMA GatheredIs ==
    ASSUME NEW ls \in Seq(Nat \ {0}), NEW i \in Nat
    PROVE  Gathered(ls, i) \in Nat /\ \A j \in (i + 1)..Len(ls) : ls[j] <= Gathered(ls, i)
<1>1. PICK n \in Nat : n = Len(ls)
  OBVIOUS
<1>2. PICK S : S = (i + 1)..n
  OBVIOUS
<1>3. IsFiniteSet(S)
  BY <1>2, FS_Interval
<1>4. \A j \in S : ls[j] \in Nat
  BY <1>1, <1>2
<1>5. SumFunctionOnSet(ls, S) \in Nat /\ \A j \in S : ls[j] <= SumFunctionOnSet(ls, S)
  BY <1>3, <1>4, SumAtLeast
<1> QED
  BY <1>1, <1>2, <1>5 DEF Gathered

\* Pick's start, of the packs from where on each joins.
StartsAt(ls, i) ==
    /\ \A j \in i..(Len(ls) - 1) : ls[j] < 2 * Gathered(ls, j)
    /\ i = 1 \/ ~ (ls[i - 1] < 2 * Gathered(ls, i - 1))

LEMMA StartExists == ASSUME NEW ls \in Seq(Nat \ {0}), ls # <<>> PROVE \E i \in 1..Len(ls) : StartsAt(ls, i)
<1>1. PICK n \in Nat : n = Len(ls)
  OBVIOUS
<1>2. PICK T : T = {i \in 1..n : \A j \in i..(n - 1) : ls[j] < 2 * Gathered(ls, j)}
  OBVIOUS
<1>3. n \in T
  BY <1>1, <1>2
<1>4. T \subseteq Nat
  BY <1>2
<1>5. PICK i \in T : \A k \in T : i <= k
  BY <1>3, <1>4, LeastNat
<1>6. i \in 1..n /\ \A j \in i..(n - 1) : ls[j] < 2 * Gathered(ls, j)
  BY <1>2
<1>7. ASSUME i # 1, ls[i - 1] < 2 * Gathered(ls, i - 1) PROVE FALSE
  <2>1. PICK h \in Nat : h = i - 1
    BY <1>6
  <2>2. h \in 1..n /\ ~ (i <= h)
    BY <1>6, <1>7, <2>1
  <2>3. ASSUME NEW j \in h..(n - 1) PROVE ls[j] < 2 * Gathered(ls, j)
    <3>1. j = h \/ j \in i..(n - 1)
      BY <1>6, <2>1
    <3> QED
      BY <1>6, <1>7, <2>1, <3>1
  <2>4. h \in T
    BY <1>2, <2>2, <2>3
  <2> QED
    BY <1>5, <2>2, <2>4
<1> QED
  BY <1>1, <1>6, <1>7 DEF StartsAt

LEMMA PickIs ==
    ASSUME NEW ls
    PROVE  Pick(ls) = IF Len(ls) < MinPacks \/ (CHOOSE i \in 1..Len(ls) : StartsAt(ls, i)) = Len(ls) THEN 0
                      ELSE CHOOSE i \in 1..Len(ls) : StartsAt(ls, i)
BY Zenon DEF Pick, StartsAt

LEMMA PickNothing ==
    ASSUME NEW ls \in Seq(Nat \ {0}), Len(ls) >= MinPacks, Pick(ls) = 0, NEW h \in Nat \ {0}, Len(ls) = h + 1
    PROVE  ls[h] >= 2 * ls[h + 1]
<1>1. ls # <<>> /\ Len(ls) \in Nat /\ ~ (Len(ls) < MinPacks)
  BY MinPacksAssumption
<1>2. PICK start : start = CHOOSE i \in 1..Len(ls) : StartsAt(ls, i)
  OBVIOUS
<1>3. start \in 1..Len(ls) /\ StartsAt(ls, start)
  BY <1>1, <1>2, StartExists
<1>4. start # 0
  BY <1>1, <1>3 DEF StartsAt
<1>5. start = h + 1
  BY <1>1, <1>2, <1>4, PickIs
<1>6. start - 1 = h /\ start # 1
  BY <1>5
<1>7. ~ (ls[h] < 2 * Gathered(ls, h))
  BY <1>3, <1>6 DEF StartsAt
<1>8. PICK g \in Nat : g = Gathered(ls, h)
  BY GatheredIs
<1>9. ls[h + 1] <= g
  <2>1. h + 1 \in (h + 1)..Len(ls)
    OBVIOUS
  <2> QED
    BY <1>8, <2>1, GatheredIs
<1>10. ls[h] \in Nat /\ ls[h + 1] \in Nat
  OBVIOUS
<1> QED
  BY <1>7, <1>8, <1>9, <1>10

LEMMA PickSomething ==
    ASSUME NEW ls \in Seq(Nat \ {0}), NEW p, p = Pick(ls), p # 0
    PROVE  /\ p \in 1..(Len(ls) - 1)
           /\ SumFunctionOnSet(ls, p..Len(ls)) \in Nat \ {0}
           /\ p = 1 \/ ls[p - 1] >= 2 * SumFunctionOnSet(ls, p..Len(ls))
<1>1. PICK n \in Nat : n = Len(ls)
  OBVIOUS
<1>2. ~ (n < MinPacks)
  BY <1>1, PickIs
<1>3. n # 0 /\ ls # <<>>
  BY <1>1, <1>2, MinPacksAssumption
<1>4. PICK start : start = CHOOSE i \in 1..Len(ls) : StartsAt(ls, i)
  OBVIOUS
<1>5. start \in 1..Len(ls) /\ StartsAt(ls, start)
  BY <1>3, <1>4, StartExists
<1>6. p = start /\ start # n
  BY <1>1, <1>4, PickIs
<1>7. p \in 1..(n - 1)
  BY <1>1, <1>5, <1>6 DEF StartsAt
<1>8. PICK h \in Nat : h = p - 1
  BY <1>7
<1>9. p..n = (h + 1)..n
  BY <1>7, <1>8
<1>10. PICK g \in Nat : g = Gathered(ls, h)
  BY GatheredIs
<1>11. g = SumFunctionOnSet(ls, p..n)
  BY <1>1, <1>9, <1>10 DEF Gathered
<1>12. p = 1 \/ ~ (ls[h] < 2 * g)
  BY <1>5, <1>6, <1>8, <1>10 DEF StartsAt
<1>13. p = 1 \/ ls[h] >= 2 * g
  <2>1. p # 1 => ls[h] \in Nat
    BY <1>1, <1>7, <1>8
  <2> QED
    BY <1>10, <1>12, <2>1
<1>14. g # 0
  <2>1. n \in (h + 1)..n /\ ls[n] \in Nat \ {0}
    BY <1>1, <1>7, <1>8
  <2>2. ls[n] <= g
    BY <1>1, <1>10, <2>1, GatheredIs
  <2> QED
    BY <1>10, <2>1, <2>2
<1> QED
  BY <1>1, <1>7, <1>8, <1>11, <1>13, <1>14

-------------------------------------------------------------------------------
\* The invariant: from the first pack whose end was ever looked at on, each pack but the last is
\* at least twice as long as the next; so is the one before the last where nothing is picked.

Falls(ls, k) == \A i \in 1..(k - 1) : i >= MinPacks - 1 => ls[i] >= 2 * ls[i + 1]

MergeInv ==
    /\ lens \in Seq(Nat \ {0}) /\ pushes \in Nat
    /\ Falls(lens, Len(lens) - 1)
    /\ run # <<>> => Pick(lens) # 0 /\ run = <<Pick(lens), Len(lens)>>

LEMMA FallsToTheEnd ==
    ASSUME NEW ls \in Seq(Nat \ {0}), Falls(ls, Len(ls) - 1), Pick(ls) = 0 PROVE Falls(ls, Len(ls))
<1>1. PICK n \in Nat : n = Len(ls)
  OBVIOUS
<1>2. ASSUME NEW i \in 1..(n - 1), i >= MinPacks - 1 PROVE ls[i] >= 2 * ls[i + 1]
  <2>1. CASE i = n - 1
    <3>1. i \in Nat \ {0} /\ n = i + 1 /\ n >= MinPacks
      BY <1>2, <2>1, MinPacksAssumption
    <3> QED
      BY <1>1, <3>1, PickNothing
  <2>2. CASE i # n - 1
    <3>1. i \in 1..((n - 1) - 1)
      BY <2>2
    <3> QED
      BY <1>1, <1>2, <3>1 DEF Falls
  <2> QED
    BY <2>1, <2>2
<1> QED
  BY <1>1, <1>2 DEF Falls

LEMMA PushFalls ==
    ASSUME NEW ls \in Seq(Nat \ {0}), Falls(ls, Len(ls)), NEW len \in Nat \ {0}, NEW ms, ms = Append(ls, len)
    PROVE  ms \in Seq(Nat \ {0}) /\ Falls(ms, Len(ms) - 1)
<1>1. PICK n \in Nat : n = Len(ls)
  OBVIOUS
<1>2. ms \in Seq(Nat \ {0}) /\ Len(ms) = n + 1 /\ \A i \in 1..n : ms[i] = ls[i]
  BY <1>1
<1>3. ASSUME NEW i \in 1..(n - 1), i >= MinPacks - 1 PROVE ms[i] >= 2 * ms[i + 1]
  <2>1. i \in 1..n /\ i + 1 \in 1..n
    OBVIOUS
  <2>2. ls[i] >= 2 * ls[i + 1]
    BY <1>1, <1>3 DEF Falls
  <2> QED
    BY <1>2, <2>1, <2>2
<1>4. Len(ms) - 1 = n
  BY <1>2
<1> QED
  BY <1>2, <1>3, <1>4 DEF Falls

LEMMA MergeFalls ==
    ASSUME NEW ls \in Seq(Nat \ {0}), Falls(ls, Len(ls) - 1), NEW p, p = Pick(ls), p # 0,
           NEW n, n = Len(ls), NEW ms,
           ms = SubSeq(ls, 1, p - 1) \o <<SumFunctionOnSet(ls, p..n)>> \o SubSeq(ls, n + 1, n)
    PROVE  ms \in Seq(Nat \ {0}) /\ Falls(ms, Len(ms) - 1)
<1>1. n \in Nat /\ p \in 1..(n - 1)
  BY PickSomething
<1>2. PICK sum \in Nat \ {0} : sum = SumFunctionOnSet(ls, p..n)
  BY PickSomething
<1>3. PICK h \in Nat : h = p - 1
  BY <1>1
<1>4. PICK front : front = SubSeq(ls, 1, h)
  OBVIOUS
<1>5. front \in Seq(Nat \ {0}) /\ Len(front) = h /\ \A i \in 1..h : front[i] = ls[i]
  BY <1>1, <1>3, <1>4
<1>6. PICK rest : rest = SubSeq(ls, n + 1, n)
  OBVIOUS
<1>7. rest = <<>>
  BY <1>1, <1>6
<1>8. ms = Append(front, sum)
  <2>1. ms = front \o <<sum>> \o rest
    BY <1>2, <1>3, <1>4, <1>6
  <2>2. PICK ns : ns = front \o <<sum>>
    OBVIOUS
  <2>3. ns = Append(front, sum) /\ ns \in Seq(Nat \ {0})
    BY <1>2, <1>5, <2>2
  <2>4. ns \o <<>> = ns
    BY <2>3
  <2> QED
    BY <1>7, <2>1, <2>2, <2>3, <2>4
<1>9. ms \in Seq(Nat \ {0}) /\ Len(ms) = h + 1 /\ \A i \in 1..h : ms[i] = ls[i]
  <2>1. front \in Seq(Nat \ {0}) /\ Append(front, sum) \in Seq(Nat \ {0}) /\ Len(Append(front, sum)) = h + 1
    BY <1>2, <1>5
  <2>2. \A i \in 1..h : Append(front, sum)[i] = front[i]
    BY <1>2, <1>5
  <2> QED
    BY <1>5, <1>8, <2>1, <2>2
<1>10. ASSUME NEW i \in 1..(h - 1), i >= MinPacks - 1 PROVE ms[i] >= 2 * ms[i + 1]
  <2>1. i \in 1..h /\ i + 1 \in 1..h /\ i \in 1..((n - 1) - 1)
    <3>1. PICK m \in Nat : m = n /\ h + 1 <= m - 1
      BY <1>1, <1>3
    <3>2. i \in Nat /\ i >= 1 /\ i <= h - 1
      OBVIOUS
    <3>3. i \in 1..h /\ i + 1 \in 1..h /\ i \in 1..((m - 1) - 1)
      BY <3>1, <3>2
    <3> QED
      BY <3>1, <3>3
  <2>2. ls[i] >= 2 * ls[i + 1]
    BY <1>10, <2>1 DEF Falls
  <2> QED
    BY <1>9, <2>1, <2>2
<1>11. Len(ms) - 1 = h
  BY <1>9
<1> QED
  BY <1>9, <1>10, <1>11 DEF Falls

LEMMA MergeBegins == MergeInit => MergeInv
<1> SUFFICES ASSUME MergeInit PROVE MergeInv
  OBVIOUS
<1>1. lens = <<>> /\ pushes = 0 /\ run = <<>>
  BY DEF MergeInit
<1>2. lens \in Seq(Nat \ {0}) /\ Len(lens) = 0
  BY <1>1
<1>3. 1..((0 - 1) - 1) = {}
  OBVIOUS
<1> QED
  BY <1>1, <1>2, <1>3 DEF MergeInv, Falls

LEMMA MergeKept == MergeInv /\ [MergeNext /\ (pushes' # pushes => Rested)]_mergeVars => MergeInv'
<1> SUFFICES ASSUME MergeInv, [MergeNext /\ (pushes' # pushes => Rested)]_mergeVars PROVE MergeInv'
  OBVIOUS
<1>1. PICK ls \in Seq(Nat \ {0}) : ls = lens /\ Falls(ls, Len(ls) - 1)
  BY DEF MergeInv
<1>2. ASSUME NEW len \in Lengths, Push(len), pushes' # pushes => Rested PROVE MergeInv'
  <2>1. pushes \in Nat /\ pushes' = pushes + 1
    BY <1>2 DEF MergeInv, Push
  <2>2. run = <<>> /\ Pick(ls) = 0
    BY <1>1, <1>2, <2>1 DEF Rested
  <2>3. PICK ms : ms = Append(ls, len)
    OBVIOUS
  <2>4. ms \in Seq(Nat \ {0}) /\ Falls(ms, Len(ms) - 1)
    BY <1>1, <2>2, <2>3, FallsToTheEnd, PushFalls, LengthsAssumption
  <2>5. lens' = ms /\ run' = <<>>
    BY <1>1, <1>2, <2>2, <2>3 DEF Push
  <2> QED
    BY <2>1, <2>4, <2>5 DEF MergeInv
<1>3. CASE Start
  <2>1. lens' = lens /\ pushes' = pushes /\ run' = IF Pick(lens) = 0 THEN <<>> ELSE <<Pick(lens), Len(lens)>>
    BY <1>3 DEF Start
  <2> QED
    BY <2>1 DEF MergeInv
<1>4. CASE Commit
  <2>1. PICK p : p = Pick(ls)
    OBVIOUS
  <2>2. PICK n : n = Len(ls)
    OBVIOUS
  <2>3. p # 0 /\ run = <<p, n>>
    BY <1>1, <1>4, <2>1, <2>2 DEF Commit, MergeInv
  <2>4. run[1] = p /\ run[2] = n
    BY <2>3
  <2>5. PICK ms : ms = lens'
    OBVIOUS
  <2>6. ms = SubSeq(ls, 1, p - 1) \o <<SumFunctionOnSet(ls, p..n)>> \o SubSeq(ls, n + 1, n)
    BY <1>1, <1>4, <2>2, <2>4, <2>5 DEF Commit
  <2>7. ms \in Seq(Nat \ {0}) /\ Falls(ms, Len(ms) - 1)
    BY <1>1, <2>1, <2>2, <2>3, <2>6, MergeFalls
  <2>8. run' = <<>> /\ pushes' = pushes
    BY <1>4 DEF Commit
  <2> QED
    BY <2>5, <2>7, <2>8 DEF MergeInv
<1>5. CASE Consider
  BY <1>5 DEF Consider, MergeInv
<1>6. CASE UNCHANGED mergeVars
  BY <1>6 DEF mergeVars, MergeInv
<1> QED
  BY <1>2, <1>3, <1>4, <1>5, <1>6 DEF MergeNext

LEMMA Before == ASSUME NEW l \in Nat, NEW n \in Nat, l <= n PROVE n - l \in Nat
OBVIOUS

LEMMA Doubling ==
    ASSUME NEW ls \in Seq(Nat \ {0}), Falls(ls, Len(ls)), NEW a \in Nat \ {0},
           NEW low \in Nat, low = MinPacks, a >= low - 1,
           NEW k \in Nat, NEW n \in Nat, n = Len(ls), a + k = n
    PROVE  ls[a] >= Power(k)
<1>1. n = Len(ls) /\ a + k = n
  OBVIOUS
<1>2. PICK T : T = {m \in Nat : m <= k => ls[n - m] >= Power(m)}
  OBVIOUS
<1>3. 0 \in T
  <2>1. n - 0 = n /\ n \in 1..n
    BY <1>1
  <2>2. ls[n] \in Nat \ {0}
    BY <1>1, <2>1
  <2>3. ls[n] >= 1
    BY <2>2
  <2> QED
    BY <1>2, <2>1, <2>3, PowerOfNothing
<1>4. ASSUME NEW m \in Nat, m \in T PROVE m + 1 \in T
  <2>1. PICK l \in Nat : l = m + 1
    OBVIOUS
  <2>2. ASSUME l <= k PROVE ls[n - l] >= Power(l)
    <3>1. m <= k
      BY <2>1, <2>2
    <3>2. ls[n - m] >= Power(m)
      BY <1>2, <1>4, <3>1
    <3>3. PICK i \in Nat : i = n - l
      <4>1. l <= n
        BY <1>1, <2>2
      <4> QED
        BY <4>1, Before
    <3>4. n - m = i + 1 /\ i \in 1..(n - 1) /\ i >= low - 1
      BY <1>1, <2>1, <2>2, <3>3
    <3>5. ls[i] >= 2 * ls[i + 1]
      BY <1>1, <3>4 DEF Falls
    <3>6. PICK x \in Nat : x = ls[i + 1]
      BY <1>1, <3>4
    <3>7. PICK y \in Nat : y = ls[i]
      BY <1>1, <3>4
    <3>8. PICK w \in Nat : w = Power(m)
      BY Subsets
    <3>9. Power(l) = 2 * w
      BY <2>1, <3>8, Doubles
    <3>10. x >= w
      BY <3>2, <3>4, <3>6, <3>8
    <3>11. y >= 2 * w
      BY <3>5, <3>6, <3>7, <3>10
    <3> QED
      BY <3>3, <3>7, <3>9, <3>11
  <2> QED
    BY <1>2, <2>1, <2>2
<1>5. Nat \subseteq T
  BY <1>3, <1>4, AllNat
<1>6. k \in T
  BY <1>5
<1>7. n - k = a
  BY <1>1
<1>8. ls[n - k] >= Power(k)
  BY <1>2, <1>6
<1> QED
  BY <1>7, <1>8, Zenon

LEMMA Apart == ASSUME NEW low \in Nat, low > 1, NEW n \in Nat, n >= low PROVE low - 1 \in Nat \ {0} /\ n - low + 1 \in Nat
OBVIOUS

LEMMA Members ==
    ASSUME NEW ls \in Seq(Nat \ {0})
    PROVE  DOMAIN ls = 1..Len(ls) /\ IsFiniteSet(1..Len(ls)) /\ \A i \in 1..Len(ls) : ls[i] \in Nat
BY FS_Interval

LEMMA AtLeastPower ==
    ASSUME NEW ls \in Seq(Nat \ {0}), Falls(ls, Len(ls)), NEW low \in Nat, low = MinPacks, low > 1,
           NEW n \in Nat, n = Len(ls), n >= low
    PROVE  Power(n - low + 1) <= SumFunctionOnSet(ls, DOMAIN ls)
<1>1. PICK a \in Nat \ {0} : a = low - 1
  BY Apart
<1>2. PICK k \in Nat : k = n - low + 1
  BY Apart
<1>3. a + k = n /\ a \in 1..n /\ a >= low - 1
  BY <1>1, <1>2
<1>4. ls[a] >= Power(k)
  BY <1>3, Doubling
<1>5. PICK D : D = 1..n
  OBVIOUS
<1>6. D = DOMAIN ls /\ IsFiniteSet(D) /\ \A i \in D : ls[i] \in Nat
  BY <1>5, Members, Zenon
<1>7. PICK sum \in Nat : sum = SumFunctionOnSet(ls, D)
  BY <1>6, SumAtLeast
<1>8. ls[a] <= sum /\ ls[a] \in Nat
  BY <1>3, <1>5, <1>6, <1>7, SumAtLeast
<1>9. PICK w \in Nat : w = Power(k)
  BY Subsets
<1>10. w <= sum
  BY <1>4, <1>8, <1>9
<1> QED
  BY <1>2, <1>6, <1>7, <1>9, <1>10

LEMMA FewPacksAtRest == MergeInv => Logarithmic
<1> SUFFICES ASSUME MergeInv, Rested, Len(lens) >= MinPacks PROVE 2 ^ (Len(lens) - MinPacks + 1) <= Total
  BY DEF Logarithmic
<1>1. PICK ls \in Seq(Nat \ {0}) : ls = lens
  BY DEF MergeInv
<1>2. Falls(ls, Len(ls))
  BY <1>1, FallsToTheEnd DEF MergeInv, Rested
<1>3. PICK low \in Nat : low = MinPacks /\ low > 1
  BY MinPacksAssumption
<1>4. PICK n \in Nat : n = Len(ls)
  OBVIOUS
<1>5. n >= low
  BY <1>1, <1>3, <1>4
<1>6. Power(n - low + 1) <= SumFunctionOnSet(ls, DOMAIN ls)
  BY <1>2, <1>3, <1>4, <1>5, AtLeastPower
<1>7. 2 ^ (Len(lens) - MinPacks + 1) = Power(n - low + 1)
  BY <1>1, <1>3, <1>4, Zenon DEF Power
<1>8. Total = SumFunctionOnSet(ls, DOMAIN ls)
  BY <1>1 DEF Total
<1> QED
  BY <1>6, <1>7, <1>8, Zenon

\* Where pushes come so far apart that each finds the repacks before it done, the number of packs
\* at rest stays logarithmic in what was pushed: all of them together are at least twice as long
\* for every pack beyond the first few, whatever the pushes bring, because what pick leaves alone
\* stands on the next pack and merges keep that.
THEOREM FewPacks == ApartSpec => []Logarithmic
<1>1. MergeInit => MergeInv
  BY MergeBegins
<1>2. MergeInv /\ [MergeNext /\ (pushes' # pushes => Rested)]_mergeVars => MergeInv'
  BY MergeKept
<1>3. MergeInv => Logarithmic
  BY FewPacksAtRest
<1> QED
  BY <1>1, <1>2, <1>3, PTL DEF ApartSpec

===============================================================================
