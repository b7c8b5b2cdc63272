----------------------------- MODULE DepotWitness -----------------------------
(***************************************************************************)
(* The rollback witness of depot (witness.rs): a second store that         *)
(* remembers the newest revision of a mutable document, so that a bucket   *)
(* which serves an older copy after a restart is found out.                *)
(*                                                                         *)
(* The bucket is not trusted here: it may serve any document it ever held. *)
(* The witness is honest.  Requests to either may fail, with or without    *)
(* effect.  A server blocks in a save until its witness record is written  *)
(* or queued; between two of its requests the other servers run.           *)
(***************************************************************************)
EXTENDS DepotStore, FiniteSets

CONSTANTS WServers,      \* the servers sharing the bucket and the witness
          WRounds,       \* rounds of raise_now (6)
          WMaxRev,       \* bound: revisions of the document
          WMaxRollbacks, \* bound: times the bucket turns back
          WMaxFaults     \* bound: failed requests and crashes

ASSUME WitnessAssumption == {WRounds, WMaxRev, WMaxRollbacks, WMaxFaults} \subseteq Nat

VARIABLES
    wdoc,     \* what the bucket serves
    wkept,    \* every document the bucket ever held
    wrec,     \* the witness's record of it: rev, writer and the tag of the record
    wsrv,     \* each server
    wnoted,   \* revisions whose record was written (or found written) since the last acceptance
    wstale,   \* servers that saw the witness before somebody else's acceptance
    wspent    \* what was used of the bounds

wvars == <<wdoc, wkept, wrec, wsrv, wnoted, wstale, wspent>>

Missing == [rev |-> 0, writer |-> None]
NoRecord == [rev |-> 0, writer |-> None, tag |-> 0]

\* copy: the document in memory; checked: its first load was checked; known: the
\* newest record known (or that it is not known); lag: a record not yet written;
\* rolled: what the bucket held when it was found older than the witness; down:
\* the witness failed less than 30 seconds ago; pc, rev and writer: the raising
\* under way, for a save (note) or a queued record (retry).  duty is the newest
\* revision this process committed, kept for the properties.
Boot == [copy |-> Missing, checked |-> FALSE, known |-> NoRecord, lag |-> Missing,
         rolled |-> {}, down |-> FALSE, pc |-> "idle", got |-> Missing, seen |-> {},
         duty |-> 0, rev |-> 0, writer |-> None, round |-> 0]

WInit ==
    /\ wdoc = Missing
    /\ wkept = {Missing}
    /\ wrec = NoRecord
    /\ wsrv = [s \in WServers |-> Boot]
    /\ wnoted = {}
    /\ wstale = {}
    /\ wspent = [faults |-> 0, rollbacks |-> 0, tags |-> 0]

WFault == /\ wspent.faults < WMaxFaults
          /\ wspent' = [wspent EXCEPT !.faults = @ + 1]

Set(s, x) == wsrv' = [wsrv EXCEPT ![s] = x]

------------------------------------------------------------------------------
\* A load: the document, and at a server's first one the witness's record of it.

\* Does a process that has seen the document before take what is served?
Adopts(x, d) == IF d = Missing THEN x.copy = Missing ELSE d.rev >= x.copy.rev

Load(s) ==
    LET x == wsrv[s] IN
    /\ x.pc = "idle"
    /\ IF x.checked
       THEN /\ Adopts(x, wdoc)
            /\ Set(s, [x EXCEPT !.copy = wdoc])
       ELSE Set(s, [x EXCEPT !.pc = "check", !.got = wdoc])
    /\ UNCHANGED <<wdoc, wkept, wrec, wnoted, wstale, wspent>>

\* Is what the bucket served older than the record?
Older(rec, got) ==
    \/ got.rev < rec.rev
    \/ got.rev = rec.rev /\ got.writer # rec.writer

\* check: the record is read, or the document is not loaded.
Check(s) ==
    LET x == wsrv[s]
        read == [x EXCEPT !.pc = "idle", !.got = Missing, !.known = wrec]
    IN
    /\ x.pc = "check"
    /\ \/ /\ ~Older(wrec, x.got)
          /\ Set(s, [read EXCEPT !.copy = x.got, !.checked = TRUE, !.rolled = {}])
          /\ UNCHANGED wspent
       \/ /\ Older(wrec, x.got)
          /\ Set(s, [read EXCEPT !.rolled = {x.got}])
          /\ UNCHANGED wspent
       \/ /\ WFault
          /\ Set(s, [x EXCEPT !.pc = "idle", !.got = Missing])
    /\ UNCHANGED <<wdoc, wkept, wrec, wnoted, wstale>>

------------------------------------------------------------------------------
\* A save, and the record that follows it.

\* put_sealed: the document is replaced if it still is the one in memory.  A write
\* that was settled is noted; one whose outcome cannot be read back is an error.
SaveDoc(s) ==
    LET x == wsrv[s]
        new == [rev |-> x.copy.rev + 1, writer |-> Cardinality(wkept)]
    IN
    /\ x.pc = "idle" /\ x.checked
    /\ x.copy.rev < WMaxRev
    /\ Accepts(wdoc, x.copy.writer)
    /\ wdoc' = new
    /\ wkept' = wkept \cup {new}
    /\ \/ /\ Set(s, [x EXCEPT !.copy = new, !.pc = "note", !.duty = new.rev,
                              !.rev = new.rev, !.writer = new.writer])
          /\ UNCHANGED wspent
       \/ WFault /\ UNCHANGED wsrv
    /\ UNCHANGED <<wrec, wnoted, wstale>>

\* What raising ends in: for a save, a record not written is queued unless a newer
\* one is, and one written takes an older one off the queue; a queued record goes
\* back to the queue or has left it.
Idle(x) == [x EXCEPT !.pc = "idle", !.rev = 0, !.writer = None, !.round = 0, !.seen = {}]

\* Variant: a record is queued only if none is.
UnwrittenFirst(x) ==
    [Idle(x) EXCEPT !.down = TRUE, !.lag = IF @ = Missing THEN [rev |-> x.rev, writer |-> x.writer] ELSE @]

Unwritten(x) ==
    [Idle(x) EXCEPT !.down = TRUE, !.lag = IF @.rev < x.rev THEN [rev |-> x.rev, writer |-> x.writer] ELSE @]
Written(x, known) ==
    [Idle(x) EXCEPT !.down = FALSE, !.known = known, !.lag = IF @.rev <= x.rev THEN Missing ELSE @]

\* note: while the witness is down the record goes straight to the queue.
Note(s) ==
    LET x == wsrv[s] IN
    /\ x.pc = "note"
    /\ Set(s, IF x.down THEN Unwritten(x) ELSE [x EXCEPT !.pc = "raise"])
    /\ UNCHANGED <<wdoc, wkept, wrec, wnoted, wstale, wspent>>

\* retry: one queued record is tried again.
Retry(s) ==
    LET x == wsrv[s] IN
    /\ x.pc = "idle" /\ x.lag # Missing /\ ~x.down
    /\ Set(s, [x EXCEPT !.pc = "raise", !.lag = Missing, !.rev = x.lag.rev, !.writer = x.lag.writer])
    /\ UNCHANGED <<wdoc, wkept, wrec, wnoted, wstale, wspent>>

\* raise_now, one round, first half: what record is there?  seen stays empty when
\* the newest record is known from before.
RaiseRead(s) ==
    LET x == wsrv[s] IN
    /\ x.pc = "raise" /\ x.known = NoRecord /\ x.seen = {}
    /\ \/ /\ Set(s, [x EXCEPT !.known = wrec, !.seen = {wrec}])
          /\ UNCHANGED wspent
       \/ /\ WFault
          /\ Set(s, Unwritten(x))
    /\ UNCHANGED <<wdoc, wkept, wrec, wnoted, wstale>>

\* Variant: the record is replaced whatever it is by now.
Overwrites(rec, known) == TRUE

\* The witness's side of the conditional PUT.
Replaces(rec, known) == rec.tag = known.tag

\* Second half: it is written, on condition of the record seen, unless it is there.
RaisePut(s) ==
    LET x == wsrv[s]
        new == [rev |-> x.rev, writer |-> x.writer, tag |-> wspent.tags + 1]
        again == IF x.round + 1 < WRounds
                 THEN [x EXCEPT !.known = NoRecord, !.seen = {}, !.round = @ + 1]
                 ELSE Unwritten([x EXCEPT !.known = NoRecord])
        drawn == [wspent EXCEPT !.tags = @ + 1]
    IN
    /\ x.pc = "raise" /\ (x.known # NoRecord \/ x.seen # {})
    /\ \/ /\ x.known.rev >= x.rev
          /\ Set(s, Written(x, x.known))
          /\ wnoted' = wnoted \cup (IF s \in wstale THEN {} ELSE {x.rev})
          /\ UNCHANGED <<wrec, wspent>>
       \/ /\ x.known.rev < x.rev /\ Replaces(wrec, x.known)
          /\ wrec' = new /\ wspent' = drawn
          /\ Set(s, Written(x, new))
          /\ wnoted' = wnoted \cup (IF s \in wstale THEN {} ELSE {x.rev})
       \/ /\ x.known.rev < x.rev /\ ~Replaces(wrec, x.known)
          /\ Set(s, again)
          /\ UNCHANGED <<wrec, wnoted, wspent>>
       \/ /\ x.known.rev < x.rev
          /\ wspent.faults < WMaxFaults
          /\ wspent' = [drawn EXCEPT !.faults = @ + 1]
          /\ wrec' \in {wrec} \cup (IF Replaces(wrec, x.known) THEN {new} ELSE {})
          /\ Set(s, again)
          /\ UNCHANGED wnoted
    /\ UNCHANGED <<wdoc, wkept, wstale>>

\* 30 seconds pass since the witness failed.
Recover(s) ==
    /\ wsrv[s].down
    /\ Set(s, [wsrv[s] EXCEPT !.down = FALSE])
    /\ UNCHANGED <<wdoc, wkept, wrec, wnoted, wstale, wspent>>

------------------------------------------------------------------------------
\* accept: an admin lowers the record to what the bucket held when it was found
\* older, and the server forgets what it loaded.  If the answer is lost, the alarm
\* stays.
Accept(s) ==
    LET x == wsrv[s] IN
    /\ x.pc = "idle" /\ x.rolled # {}
    /\ \E got \in x.rolled :
          wrec' = IF got = Missing THEN NoRecord
                  ELSE [rev |-> got.rev, writer |-> got.writer, tag |-> wspent.tags + 1]
    /\ wnoted' = {}
    /\ \/ /\ wspent' = [wspent EXCEPT !.tags = @ + 1]
          /\ Set(s, [x EXCEPT !.rolled = {}, !.known = NoRecord, !.copy = Missing, !.duty = 0])
          /\ wstale' = WServers \ {s}
       \/ /\ wspent.faults < WMaxFaults
          /\ wspent' = [wspent EXCEPT !.tags = @ + 1, !.faults = @ + 1]
          /\ wstale' = WServers
          /\ UNCHANGED wsrv
    /\ UNCHANGED <<wdoc, wkept>>

\* The process dies and starts again: what it knew, and its queue, are gone.
WCrash(s) ==
    /\ WFault
    /\ wsrv[s] # Boot
    /\ Set(s, Boot)
    /\ wstale' = wstale \ {s}
    /\ UNCHANGED <<wdoc, wkept, wrec, wnoted>>

\* The bucket turns to another document it once held, or loses it.
Rollback ==
    /\ wspent.rollbacks < WMaxRollbacks
    /\ wspent' = [wspent EXCEPT !.rollbacks = @ + 1]
    /\ wdoc' \in wkept \ {wdoc}
    /\ UNCHANGED <<wkept, wrec, wsrv, wnoted, wstale>>

\* What a server does by itself, and what requests make it do.
WWork(s) == Note(s) \/ Retry(s) \/ RaiseRead(s) \/ RaisePut(s) \/ Check(s)

WNext ==
    \/ \E s \in WServers : WWork(s) \/ Load(s) \/ SaveDoc(s) \/ Recover(s) \/ Accept(s) \/ WCrash(s)
    \/ Rollback

WSpec == WInit /\ [][WNext]_wvars

\* The event loop gets on with its work and time passes; requests that load the
\* document keep coming.
WFairness == \A s \in WServers : WF_wvars(WWork(s)) /\ WF_wvars(Recover(s)) /\ WF_wvars(Load(s))

WFairSpec == WSpec /\ WFairness

------------------------------------------------------------------------------
WTypeOK ==
    /\ wdoc \in wkept
    /\ wkept \subseteq [rev : 0..WMaxRev, writer : Nat]
    /\ wrec \in [rev : 0..WMaxRev, writer : Nat, tag : Nat]
    /\ \A s \in WServers :
          /\ wsrv[s].copy \in wkept /\ wsrv[s].got \in wkept /\ wsrv[s].rolled \subseteq wkept
          /\ wsrv[s].pc \in {"idle", "check", "note", "raise"}
          /\ wsrv[s].round \in 0..WRounds
    /\ wnoted \subseteq 1..WMaxRev /\ wstale \subseteq WServers

\* A server takes a document at its first look only if it is as new as every
\* revision that was witnessed before (and not accepted as lost since), however
\* many servers raise the record, and whatever fails meanwhile.
FirstLookFresh ==
    [][\A s \in WServers :
          ~wsrv[s].checked /\ wsrv[s]'.checked => \A r \in wnoted : wsrv[s]'.copy.rev >= r]_wvars

\* What the witness is for, in the end.  What a server committed and said so gets
\* witnessed, unless its process dies first: no record is lost between a save, the queue
\* and the retries.  And a bucket that never turned back is suspected at most for a while:
\* a load that raced a save elsewhere is refused, and the next one is not.
WitnessSettles ==
    /\ \A s \in WServers, r \in 1..WMaxRev :
          wsrv[s].duty = r ~> wrec.rev >= r \/ wsrv[s].duty = 0 \/ s \in wstale
    /\ \A s \in WServers :
          wsrv[s].rolled # {} ~> wsrv[s].rolled = {} \/ wspent.rollbacks > 0
=============================================================================
