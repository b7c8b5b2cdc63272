----------------------------- MODULE SealedDrops -----------------------------
(***************************************************************************)
(* The drops of dead-drop, failsafe or quorum: blobs held in memory until  *)
(* they were read often enough, were erased by who may, or lapsed.  A drop *)
(* of dead-drop can be read at once; one of failsafe after a time that is  *)
(* fixed (capsule) or that check-ins push back (switch); one of quorum     *)
(* once enough approvers agree.  Every request looks at the clock, and a   *)
(* sweep comes every few seconds.  Credentials and their hashes are left   *)
(* out: a request that presents a wrong one changes nothing.               *)
(***************************************************************************)
EXTENDS Naturals, FiniteSets, FiniteSetsExt

CONSTANTS
    DIds,       \* the ids clients make up
    DSetups,    \* the drops they may ask for
    DSizes,     \* the sizes of their blobs
    DSeats,     \* the approvers of a quorum
    DCap,       \* MAX_TOTAL_BYTES
    DSweep,     \* the interval of the sweep (5 seconds)
    DMaxArms,   \* bound: drops made
    DMaxClock   \* bound: the clock

\* gate is release-in or interval, window the time to read after the release,
\* ttl the lifetime of a drop of dead-drop and of a quorum that is not met.
ASSUME DropAssumption ==
    /\ DSetups \subseteq [mode : {"plain", "capsule", "switch", "quorum"},
           gate : Nat, window : Nat, ttl : Nat, need : Nat, reads : Nat \ {0}]
    /\ DSizes \subseteq Nat /\ DSweep \in Nat \ {0}
    /\ {DCap, DMaxArms, DMaxClock} \subseteq Nat

VARIABLES
    dMode,      \* the kind of drop this program holds
    dDrop,      \* drops: for every id the entry, or Free
    dFate,      \* whether an id is held, and if not, why not any more
    dSeen,      \* when a request first met the entry released, 0 before
    dTotal,     \* total_bytes
    dArms, dClock, dSwept

dVars == <<dMode, dDrop, dFate, dSeen, dTotal, dArms, dClock, dSwept>>
dTimes == <<dClock, dSwept>>

Free == [mode |-> "free", size |-> 0]
Held == {id \in DIds : dDrop[id].mode # "free"}
TotalSize(drops, ids) == MapThenSumSet(LAMBDA id : drops[id].size, ids)

\* The clock starts at 1: a time of 0 is one that has not come (None).
DInit ==
    /\ dMode \in {s.mode : s \in DSetups}
    /\ dDrop = [id \in DIds |-> Free]
    /\ dFate = [id \in DIds |-> "free"]
    /\ dSeen = [id \in DIds |-> 0]
    /\ dTotal = 0 /\ dArms = 0 /\ dClock = 1 /\ dSwept = 1

\* released: of failsafe, by the clock; of quorum, once its time is stamped.
Released(e) ==
    CASE e.mode = "plain" -> TRUE
      [] e.mode \in {"capsule", "switch"} -> dClock >= e.opens
      [] e.mode = "quorum" -> e.released # 0

\* Variant: the window of a switch or capsule runs from the release.
WindowFromRelease(e) ==
    CASE e.mode = "plain" -> e.expires
      [] e.mode \in {"capsule", "switch"} -> e.opens + e.window
      [] e.mode = "quorum" -> IF e.released # 0 THEN e.released + e.window ELSE e.expires

\* When an entry lapses: the test of live_id and of the sweep.
LapsesAt(e) ==
    CASE e.mode = "plain" -> e.expires
      [] e.mode \in {"capsule", "switch"} ->
            (IF e.released # 0 THEN e.released ELSE e.opens) + e.window
      [] e.mode = "quorum" -> IF e.released # 0 THEN e.released + e.window ELSE e.expires

Lapsed(id) == LapsesAt(dDrop[id]) <= dClock

Erase(id, fate) ==
    /\ dDrop' = [dDrop EXCEPT ![id] = Free]
    /\ dFate' = [dFate EXCEPT ![id] = fate]
    /\ dSeen' = [dSeen EXCEPT ![id] = 0]

-----------------------------------------------------------------------------
\* api_drop, api_arm
Arm(id, setup, size) ==
    /\ setup.mode = dMode /\ dArms < DMaxArms
    /\ dTotal + size <= DCap /\ id \notin Held
    /\ dDrop' = [dDrop EXCEPT ![id] =
           [mode |-> setup.mode, size |-> size, reads |-> setup.reads,
            window |-> setup.window, interval |-> setup.gate, need |-> setup.need,
            opens |-> dClock + setup.gate, expires |-> dClock + setup.ttl,
            approved |-> {}, released |-> 0]]
    /\ dFate' = [dFate EXCEPT ![id] = "held"]
    /\ dTotal' = dTotal + size
    /\ dArms' = dArms + 1
    /\ UNCHANGED <<dMode, dSeen, dTimes>>

\* Variant: a request that finds an entry lapsed takes its bytes off nowhere.
NeverFrees == FALSE

\* dead-drop removes an entry that lapsed without taking its bytes off.
LapseFrees == dMode # "plain"

\* live_id on an entry that lapsed: it is removed, whatever the request.
MeetsLapsed(id) ==
    /\ id \in Held /\ Lapsed(id)
    /\ Erase(id, "lapsed")
    /\ dTotal' = IF LapseFrees THEN dTotal - dDrop[id].size ELSE dTotal
    /\ UNCHANGED <<dMode, dArms, dTimes>>

\* observe_release, first thing after live_id in every request of failsafe.
Observed(e) ==
    IF e.mode \in {"capsule", "switch"} /\ e.released = 0 /\ Released(e)
    THEN [e EXCEPT !.released = dClock] ELSE e

Meets(id) == id \in Held /\ ~Lapsed(id)
Saw(id, e) ==
    dSeen' = [dSeen EXCEPT ![id] = IF @ = 0 /\ Released(e) THEN dClock ELSE @]

\* api_peek, and requests that are refused after it was looked up.
Peek(id) ==
    /\ Meets(id)
    /\ LET e == Observed(dDrop[id]) IN
           dDrop' = [dDrop EXCEPT ![id] = e] /\ Saw(id, e)
    /\ UNCHANGED <<dMode, dFate, dTotal, dArms, dTimes>>

\* api_take of a released entry: the last read erases it.
Take(id) ==
    /\ Meets(id) /\ Released(dDrop[id])
    /\ LET e == Observed(dDrop[id]) IN
           IF e.reads = 1
           THEN Erase(id, "read") /\ dTotal' = dTotal - e.size
           ELSE /\ dDrop' = [dDrop EXCEPT ![id] = [e EXCEPT !.reads = @ - 1]]
                /\ Saw(id, e)
                /\ UNCHANGED <<dFate, dTotal>>
    /\ UNCHANGED <<dMode, dArms, dTimes>>

\* api_burn, api_disarm: in any state.
Burn(id) ==
    /\ Meets(id)
    /\ Erase(id, "burned")
    /\ dTotal' = dTotal - dDrop[id].size
    /\ UNCHANGED <<dMode, dArms, dTimes>>

\* api_checkin of a switch that has not released; any other is refused (Peek).
CheckIn(id) ==
    /\ Meets(id) /\ dDrop[id].mode = "switch"
    /\ ~Released(dDrop[id])
    /\ dDrop' = [dDrop EXCEPT ![id] =
           [Observed(@) EXCEPT !.opens = dClock + dDrop[id].interval]]
    /\ UNCHANGED <<dMode, dFate, dSeen, dTotal, dArms, dTimes>>

\* api_approve: the approval that meets the threshold stamps the release.
Approve(id, seat) ==
    /\ Meets(id) /\ dDrop[id].mode = "quorum"
    /\ LET e == [dDrop[id] EXCEPT !.approved = @ \cup {seat}]
           met == e.released = 0 /\ Cardinality(e.approved) >= e.need
           after == IF met THEN [e EXCEPT !.released = dClock] ELSE e
       IN  dDrop' = [dDrop EXCEPT ![id] = after] /\ Saw(id, after)
    /\ UNCHANGED <<dMode, dFate, dTotal, dArms, dTimes>>

\* api_revoke_approval, until the quorum is met.
Revoke(id, seat) ==
    /\ Meets(id) /\ dDrop[id].mode = "quorum" /\ ~Released(dDrop[id])
    /\ dDrop' = [dDrop EXCEPT ![id].approved = @ \ {seat}]
    /\ UNCHANGED <<dMode, dFate, dSeen, dTotal, dArms, dTimes>>

\* The sweep: if anything lapsed, the total is counted anew.
DropsDue == dClock - dSwept >= DSweep
SweepDrops ==
    /\ DropsDue
    /\ dSwept' = dClock
    /\ LET gone == {id \in Held : Lapsed(id)} IN
           /\ dDrop' = [id \in DIds |-> IF id \in gone THEN Free ELSE dDrop[id]]
           /\ dFate' = [id \in DIds |-> IF id \in gone THEN "lapsed" ELSE dFate[id]]
           /\ dSeen' = [id \in DIds |-> IF id \in gone THEN 0 ELSE dSeen[id]]
           /\ dTotal' = IF gone # {}
                        THEN TotalSize(dDrop, Held \ gone)
                        ELSE dTotal
    /\ UNCHANGED <<dMode, dArms, dClock>>

DSecond ==
    /\ ~DropsDue /\ dClock < DMaxClock
    /\ dClock' = dClock + 1
    /\ UNCHANGED <<dMode, dDrop, dFate, dSeen, dTotal, dArms, dSwept>>

DNext ==
    \/ \E id \in DIds :
           \/ \E setup \in DSetups, size \in DSizes : Arm(id, setup, size)
           \/ MeetsLapsed(id) \/ Peek(id) \/ Take(id) \/ Burn(id) \/ CheckIn(id)
           \/ \E seat \in DSeats : Approve(id, seat) \/ Revoke(id, seat)
    \/ SweepDrops \/ DSecond

DSpec == DInit /\ [][DNext]_dVars

-----------------------------------------------------------------------------
DTypeOK ==
    /\ \A id \in DIds :
           /\ dDrop[id] = Free \/ dDrop[id].mode = dMode
           /\ dFate[id] \in {"free", "held", "read", "burned", "lapsed"}
           /\ dFate[id] = "held" <=> id \in Held
           /\ id \in Held =>
                  /\ dDrop[id].size \in DSizes /\ dDrop[id].reads \in Nat \ {0}
                  /\ dDrop[id].approved \subseteq DSeats
                  /\ dDrop[id].released \in 0..dClock
    /\ dTotal \in Nat /\ dArms \in 0..DMaxArms
    /\ dClock \in 1..DMaxClock /\ dSwept \in 1..dClock /\ dSeen \in [DIds -> 0..dClock]

\* The capacity is counted right: what is held never passes the cap, and the
\* count is what is held.  The count of dead-drop may run high, never low,
\* by the entries live_id removed since a sweep last removed something.
BytesHeld ==
    LET held == TotalSize(dDrop, Held) IN
    /\ held <= dTotal /\ dTotal <= DCap
    /\ dMode # "plain" => dTotal = held

\* A release stands.  Once a drop may be read it stays so until it is read
\* out or erased by its owner, or its window is over, which runs from the
\* first request that met it released, or from the release itself if none did
\* ("recipients aren't shortchanged", failsafe/src/main.rs:317; "a met quorum
\* is final", quorum/src/main.rs:414).
ReleaseStands ==
    [][\A id \in DIds : id \in Held /\ Released(dDrop[id]) =>
          LET e == dDrop[id]
              from == IF dSeen[id] # 0 THEN dSeen[id]
                      ELSE IF e.mode = "plain" THEN e.expires ELSE e.opens
          IN  /\ dFate'[id] = "held" => Released(dDrop[id])'
              /\ dFate'[id] = "lapsed" =>
                     dClock >= (IF e.mode = "plain" THEN e.expires ELSE from + e.window)]_dVars
=============================================================================
