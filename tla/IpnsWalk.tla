------------------------------- MODULE IpnsWalk -------------------------------
(***************************************************************************)
(* A walk of ipns-publisher's DHT engine (ipns-publisher/src/p2p.rs, with  *)
(* the bookkeeping of kad.rs): dial the closest peers that are known, ask  *)
(* each for the record and for peers that are closer, until nothing closer *)
(* is left; then end there (a recovery) or store the record with the       *)
(* closest that answered (a publication).  Peers refuse, stall, reset and  *)
(* talk nonsense as they like.  A peer is its rank by distance, 1 being    *)
(* the closest; the handshakes up to the first kad stream are one rung.    *)
(* IpnsPublisher sees of a walk that it ends, and what it found or stored. *)
(***************************************************************************)
EXTENDS Naturals, FiniteSets, FiniteSetsExt

CONSTANTS
    KPeers,         \* the peers, numbers by distance
    KBootstrap,     \* those in the configuration, with their addresses
    KTells,         \* what a peer may say of others: sets of [peer, addressed]
    KHolds,         \* the sequence of the record a peer holds, 0 for none
    KStores,        \* peers a record is stored with (K, 20 in the code)
    KMaxDials       \* connections at a time (MAX_DIALS, 12 in the code)

ASSUME WalkAssumption ==
    /\ KPeers \subseteq Nat \ {0} /\ KBootstrap \subseteq KPeers /\ KBootstrap # {}
    /\ KHolds \in [KPeers -> Nat] /\ {KStores, KMaxDials} \subseteq Nat \ {0}
    /\ KTells \in [KPeers -> SUBSET SUBSET [peer : KPeers, addressed : BOOLEAN]]

VARIABLES
    kDht,   \* Dht, and the Lookup in it
    kTried, \* peers the walk dialed, or tried to
    kStored \* peers the record got to

kVars == <<kDht, kTried, kStored>>

(***************************************************************************)
(* cand is the state of a candidate, "unknown" if it is none; addressed    *)
(* those with an address.  conns are the connections, by their peer:       *)
(* "none", "climbing", "asked", and "flushing" when all is said.           *)
(***************************************************************************)
\* add_peer, for each peer of a list that names none twice.
AddAll(dht, told) ==
    LET named == {t.peer : t \in told}
        reachable == {t.peer : t \in {x \in told : x.addressed}}
    IN  [dht EXCEPT
            !.addressed = @ \cup reachable,
            !.cand = [p \in KPeers |->
                         IF p \notin named \/ @[p] \notin {"unknown", "failed"} THEN @[p]
                         ELSE IF p \in reachable THEN "fresh" ELSE "failed"]]

NoConns == [p \in KPeers |-> "none"]

\* begin_walk
Begun(job) ==
    AddAll([state |-> "walking", job |-> job, cand |-> [p \in KPeers |-> "unknown"],
            addressed |-> {}, dialed |-> {}, conns |-> NoConns, queue |-> {},
            ok |-> 0, best |-> 0],
           {[peer |-> p, addressed |-> TRUE] : p \in KBootstrap})

KInit ==
    /\ \E job \in {"recover", "publish"} : kDht = Begun(job)
    /\ kTried = {} /\ kStored = {}

-------------------------------------------------------------------------------
\* The lookup, and how a walk goes on after each slice of drive.

In(dht, state) == {p \in KPeers : dht.cand[p] = state}
Open(dht) == {p \in KPeers : dht.conns[p] # "none"}

\* closest: of those that answered, the closest there is room for.
Rank(p, S) == Cardinality({q \in S : q <= p})
Closest(dht) == LET S == In(dht, "responded") IN {p \in S : Rank(p, S) <= KStores}

\* next_fresh, all it chooses from: nobody farther than the last of the chosen is asked.
Fresh(dht) ==
    LET chosen == Closest(dht)
    IN  {p \in In(dht, "fresh") : Cardinality(chosen) = KStores => \E c \in chosen : p < c}

\* Variant: answers that are due are not waited for.
LookupDoneEarly(dht) == In(dht, "responded") # {} /\ Fresh(dht) = {}

\* done
LookupDone(dht) == In(dht, "responded") # {} /\ In(dht, "querying") = {} /\ Fresh(dht) = {}

\* Variant: a candidate that was asked is waited for, connected or not.
StalledUnasked(dht) == Open(dht) = {} /\ Fresh(dht) = {} /\ In(dht, "querying") = {}

\* Nothing is under way, and nobody is left to dial.
Stalled(dht) == Open(dht) = {} /\ Fresh(dht) = {}

\* finish_publish
Ended(dht) ==
    [dht EXCEPT !.conns = NoConns, !.queue = {}, !.state = IF dht.ok > 0 THEN "done" ELSE "failed"]

\* begin_storing
Storing(dht) ==
    IF In(dht, "responded") = {} THEN Ended(dht)
    ELSE [dht EXCEPT !.state = "storing", !.conns = NoConns, !.dialed = {},
                     !.queue = Closest(dht)]

\* check_convergence, which ends every slice of drive.
Converged(dht) ==
    IF dht.state # "walking" \/ ~(LookupDone(dht) \/ Stalled(dht)) THEN dht
    ELSE IF dht.job = "recover" THEN [dht EXCEPT !.conns = NoConns, !.state = "done"]
    ELSE Storing(dht)
AllStored(dht) == dht.state = "storing" /\ Open(dht) = {} /\ dht.queue = {}
Becomes(dht) ==
    \E now \in {dht} : \E next \in {Converged(now)} :
        kDht' = IF AllStored(next) THEN Ended(next) ELSE next

\* reap: a connection is over; a peer that owes an answer has failed.
Reaped(dht, p) ==
    [dht EXCEPT !.conns[p] = "none", !.cand[p] = IF @ = "querying" THEN "failed" ELSE @]

-------------------------------------------------------------------------------
\* drive

DialRoom == Cardinality(Open(kDht)) < KMaxDials
Nearest == Min(Fresh(kDht))

\* spawn_dials: the closest fresh candidate, once in a walk.
Dial(connected) ==
    /\ kDht.state = "walking" /\ DialRoom /\ Fresh(kDht) # {}
    /\ LET p == Nearest
           asked == [kDht EXCEPT !.cand[p] = "querying", !.dialed = @ \cup {p}]
       IN  /\ Becomes(IF p \in kDht.dialed THEN asked
                              ELSE IF connected THEN [asked EXCEPT !.conns[p] = "climbing"]
                              ELSE [asked EXCEPT !.cand[p] = "failed"])
           /\ kTried' = kTried \cup {p}
    /\ UNCHANGED kStored

\* spawn_store_dials
StoreDial(connected) ==
    /\ kDht.state = "storing" /\ DialRoom /\ kDht.queue # {}
    /\ LET p == Min(kDht.queue)
           left == [kDht EXCEPT !.queue = @ \ {p}]
       IN  Becomes(IF connected THEN [left EXCEPT !.conns[p] = "climbing"]
                           ELSE left)
    /\ UNCHANGED <<kTried, kStored>>

\* A kad stream is open and its request queued.  A question waits for its answer; a PUT has
\* none, and counts as stored.
Ask(p) ==
    /\ kDht.conns[p] = "climbing"
    /\ kDht' = IF kDht.state = "walking" THEN [kDht EXCEPT !.conns[p] = "asked"]
               ELSE [kDht EXCEPT !.conns[p] = "flushing", !.ok = @ + 1]
    /\ UNCHANGED <<kTried, kStored>>

\* The answer names peers, and gives the record if the peer has one.
Answer(p, told) ==
    /\ kDht.conns[p] = "asked"
    /\ LET seen == [kDht EXCEPT !.conns[p] = "flushing",
                                !.best = IF KHolds[p] > @ THEN KHolds[p] ELSE @]
       IN  Becomes([AddAll(seen, told) EXCEPT !.cand[p] = "responded"])
    /\ UNCHANGED <<kTried, kStored>>

\* All streams are done and all bytes have left.
CloseConn(p) ==
    /\ kDht.conns[p] = "flushing"
    /\ kStored' = IF kDht.state = "storing" THEN kStored \cup {p} ELSE kStored
    /\ Becomes(Reaped(kDht, p))
    /\ UNCHANGED kTried

\* A handshake fails, the peer resets, sends nonsense, or stalls for CONN_STALL.
Break(p) ==
    /\ kDht.conns[p] # "none"
    /\ Becomes(Reaped(kDht, p))
    /\ UNCHANGED <<kTried, kStored>>

\* PUBLISH_DEADLINE
Deadline ==
    /\ kDht.state \in {"walking", "storing"}
    /\ kDht' = Ended(kDht)
    /\ UNCHANGED <<kTried, kStored>>

Drive ==
    \/ \E connected \in BOOLEAN : Dial(connected) \/ StoreDial(connected)
    \/ \E p \in KPeers : Ask(p) \/ CloseConn(p) \/ Break(p) \/ \E told \in KTells[p] : Answer(p, told)

KNext == Drive \/ Deadline

KSpec == KInit /\ [][KNext]_kVars

\* The event loop drives the engine, and CONN_STALL ends what does not move.
KFairSpec == KSpec /\ WF_kVars(Drive)

-------------------------------------------------------------------------------
\* Properties.

KTypeOK ==
    /\ kDht.state \in {"walking", "storing", "done", "failed"}
    /\ kDht.cand \in [KPeers -> {"unknown", "fresh", "querying", "responded", "failed"}]
    /\ kDht.conns \in [KPeers -> {"none", "climbing", "asked", "flushing"}]
    /\ Cardinality(Open(kDht)) <= KMaxDials
    /\ kDht.dialed \subseteq kTried /\ kDht.ok <= KStores
    /\ kTried \cup kStored \cup kDht.queue \subseteq KPeers

\* A record is stored with the closest peers there are to be found: when a walk converges,
\* whoever of the known peers has an address and is closer than the farthest of the chosen
\* (or there are fewer than KStores of these) was dialed and has failed; nobody's answer is
\* still under way.
StoresClosest ==
    [][kDht.state = "walking" /\ kDht'.state = "storing" =>
          LET chosen == kDht'.queue
          IN  \A p \in kDht'.addressed \ chosen :
                 \/ /\ p \in kTried' /\ kDht'.cand[p] # "responded"
                    /\ kDht'.cand[p] = "querying" => kDht.conns[p] = "none"
                 \/ Cardinality(chosen) = KStores /\ \A c \in chosen : c < p]_kVars

\* A walk ends by itself, well before its deadline: no peer keeps it, whether it stalls,
\* is heard of again after it failed, or never answers.
WalkEnds == <>(kDht.state \in {"done", "failed"})
===============================================================================
