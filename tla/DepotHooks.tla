----------------------------- MODULE DepotHooks -----------------------------
(***************************************************************************)
(* The webhook queue of one depot server (depot/src/hooks.rs).  A push     *)
(* queues one delivery per hook that watches the repository, and the event *)
(* loop makes one attempt between requests.  Receivers answer, refuse or   *)
(* hang as they like; the server may stop at any moment, and what it holds *)
(* in memory goes with it.  A delivery is a pair of an event and a hook,   *)
(* and an instant not yet reached is the flag "due".                       *)
(***************************************************************************)
EXTENDS Naturals, Sequences, SequencesExt, FiniteSetsExt

CONSTANTS
    HHooks,     \* the configured hooks, a set of numbers in configuration order
    HEvents,    \* how many pushes are announced
    HCap,       \* deliveries the queue takes (1000 in the code)
    HTries,     \* attempts before a delivery is given up (6 in the code)
    HMaxStops   \* how often the server stops and starts again

ASSUME HookAssumption ==
    /\ HHooks \subseteq Nat /\ HHooks # {}
    /\ HEvents \in Nat /\ HCap \in Nat \ {0} /\ HTries \in Nat \ {0}
    /\ HMaxStops \in Nat

VARIABLES
    hQueue,     \* Queue.q: the deliveries waiting, oldest place first
    hDelivered, \* Queue.delivered
    hFailed,    \* Queue.failed
    hPushed,    \* pushes announced so far; the next one's number is one more
    hFate,      \* what became of a delivery that is not queued
    hStops      \* how often the server has stopped

hVars == <<hQueue, hDelivered, hFailed, hPushed, hFate, hStops>>

Deliveries == (1..HEvents) \X HHooks
Waiting(d) == \E i \in DOMAIN hQueue : hQueue[i].of = d
Became(fate) == {d \in Deliveries : hFate[d] = fate}

HInit ==
    /\ hQueue = <<>>
    /\ hDelivered = 0 /\ hFailed = 0 /\ hPushed = 0 /\ hStops = 0
    /\ hFate = [d \in Deliveries |-> "unknown"]

-----------------------------------------------------------------------------
\* push_event: one delivery per watching hook, in the order of the
\* configuration, as long as the queue has room: the cap is checked for each.
Room(queue) == Len(queue) < HCap

Enqueue(queue, d) ==
    IF Room(queue)
    THEN Append(queue, [of |-> d, tries |-> 0, due |-> TRUE])
    ELSE queue

PushEvent(watching) ==
    /\ hPushed < HEvents
    /\ hPushed' = hPushed + 1
    /\ LET new == [i \in 1..Cardinality(watching) |->
                       <<hPushed', SetToSortSeq(watching, <)[i]>>]
           queue == FoldLeft(Enqueue, hQueue, new)
           taken == {queue[i].of : i \in DOMAIN queue}
       IN /\ hQueue' = queue
          /\ hFate' = [d \in Deliveries |->
                           IF d \in ToSet(new) \ taken THEN "refused" ELSE
                           IF d \in ToSet(new) THEN "queued" ELSE hFate[d]]
    /\ UNCHANGED <<hDelivered, hFailed, hStops>>

\* tick: the first delivery in the queue that is due leaves it for an attempt.
FirstDue(i) ==
    /\ i \in DOMAIN hQueue /\ hQueue[i].due
    /\ \A j \in 1..(i - 1) : ~hQueue[j].due

Answered2xx ==
    \E i \in DOMAIN hQueue :
        /\ FirstDue(i)
        /\ hQueue' = RemoveAt(hQueue, i)
        /\ hDelivered' = hDelivered + 1
        /\ hFate' = [hFate EXCEPT ![hQueue[i].of] = "delivered"]
        /\ UNCHANGED <<hFailed, hPushed, hStops>>

\* Variant: the attempts a delivery has had are not counted on its way back.
TriedNot(d) == d.tries

Tried(d) == d.tries + 1

\* Any other answer, or none: the last attempt gives up, an earlier one
\* sends the delivery to the back of the queue, to wait out its back-off.
Refused ==
    \E i \in DOMAIN hQueue :
        LET tries == Tried(hQueue[i]) IN
        /\ FirstDue(i)
        /\ IF tries >= HTries
           THEN /\ hQueue' = RemoveAt(hQueue, i)
                /\ hFailed' = hFailed + 1
                /\ hFate' = [hFate EXCEPT ![hQueue[i].of] = "failed"]
           ELSE /\ hQueue' = Append(RemoveAt(hQueue, i),
                        [hQueue[i] EXCEPT !.tries = tries, !.due = FALSE])
                /\ UNCHANGED <<hFailed, hFate>>
        /\ UNCHANGED <<hDelivered, hPushed, hStops>>

Tick == Answered2xx \/ Refused

\* not_before is reached.
BackOffEnds(i) ==
    /\ i \in DOMAIN hQueue /\ ~hQueue[i].due
    /\ hQueue' = [hQueue EXCEPT ![i].due = TRUE]
    /\ UNCHANGED <<hDelivered, hFailed, hPushed, hFate, hStops>>

\* The queue and its counters live in memory only.
Stop ==
    /\ hStops < HMaxStops
    /\ hStops' = hStops + 1
    /\ hQueue' = <<>> /\ hDelivered' = 0 /\ hFailed' = 0
    /\ hFate' = [d \in Deliveries |->
                     IF hFate[d] = "queued" THEN "lost"
                     ELSE IF hFate[d] \in {"delivered", "failed"} THEN "settled"
                     ELSE hFate[d]]
    /\ UNCHANGED hPushed

HNext ==
    \/ \E watching \in SUBSET HHooks : PushEvent(watching)
    \/ Tick
    \/ \E i \in DOMAIN hQueue : BackOffEnds(i)
    \/ Stop

HSpec == HInit /\ [][HNext]_hVars

\* The event loop comes to the hooks whenever no connection moves, and
\* instants are reached; what receivers answer and whether anybody pushes is
\* theirs to choose.
HFairSpec ==
    /\ HSpec
    /\ WF_hVars(Tick)
    /\ WF_hVars(\E i \in DOMAIN hQueue : BackOffEnds(i))

-----------------------------------------------------------------------------
\* What the variables are; and the status page adds up: the deliveries a push
\* queued and no crash lost are each in exactly one place, waiting once in the
\* queue or counted once as delivered or as failed.
HTypeOK ==
    /\ hQueue \in Seq([of : Deliveries, tries : 0..(HTries - 1), due : BOOLEAN])
    /\ Len(hQueue) <= HCap
    /\ hPushed \in 0..HEvents /\ hStops \in 0..HMaxStops
    /\ hFate \in [Deliveries -> {"unknown", "queued", "refused", "delivered",
                                 "failed", "settled", "lost"}]
    /\ Cardinality({hQueue[i].of : i \in DOMAIN hQueue}) = Len(hQueue)
    /\ \A d \in Deliveries : Waiting(d) <=> hFate[d] = "queued"
    /\ hDelivered = Cardinality(Became("delivered"))
    /\ hFailed = Cardinality(Became("failed"))

\* However the other hooks fail, a queued delivery is delivered or given up
\* in the end, unless the server stops first: a retry waits behind the rest
\* of the queue and is counted (tick).
QueuedSettles ==
    \A d \in Deliveries : hFate[d] = "queued" ~> hFate[d] # "queued"
=============================================================================
