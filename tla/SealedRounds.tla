----------------------------- MODULE SealedRounds -----------------------------
(***************************************************************************)
(* One round of gavel (a sealed auction), fairdraw (a drawing), yardstick  *)
(* (a survey of numbers) or ballot (a poll), from its creation until it    *)
(* is gone.  The four programs keep rounds the same way: what is submitted *)
(* with a token replaces what that token submitted, a close by the admin,  *)
(* a deadline or a late request fixes the result, and a sweep that comes   *)
(* at intervals closes what is due and drops what is old.  Tokens are      *)
(* numbered in the order they first submit, which is their slot; names,    *)
(* hashes and salts are left out, and a roll of the draw is any number.    *)
(***************************************************************************)
EXTENDS Naturals, Sequences, SequencesExt, FiniteSets, FiniteSetsExt

CONSTANTS
    RSetups,        \* the rounds a creator may ask for
    RValues,        \* the amounts, numbers or options submitted
    RSweep,         \* the interval of the sweep (15 or 30 seconds)
    RClosedLinger,  \* CLOSED_LINGER
    RCancelLinger,  \* CANCEL_LINGER
    RMaxClock       \* bound: the clock

\* deadline and ttl are times, or 0 for none; param is the reserve, the number
\* of winners or the quorum; most is MAX_BIDS, MAX_ENTRIES, MAX_SUBS, MAX_VOTERS.
ASSUME RoundAssumption ==
    /\ RSetups \subseteq [kind : {"first", "second", "draw", "survey", "poll"},
                          deadline : Nat, ttl : Nat, param : Nat, most : Nat]
    /\ \A setup \in RSetups : setup.kind = "survey" => setup.param > 0  \* MIN_QUORUM
    /\ RValues \subseteq Nat
    /\ {RSweep, RClosedLinger, RCancelLinger} \subseteq Nat \ {0} /\ RMaxClock \in Nat

VARIABLES
    rSetup,     \* what the creator asked for
    rState,     \* "open", "closed", "cancelled" or "gone"
    rSubs,      \* what each slot holds: bids, entries, subs or voters
    rCounts,    \* Poll.counts
    rResult,    \* what the close fixed; <<>> before
    rClosedAt,  \* closed_at
    rClock, rSwept,     \* now, and when the sweep ran last
    rLast       \* per slot, the last value accepted in time

rVars == <<rSetup, rState, rSubs, rCounts, rResult, rClosedAt, rClock, rSwept, rLast>>
rTimes == <<rClock, rSwept>>

Auction == rSetup.kind \in {"first", "second"}
Past(time) == time # 0 /\ time <= rClock

\* api_create
RInit ==
    /\ rSetup \in RSetups
    /\ rState = "open" /\ rSubs = <<>> /\ rLast = <<>> /\ rResult = <<>>
    /\ rCounts = [v \in RValues |-> 0]
    /\ rClosedAt = 0 /\ rClock = 0 /\ rSwept = 0

-----------------------------------------------------------------------------
\* The results, computed from what the slots hold.

\* Variant: of equal bids the later one wins.
LatestHighest(bids) ==
    CHOOSE i \in DOMAIN bids : \A j \in DOMAIN bids :
        bids[i] > bids[j] \/ (bids[i] = bids[j] /\ i >= j)

Highest(bids) ==
    CHOOSE i \in DOMAIN bids : \A j \in DOMAIN bids :
        bids[i] > bids[j] \/ (bids[i] = bids[j] /\ i <= j)

\* settle: the highest bid wins if it makes the reserve, and pays itself, or
\* the second highest with the reserve as the least.
Settle(bids, reserve) ==
    IF bids = <<>> \/ bids[Highest(bids)] < reserve
    THEN [sold |-> FALSE, winner |-> 0, price |-> 0]
    ELSE LET win == Highest(bids)
             others == {bids[i] : i \in DOMAIN bids \ {win}}
         IN  [sold |-> TRUE, winner |-> win,
              price |-> IF rSetup.kind = "first" THEN bids[win]
                        ELSE Max(others \cup {reserve, 1})]

\* pick_winners: the front of a Fisher-Yates shuffle.
PickWinners(n, k, rolls) ==
    LET swap(idx, i) == [idx EXCEPT ![i] = idx[i + rolls[i]], ![i + rolls[i]] = idx[i]]
    IN  SubSeq(FoldLeft(swap, [i \in 1..n |-> i], [i \in 1..k |-> i]), 1, k)

\* sort_unstable: the k-th in order is the least that k of them do not exceed.
Sorted(subs) ==
    LET upTo(v) == Cardinality({i \in DOMAIN subs : subs[i] <= v})
    IN  [k \in DOMAIN subs |-> Min({subs[i] : i \in {j \in DOMAIN subs : upTo(subs[j]) >= k}})]

\* close_measure: nothing below the quorum; a median and a mean in tenths, and
\* quartiles by nearest rank from five numbers on.
Measure(subs) ==
    LET n == Len(subs)
        vals == Sorted(subs)
        sum == FoldLeft(+, 0, subs)
    IN  IF n < rSetup.param THEN [revealed |-> FALSE]
        ELSE [revealed |-> TRUE,
              median |-> IF n % 2 = 1 THEN vals[n \div 2 + 1] * 10
                         ELSE (vals[n \div 2] + vals[n \div 2 + 1]) * 5,
              mean |-> (sum * 10 + n \div 2) \div n,
              quartiles |-> IF n >= 5
                            THEN <<vals[(n + 3) \div 4], vals[(3 * n + 3) \div 4]>>
                            ELSE <<>>]

\* close_auction, close_draw, close_measure and api_close of a poll: the
\* result is fixed, and what it does not need is erased from the slots.
CloseRound ==
    /\ rState = "open"
    /\ rState' = "closed" /\ rClosedAt' = rClock
    /\ CASE Auction ->
              /\ rResult' = <<Settle(rSubs, rSetup.param)>>
              /\ rSubs' = [i \in DOMAIN rSubs |->
                     IF rSetup.kind = "first" /\ i = rResult'[1].winner
                     THEN rSubs[i] ELSE 0]
         [] rSetup.kind = "draw" ->
              LET n == Len(rSubs)
                  k == Min({rSetup.param, n})
              IN  /\ \E rolls \in [1..k -> 0..n] :
                         /\ \A i \in 1..k : rolls[i] <= n - i
                         /\ rResult' = <<PickWinners(n, k, rolls)>>
                  /\ rSubs' = rSubs
         [] rSetup.kind = "survey" ->
              /\ rResult' = <<Measure(rSubs)>>
              /\ rSubs' = [i \in DOMAIN rSubs |-> 0]
         [] OTHER -> rResult' = <<rCounts>> /\ rSubs' = rSubs
    /\ UNCHANGED <<rSetup, rCounts, rLast>>

RoundGone ==
    /\ rState' = "gone"
    /\ rSubs' = <<>> /\ rResult' = <<>>
    /\ UNCHANGED <<rSetup, rCounts, rClosedAt, rLast>>

-----------------------------------------------------------------------------
Overdue == Past(rSetup.deadline)
Expired == Past(rSetup.ttl)

\* live_auction, live_measure, live_draw, live_poll on a round whose time is
\* up.  An expired round is dropped and an overdue one closed before the
\* request is served; a draw is closed so only by an entry, and an entry, bid
\* or number is refused then.
LateRequest ==
    /\ rState = "open"
    /\ \/ Expired /\ RoundGone
       \/ ~Expired /\ Overdue /\ CloseRound
    /\ UNCHANGED rTimes

Running == rState = "open" /\ ~Expired /\ ~Overdue

\* api_bid, api_enter, api_submit, api_vote: a token that is known replaces
\* its own, a new one takes the next slot while there is one.
Submit(i, value) ==
    /\ Running
    /\ i \in 1..(Len(rSubs) + 1) /\ i <= rSetup.most
    /\ rSubs' = IF i \in DOMAIN rSubs THEN [rSubs EXCEPT ![i] = value]
                ELSE Append(rSubs, value)
    /\ rLast' = IF Past(rSetup.deadline) THEN rLast
                ELSE [j \in DOMAIN rSubs' |-> IF j = i THEN value ELSE rLast[j]]
    /\ rCounts' = IF rSetup.kind = "poll"
                  THEN LET left == IF i \in DOMAIN rSubs
                                   THEN [rCounts EXCEPT ![rSubs[i]] = @ - 1]
                                   ELSE rCounts
                       IN  [left EXCEPT ![value] = @ + 1]
                  ELSE rCounts
    /\ UNCHANGED <<rSetup, rState, rResult, rClosedAt, rTimes>>

\* api_close; the admin of a draw may close it after its deadline.
AdminCloses ==
    /\ Running \/ (rSetup.kind = "draw" /\ ~Expired)
    /\ CloseRound
    /\ UNCHANGED rTimes

\* api_cancel, of auctions alone: the bids are erased.
Cancel ==
    /\ Auction /\ Running
    /\ rState' = "cancelled" /\ rClosedAt' = rClock
    /\ rSubs' = <<>>
    /\ UNCHANGED <<rSetup, rCounts, rResult, rLast, rTimes>>

\* The sweep: deadlines first, then open rounds that expired and closed ones
\* that lingered long enough are dropped.
SweptRound ==
    IF rState = "open" /\ Overdue THEN CloseRound
    ELSE IF \/ rState = "open" /\ Expired
            \/ rState = "closed" /\ rClosedAt + RClosedLinger <= rClock
            \/ rState = "cancelled" /\ rClosedAt + RCancelLinger <= rClock
    THEN RoundGone
    ELSE UNCHANGED <<rSetup, rState, rSubs, rCounts, rResult, rClosedAt, rLast>>

Due == rClock - rSwept >= RSweep
Sweep ==
    /\ Due
    /\ rSwept' = rClock
    /\ SweptRound
    /\ UNCHANGED rClock

\* A second passes; the loop turns within it.
Second ==
    /\ ~Due /\ rClock < RMaxClock
    /\ rClock' = rClock + 1
    /\ UNCHANGED <<rSetup, rState, rSubs, rCounts, rResult, rClosedAt, rSwept, rLast>>

RNext ==
    \/ \E i \in 1..(Len(rSubs) + 1), value \in RValues : Submit(i, value)
    \/ LateRequest \/ AdminCloses \/ Cancel \/ Sweep \/ Second

RSpec == RInit /\ [][RNext]_rVars

-----------------------------------------------------------------------------
RTypeOK ==
    /\ rSetup \in RSetups /\ rState \in {"open", "closed", "cancelled", "gone"}
    /\ rSubs \in Seq(RValues \cup {0}) /\ rLast \in Seq(RValues)
    /\ rCounts \in [RValues -> Nat]
    /\ rResult # <<>> <=> rState = "closed"
    /\ {rClosedAt, rClock, rSwept} \subseteq 0..RMaxClock

\* What the results are meant to be, said of the last value of every token
\* that was accepted in time.
AuctionRight(result) ==
    LET most == Max({rLast[i] : i \in DOMAIN rLast} \cup {0})
        w == result.winner
        others == {rLast[i] : i \in DOMAIN rLast \ {w}}
    IN  /\ result.sold <=> rLast # <<>> /\ most >= rSetup.param
        /\ result.sold =>
               /\ rLast[w] = most /\ \A i \in 1..(w - 1) : rLast[i] < most
               /\ IF rSetup.kind = "first" THEN result.price = most
                  ELSE \* the least she could have bid and won, as the earliest
                       /\ \A p \in others \cup {rSetup.param, 1} : p <= result.price
                       /\ result.price \in others \cup {rSetup.param, 1}

DrawRight(winners) ==
    /\ Len(winners) = Min({rSetup.param, Len(rLast)})
    /\ ToSet(winners) \subseteq DOMAIN rLast
    /\ Cardinality(ToSet(winners)) = Len(winners)

SurveyRight(result) ==
    LET n == Len(rLast)
        upTo(v10) == Cardinality({i \in DOMAIN rLast : rLast[i] * 10 <= v10})
        from(v10) == Cardinality({i \in DOMAIN rLast : rLast[i] * 10 >= v10})
        tenth == FoldLeft(+, 0, rLast) * 10
        rank(v, q) == 4 * upTo(v * 10) >= q * n /\ 4 * from(v * 10) >= (4 - q) * n
    IN  /\ result.revealed <=> n >= rSetup.param
        /\ result.revealed =>
               /\ 2 * upTo(result.median) >= n /\ 2 * from(result.median) >= n
               /\ 2 * result.mean * n <= 2 * tenth + n /\ 2 * tenth < 2 * result.mean * n + n
               /\ n >= 5 <=> result.quartiles # <<>>
               /\ n >= 5 => rank(result.quartiles[1], 1) /\ rank(result.quartiles[2], 3)

PollRight(counts) ==
    \A v \in RValues : counts[v] = Cardinality({i \in DOMAIN rLast : rLast[i] = v})

\* However a round comes to be closed, its result is that of the values that
\* were accepted last and in time: the highest bid in, earliest of equals, at
\* the price the mode sets; winners without repetition; order statistics; a
\* count of ballots with every moved one counted once.
ResultRight ==
    rState = "closed" =>
        CASE Auction -> AuctionRight(rResult[1])
          [] rSetup.kind = "draw" -> DrawRight(rResult[1])
          [] rSetup.kind = "survey" -> SurveyRight(rResult[1])
          [] OTHER -> PollRight(rResult[1])
=============================================================================
