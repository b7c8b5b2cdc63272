----------------------------- MODULE Backchannel -----------------------------
(***************************************************************************)
(* One chat room of backchannel: the relay (backchannel/src/main.rs, with  *)
(* the streams of httpd.rs) and the pages that are in the room             *)
(* (backchannel/src/ui.html).  A page hears of messages on an event stream *)
(* and fetches the history over another connection, so the relay handles   *)
(* the two in any order.  A stream may break at any time, which the relay  *)
(* notices later; a page may leave and come back, a fetch may fail, and    *)
(* the beacon of a page that left may be late or lost.                     *)
(* A message is its blob, an id here; the relay gives it a number, its     *)
(* place in cLog.  Nothing depends on what is sealed in it.  A page shows  *)
(* its own message before it has a number, and a message of others when it *)
(* is decrypted, which ends in any order: how often a message is shown is  *)
(* kept, and not in which place.                                           *)
(***************************************************************************)
EXTENDS Naturals, Sequences, SequencesExt, FiniteSetsExt

CONSTANTS
    CTabs,          \* the pages (browser tabs)
    CRingCap,       \* RING_CAP: messages the relay holds (200 in the code)
    CMaxMessages,   \* bound: messages written
    CMaxFaults      \* bound: broken streams, failed fetches and pages that leave

ASSUME ChatAssumption ==
    CRingCap \in Nat \ {0} /\ {CMaxMessages, CMaxFaults} \subseteq Nat

VARIABLES
    cAlive,     \* the room exists
    cLog,       \* the blobs the relay took, by their number (Room.seq is its length)
    cDrawn,     \* blobs written so far
    cPosts,     \* the pages' own that are on their way to the relay, or were lost
    cPresent,   \* Room.last_present
    cTab,       \* the pages, with the relay's end of their streams
    cFaults     \* how often something went wrong, or a page left

cVars == <<cAlive, cLog, cDrawn, cPosts, cPresent, cTab, cFaults>>

cSeq == Len(cLog)

(***************************************************************************)
(* es is the page's EventSource; wire what the relay wrote to the stream   *)
(* and the page has not heard; ghosts the streams of this tab the relay    *)
(* still counts although nobody listens; beacons the leaves on their way.  *)
(* ask is the fetch of the history the page waits for and answer what the  *)
(* relay said, <<>> before it did.  shown counts the bubbles of a blob,    *)
(* pending is pendingByBlob; seen, histSeq, lastN and queue hold numbers.  *)
(* reading is the message of the history that is being decrypted (0: none),*)
(* opening are those handleMsg decrypts; here is the number in "N here".   *)
(***************************************************************************)
Blobs == 1..CMaxMessages

Away ==
    [es |-> "none", wire |-> <<>>, ask |-> "none", answer |-> <<>>,
     loaded |-> FALSE, histSeq |-> 0, lastN |-> 0, seen |-> {}, reading |-> 0,
     opening |-> {}, queue |-> {}, shown |-> [b \in Blobs |-> 0], pending |-> {},
     here |-> 0, ghosts |-> 0, beacons |-> 0]

CInit ==
    /\ cAlive = TRUE /\ cLog = <<>> /\ cDrawn = 0 /\ cPosts = {} /\ cPresent = 0
    /\ cTab = [c \in CTabs |-> Away]
    /\ cFaults = 0

\* Variant: the oldest is freed when it is too late by one.
OldestBehind(seq) == IF seq < CRingCap THEN 1 ELSE seq - CRingCap

\* The numbers the ring holds: the newest.
Oldest(seq) == IF seq <= CRingCap THEN 1 ELSE seq - CRingCap + 1
Ring(seq) == Oldest(seq)..seq

\* sse_count, over the streams of all pages.
Listening(tabs) == {c \in CTabs : tabs[c].es = "open"}
SseCount(tabs) ==
    Cardinality(Listening(tabs)) + MapThenSumSet(LAMBDA c : tabs[c].ghosts, CTabs)

\* broadcast: everyone who listens, in the order of the broadcasts.
Broadcast(tabs, kind, n) ==
    [c \in CTabs |-> IF c \in Listening(tabs)
                     THEN [tabs[c] EXCEPT !.wire = Append(@, [kind |-> kind, n |-> n])]
                     ELSE tabs[c]]

-----------------------------------------------------------------------------
\* The relay.

\* A blob nobody has seen.
NewBlob == {cDrawn + 1} \cap Blobs

\* api_msg, for a post of one of the pages or of somebody else: numbered, put in
\* the ring in place of the oldest, fanned out.
ApiMsg ==
    /\ cAlive
    /\ \E b \in cPosts \cup NewBlob :
           /\ cLog' = Append(cLog, b)
           /\ cPosts' = cPosts \ {b}
           /\ cDrawn' = IF b \in NewBlob THEN b ELSE cDrawn
    /\ cTab' = Broadcast(cTab, "msg", cSeq + 1)
    /\ UNCHANGED <<cAlive, cPresent, cFaults>>

\* api_history, for the fetch a page waits for: the ring as it is now.
ApiHistory(c) ==
    /\ cTab[c].ask # "none" /\ cTab[c].answer = <<>>
    /\ cTab' = [cTab EXCEPT ![c].answer = <<[ok |-> cAlive, seq |-> cSeq]>>]
    /\ UNCHANGED <<cAlive, cLog, cDrawn, cPosts, cPresent, cFaults>>

\* api_stream: the first event counts the newcomer too; last_present is left.
\* A refusal ends an EventSource for good.
ApiStream(c) ==
    /\ cTab[c].es = "connecting"
    /\ cTab' = IF cAlive
               THEN [cTab EXCEPT ![c].es = "open",
                        ![c].wire = <<[kind |-> "hello", n |-> SseCount(cTab) + 1]>>]
               ELSE [cTab EXCEPT ![c].es = "closed"]
    /\ UNCHANGED <<cAlive, cLog, cDrawn, cPosts, cPresent, cFaults>>

\* api_leave: every stream of the tab is dropped, also one a reload opened
\* before the beacon arrived (that page will connect again).
ApiLeave(c) ==
    /\ cTab[c].beacons > 0
    /\ LET open == cTab[c].es = "open"
           dropped == cTab[c].ghosts + (IF open THEN 1 ELSE 0)
           tabs == [cTab EXCEPT ![c].beacons = @ - 1, ![c].ghosts = 0,
                                ![c].es = IF open THEN "connecting" ELSE @,
                                ![c].wire = IF open THEN <<>> ELSE @]
           n == SseCount(tabs)
       IN  IF dropped > 0 /\ cAlive
           THEN cPresent' = n /\ cTab' = Broadcast(tabs, "present", n)
           ELSE cPresent' = cPresent /\ cTab' = tabs
    /\ UNCHANGED <<cAlive, cLog, cDrawn, cPosts, cFaults>>

\* main, every five seconds: a count that changed is told to who listens.
TickChanges == LET n == SseCount(cTab) IN cAlive /\ n > 0 /\ cPresent # n
PresenceTick ==
    /\ TickChanges
    /\ cPresent' = SseCount(cTab)
    /\ cTab' = Broadcast(cTab, "present", cPresent')
    /\ UNCHANGED <<cAlive, cLog, cDrawn, cPosts, cFaults>>

\* poll or flush finds the socket of a ghost closed, or wedged for too long.
Reap(c) ==
    /\ cTab[c].ghosts > 0
    /\ cTab' = [cTab EXCEPT ![c].ghosts = @ - 1]
    /\ UNCHANGED <<cAlive, cLog, cDrawn, cPosts, cPresent, cFaults>>

\* live_room or the sweep, two hours after the last message; the streams of
\* a room that died stay open and hear nothing more.
RoomDies ==
    /\ cAlive
    /\ cAlive' = FALSE
    /\ UNCHANGED <<cLog, cDrawn, cPosts, cPresent, cTab, cFaults>>

-----------------------------------------------------------------------------
\* The page.

\* enterChat: subscribe, and fetch the history at once.
EnterChat(c) ==
    /\ cTab[c].es = "none"
    /\ cTab' = [cTab EXCEPT ![c].es = "connecting", ![c].ask = "enter"]
    /\ UNCHANGED <<cAlive, cLog, cDrawn, cPosts, cPresent, cFaults>>

\* The chat is shown, before or after its history.
Chatting(t) == t.es \in {"connecting", "open"} \/ t.loaded \/ t.ask = "enter"

\* send: the bubble is there at once, and pending.
Send(c) ==
    /\ Chatting(cTab[c])
    /\ \E b \in NewBlob :
           /\ cDrawn' = b
           /\ cPosts' = cPosts \cup {b}
           /\ cTab' = [cTab EXCEPT ![c].shown[b] = @ + 1, ![c].pending = @ \cup {b}]
    /\ UNCHANGED <<cAlive, cLog, cPresent, cFaults>>

\* The rest of send, where the relay has no room or the room is gone: the bubble
\* is taken back.  Of a request that fails nothing is heard, and it stays.
PostRefused(c) ==
    /\ \E b \in cPosts \cap cTab[c].pending :
           /\ cPosts' = cPosts \ {b}
           /\ cTab' = [cTab EXCEPT ![c].shown[b] = @ - 1, ![c].pending = @ \ {b}]
    /\ UNCHANGED <<cAlive, cLog, cDrawn, cPresent, cFaults>>

\* Variant: only the history is remembered.
SkipsHistory(t, n) == n <= t.histSeq

\* handleMsg skips a message of the history, and one it met before.
Skips(t, n) == n <= t.histSeq \/ n \in t.seen

\* handleMsg up to its await, of several in a row: their order makes no difference
\* before the decryption.  A blob of one's own settles its bubble.
HandleMsgs(t, ns) ==
    LET new == {n \in ns : ~Skips(t, n)}
    IN  [t EXCEPT !.seen = @ \cup new, !.lastN = Max({@} \cup new),
                  !.pending = @ \ {cLog[n] : n \in new},
                  !.opening = @ \cup {n \in new : cLog[n] \notin t.pending}]

\* The rest of handleMsg.
MsgOpened(c) ==
    /\ \E n \in cTab[c].opening :
           cTab' = [cTab EXCEPT ![c].opening = @ \ {n}, ![c].shown[cLog[n]] = @ + 1]
    /\ UNCHANGED <<cAlive, cLog, cDrawn, cPosts, cPresent, cFaults>>

\* The loop of enterChat comes to message n, or is through: then those that came
\* on the stream in the meantime are handled.
ReadOn(t, n) ==
    IF n <= t.histSeq
    THEN [t EXCEPT !.reading = n, !.seen = @ \cup {n}, !.lastN = Max({@, n})]
    ELSE HandleMsgs([t EXCEPT !.reading = 0, !.loaded = TRUE, !.queue = {}], t.queue)

\* The rest of enterChat, when the answer comes.
ShowHistory(t) ==
    LET rest == [t EXCEPT !.ask = "none", !.answer = <<>>]
        seq == t.answer[1].seq
    IN  IF t.answer[1].ok THEN ReadOn([rest EXCEPT !.histSeq = seq], Oldest(seq))
        ELSE [rest EXCEPT !.es = "closed", !.wire = <<>>,
                          !.ghosts = @ + (IF t.es = "open" THEN 1 ELSE 0)]

\* The message of the history is decrypted.
HistoryOpened(c) ==
    LET t == cTab[c]
        n == t.reading
    IN
    /\ n # 0
    /\ cTab' = [cTab EXCEPT ![c] = ReadOn([t EXCEPT !.shown[cLog[n]] = @ + 1], n + 1)]
    /\ UNCHANGED <<cAlive, cLog, cDrawn, cPosts, cPresent, cFaults>>

\* The rest of catchUp: what is newer than the newest it met.
ReplayRing(t) ==
    LET rest == [t EXCEPT !.ask = "none", !.answer = <<>>]
    IN  IF t.answer[1].ok
        THEN HandleMsgs(rest, {n \in Ring(t.answer[1].seq) : n > t.lastN})
        ELSE rest

HistoryArrives(c) ==
    /\ cTab[c].answer # <<>>
    /\ cTab' = [cTab EXCEPT ![c] = IF @.ask = "enter" THEN ShowHistory(@)
                                   ELSE ReplayRing(@)]
    /\ UNCHANGED <<cAlive, cLog, cDrawn, cPosts, cPresent, cFaults>>

\* subscribe's handlers.  The hello is onopen, which catches up once the
\* history is in unless a fetch is on its way (syncing), and onmessage.
Heard(t, event) ==
    CASE event.kind = "hello" ->
            [t EXCEPT !.here = event.n,
                      !.ask = IF t.loaded /\ @ = "none" THEN "again" ELSE @]
      [] event.kind = "present" -> [t EXCEPT !.here = event.n]
      [] event.kind = "msg" ->
            IF t.loaded THEN HandleMsgs(t, {event.n})
            ELSE [t EXCEPT !.queue = @ \cup {event.n}]

EventArrives(c) ==
    LET t == cTab[c] IN
    /\ t.wire # <<>>
    /\ cTab' = [cTab EXCEPT ![c] = Heard([t EXCEPT !.wire = Tail(@)], Head(t.wire))]
    /\ UNCHANGED <<cAlive, cLog, cDrawn, cPosts, cPresent, cFaults>>

\* The stream breaks: what was on its way is lost, the relay still counts it,
\* and the EventSource connects again by itself.
StreamBreaks(c) ==
    /\ cTab[c].es = "open"
    /\ cFaults < CMaxFaults
    /\ cFaults' = cFaults + 1
    /\ cTab' = [cTab EXCEPT ![c].es = "connecting", ![c].wire = <<>>,
                            ![c].ghosts = @ + 1]
    /\ UNCHANGED <<cAlive, cLog, cDrawn, cPosts, cPresent>>

\* A fetch fails: enterChat ends there, catchUp may be tried again.
FetchFails(c) ==
    /\ cTab[c].ask # "none"
    /\ cFaults < CMaxFaults
    /\ cFaults' = cFaults + 1
    /\ cTab' = [cTab EXCEPT ![c].ask = "none", ![c].answer = <<>>]
    /\ UNCHANGED <<cAlive, cLog, cDrawn, cPosts, cPresent>>

\* pagehide: the stream is closed, and the beacon sent or lost.  The tab
\* keeps its tag for the next page it shows.
PageHides(c) ==
    /\ cTab[c].es # "none"
    /\ cFaults < CMaxFaults
    /\ cFaults' = cFaults + 1
    /\ \E sent \in {0, 1} :
           cTab' = [cTab EXCEPT ![c] =
               [Away EXCEPT !.ghosts = cTab[c].ghosts +
                                         (IF cTab[c].es = "open" THEN 1 ELSE 0),
                              !.beacons = cTab[c].beacons + sent]]
    /\ UNCHANGED <<cAlive, cLog, cDrawn, cPosts, cPresent>>

CNext ==
    \/ ApiMsg \/ PresenceTick \/ RoomDies
    \/ \E c \in CTabs :
           \/ ApiHistory(c) \/ ApiStream(c) \/ ApiLeave(c) \/ Reap(c)
           \/ Send(c) \/ PostRefused(c) \/ MsgOpened(c) \/ HistoryOpened(c)
           \/ EnterChat(c) \/ HistoryArrives(c) \/ EventArrives(c)
           \/ StreamBreaks(c) \/ FetchFails(c) \/ PageHides(c)

CSpec == CInit /\ [][CNext]_cVars

-----------------------------------------------------------------------------
CTypeOK ==
    /\ cAlive \in BOOLEAN /\ cDrawn \in 0..CMaxMessages /\ cPresent \in Nat
    /\ cLog \in Seq(1..cDrawn) /\ cPosts \subseteq 1..cDrawn
    /\ cFaults \in 0..CMaxFaults
    /\ \A c \in CTabs : LET t == cTab[c] IN
           /\ t.es \in {"none", "connecting", "open", "closed"}
           /\ t.wire \in Seq([kind : {"hello", "present", "msg"}, n : Nat])
           /\ t.ask \in {"none", "enter", "again"}
           /\ t.answer \in Seq([ok : BOOLEAN, seq : 0..cSeq])
           /\ t.loaded \in BOOLEAN
           /\ {t.histSeq, t.lastN, t.reading} \subseteq 0..cSeq
           /\ t.seen \cup t.opening \cup t.queue \subseteq 1..cSeq
           /\ t.shown \in [Blobs -> Nat] /\ t.pending \subseteq 1..cDrawn
           /\ {t.here, t.ghosts, t.beacons} \subseteq Nat

\* What a page met and has decrypted, or had shown already.
Rendered(t) == t.seen \ (t.opening \cup {t.reading})

\* A page shows a message once, whatever races what: the history with the stream,
\* a catch-up with live messages, a second stream with a first, its own bubble
\* with the echo (handleMsg, catchUp's filter, the queue of enterChat,
\* pendingByBlob).  A message that was met and decrypted has one bubble, and
\* besides it only one that still waits for its echo, which every echo settles
\* but that of a message sent before the page had its history, and in it.
Once(holds) == IF holds THEN 1 ELSE 0
ShownOnce ==
    \A c \in CTabs : LET t == cTab[c] IN
        /\ \A b \in Blobs :
               t.shown[b] = Once(b \in t.pending) + Once(\E n \in Rendered(t) : cLog[n] = b)
        /\ \A n \in t.seen : cLog[n] \in t.pending => n <= t.histSeq

\* Nothing is on its way to the page or asked by it.
Settled(c) ==
    /\ cTab[c].es = "open" /\ cTab[c].wire = <<>>
    /\ cTab[c].ask = "none" /\ cTab[c].loaded /\ cTab[c].opening = {}

\* "an SSE gap can hide messages; the ring replays them" (ui.html:468): a
\* page at rest shows every message the ring still holds.
NothingMissed ==
    \A c \in CTabs : Settled(c) /\ cAlive =>
        \A n \in Ring(cSeq) : cTab[c].shown[cLog[n]] > 0

\* "presence shouldn't lie" (main.rs:304): once the tick has nothing to tell
\* and the pages have heard everything, "N here" is the number of streams.
PresenceTrue ==
    cAlive /\ ~TickChanges => \A c \in CTabs : Settled(c) => cTab[c].here = SseCount(cTab)
=============================================================================
