----------------------------- MODULE BucketIndex ------------------------------
(***************************************************************************)
(* The index of s3-ipfs-adapter (s3-ipfs-adapter/src/main.rs): a bucket is *)
(* listed page by page, what changed is hashed window by window, and the   *)
(* whole replaces the snapshot that is served.  Between two requests to    *)
(* the bucket, clients pin, upload and delete, others write to the bucket, *)
(* and the process may be started again; what it had indexed is then in a  *)
(* cache that it keeps in the bucket.                                      *)
(*                                                                         *)
(* A key is a number, in the order of listings.  An object is its version: *)
(* size and ETag name it, and so do the digests of its bytes.  A pin's     *)
(* bytes are named by its key, so it has one version.  The cap on the keys *)
(* of a listing is not reached.                                            *)
(***************************************************************************)
EXTENDS Naturals, Sequences, FiniteSets

CONSTANTS
    BPins,          \* the keys under pins/
    BPlain,         \* the other keys
    BWindows,       \* ranges an object is read in
    BTries,         \* MAX_ATTEMPTS (5)
    BCacheTries,    \* CACHE_TRIES (8)
    BMaxChanges,    \* bound: uploads, deletions, refreshes, writes of others
    BMaxFaults,     \* bound: requests that fail
    BMaxRestarts    \* bound: times the process starts again

BKeys == BPins \cup BPlain

ASSUME BucketAssumption ==
    /\ BKeys \subseteq Nat \ {0} /\ BKeys # {} /\ BPins \cap BPlain = {}
    /\ {BWindows, BTries, BCacheTries} \subseteq Nat \ {0}
    /\ {BMaxChanges, BMaxFaults, BMaxRestarts} \subseteq Nat

VARIABLES
    bBucket,    \* the version under each key, 0 for none
    bCache,     \* the leaves cache in the bucket, <<>> before the first
    bApp,       \* App, with its Indexer
    bPinned,    \* pins this process has answered
    bSpent      \* what was used of the bounds

bVars == <<bBucket, bCache, bApp, bPinned, bSpent>>

\* A row binds what was read to what the listing said.  Rows are by key, NoRow where
\* there is none.
Row(tag, leaves) == [tag |-> tag, leaves |-> leaves]
NoRow == Row(0, <<>>)
NoRows == [k \in BKeys |-> NoRow]
Bytes(tag) == [i \in 1..BWindows |-> tag]
Rows(rows) == {k \in BKeys : rows[k] # NoRow}

(***************************************************************************)
(* snap is what is served; phase, cont, acc, queue, staged and cur are the *)
(* Phase and what is in it; tries the reads of the cache; saved (cache_fp) *)
(* the rows last read or written.  skipped holds the keys counted by it.   *)
(* The queue is worked off in the order of keys, what is tried again       *)
(* first; so is a set from which the least key is taken.                   *)
(***************************************************************************)
Booting ==
    [phase |-> "list", cont |-> 0, acc |-> {}, queue |-> {}, staged |-> NoRows, cur |-> <<>>,
     tries |-> 0, snap |-> NoRows, recent |-> NoRows, recovered |-> NoRows, saved |-> <<>>,
     consulted |-> FALSE, indexed |-> FALSE, skipped |-> {}]

\* A bucket that may hold objects already; no cache was ever written to it.
BInit ==
    /\ bBucket \in [BKeys -> {0, 1}]
    /\ bCache = <<>>
    /\ bApp = Booting
    /\ bPinned = {}
    /\ bSpent = [changes |-> 0, faults |-> 0, restarts |-> 0]

BFault == bSpent.faults < BMaxFaults /\ bSpent' = [bSpent EXCEPT !.faults = @ + 1]

-------------------------------------------------------------------------------
\* The indexer: one request, or none, a tick.

\* Rows of the first, and of the second where the first has none.
Union(first, second) == [k \in BKeys |-> IF first[k] # NoRow THEN first[k] ELSE second[k]]

\* Variant: an upload that a listing did not see is forgotten.
UnconfirmedNone(app, seen) == NoRows

\* start_hash: uploads a listing names are confirmed; the others are kept for the commit.
Unconfirmed(app, seen) == [k \in BKeys |-> IF k \in seen THEN NoRow ELSE app.recent[k]]

\* Variant: any row of the key will do.
ReusedByKey(app, m) == IF app.snap[m.key] # NoRow THEN app.snap[m.key] ELSE app.recovered[m.key]

\* What an object can be taken over from: the snapshot, or the cache of an earlier process.
Reused(app, m) ==
    IF app.snap[m.key].tag = m.tag THEN app.snap[m.key]
    ELSE IF app.recovered[m.key].tag = m.tag THEN app.recovered[m.key] ELSE NoRow

\* start_hash: what is unchanged is staged and the rest queued; before the first full
\* index, what is staged is served at once.
Hashing(app) ==
    LET recent == Unconfirmed(app, {m.key : m \in app.acc})
        staged == [k \in BKeys |-> LET listed == {m \in app.acc : m.key = k} IN
                                   IF listed = {} THEN NoRow ELSE Reused(app, CHOOSE m \in listed : TRUE)]
        todo == {m \in app.acc : staged[m.key] = NoRow}
    IN  [app EXCEPT !.phase = "hash", !.acc = {}, !.recent = recent, !.staged = staged,
                    !.queue = {[meta |-> m, tries |-> 0] : m \in todo}, !.cur = <<>>, !.skipped = {},
                    !.snap = IF ~app.indexed /\ todo # {} /\ Rows(staged) # {}
                             THEN Union(staged, recent) ELSE @]

\* restart_listing: a listing begins, in any phase; what was staged is dropped.
Listing(app) ==
    [app EXCEPT !.phase = "list", !.cont = 0, !.acc = {}, !.queue = {}, !.staged = NoRows,
                !.cur = <<>>, !.tries = 0]

\* A page of a listing, of one key; the last leads to the cache if there is one that was
\* not read yet, or to the hashes.  (A page that fails is asked for again.)
ListPage ==
    /\ bApp.phase = "list"
    /\ \E key \in BKeys :
           LET app == [bApp EXCEPT !.cont = key,
                           !.acc = @ \cup {[key |-> key, tag |-> v] : v \in {bBucket[key]} \ {0}}]
           IN  /\ key > bApp.cont /\ \A k \in BKeys : k > bApp.cont => key <= k
               /\ bApp' = IF \E k \in BKeys : k > key THEN app
                          ELSE IF ~app.consulted /\ bCache # <<>>
                          THEN [app EXCEPT !.phase = "load", !.tries = 0]
                          ELSE Hashing([app EXCEPT !.consulted = TRUE])
    /\ UNCHANGED <<bBucket, bCache, bPinned, bSpent>>

LoadCache ==
    /\ bApp.phase = "load" /\ bCache # <<>>
    /\ bApp' = Hashing([bApp EXCEPT !.consulted = TRUE, !.recovered = bCache[1], !.saved = bCache])
    /\ UNCHANGED <<bBucket, bCache, bPinned, bSpent>>

\* The read fails, the last time for good.
LoadFails ==
    /\ bApp.phase = "load" /\ BFault
    /\ bApp' = IF bApp.tries + 1 >= BCacheTries THEN Hashing([bApp EXCEPT !.consulted = TRUE])
               ELSE [bApp EXCEPT !.tries = @ + 1]
    /\ UNCHANGED <<bBucket, bCache, bPinned>>

\* The next object of the queue.
HashNext ==
    /\ bApp.phase = "hash" /\ bApp.cur = <<>>
    /\ \E next \in bApp.queue :
           /\ \A other \in bApp.queue : next.meta.key <= other.meta.key
           /\ bApp' = [bApp EXCEPT !.queue = @ \ {next},
                           !.cur = <<[meta |-> next.meta, tries |-> next.tries, leaves |-> <<>>]>>]
    /\ UNCHANGED <<bBucket, bCache, bPinned, bSpent>>

\* A window of it, of whatever the key holds by now; the last stages the row.
HashWindow ==
    /\ bApp.phase = "hash" /\ bApp.cur # <<>>
    /\ LET job == bApp.cur[1]
           key == job.meta.key
           leaves == Append(job.leaves, bBucket[key])
       IN  /\ bBucket[key] # 0
           /\ bApp' = IF Len(leaves) < BWindows THEN [bApp EXCEPT !.cur = <<[job EXCEPT !.leaves = leaves]>>]
                      ELSE [bApp EXCEPT !.cur = <<>>, !.staged[key] = Row(job.meta.tag, leaves)]
    /\ UNCHANGED <<bBucket, bCache, bPinned, bSpent>>

\* A read fails, or the object is gone or has another size by now: it is tried again
\* from scratch, or skipped.
Failed(app) ==
    LET job == app.cur[1]
    IN  IF job.tries + 1 >= BTries
        THEN [app EXCEPT !.cur = <<>>, !.skipped = @ \cup {job.meta.key}]
        ELSE [app EXCEPT !.cur = <<>>,
                  !.queue = @ \cup {[meta |-> job.meta, tries |-> job.tries + 1]}]

HashFails ==
    /\ bApp.phase = "hash" /\ bApp.cur # <<>>
    /\ BFault \/ (bBucket[bApp.cur[1].meta.key] # bApp.cur[1].meta.tag /\ UNCHANGED bSpent)
    /\ bApp' = Failed(bApp)
    /\ UNCHANGED <<bBucket, bCache, bPinned>>

\* save_leaves_cache: nothing if the rows are those last written; else a PUT that works,
\* or fails with or without effect.
SavesCache(app) ==
    IF app.saved = <<app.snap>>
    THEN bApp' = app /\ UNCHANGED <<bCache, bSpent>>
    ELSE \/ /\ bCache' = <<app.snap>> /\ bApp' = [app EXCEPT !.saved = bCache']
            /\ UNCHANGED bSpent
         \/ BFault /\ bCache' \in {bCache, <<app.snap>>} /\ bApp' = app

\* The queue is empty: what is staged, with the uploads no listing has seen, is the index.
CommitIndex ==
    /\ bApp.phase = "hash" /\ bApp.cur = <<>> /\ bApp.queue = {}
    /\ SavesCache([bApp EXCEPT !.phase = "ready", !.snap = Union(bApp.staged, bApp.recent),
                       !.staged = NoRows, !.indexed = TRUE, !.recovered = NoRows])
    /\ UNCHANGED <<bBucket, bPinned>>

\* refresh_secs after the last index.
RefreshDue ==
    /\ bApp.phase = "ready"
    /\ bApp' = Listing(bApp)
    /\ UNCHANGED <<bBucket, bCache, bPinned, bSpent>>

\* tick: a page, a read or a window, the commit, or the start of the next listing.
BTick ==
    \/ ListPage \/ LoadCache \/ LoadFails \/ RefreshDue
    \/ HashNext \/ HashWindow \/ HashFails \/ CommitIndex

-------------------------------------------------------------------------------
\* What comes between the ticks.

\* Variant: a pin is persisted at once whatever was indexed.
PersistsAlways(app) == TRUE

\* merge_commits: pins are persisted at once, over a full index only.
Persists(app) == app.indexed

\* A pin that is done (finish): its object is in the bucket, or was, and its row is
\* merged into what is served.
Pin(k) ==
    /\ bBucket' = [bBucket EXCEPT ![k] = 1]
    /\ bPinned' = bPinned \cup {k}
    /\ LET app == [bApp EXCEPT !.snap[k] = Row(1, Bytes(1)), !.recent[k] = Row(1, Bytes(1))]
       IN  IF bApp.snap[k] # NoRow THEN UNCHANGED <<bApp, bCache, bSpent>>
           ELSE IF Persists(app) THEN SavesCache(app)
           ELSE bApp' = app /\ UNCHANGED <<bCache, bSpent>>

\* A pin that fails, with its object in the bucket or without.
PinFails(k) ==
    /\ BFault
    /\ bBucket' \in {bBucket, [bBucket EXCEPT ![k] = 1]}
    /\ UNCHANGED <<bCache, bApp, bPinned>>

\* An object gets another version, one it never had, or goes.
Alter(k) ==
    /\ bSpent.changes < BMaxChanges
    /\ bSpent' = [bSpent EXCEPT !.changes = @ + 1]
    /\ \/ bBucket' = [bBucket EXCEPT ![k] = bSpent.changes + 2]
       \/ bBucket[k] # 0 /\ bBucket' = [bBucket EXCEPT ![k] = 0]
    /\ UNCHANGED <<bCache, bPinned>>

\* api_upload and api_delete.
UploadOrDelete(k) == Alter(k) /\ bApp' = Listing(bApp)

\* Somebody else's write to the bucket.
Elsewhere(k) == Alter(k) /\ UNCHANGED bApp

\* POST /api/refresh.
ApiRefresh ==
    /\ bSpent.changes < BMaxChanges
    /\ bSpent' = [bSpent EXCEPT !.changes = @ + 1]
    /\ bApp' = Listing(bApp)
    /\ UNCHANGED <<bBucket, bCache, bPinned>>

\* The process starts again; what it knew is gone.
BRestart ==
    /\ bSpent.restarts < BMaxRestarts
    /\ bSpent' = [bSpent EXCEPT !.restarts = @ + 1]
    /\ bApp' = Booting /\ bPinned' = {}
    /\ UNCHANGED <<bBucket, bCache>>

BNext ==
    \/ BTick \/ ApiRefresh \/ BRestart
    \/ \E k \in BPins : Pin(k) \/ PinFails(k)
    \/ \E k \in BPlain : UploadOrDelete(k) \/ Elsewhere(k)

BSpec == BInit /\ [][BNext]_bVars

\* The loop of main ticks.
BFairSpec == BSpec /\ WF_bVars(BTick)

-------------------------------------------------------------------------------
BTags == 0..(BMaxChanges + 1)
BRows == [BKeys -> [tag : BTags, leaves : Seq(BTags)]]
BMeta == [key : BKeys, tag : BTags \ {0}]
BWaiting == [meta : BMeta, tries : 0..(BTries - 1)]
BJobs == [meta : BMeta, tries : 0..(BTries - 1), leaves : Seq(BTags)]
BAppType ==
    [phase : {"list", "load", "hash", "ready"}, cont : {0} \cup BKeys, acc : SUBSET BMeta,
     queue : SUBSET BWaiting, staged : BRows, cur : Seq(BJobs),
     tries : 0..(BCacheTries - 1), snap : BRows, recent : BRows, recovered : BRows,
     saved : Seq(BRows), consulted : BOOLEAN, indexed : BOOLEAN, skipped : SUBSET BKeys]

\* What the variables are.
BTypes ==
    /\ bBucket \in [BKeys -> BTags] /\ bCache \in Seq(BRows) /\ bApp \in BAppType
    /\ bPinned \subseteq BPins
    /\ bSpent \in [changes : 0..BMaxChanges, faults : 0..BMaxFaults, restarts : 0..BMaxRestarts]

\* What is served is never bound to bytes of another size and ETag than the object has,
\* while it is the object's.
BytesMatch ==
    \A k \in BKeys : bBucket[k] # 0 /\ bApp.snap[k].tag = bBucket[k]
                         => bApp.snap[k].leaves = Bytes(bBucket[k])

BTypeOK == BTypes /\ BytesMatch

\* A pin is served from its answer on, whatever the indexer is doing: a listing that
\* began before it, a hash under way, the first index of a boot, a read that is given
\* up (merge_commits, recent_uploads).
PinsServed == \A k \in bPinned : bApp.snap[k] = Row(1, Bytes(1))

\* An object is given up on by the hash under way, or was by the one the full index
\* came of, which lacks it.
GivenUp(k) == k \in bApp.skipped \/ (bApp.indexed /\ bApp.snap[k] = NoRow)

\* What an earlier process hashed is not lost: a row of the cache that still tells what
\* the bucket holds stays in it, through boots, pins before the first full index and
\* saves that fail, unless the object is given up on after its read failed.
RowsKept ==
    [][\A k \in BKeys :
          /\ bCache # <<>> /\ bBucket[k] # 0
          /\ bCache[1][k] = Row(bBucket[k], Bytes(bBucket[k])) /\ ~GivenUp(k)
          => bCache'[1][k] = bCache[1][k]]_bVars

\* When nobody writes any more, what is served becomes what the bucket holds, every
\* object with the digests of its own bytes.
Current(k) == IF bBucket[k] = 0 THEN NoRow ELSE Row(bBucket[k], Bytes(bBucket[k]))
IndexSettles == <>[](bApp.snap = [k \in BKeys |-> Current(k)])
===============================================================================
