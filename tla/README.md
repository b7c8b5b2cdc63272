# A verification development for enclave-apps

enclave-apps is a collection of programs that run inside a secure enclave. One of
them, **depot** (`src/depot`), is a distributed system: a git server whose only
durable state is a bucket of sealed objects, shared by any number of servers that
never talk to each other. A second, **ipns-publisher**, keeps a name alive in networks
it does not control. About ten more hold a shared secret of some kind in memory
behind one event loop: chat rooms, pads, auctions, polls, drops. The rest are front
ends of model inference, emulators, protocol adapters and demonstrations.

This development models depot from the bucket up, the publisher with the parts of its
DHT engine that decide something, the index that **s3-ipfs-adapter** keeps of a bucket,
and the memory-only programs that have a protocol.

- `Depot*.tla`, `RefBook.tla`, `TokenBook.tla`: depot
- `Ipns*.tla`: ipns-publisher; `BucketIndex.tla`: s3-ipfs-adapter
- `Backchannel.tla`, `Warpad.tla`: a relay with the pages that use it
- `SealedRounds.tla`: gavel, fairdraw, yardstick, ballot; `SealedDrops.tla`: dead-drop,
  failsafe, quorum
- `MC*.tla`, `*.cfg`: the instances that TLC checks
- `*Proofs.tla`: theorems, with proofs for TLAPS
- `PROJECT.json`: components, runs, mutants, the line map, hazards, findings, theorems

Paths such as `push.rs` are relative to `src/depot/src` in the sections on depot, and
otherwise to `src`.

## 1. Inventory

### depot

| Part | State | Operations | Interacts with |
|---|---|---|---|
| storage (`store.rs`, `s3.rs`) | objects in the bucket, each sealed with a nonce of its writer; the ETag stands for the version | `get_sealed`; `put_sealed` (conditional on the ETag read, then read back to settle an unknown outcome); multipart upload; delete | everything durable goes through it |
| token book (`tokens.rs`, `routes.rs` who) | one document: the tokens and a revision; a copy on each server, and when it was refreshed | mint, revoke, refresh, list, look-up | storage; every request that carries a token |
| repository (`app.rs`) | one manifest per repository: packs, refs, dropped values, retired packs, revision; a copy and an index on each server; a generation of the index | open, load, revalidate, apply, `mark_stale`, `reset_from_storage`, `held` | pushes, fetches, jobs |
| objects (`git/repo.rs`, `git/walk.rs`) | which pack serves an object, resolved links | build, extend, closure, ancestry | checks of pushes, plans of fetches and collections |
| pushes (`push.rs`, `git/receive.rs`) | a push's stage, its pack, the generation it was checked against | receive, check, upload, commit (8 rounds), cleanup | repository, storage, queue of repacks, hooks |
| fetches (`fetch.rs`, `git/upload.rs`) | the records of the packs it reads | plan, stream, end | repository; `held` keeps its packs from sweep |
| collection (`gc.rs`) | the job's sources, what it keeps, generation, cutoff | start, step, commit (8 rounds), prune, assess, due | repository, storage |
| maintenance (`maint.rs`) | queues, the job, the time of the last failure | requests, `after_push`, repack, consider, sweep, orphans, abandon | repository, storage |
| registry (`app.rs`, `push.rs`, `api.rs`) | one document: repository names, their ids and settings; a copy on each server | register, delete, change, look-up (`refresh_registry`, `meta`, `open`) | pushes, storage |
| rollback witness (`witness.rs`) | a record per document in a second bucket; a queue of records to write (`lag`) | raise, note, check, accept, retry | every save, every first load |
| webhooks (`hooks.rs`) | a bounded queue of deliveries | push_event, tick, retry with back-off | pushes, event loop |
| HTTP server (`serve.rs`) with the push budget (`push.rs`) | connections, their phases and buffers; bytes charged by running pushes | accept, read, parse, answer, time out | clients, event loop |
| admin API (`api.rs`) | none of its own | restore, tokens, maintenance, repositories, accept a rollback | all the above |
| HTTP client (`client.rs`, `egress.rs`) | pooled connections | request with timeout, up to 5 tries | storage, hooks |
| sealing, pack format (`seal.rs`, `git/*`) | none | pure conversions | storage, pushes, fetches |

A server is one thread and one event loop. A push, a fetch or a job advances in
slices between which everything else on that server may run; a slice that saves a
manifest blocks the server until the save is settled, while the *other* servers go
on. All coordination between servers is one primitive: a PUT that takes effect only
if the ETag still is the one the writer read.

What is hard: two servers rewrite the same manifest, registry or token book; a push
commits while a collection writes the pack that leaves out what the push builds on; a
sweep deletes what a fetch reads; a PUT whose answer is lost may have taken effect, may
be refused by its own duplicate, or may take effect later; a crash falls between the
upload of a pack and the write that lists it; checks are made against a copy, minutes
before the commit; dropped history expires, is restored, collected, pruned and purged,
in any order; the bucket itself may turn back.

What makes each part correct:

- token book: an acknowledged mint is never lost; an honest bucket is never taken for
  one that was rolled back; a mint becomes known everywhere.
- refs: the servers together behave as one set of refs that pushes move atomically,
  from the value the client named; a protected ref only goes forward; no nested refs;
  a push is applied once; an answer claims what was done.
- packs: every listed pack is in the bucket; what the refs reach is in the listed
  packs, in an order from which an index can be built; history dropped and not
  expired can be restored; a fetch can read what it was planned on.
- maintenance: nothing is left in the bucket for ever; the number of packs stays
  logarithmic.
- registry: the servers behave as one map from names to repositories; what a push was
  acknowledged to have brought stays until somebody deletes the repository.
- witness: a document that is older than one that was witnessed is not taken at a
  server's first look; every commit is witnessed in the end, and a false alarm ends.
- webhooks: a delivery that was queued is delivered or given up, once.
- HTTP server: what is taken for a request is one, in the order they were sent; the
  budget is what the pushes in flight hold, and it comes back.

### ipns-publisher

| Part | State | Operations | Interacts with |
|---|---|---|---|
| publisher (`main.rs`) | queue of tasks, the record served, what was recovered, the state file | recover from a delegate or the DHT, sign, put to each delegate, provide, republish, `POST /publish` | delegates, DHT engine, volume |
| advertisement chain (`provider.rs`) | chain, head, current root, blocks served; the chain file | announce a root, build, prune, announce to an indexer, reload | indexers crawl it |
| DHT engine (`p2p.rs`, `kad.rs`) | the lookup's candidates, connections, stores | begin, dial, ask, merge what a peer tells, end, store | peers that owe nothing |

Hard: the process may die inside a write of its state; delegates and the DHT may know
a newer record than the disk; the recovery shares one engine with the publication.
Correct is a publisher that never signs a record below one it served, reaches the
delegates with what its source says, and whose walks end, at the closest peers.

### s3-ipfs-adapter

| Part | State | Operations | Interacts with |
|---|---|---|---|
| indexer (`main.rs`) | the phase (listing, reading the cache, hashing, ready), the snapshot served, uploads no listing has named, rows recovered from the cache | one request to the bucket per tick: a page, the cache, a window of an object; commit; refresh | the bucket, the leaves cache in it |
| pins, uploads, deletions (`upload.rs`, `main.rs`) | the day's budget, uploads under way | pin, upload, delete, refresh; `merge_commits` folds a pin into the snapshot | indexer, bucket |
| gateway (`main.rs`, `ipfs.rs`) | none of its own | paths and CIDs to blocks, ranges and CARs | snapshot, bucket |

Hard: the bucket changes under a listing and a hash that take an hour; pins end at any
moment of them; the process starts again with what it had put in the cache. Correct is
an index that serves a pin from its answer on, never loses hashed rows by a restart,
and becomes what the bucket holds.

### Programs that keep their state in memory

| Program | State | Hard | Correct is |
|---|---|---|---|
| backchannel (`main.rs`, `httpd.rs`, `ui.html`) | a room: a ring of messages, its streams | history, stream, catch-up and the echo of what the page sent overlap | each message once |
| warpad (`main.rs`, `ui.html`) | a pad: one document and its version; in a page the base, what is typed, what is held back | saves, broadcasts, decryption and rebase interleave | no saved line is dropped silently; what is typed is saved, or the page says that it is not |
| gavel, fairdraw, yardstick, ballot | a round: slots, deadline, time to live, result | deadline, close, late request and sweep in any order | the result is that of what was submitted last and in time |
| dead-drop, failsafe, quorum | drops: blob, gate, window, readers; the bytes held | release, look, check-in, approval, expiry and sweep race to the second | a release stands; the bytes are what is held |

Each is one thread behind a copy of one `httpd.rs`, and nothing survives a restart.

`PROJECT.json` lists every other program with its status and the reason; section 7
sums them up.

## 2. Modules

```
DepotStore ------ DepotTokens ---- MCDepotTokens
    |                 |   \------- DepotTokensProofs
    |                 +-- TokenBook            (INSTANCE: what DepotTokens implements)
    |
DepotIndex --+
DepotPick  --+-- DepotRepo --+-- DepotPush --+
    |                        +-- DepotMaint -+-- Depot ---- MCDepot
    |                                             |  \----- DepotProofs - DepotReadsProofs
    |                                             +-- RefBook  (INSTANCE: what Depot implements)

DepotPick --- DepotMerge ----------+---- DepotDocumentsProofs
DepotStore -- DepotWitness --------+---- DepotDocumentsProofs
DepotStore -- DepotRegistry -------+---- DepotDocumentsProofs
              DepotHooks ----------+
              DepotServe ----------+---- DepotServeProofs
              Warpad --------------+---- WarpadProofs
              SealedRounds --------+-- MCParts, SealedProofs
              Backchannel ---------+---- SealedProofs
              SealedDrops ---------+---- SealedProofs
IpnsAds --- IpnsPublisher - MCIpns +---- AdapterProofs
              IpnsWalk ------------+---- AdapterProofs
              BucketIndex ---------+---- AdapterProofs
```

| Module | Models | Correspondence |
|---|---|---|
| `DepotStore` | the conditional write and its settlement | `Accepts` is the bucket's `If-Match`/`If-None-Match`; `ReadBack` is `put_sealed_once` after an answer that was no success; `Newer` is the revision check of a reload. A sealed body is unique, so the nonce of its writer stands for its ETag |
| `DepotTokens` | `tokens.rs`, the token part of `routes.rs` and `api.rs` | one action per request to storage: `Mint`/`Revoke`, `RefreshMint`/`RefreshRevoke`, `Save`, `Arrive`, `GiveUp`, `Settle`; `Present` is `who`. PUTs are messages in `wire`, and may arrive late, even after their sender restarted |
| `TokenBook` | what the book promises | one set, one change at a time |
| `DepotIndex` | `git/repo.rs`, `git/walk.rs`, the judgements of `git/receive.rs` | an object is a name, a pack a set of objects, an index a function of the sequence of packs. A link to an object of a *later* pack stays unresolved, as in the code (`NONE`) |
| `DepotRepo` | the state of a repository and what all operations share | `Load`, `Look` (revalidate and apply), `Reset`, `Crash`, `Tick`; `Save`, `Settle`, `Cleanup`: the loop that rewrites the manifest for pushes, jobs, sweeps, prunes and restores |
| `DepotPush` | `push.rs`, `fetch.rs`, `plan` of `git/walk.rs`, restore of `api.rs` | `PushStart` (up to Stage::Check), `PushUpload`, `PushCommit`, `TryPush` (one round of commit), `FetchStart`, `FetchEnd`, `Restore`, `TryRestore` |
| `DepotMaint` | `gc.rs`, `maint.rs` | `CollectStart`, `CollectUpload`, `TryCollect`; `RepackStart`, `RepackUpload`, `TryRepack`; the round `Round`, `Sweep`, `TrySweep`, `Orphans`, `Consider`, `TryPrune`, `Merge` |
| `Depot` | all operations of one repository together, and its properties | |
| `RefBook` | what a repository promises of its refs | one set of refs, moved by whole pushes |
| `DepotPick`, `DepotMerge` | `pick`, and how pack lengths evolve under pushes and repacks | lengths only |
| `DepotWitness` | `witness.rs`, and the load and save of a document as far as they call it | one action per request: `Load`, `Check`, `SaveDoc`, `Note`/`Retry` then `RaiseRead` and `RaisePut` per round of `raise_now`, `Recover`, `Accept`; `Rollback` is the bucket serving any document it ever held |
| `DepotRegistry` | `register` and the commit of `push.rs`, `refresh_registry`/`meta`/`open` of `app.rs`, create, delete and patch of `api.rs` | a call is its kind and the round it is in; a push runs in slices beside the calls of its server |
| `DepotHooks` | `hooks.rs` | `PushEvent`, `Tick` (one attempt of the first that is due), `BackOffEnds`, a stop that loses the queue |
| `DepotServe` | `serve.rs`, `PushSink` and `Charge` of `push.rs` | one turn of the loop inside `service` per action, chosen by the phase of the connection: `ParseHead`, `BufferBody`, `StreamBody`, `Out`, `Done`, `Close`; `Step` is the pass that accepts, retires and times out |
| `Backchannel` | one room | `ApiMsg`, `ApiHistory`, `ApiStream`, `ApiLeave`, `PresenceTick`, `Reap`, `RoomDies`; the page's `EnterChat`, `Send`, `PostRefused`, `HistoryArrives`, `EventArrives`, `PageHides`, and `HistoryOpened` and `MsgOpened`, what follows a decryption; `StreamBreaks`, `FetchFails` |
| `Warpad` | one pad | `ApiSave`, `PadStream`; the page's `Type`, `TimerFires`, `StrayFires` (a timer that `saveTimer` no longer names), `Sealed` or `SealFails`, `SaveAnswered`, `SaveRefused` or `SaveThrows`, `DocArrives`, `DocOpened`, which runs what follows its await (`ShowDoc` or `Rebase`); `PadStreamBreaks` |
| `SealedRounds` | one round of any of four programs | `Submit`, `AdminCloses`, `Cancel`, `LateRequest`, `Sweep`, `Second`; `Settle`, `PickWinners`, `Measure` compute what the code computes, and `ResultRight` says what it should be from the values submitted |
| `SealedDrops` | the drops of one of three programs | `Arm`, `Peek`, `Take`, `CheckIn`, `Disarm`, `Approve`, `Revoke`, `Burn`, the sweep, `Second` |
| `IpnsPublisher` | the event loop of `main.rs` | `ITick` runs the first task; the DHT's answers, `Provide`, `Republish`, a request to publish, a change of the source and the end of the process, also inside a write, are actions of their own |
| `IpnsAds` | `provider.rs` | the tasks of the chain; `IpnsPublisher` calls them |
| `IpnsWalk` | one walk of `p2p.rs` over the candidates of `kad.rs` | `Drive` is a slice of `drive`: what a connection brings, the merge, the dials and the end of the walk are one step |
| `BucketIndex` | the indexer of s3-ipfs-adapter and what comes between its ticks | `ListPage`, `LoadCache`, `HashNext`, `HashWindow`, `CommitIndex`, `RefreshDue` are the arms of `tick`, with a failing variant of each request; `Pin` is the end of a pin with `merge_commits`; `UploadOrDelete`, `ApiRefresh`, `BRestart`; `Elsewhere` is another client of the bucket |
| `MCParts` | the parts that share no state, in one run | a behaviour is one part at work, the others where they start |

Operators whose comment begins with "Variant:" are plausible mistakes. They are used
nowhere in the specifications; `PROJECT.json` ("mutants") says in place of which
definition each of them makes which property fail.

### Abstractions, and why they lose nothing the properties speak of

depot's repository:

- *Time.* One tick is an hour. `REVALIDATE` (two seconds) is "within the tick"
  (`fresh`). `Timely` says that a call which blocks its server, and an upload in
  flight, end in time: every request ends by `IO_TIMEOUT` (60 s, `client.rs`), is
  tried at most five times, in at most 8 rounds, and the grace of orphans is a day.
- *Storage* answers at once and in one order (S3 is strongly consistent); a request or
  its answer may be lost (`MaxFaults`), and with `LatePuts` a PUT takes effect after
  its sender settled it.
- *An upload is one step.* Until its last part is in, nobody sees a multipart upload.
  It may fail with the pack in the bucket or not.
- *A push up to its check is one step* (`PushStart`), since it has no effect on shared
  state before the upload. It reads the copy in memory, which may be old.
- *Creation* of a repository by its first push, and deletion, are in `DepotRegistry`,
  where a repository is the set of pushes in it. `HEAD` is not modelled.
- *The objects* are a small acyclic graph given by `Links`; a push sends any set a git
  client could, namely the history of its new values less the history of some values
  it knows the server to have.
- *A fetch* wants some reachable objects and has some; shallow clones are left out. A
  client may be sent some objects it has (the code looks only at the trees of the
  commits on the edge), which the model takes for not sent: `haves` is any set, so
  every set of packs is reached.
- *Sizes* are numbers of objects.

depot's other parts:

- `DepotWitness` has one document; the `forget` of a deleted repository and witness
  stores without ETags are left out. The bucket is adversarial (any document it ever
  held), the witness honest, as the README of depot assumes.
- `DepotHooks` has a flag for "its time has come"; signatures and texts are data.
- In `DepotServe` a head is two tokens and a body a number of tokens, so that every
  boundary between reads is reached; `100-continue`, HEAD requests and the limit on the
  length of a head are left out.

The rest:

- `Backchannel`: a message is its blob, and its number is its place in the log. What a
  page decrypts outside the history may be done in any order, so the model counts the
  bubbles of a message and not where they stand (section 6). A post is on its way from
  `Send` until the relay takes it, refuses it (`PostRefused`) or never hears of it. The
  capacity of a room in bytes is left out.
- `Warpad`: a text is a set of lines, and edits touch or not, by choice
  (`MergeDisjoint` or a kept text); a pad's expiry, the key lock and undo are left out.
  The decryptions of a page end in the order they began, and each takes less than the
  800 ms of a debounce; so a timer waits for those under way when it was set (`wait`). One
  that was set before may run out in the middle of a decryption: the 409 branch of `save`
  clears no timer. `raced` remembers that this happened to a page, and the properties say
  what they promise of such a page.
- `SealedRounds`, `SealedDrops`: a token or credential is the slot or seat it opens;
  requests with wrong ones change nothing. A roll of the dice is any number.
- `IpnsPublisher`: a record is its sequence and value; a later signature ends later, so
  of two equal sequences the later one wins, as `kad` validators order them. The
  delegates keep the best record they were given.
- `IpnsWalk`: a peer is its rank by distance; the rungs up to the first kad stream
  (Noise, yamux, multistream) are one; peers answer, refuse, stall, reset or talk
  nonsense by choice.
- `BucketIndex`: an object is its version, for which size and ETag stand; another version
  is one the key never had, and the store answers a PUT with the ETag its listings show. A
  pin's key is the hash of its bytes, so it has one version, and pins are not deleted
  (section 6 says why). A listing has one key a page; the cap on keys, the cache's ceiling
  and back-off are left out.

## 3. Runs

| Run | Question | Bounds |
|---|---|---|
| `tokens` | `MintedStays`, `NoFalseAlarm`, `OneBook`, `MintSpreads`: do two servers sharing a book keep every acknowledged mint, never cry rollback, change one book, and learn of each other's mints? | 2 servers, 2 tokens, room for 1, 2 rounds, 2 calls; any number of lost and late PUTs and restarts |
| `repo_push` | `OneRefBook`, `NoClash`, `PackedOnce`, `ProtectedForward` for pushes of one command, with writes that may be late | 2 servers, 2 pushes, refs `main` (protected), `x`, `x/y`, a fork of 3 commits, 1 fault |
| `repo_atomic` | `OneRefBook` for pushes of two commands, atomic or not | 2 servers, 2 pushes, 2 refs, 2 commits |
| `repo_servers` | `ListedStored`, `Clonable` under racing collections, sweeps and orphan scans on two servers | 1 push, 2 rounds per tick, 1 tick, 2 faults (lost request or reply, failed read, crash) |
| `repo_fetch` | `FetchServed`: what a fetch reads, when this and the other server collect, repack and sweep, and a server's memory is reset | 1 fetch, 1 round per tick, 1 reset, 1 fault, 1 tick |
| `repo_local` | `Complete` on one server with purges and restores beside a push that builds on dropped history | 1 push, 1 request, 1 restore, a line of 3 commits, 2 ticks |
| `repo_cleaned` | `Cleaned`: is everything that is left behind deleted in the end, while a server has the repository open? `KeptHistory`: and never what was dropped before its time, nor forgotten what a collection has still to free? | 1 server, 1 push, 2 rounds per tick, 1 fault, 2 ticks |
| `parts` | the safety of twelve parts, one at work at a time: see below | below |
| `parts_fair` | the liveness of the seven of them that have to get somewhere | below |
| `tokens_revoked_back` | fails: `RevokedStaysOut` | 2 servers, 1 token |
| `repo_later_order` | fails: `Clonable` when two pushes land during a collection | 1 server |
| `ipns_round_stuck` | fails: `RoundsEnd` | the DHT alone, no volume, no faults |

Why the bounds suffice for the interesting cases: two servers give every interleaving
of a read and a write of a shared document; two rounds of the save loop give "an
earlier round landed, was built upon, and is found again"; one fault gives every
single lost request, lost reply, crash or failed read at every step; one tick
separates what is retired, dropped or uploaded from what may be swept, collected or
scanned; thresholds (`Keep`, `Grace`, `OrphanAge`) are one or two ticks, so that both
sides of each are reached. `repo_servers` has two faults, because a cleanup finds its
pack listed only after a write that landed unseen *and* a read-back that failed.

`parts` and `parts_fair` check the parts that share no state with one another: a
behaviour begins with the choice of the part at work (`part`), and the others stay
where they start, so the state space is the sum of theirs and every property is the
part's own.

| Part | Safety (`parts`) | Liveness (`parts_fair`) | Bounds, and what they reach |
|---|---|---|---|
| witness | `FirstLookFresh` | `WitnessesInTheEnd` (`WitnessSettles`) | 2 servers, 2 revisions, 2 rounds, 1 turning back, 1 fault: both servers raise one record, an acceptance on one while the other still has a record queued |
| registry | `AcknowledgedStays`, `OneRegistry` | | 2 servers, 1 name, 2 pushes, 2 ids, 1 admin call, 1 fault: a name is created, deleted and created again under a push; a registration lands unseen |
| hooks | counted in `HTypeOK` | `DeliversInTheEnd` (`QueuedSettles`) | 2 hooks, 2 events, room for 3, 3 tries, 1 stop: the queue is full, a retry goes behind later deliveries |
| serve | budgets in `STypeOK`; `InRequestOrder` | `ReleasesInTheEnd` (`ChargesEnd`) | 2 connections (1 for liveness) of a refused request and a pipelined one, a fetch, a push; two pushes do not both fit |
| merge | `Logarithmic` | | 7 pushes of lengths 1, 2, 3, 5, 9; pushes come when the repacks are done |
| backchannel | `ShownOnce` | | 1 page (it meets its own older streams), 2 messages of its own or of others through a ring of 1, 1 fault or leave: the echo of an own message beside a history, a catch-up and a second stream |
| warpad | `SavedWordsStay`, `QuietShowsDoc` | `SavesInTheEnd` (`TypedIsSaved`) | 2 pages; 3 lines (2 for liveness) and 2 faults, 3 together at most (`PTogether`): both save, one is told of the other's text by the stream and by the answer, a third line is typed during the rebase; a stream breaks, a text cannot be sealed, a save is refused or throws |
| rounds | `ResultRight` | | seven setups of the four programs, values 1, 2, 4, up to 5 slots, clock to 6: ties, reserve, quorum, deadline before, at and without the end |
| drops | `ReleaseStands`, `BytesHeld` | | the four modes, 2 ids, sizes 1 and 2 under a cap of 3, 2 readers, clock to 7 |
| publisher | `NeverBehind` | `PublishesInTheEnd` (`CatchesUp`) | 2 delegates with and without a volume, all there is for a name others know, the DHT alone; 1 change, 1 fault, 1 end of the process |
| walk | `StoresClosest` | `WalksInTheEnd` (`WalkEnds`) | 5 peers, 3 known (2 for liveness), 2 stores, 3 dials (2): a closer peer is heard of without its address and again with it |
| index | bytes in `BTypeOK`; `PinsServed`, `RowsKept` | `IndexedInTheEnd` (`IndexSettles`) | a pin and another key, objects of 2 windows, 2 tries, 1 change, 2 faults (1 for liveness), 1 restart: a pin during a listing, a hash, and the first hash of a second boot; a cache that cannot be read; an object that changes between its windows |

`PartsTypeOK` holds the type invariant of the part at work (the others stand where they
start); those of hooks, serve and index say more than types:
what is queued, delivered, given up, dropped and lost adds up, and the budgets of the
server are what its connections hold. An index row that
is bound to what the bucket holds has the digests of it. `BucketIndex` also holds with two
plain keys, two changes and two faults, `ShownOnce` with two messages and two faults and
with three messages, and the safety of `Warpad` with three lines and two faults (its
liveness with two and two), which is too many states for the common run.

`CHECK_DEADLOCK FALSE` stands in the configurations whose behaviours end when the
bounds on requests, pushes and ticks are used up. The token runs never stop (a server
may always restart).

### Fairness

- `DepotTokens`: weak fairness on the steps of a call (`Work`: the event loop runs a
  handler to its end, and every request to storage ends by its timeout), on the passing
  of five seconds, and on requests that carry a token: `MintSpreads` is about a token
  that is presented again and again. None of `Arrive` (a PUT may be lost), of mints, of
  revocations or of restarts.
- `Depot`: weak fairness on `Work(s)`, all that a server does by itself: finishing a
  call, its queues, its periodic round (the event loop of `main.rs` calls `tick` each
  time round, and its periodic round takes the repositories that are open,
  `maint.rs:259`). Clients, admins, faults and the clock owe nothing. So nothing opens a
  repository but a request (`app.rs:253-262`; a start reads only the registry and the
  tokens), and `Cleaned` speaks of a server that has it open.
- `DepotWitness`: the raising of a record, the end of the 30 seconds a witness counts
  as down, and requests that load the document, which keep coming. Faults, crashes,
  saves and acceptances owe nothing.
- `DepotHooks`: `Tick` (`main.rs` calls it each time round) and the passing of a
  back-off.
- `DepotServe`: weak fairness on the loop, strong fairness on "a pass finds the clock of
  this connection run out": a connection that moves between two passes escapes that
  clock for once, but a body and an answer are finite. What a client sends is open.
- `Warpad`: timers run out, promises settle, sockets deliver (`PageStep`); whether
  somebody types, and what fails, is open. No later save is owed to a page that said it
  could not seal its text, or that the text is too large: `TypedIsSaved` lets it off.
- `IpnsPublisher`: the event loop, the end of a walk (`PUBLISH_DEADLINE`), the
  advertiser and the republish timer; faults and changes are bounded.
- `IpnsWalk`: `Drive`; a connection that does not move is ended by `CONN_STALL`, which
  is the `Break` in it. `WalkEnds` holds without the fairness of `Deadline`.
- `BucketIndex`: `BTick` (the loop of `main` gives it every fourth turn at least), with a
  refresh interval that is not 0. What clients and others do, and faults, are bounded.

## 4. What is proved

For any values of the constants, under the named assumptions of the modules
(`CapacityAssumption`, `AttemptsAssumption`, `CallsAssumption`, `WitnessAssumption`,
`ServeAssumption`, `DropAssumption`, `ChatAssumption`, `AdsAssumption`, `IpnsAssumption`,
`BucketAssumption`, `PadAssumption`, `RoundAssumption`, `WalkAssumption`: types, at least
one round, try and window, no key of a pin among the others, and a quorum of a survey that
is not 0 (`MIN_QUORUM`); of `RegistryAssumption` only that the bounds are numbers; of
`LengthsAssumption` that a pushed pack has a length, which is not 0). Those of the
repository are `ObjsAssumption` to `NilAssumption` of `DepotIndex` (objects and refs are
finitely many: ids have twenty bytes, and names at most 1024) and, in `DepotRepo`,
`ConstantsAssumption` (types, one round at least), `ServersAssumption` (the zero id is no
server), `MinPacksAssumption` of `DepotPick` (a repack takes two packs at least; `MIN_PACKS`
is 4), `GraceAssumption` (a retired pack, and one nobody lists, is kept for a tick at least;
in the code, an hour and a day) and `SeedAssumption` (that one ref is beneath another
clashes both ways, and no two do as a behaviour starts).
`PacksStored` and `FetchesServed` also assume that no PUT of a manifest takes effect after
its sender settled it (`LatePuts = FALSE`): where one does, `ListedStored` fails, see
section 6. They say so in their statements.

| Module | Theorem | Statement |
|---|---|---|
| `DepotTokensProofs` | `TypesHold` | `Spec => []TypeOK` |
| | `MintNeverLost` | `Spec => []MintedStays` |
| | `HonestStoragePasses` | `Spec => []NoFalseAlarm` |
| | `Refinement` | `Spec => OneBook` |
| `DepotProofs` | `ClashFree` | `Spec => []NoClash` |
| | `OneWritePerPack` | `Spec => []PackedOnce` |
| | `Refinement` | `Spec => OneRefBook` |
| | `PacksStored` | `LatePuts = FALSE => (Spec => []ListedStored)` |
| `DepotReadsProofs` | `ProtectedKept` | `Spec => ProtectedForward` |
| | `FetchesServed` | `LatePuts = FALSE => (Spec => FetchServed)` |
| | `TypesKept` | `Spec => []TypeOK` |
| `DepotDocumentsProofs` | `FirstLookIsFresh` | `WSpec => FirstLookFresh` |
| | `AcknowledgedKept` | `GSpec => []AcknowledgedStays` |
| | `RegistryIsOne` | `GSpec => OneRegistry` |
| | `FewPacks` | `ApartSpec => []Logarithmic` |
| `DepotServeProofs` | `TakenInOrder` | `SSpec => []InRequestOrder` |
| `SealedProofs` | `ReleasesStand` | `DSpec => ReleaseStands` |
| | `CapacityKept` | `DSpec => []BytesHeld` |
| | `PagesShowOnce` | `CSpec => []ShownOnce` |
| | `ResultsRight` | `RSpec => []ResultRight` |
| `AdapterProofs` | `SequenceAdvances` | `ISpec => NeverBehind` |
| | `PinsStayServed` | `BSpec => []PinsServed` |
| | `ServedBytesMatch` | `BSpec => []BTypeOK` |
| | `CacheKeepsRows` | `BSpec => RowsKept` |
| | `ClosestAreStored` | `KSpec => StoresClosest` |
| `WarpadProofs` | `WordsStay` | `PSpec => SavedWordsStay` |
| | `QuietPagesAgree` | `PSpec => []QuietShowsDoc` |

*Tokens.* None of the last three is inductive by itself. The invariant `Inv` adds:

- `NoncesDrawn`: every nonce in the bucket, in a copy or on the way was drawn, so a
  nonce drawn now is new. This is what makes an ETag name a version.
- `NotSeen`: a PUT on the way carries a version nobody has read yet.
- `Coherent`: versions are linearly ordered: whoever holds the nonce of the stored
  document holds that document, and nobody holds a revision the bucket has not reached.
- `Based`: a PUT on the way that would still be accepted changes the *stored* document
  by one token and one revision. This is the heart of the argument: the condition on
  the ETag turns "changes what its writer read" into "changes what is stored".
- `OnCourse`: what a call is about to write, and what it has already done, fits the
  stage it is in; so a settlement that says "ok" speaks of the call's own write.
- `MintedStays` itself, which `Settle` and `Arrive` disturb.

Each action has a lemma (`BootInv`, ..., `ArriveInv`) that it preserves `Inv`; the
theorems follow by PTL. `Refinement` needs `Based` for the step `Arrive` and is a
stutter otherwise.

*The refs of a repository.* `Spec` is the whole of `Depot`: pushes, restores, fetches, both
jobs, the periodic round, crashes, lost and late writes (`ServesOnly` has the same for
`ServeSpec`, under which some runs check). The three properties say what the stored
manifest does and what clients are told; `Inv` says why:

- `Written`: every manifest that a server holds, waits for or has sent has the types the
  code gives it and no clash, and its writer tells it from every other. `Tags` says that a
  copy's ETag is its own manifest's, and that what is on its way was read by nobody: from
  both, a write that is accepted was built on what it replaces (`CopyIsMan`).
- `Based`: a late PUT that would be accepted does to the *stored* manifest what its call
  decided (`Steps`): it moves exactly the refs of the commands that passed, from the old or
  already at the new value, all of them if the push is atomic, and lists the push's pack.
- `Linked` ties the blocking call of a server to the push it commits, `Apart` keeps the
  packs of pushes, jobs and sweeps distinct, `Early` says that no manifest anywhere lists
  the pack of a push before its first write.
- `Lingers` and `Landings`: while a push is being committed, its pack is on the stored
  manifest, live or retired, if and only if a write of its own took effect. It cannot be
  swept off the list meanwhile: it was retired within the tick, and a call ends within one.
  So `LandedBefore`, the one test by which the code knows an earlier round, is exact.
- `Informed`: what a call under way knows of its own writes (`OnCall`): if the manifest has
  its nonce, or if its pack is listed, then what took effect is what it would answer.

`SaveInv` is the core: a `Save` by any operation, whichever of its five outcomes, keeps
all parts; it asks of the operation only `Writes`, what its manifest may differ in, which
`PushedWrites`, `RestoredWrites`, `MergedWrites` and `KeepsWrites` establish once for each
way a manifest is built. `JudgeKeepsApart` is the lemma about `judge` that `NoClash` rests
on. In `Refinement` an accepted write is `Move` or `Restored` (`ReplacedBook`), a
settlement is `Tell`, a crash is `Die`, and nothing else shows. TLC checked the parts of
`Inv` on the bounds of `repo_push`, `repo_servers` and `repo_local` before they were proved.

*The packs of a repository.* `ListedStored` is about deletions, which five operations do:
the cleanup of a push whose end is in doubt, that of an abandoned job, the sweep of retired
packs, the scan for orphans, and a crash leaves to the last two what it cannot clean up.
None of them may take a pack that is listed, nor one that is still going to be. The latter
are the *borne* packs: those of pushes that are uploaded and of the calls that commit a
push or a job. `PackInv`, on top of `Inv`, says:

- `Carried`: a borne pack is in the bucket, too young for an orphan, and if it is among the
  retired at all, it was retired within the tick; so neither scan nor sweep meets it, for
  `Timely` ends what bears it before either is due.
- `Cleaning`: the pack a cleanup looks for is borne no more, and if its call never offered
  a manifest, it is not listed. If it did, the cleanup reads the manifest first, and what it
  reads is current, since no late PUT comes.
- `Orphaning`: what a scan found to delete is neither listed nor borne, at the time of the
  deletion and not only when it looked.
- `JobsApart` keeps the packs of the jobs distinct (`Apart` of `Inv` those of the pushes),
  and `Dated` says that whatever is stored was made.

`PackStep` is what all operations of a server have in common, and `StepKeeps` shows that it keeps
`PackInv`; each action has a lemma that it is one, `Tick` apart. TLC checked the parts of
`PackInv` to a depth of ten steps on the bounds of `repo_servers` and `repo_local` first.

*Protected refs.* `ProtectedForward` speaks of two states, and `Inv` already says how they
may differ (`Based`, and `CopyIsMan` for a write that lands at once). What is added is the
walk: `is_ancestor` looks for the old tip among what the new one reaches in the *checked
index*, the property asks for it in the history of all objects. `Hops` is the walk hop by
hop; `HopsExist` and `SpreadIs` unfold it, and `SpreadGrows` shows that it has closed after as
many hops as there are objects, since each hop that is not the last adds one.
`AncestorsAreHistory` follows: an ancestor found through an index that knows less than all
links is an ancestor. A restore creates a ref, and only where none is (`Steps`).

*What a fetch reads.* `FetchServed` says that what a fetch was planned against stays in the
bucket until the grace period ends, and that its own server spares it through a rebuild of
the index. `ReadInv`, on top of `Inv` and `PackInv`, says why:

- `FreshAt`: what a copy that was compared with the manifest in this tick lists is
  `Standing`: in the bucket, listed, and not retired before now. A fetch begins with that
  comparison, and `FetchAt` carries it from there: until the grace period ends, its packs
  stand as of the time it began.
- `CondemnAt`: what a call deletes, or deleted and is about to take off the list, is a
  `Doom`: unlisted, or retired a grace period ago. No pack is both.
- `SettleAt`: a manifest whose write is being settled keeps what the copy lists, but for a
  job's; so learning that it landed leaves a fresh copy fresh.
- `ReadAt`: up to the first rebuild of the index since, a fetch's packs are in the copy or
  held. The second is the divergence of section 6, and the property stops there as well.

`Relists` is what any write may do to the lists of packs, and `Gentle` what most steps are:
they leave manifest and fetches alone and delete only what is doomed. TLC checked the parts
of `ReadInv` on the bounds of `repo_fetch` and `repo_local` before they were proved.

*Types.* `TypeOK` of a repository says more than shapes: no manifest, copy, fetch, hold or
rebuild names a pack that was never made, nothing is dated after the clock, an ETag that a
copy has was handed out, and a save loop keeps to its rounds. `TypeInv` says it relative to
`Inv`, which has the writers and the packs. `DocsBy` and `MemsBy` are the manifests and
copies there can be *by a time*; a tick only widens them (`DocsLater`). Every other step
but a late write `Goes` for one server: it adds at most one upload (`Stores`), at most one
manifest that is typed by now (`Documents`), and touches one server's tables (`Local`); so
`GoesTyped` is proved once and each action shows that it goes. What the folds of the code
become had to be unfolded: `UnexpiredTyped` is an induction along the dropped values, and
`InSomeOrder` says that `SetToSeq` of a finite set is a sequence of its members; this is
where objects and refs must be finitely many.

*Witness.* `WInv` is `Shapes` and `Coherent`: every tag of a record was drawn
(`TagsDrawn`) and names one record (`TagsName`), what a server knows of the record is
no newer than it (`KnownOlder`), and the record covers whatever was noted (`NotedHeld`).
From this a conditional write of a record cannot take it back; `OnlyCheck` shows that
no action but `Check` turns a server's first look, and `CheckFresh` that it looks at a
record that covers what was witnessed.

*Registry.* What is acknowledged may be deleted elsewhere at any time, and what a server
has in memory may be stale; so `GInv` says what stays true of stale knowledge:

- `NoncesName`: who has the nonce of the registry, or of a manifest, has that version; so
  a write that is accepted changes what is stored.
- `OneName`: an id is drawn once, for one name, and whoever speaks of it (the registry, a
  copy, a call, a push) uses that name. This is why a commit that finds its repository in
  memory writes under the name its client pushed to.
- `Standing`: an id that a server knows was registered once, and still is unless somebody
  set out to delete it (`Holds`). With it, a push that commits into what is in memory is
  in the manifest of a registered repository or of one somebody deletes.
- `Alone`: at most one call or push is about to create an id, and until it has offered a
  registry nobody has seen that id. This is what confines a repository that comes back to
  the further rounds of its own creation.
- `CallFits`: what a call will write, or has sent, fits what it read; if the stored
  registry has its nonce, its change is in it.

`GStep` is what every step of a server may do to the stored documents, to its own memory,
to pushes and to its call; `StepKeeps` shows that this keeps `GInv`, and each action has a
lemma that it is one (`CreateStep` to `CrashStep`). `OneWrite` is the argument for
`RegistryIsOne`. TLC checked the parts of `GInv` on two servers, two ids and one fault.

*Packs.* `MergeInv` says that the lengths of the packs fall (`Falls`): from the
(`MinPacks` - 1)th on, each pack is at least twice as long as the next, up to the one before
the last; up to the last as well once `pick` finds nothing to do and nothing is queued, which
is when a push may come (`PickNothing`). A repack runs from the first pack that is too short
for what follows it to the end (`PickSomething`), so what stays in front of it stands on the
merged pack too (`MergeFalls`). At rest the sum is then at least a power of two: `Power`
counts 2^k as the subsets of an interval (`FS_SUBSET`), for the provers know nothing of
exponents, and `Doubling` goes down the packs. That pushes come at rest is the condition of
`ApartSpec`; section 6 says what happens without it.

*HTTP server.* `OrderInv` says of each connection that it is `InStep` with its client: while
it may still take requests, what has come and what is yet to come are the client's tokens
from the end of the last request that was parsed, less what is left of its body (`Behind`,
`Follows`), and that request is the one answered last or the one being answered, as the
phase says. So the first head in the buffer is that of the next request (`NextHead`). A
request that is refused unread, misframed or cut short breaks the correspondence and
closes the connection: this is what `UnreadBody` is for. Where each request begins
(`Starts`) comes from `FlattenParts`, an induction over the script.

*Drops.* `DInv` is `Shapes` and `MetWhenStamped` (a release that was stamped is the
moment somebody met it). Each action keeps it and lets every release stand; `Observing`,
`Erasing` and `Changing` are what all handlers share. For `CapacityKept`, `Counted` says that
what is held is a finite set whose sizes add up to the count at most, and to the count itself
but for dead-drop, whose burnt drops stay counted until the next sweep; so no subtraction
from `total_bytes` goes below zero, and the sweep's own sum is what is left. How a sum
changes with its set (`TotalWithout`, `TotalPart`) is an induction over the set.

*Rooms.* `IRoom` is `Numbered` (the blobs the relay took are different ones and none of
them is on its way any more, so an echo is the echo of one message) and, of each page,
`Page`. Its core is `Met`: the bubbles of a blob are counted from what is pending and what
was met and decrypted (`Bubbles`), and what is being decrypted is beyond the history, was
met, and settles nothing. That alone is not inductive: `Begun` adds that a page without
its history has met no more of it than it has read, so that reading on renders each
message for the first time; `Asked`, that only such a page has a first fetch under way;
and `OnWire`, that whatever comes was numbered. `Handled` is the lemma for several
messages at once, of the queue, of the ring or one of the stream (`MetMore`), `OneMore`
for a bubble that comes when a decryption is done, and `ReadsOn` for the loop of
`enterChat`. `RelayKeeps` to `StreamKeeps` are the steps.

*Publisher.* `IInv` is `Shapes`, `Remembers` (what the process has recovered covers what
it served, or the disk does), `Persisted` (so does a disk that took its writes) and `Heard`
(what it recovered covers what each delegate that answered holds). Records are compared
by `AtLeast`. The steps fall in three kinds, each with its lemma: `SigningStep`,
`LearningStep`, `QuietStep`.

*Bucket.* `PinInv` says of each pin why the next commit will have it (`Carried`): its row
waits among the recent uploads, the listing has still to come to its key or has named it,
or it is staged. That alone is not inductive: `Sound` adds that every row, listed object
and job of a pin is the one it can have, so that what a hash takes over from the snapshot
or the cache, or computes window by window, is the row that was answered. The lemmas
`PageCarries`, `HashingCarries`, `WindowCarries`, `ListingCarries` and `SavesCachePins` are
what the actions are made of; a `TypesKept` of this module carries the types beside them.

`IndexInv` says the like of every key, with the version its object has in place of the one
version a pin has. `Plain` and `Fits`: nothing listed, queued, staged, served or saved is
of a version newer than those given out, and what is of the object's own version was read
from that version alone. So a version given out now is in no row (`NewVersion`), and a row
of the object's version is right (`Clear`), which is `ServedBytesMatch`. For
`CacheKeepsRows`, `Holds` adds why no save drops such a row. While the snapshot or the
cache has it, what is under way is of that version (`Straight`) and leads to it or gives
the object up (`Coming`); and what is served after a full index has it or has no row of the
key. `NextShape` to `PinningShape` say what a step changes, and `SaveKeepsRow` is the step
itself. The attempt to prove `RowsKept` as it stood found it false for bounds the run does
not have: an object given up in one hash is missing from the full index, and a pin saved
while the next hash runs, which has given nothing up yet, drops its row. The property now
counts such an object as given up (`GivenUp`).

*Pad.* `PInv` says of each page that it is `Informed`, what it has of the newest version
(its base, a stream's document, an answer, a document held back or being opened) is the
newest document, and, unless it raced, `Faithful`: the lines of its base are in the textarea
or were put aside, a save under way holds them too and names the base it was built on, and
no base moves while a save is under way or a rebase is due. So a save that `api_save`
accepts of such a page misses no saved line but one put aside. `TimersGood` and
`SetAgainGood` show that a page may hold any number of forgotten timers.
`QuietPagesAgree` needs the converse: `KeepsUp` says that an open page which did not race
has reached the newest version, or holds it back, or has it on the wire or among what it
opens (`Reached`); that what it hears, holds back and opens comes in the order of versions,
and what answers a save is newer than its base (`Ordered`); and that a page which is not
busy, and has not said that its text is unsaved, has nothing of its own in the textarea and
nothing newer held back (`Resting`). `RacedStays` and `RacedUp` carry the pages that raced.

*Walk.* `KInv` says that whoever is asked was tried, that whoever has an address is a
candidate, and that one which failed and has an address was tried. Each action is a slice of
`drive` (`Drives`: replies and failures, then new dials) and `become` after it, so the
invariant is carried through the two. When no candidate is left to dial or wait for, whoever
has an address and is not chosen either was tried and did not answer, or is farther than
each of the `KStores` chosen: `FirstMany` says that the nearest of a finite set of numbers
are below all the others.

*Rounds.* `RInv`: while a round is open its slots hold the values accepted last, and the
counts of a poll are theirs (`Moved`, `Cast`: a ballot that moves leaves the one option and
joins the other). What remains is that the code's computations give what `ResultRight`
describes in other words: `AuctionSettled` (the highest bid, the earliest of equals);
`SurveySettled` from `Ranked` (the k-th in order has k numbers that do not exceed it, and
all but k - 1 that it does not exceed) and from the division with a half added before it;
`DrawSettled`, where `SwapShuffles` keeps a permutation one and `FoldExists` and `Chain`
follow the fold of the swaps.

*Induction over data.* The induction theorems of the library take an operator, which the
provers cannot instantiate; but its `WFMin` does not, and with it `LeastNat` says that a
set of numbers has a least element and `AllNat` that a set which has 0 and, with each
number, the next has all. The recursive functions behind `FlattenSeq`, `MapThenSumSet` and
`FoldLeft` are unfolded to the `CHOOSE` they stand for, shown to exist, and followed step
by step.

Only model-checked:

- `Clonable`, `Complete` and `KeptHistory` of `Depot` hold on the bounds of their runs and
  not beyond: the code breaks each of them in the situations of findings 2 and of section
  6 (order of later packs; objects whose links a collection dropped; the round that prunes
  while a collection is backed off). There is no theorem to prove, and the bounds say
  where the properties stop.
- `PartsTypeOK`, the types of all parts together: each invariant above has the types its
  own proof needs.
- All liveness: fairness and ENABLED are beyond the prover.

No module that is proved about uses a RECURSIVE operator.

## 5. Findings

`PROJECT.json` quotes the sentence of the repository that each of the three violated
properties states.

1. *A revoked token comes back* (`tokens_revoked_back`). A mint's first write lands
   unseen, another server revokes that token, and the mint's second round does not find
   its token and adds it again.
2. *Order of later packs* (`repo_later_order`). A collection accepts an object it leaves
   out if any later pack has it. With two pushes during one collection, the earlier one
   may link to what only the later one still holds; an index built from the packs in
   order leaves that link unresolved, and the repository cannot be cloned.
3. *A round that waits for ever* (`ipns_round_stuck`). A publisher with the DHT alone
   and no volume queues a round while the engine still stores the record of the last
   one. The recovery walk does not begin, but is taken for begun, and the round waits for
   its result at the head of the queue, for ever.

## 6. Known divergences that the passing runs steer around

Where a row says how to see it, changing a bound of a run as said reaches it; the rows
are why that run has the bound it has. The other rows were met reading the code and are
not reached by the models.

| What | How to see it | Where |
|---|---|---|
| A server that knows a token never learns from its requests that another server revoked it (depot's `README.md:66-68`: "within seconds on any other") | `tokens` with `RevocationSpreads` | `routes.rs:105` |
| A fetch holds packs by the identity of their records; a second rebuild of the index during one fetch replaces records it does not hold, and the sweep no longer spares the pack | `MCDepot` as `repo_local`, with `TreeLinks` on six objects, commits `o1 o2 o4`, `Seed <- OldAndNew`, `SeedDrops = {o2, o4}`, one push of 0 commands, `Large = 9`, no purges, 1 tick, 2 requests, 1 round, 1 fetch, no restore, and `FetchReads` | `app.rs:398`, `maint.rs:532` |
| A repository loaded again starts at generation 0, so a push checked before a reset skips its second check, although a collection may have dropped what it builds on | `repo_local` with `MaxResets = 1` and `Clonable` | `app.rs:304` |
| A delta base appended to a thin pack outlives the collection of what it links to; a later push moves a ref to it | `repo_later_order` with `ThinBases = TRUE`, `Keep = 0`, three commits in the seed, `SeedDrops = {o3}`, a fourth commit that is a second child of the root, and `Complete` | `git/ingest.rs:644` |
| So does a commit that a push brings during the collection and another push takes off its ref before the commit of the collection, if neither outlasts the collection's cutoff (`keep_days` 0, or a purge in that second). A push that brings no object can then move a ref to it: `check` asks that the tip is known and a commit, not that its history is there | `repo_local` with three pushes, `Links` of `o2` to `o1` alone, `Seed` one pack of `o1` and `o3`, the ref at `o3`, `SeedDrops = {o1}`, `Keep = 0`, no purges, ticks, rounds or restores, and `Complete` | `git/receive.rs:323`, `gc.rs:346` |
| A PUT that arrives after the cleanup looked lists the deleted pack | `repo_push` with `ListedStored` | `push.rs:500` |
| A push without a pack has nothing to recognise an earlier round by, and is applied again when somebody put the ref back meanwhile | `repo_atomic` with `MaxFaults = 1` and `MovesOnce` | `push.rs:550` |
| A fetch longer than an hour loses a pack to *another* server's sweep | `repo_fetch` with `MaxResets = 0` and `FetchReads` | `maint.rs:534` |
| `consider` prunes while a failed collection is backed off, and forgets why the garbage had to go | `repo_cleaned` and `KeptHistory` without its last disjunct | `maint.rs:311` |
| Two pushes that land before a repack starts leave more packs at rest than the logarithm of their length | `DepotMerge` under `MergeSpec`, without the condition of `MCParts` that pushes come at rest | `maint.rs:322` |
| Witness: a load that races a save elsewhere raises a false alarm, which the next load ends | what `WitnessSettles` speaks of | `witness.rs:204` |
| Witness: after one server accepted a rollback, what another still knows makes its raisings no-ops, and an old queued record can raise a lost revision again | `wstale` in `WitnessSettles` | `witness.rs:131, 150` |
| Registry: a settings change is applied to an id that was looked up before another read (a deleted and created name in between) | reading | `api.rs:360, 381` |
| Registry: a first write that landed unseen, a deletion elsewhere and a second round register a deleted repository again | reading | `push.rs:518` |
| Registry: a server with an old copy acknowledges a push into a repository that the API created, that never had a manifest and that was deleted elsewhere | reading | `app.rs`, `meta` |
| Hooks: the backlog of a failing hook fills the one shared cap, so that deliveries of healthy hooks are dropped; a delivery blocks the event loop up to five seconds ("never slows a push", `hooks.rs:5-6`) | `HTypeOK` counts the refused | `hooks.rs:69` |
| HTTP server: a request that was pipelined before a half-close is dropped; the clock of a head runs from the previous request's head; refusals announce keep-alive and close; a reset drops a sink without `fail` | reading | `serve.rs` |
| Two large pushes can both be refused, each for what the other still holds while its body is read to the end | `STypeOK` reaches it | `push.rs:53` |
| backchannel: history that was served before the stream was registered, and `onopen` before the answer, leave a gap nobody fills until the next reconnect | `parts` with `NothingMissed` | `backchannel/src/ui.html:468` |
| backchannel: "N here" is not corrected when a stream ends while nobody else listens to hear of it | `parts` with `PresenceTrue`, `CMaxMessages = 0`, `CMaxFaults = 1` | `backchannel/src/main.rs:304` |
| backchannel: a message sent while the page still fetches its history, and in that history, is shown twice, and its first bubble stays pending: the loop of `enterChat` does not look at `pendingByBlob` | `parts` with `cTab[c].shown[b] <= 1` for every page and blob | `backchannel/src/ui.html:322, 399` |
| backchannel: bubbles do not stand in the order of their numbers: the page's own comes before it has one, and a short message may be decrypted before a longer one that came first (`catchUp` does not wait) | reading | `backchannel/src/ui.html:386, 399, 473` |
| warpad: a timer that was set before a conflict runs out while the newer document is decrypted; the save then sends the old text, which the rebase's new base lets pass, and overwrites lines it never saw ("will not silently drop someone's words", `main.rs:252`) | `parts` with `SavedWordsStay` without its last disjunct | `warpad/src/ui.html:343, 361` |
| warpad: in the same window `applyHeld` begins a second decryption, and a page may go back to an older document | `parts` with `QuietShowsDoc` without `raced` | `warpad/src/ui.html:311, 361` |
| warpad: a text that is too large or cannot be sealed stays unsaved until the next edit, and a newer document stays held back; the page says so | `told` in `TypedIsSaved` and `QuietShowsDoc` | `warpad/src/ui.html:327` |
| warpad: `saveTimer` is set again without being cleared, so a page can have several timers | `StrayFires` | `warpad/src/ui.html:342, 352` |
| warpad: a fetch that throws leaves `saving` set, and the page saves no more; a document shown may cover a line just typed | the exceptions of `TypedIsSaved` | `warpad/src/ui.html` |
| depot: what a crash left behind in a bucket stays until a request opens the repository: the periodic round covers only those that are open | `repo_cleaned` with `Cleaned` without `up` | `app.rs:253`, `maint.rs:259` |
| fairdraw, yardstick: a round whose deadline comes within a sweep of the end of its time vanishes instead of closing | `ResultRight` asks only of rounds that closed | `fairdraw/src/main.rs:18`, `yardstick/README.md:63` |
| dead-drop: a drop found expired by a request leaves its bytes in the count | `BytesHeld` allows for it | `dead-drop/src/main.rs:220` |
| quorum: two approvers with one hash are accepted, and the threshold cannot be met | reading | `quorum/src/main.rs:224` |
| ipns: a peer whose new address is learned after it failed is marked as asked and never dialed again | `IpnsWalk` has it; the walk ends by the stall | `kad.rs:170` |
| ipns: a store counts when it is queued, not when it was sent; a higher sequence in the DHT only warns; a recovery that reaches nobody says "fresh name"; an announcement that failed is not tried again until the root changes; "a durable volume makes this airtight" (`README.md:100`) does not hold when the process dies inside the write of the state | `iSpent.torn` in `NeverBehind` | `p2p.rs:742`, `main.rs:435` |
| handoff: chunks are counted against the stored bytes only, not against what other transfers declared; a lost answer to the last chunk counts as a download | reading | `handoff/src/main.rs:230` |
| s3-ipfs-adapter: a pin deleted before a listing named it stays among the recent uploads, and every later index has it; a pin deleted and made again during a listing is taken for a duplicate of the old row, and the commit drops it ("a freshly pinned CID resolves immediately", `main.rs:1000`) | `BucketIndex` with deletions of keys of `BPins` in `BNext`: `IndexSettles` and `PinsServed` (of pins not deleted since) fail | `s3-ipfs-adapter/src/main.rs:781, 1013` |
| s3-ipfs-adapter: an object that is replaced between its listing and its hash, and then put back, keeps the digests of the other bytes for as long as its size and ETag stay | `BucketIndex` with an `Alter` that brings an old version back | `s3-ipfs-adapter/src/main.rs:838` |
| s3-ipfs-adapter: a pin that is refused or fails after its hold on the day's budget was settled, and a refused `/add-json`, have used it up; a hold given back after midnight lowers the new day's count | reading | `s3-ipfs-adapter/src/upload.rs:111, 372, 677` |

## 7. Not modelled

- depot: multipart uploads and the chunk cache (an upload is one step), `forget` of the
  witness, the rounds of negotiation and shallow fetches, HEAD, and the protocol details
  listed in section 2. Sealing, encodings, SHA-1, deltas and pack generation are
  conversions of bytes, which tests reach well; sign-in and configuration are parsing.
- ipns-publisher: Noise, yamux, multistream, the encodings of records and
  advertisements, `webreq.rs`.
- handoff, pulse, tripwire, tipline, hookbin, pixelboard: maps behind one event loop
  with the sweep that `SealedDrops` models; nothing in them waits for anything.
- s3-ipfs-adapter: the gateway, UnixFS, CAR, redirects, the scan of uploads and the S3
  client; they read a snapshot that does not change and compute. The day's budget of pins
  is a counter.
- IRC, minecraft-server, enclavedns: servers with a life of their own, of which protocol
  encoding is the larger part.
- jot, keep, shoebox, vault: files on a volume or a bucket, one request at a time.
- risc-box, golem: emulators; the semantics of instructions, not coordination.
- eyesoff-ai, the generators and readers, nn-demo, ggml-probe, api-mcp-adapter,
  encrypted-volumes, hello-world, network-test, agent, mobile-shell: front ends of
  model inference, generated bindings, configuration and demonstrations. They make up
  most of the lines of the repository.
