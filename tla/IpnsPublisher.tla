---------------------------- MODULE IpnsPublisher -----------------------------
(***************************************************************************)
(* ipns-publisher: the sequence of an IPNS name's records                  *)
(* (ipns-publisher/src/main.rs).  A round asks the delegates, and if there *)
(* are none and no disk the DHT, for the record they know, signs one that  *)
(* beats it, and hands it to the delegates and the DHT.  The process may   *)
(* die at any moment; what it knew is then on the volume, if it has one,   *)
(* or with others.  A record is its sequence and its value: a later        *)
(* signature ends later, so of two equal sequences the later wins.         *)
(***************************************************************************)
EXTENDS IpnsAds

CONSTANTS
    ISetups,        \* deployments: [delegates, dht, volume, known], known being a record or NoRec
    IValues,        \* what the name may point at
    IMaxChanges,    \* bound: changes of the value
    IMaxFaults,     \* bound: requests and writes that fail
    IMaxCrashes     \* bound: ends of the process

NoRec == [seq |-> 0, value |-> ""]    \* no record: a value is never empty
Rec(seq, value) == [seq |-> seq, value |-> value]
IRecords == {NoRec} \cup [seq : Nat, value : IValues]

ASSUME IpnsAssumption ==
    /\ "" \notin IValues /\ {IMaxChanges, IMaxFaults, IMaxCrashes} \subseteq Nat
    /\ ISetups \subseteq [delegates : Seq(STRING), dht : BOOLEAN, volume : BOOLEAN, known : IRecords]

VARIABLES
    iSetup,     \* the configuration of the deployment
    iSource,    \* the value to publish, as its source answers
    iApp,       \* App
    iTurn,      \* the half of the event loop's round that is next
    iDht,       \* Dht: job, state, record, best_seen
    iDisk,      \* /data/ipns-publisher-state.json
    iHeld,      \* what each delegate knows
    iNet,       \* what the DHT knows
    iTop,       \* the highest record this publisher has served
    iHeard,     \* delegates that answered this process
    iSpent      \* changes, faults, crashes, and writes of the state that failed

iOwn == <<iSetup, iSource, iApp, iTurn, iDht, iDisk, iHeld, iNet, iTop, iHeard, iSpent>>
iVars == <<iOwn, adsVars>>

Delegates == {iSetup.delegates[n] : n \in DOMAIN iSetup.delegates}

Task(do) == [do |-> do, at |-> ""]
TaskAt(do, d) == [do |-> do, at |-> d]
Each(do) == [n \in DOMAIN iSetup.delegates |-> TaskAt(do, iSetup.delegates[n])]

\* enqueue_publish, unless a round is queued already: ask the delegates, or the DHT if
\* nothing else can know, then sign.
Enqueued(tasks, durable) ==
    IF \E n \in DOMAIN tasks : tasks[n].do \in {"sign", "walk", "walking"} THEN tasks
    ELSE tasks \o Each("recover")
               \o (IF iSetup.dht /\ Delegates = {} /\ ~durable THEN <<Task("walk")>> ELSE <<>>)
               \o <<Task("sign")>>

\* Variant: the record that was heard of last counts.
NotedLast(app, r) == [app EXCEPT !.recovered = r]

\* note_recovered: a record that is known counts if its sequence is higher.
Noted(app, r) ==
    IF app.recovered = NoRec \/ r.seq > app.recovered.seq THEN [app EXCEPT !.recovered = r] ELSE app

\* App::new: what the state file says, and a first round.
Booted(disk) ==
    [tasks |-> Enqueued(<<>>, disk # NoRec), record |-> NoRec, recovered |-> disk,
     durable |-> disk # NoRec, due |-> TRUE]

IdleDht == [job |-> "publish", busy |-> FALSE, record |-> NoRec, best |-> NoRec]

\* A fresh deployment, of a new name or of one that others know already.
IInit ==
    /\ iSetup \in ISetups
    /\ iSource \in IValues
    /\ iDisk = NoRec
    /\ iApp = Booted(NoRec)
    /\ iTurn = "tick"
    /\ iDht = IdleDht
    /\ iHeld = [d \in Delegates |-> iSetup.known]
    /\ iNet = iSetup.known
    /\ iTop = NoRec
    /\ iHeard = {}
    /\ iSpent = [changes |-> 0, faults |-> 0, crashes |-> 0, torn |-> 0]
    /\ AdsInit

-------------------------------------------------------------------------------
\* What a task leaves for later, and what it changes.

CanFail == iSpent.faults < IMaxFaults
Fault == [iSpent EXCEPT !.faults = @ + 1]

\* tick: a round falls due, and one task is taken off the queue.
TickWork == iApp.due \/ iApp.tasks # <<>>
RoundDue == IF iApp.due THEN [iApp EXCEPT !.tasks = Enqueued(@, iApp.durable), !.due = FALSE] ELSE iApp
First == Head(RoundDue.tasks)
Popped == [RoundDue EXCEPT !.tasks = Tail(@)]
Ticks(do) == iTurn = "tick" /\ TickWork /\ First.do = do

\* do_recover: the delegate answers with the record it knows, or with none.
DoRecover ==
    /\ Ticks("recover")
    /\ iApp' = IF iHeld[First.at] = NoRec THEN Popped ELSE Noted(Popped, iHeld[First.at])
    /\ iHeard' = iHeard \cup {First.at}
    /\ UNCHANGED <<iSetup, iSource, iDht, iDisk, iHeld, iNet, iTop, iSpent, adsVars>>

\* do_recover, or do_put: no answer.
RequestFails ==
    /\ CanFail /\ iSpent' = Fault
    /\ Ticks("recover") \/ Ticks("put")
    /\ iApp' = Popped
    /\ UNCHANGED <<iSetup, iSource, iDht, iDisk, iHeld, iNet, iTop, iHeard, adsVars>>

\* do_recover_dht, first visit: start_recover, which does nothing while the engine works
\* on something else.  The task goes back to the front of the queue.
Walk ==
    /\ Ticks("walk")
    /\ iDht' = IF iDht.busy THEN iDht
               ELSE [job |-> "recover", busy |-> TRUE, record |-> NoRec, best |-> NoRec]
    /\ iApp' = [Popped EXCEPT !.tasks = <<Task("walking")>> \o @]
    /\ UNCHANGED <<iSetup, iSource, iDisk, iHeld, iNet, iTop, iHeard, iSpent, adsVars>>

\* do_recover_dht, later visits: recover_result has an answer once a walk that was begun
\* to recover is over.
Walking ==
    /\ Ticks("walking")
    /\ iApp' = IF iDht.job # "recover" \/ iDht.busy THEN RoundDue
               ELSE IF iDht.best = NoRec THEN Popped ELSE Noted(Popped, iDht.best)
    /\ UNCHANGED <<iSetup, iSource, iDht, iDisk, iHeld, iNet, iTop, iHeard, iSpent, adsVars>>

\* Variant: what others know is not looked at.
SequenceOfOwn(value) ==
    LET own == iApp.record
    IN  CASE own = NoRec -> 0 [] own.value = value -> own.seq [] OTHER -> own.seq + 1

\* do_sign chooses the sequence: the one it has, or that of the record it knows, for an
\* unchanged value; one more than both for another.
Sequence(value) ==
    LET base == iApp.recovered
        own == iApp.record
    IN  CASE own # NoRec /\ own.value = value /\ own.seq >= base.seq -> own.seq
          [] ~(own # NoRec /\ own.value = value /\ own.seq >= base.seq) /\ base.value = value -> base.seq
          [] OTHER -> IF base = NoRec /\ own = NoRec THEN 0
                      ELSE (IF base.seq > own.seq THEN base.seq ELSE own.seq) + 1

\* do_sign up to save_state.
Signed(file) ==
    LET new == Rec(Sequence(iSource), iSource)
        app == Noted(Popped, new)
    IN  /\ iApp' = [app EXCEPT !.record = new, !.durable = file = "written",
                               !.tasks = @ \o Each("put")
                                           \o (IF iSetup.dht THEN <<Task("dht")>> ELSE <<>>)]
        /\ iTop' = IF iTop = NoRec \/ new.seq > iTop.seq THEN new ELSE iTop
        /\ iDisk' = CASE file = "written" -> new [] file = "torn" -> NoRec [] OTHER -> iDisk

\* do_sign.  From its end on anybody may read the record (serve_record).  The volume
\* takes the state, or there is none.
Sign ==
    /\ Ticks("sign")
    /\ Signed(IF iSetup.volume THEN "written" ELSE "kept")
    /\ iAdTasks' = AnnounceRoot(iSource)
    /\ UNCHANGED <<iSetup, iSource, iDht, iHeld, iNet, iHeard, iSpent, iAds, iChainFile>>

\* do_sign, where the write of the state fails, with the old file gone or not.
SignUnsaved ==
    /\ CanFail /\ iSetup.volume
    /\ iSpent' = [Fault EXCEPT !.torn = @ + 1]
    /\ Ticks("sign")
    /\ \E file \in {"kept", "torn"} : Signed(file)
    /\ iAdTasks' = AnnounceRoot(iSource)
    /\ UNCHANGED <<iSetup, iSource, iDht, iHeld, iNet, iHeard, iAds, iChainFile>>

\* do_sign, when the source of the value does not answer: the round is given up.
SignFails ==
    /\ CanFail /\ iSpent' = Fault
    /\ Ticks("sign")
    /\ iApp' = Popped
    /\ UNCHANGED <<iSetup, iSource, iDht, iDisk, iHeld, iNet, iTop, iHeard, adsVars>>

\* A delegate, and a peer of the DHT, take a record unless they know a higher sequence.
Received(held, r) == IF held = NoRec \/ r.seq >= held.seq THEN r ELSE held

\* do_put: the current record, whatever it is by now.
Put ==
    /\ Ticks("put")
    /\ iApp' = Popped
    /\ iHeld' = IF iApp.record = NoRec THEN iHeld ELSE [iHeld EXCEPT ![First.at] = Received(@, iApp.record)]
    /\ UNCHANGED <<iSetup, iSource, iDht, iDisk, iNet, iTop, iHeard, iSpent, adsVars>>

\* do_dht_publish: one walk at a time; a busy engine keeps the record it has.
DhtPublish ==
    /\ Ticks("dht")
    /\ iApp' = Popped
    /\ iDht' = IF iApp.record = NoRec \/ iDht.busy THEN iDht
               ELSE [job |-> "publish", busy |-> TRUE, record |-> iApp.record, best |-> NoRec]
    /\ UNCHANGED <<iSetup, iSource, iDisk, iHeld, iNet, iTop, iHeard, iSpent, adsVars>>

\* Dht::drive, over many rounds of the event loop: the walk converges, and has met the
\* record or stored it with the closest peers, or it found nobody.
DhtEnds(reached) ==
    /\ iDht.busy
    /\ iDht' = [iDht EXCEPT !.busy = FALSE,
                            !.best = IF reached /\ iDht.job = "recover" THEN iNet ELSE NoRec]
    /\ iNet' = IF reached /\ iDht.job = "publish" THEN Received(iNet, iDht.record) ELSE iNet
    /\ UNCHANGED <<iSetup, iSource, iApp, iTurn, iDisk, iHeld, iTop, iHeard, adsVars>>
DhtReaches == DhtEnds(TRUE) /\ UNCHANGED iSpent
DhtMisses == CanFail /\ DhtEnds(FALSE) /\ iSpent' = Fault

-------------------------------------------------------------------------------
\* Provider::drive: a step, in each round of the event loop.
Provides == iTurn = "provide" \/ ~TickWork
Provide ==
    /\ Provides /\ iTurn' = "tick"
    /\ Build(IF iSetup.volume THEN "written" ELSE "kept") \/ Announce
    /\ UNCHANGED <<iSetup, iSource, iApp, iDht, iDisk, iHeld, iNet, iTop, iHeard, iSpent>>

ProvideFails ==
    /\ CanFail /\ iSpent' = Fault
    /\ Provides /\ iTurn' = "tick"
    /\ \/ BuildFails
       \/ iSetup.volume /\ \E file \in {"kept", "torn"} : Build(file)
    /\ UNCHANGED <<iSetup, iSource, iApp, iDht, iDisk, iHeld, iNet, iTop, iHeard>>

-------------------------------------------------------------------------------
\* The world: a new value, the republish timer, POST /publish, the end of the process.

Change(value) ==
    /\ iSpent.changes < IMaxChanges /\ value # iSource
    /\ iSource' = value
    /\ iSpent' = [iSpent EXCEPT !.changes = @ + 1]
    /\ UNCHANGED <<iSetup, iApp, iTurn, iDht, iDisk, iHeld, iNet, iTop, iHeard, adsVars>>

Republish ==
    /\ ~iApp.due
    /\ iApp' = [iApp EXCEPT !.due = TRUE]
    /\ UNCHANGED <<iSetup, iSource, iTurn, iDht, iDisk, iHeld, iNet, iTop, iHeard, iSpent, adsVars>>

PostPublish ==
    /\ iTurn = "tick"
    /\ iApp' = [iApp EXCEPT !.tasks = Enqueued(@, iApp.durable)]
    /\ UNCHANGED <<iSetup, iSource, iTurn, iDht, iDisk, iHeld, iNet, iTop, iHeard, iSpent, adsVars>>

\* The process dies and another starts with what the volume holds.  A write of the state
\* or of the chain that it died in leaves nothing of the file (fs::write).
Crash(disk, chain) ==
    /\ iSpent.crashes < IMaxCrashes
    /\ iSpent' = [iSpent EXCEPT !.crashes = @ + 1,
                                !.torn = IF disk = iDisk THEN @ ELSE @ + 1]
    /\ iDisk' = disk
    /\ iApp' = Booted(disk)
    /\ iTurn' = "tick"
    /\ iDht' = IdleDht
    /\ iHeard' = {}
    /\ AdsReload(chain)
    /\ UNCHANGED <<iSetup, iSource, iHeld, iNet, iTop>>
CrashIdle == Crash(iDisk, iChainFile)
CrashInSign == Ticks("sign") /\ iSetup.volume /\ Crash(NoRec, iChainFile)
CrashInBuild ==
    /\ Provides /\ iSetup.volume /\ iAdTasks # <<>> /\ Head(iAdTasks).do = "build"
    /\ Crash(iDisk, NoAds)

\* A turn of tick; then the advertiser has its own, if it has anything to do.
ITick ==
    /\ \/ DoRecover \/ RequestFails \/ Walk \/ Walking \/ Sign \/ SignUnsaved \/ SignFails
       \/ Put \/ DhtPublish
    /\ iTurn' = IF iAdTasks' # <<>> THEN "provide" ELSE "tick"

INext ==
    \/ ITick \/ DhtReaches \/ DhtMisses \/ Provide \/ ProvideFails
    \/ Republish \/ PostPublish \/ \E value \in IValues : Change(value)
    \/ CrashIdle \/ CrashInSign \/ CrashInBuild

ISpec == IInit /\ [][INext]_iVars

\* The event loop goes round, walks end by PUBLISH_DEADLINE, and the timer runs.
IFairSpec ==
    /\ ISpec
    /\ WF_iVars(ITick) /\ WF_iVars(DhtReaches \/ DhtMisses)
    /\ WF_iVars(Provide \/ ProvideFails) /\ WF_iVars(Republish)

-------------------------------------------------------------------------------
\* Properties.

ITypeOK ==
    /\ iSetup \in ISetups /\ iSource \in IValues
    /\ \A n \in DOMAIN iApp.tasks :
          iApp.tasks[n] \in {Task(do) : do \in {"walk", "walking", "sign", "dht"}}
                            \cup {TaskAt(do, d) : do \in {"recover", "put"}, d \in Delegates}
    /\ {iApp.record, iApp.recovered, iDisk, iNet, iTop, iDht.record, iDht.best} \subseteq IRecords
    /\ iHeld \in [Delegates -> IRecords] /\ iHeard \subseteq Delegates
    /\ iTurn \in {"tick", "provide"}
    /\ AdsOK

\* The publisher does not fall behind itself (README.md, Sequence monotonicity).  While the
\* volume takes what is written to it, no record is signed below one that was served before,
\* in whatever process, nor with the sequence of one but another value; and whatever was
\* lost, no delegate that has answered this process turns down what it signs.
NeverBehind ==
    [][iApp'.record # iApp.record /\ iApp'.record # NoRec =>
          LET new == iApp'.record
          IN  /\ iSetup.volume /\ iSpent.torn = 0 => iTop = NoRec \/ iTop.seq < new.seq \/ iTop = new
              /\ \A d \in iHeard : iHeld[d] = NoRec \/ iHeld[d].seq <= new.seq]_iVars

\* What was published reaches whoever can be reached: in the end every delegate knows the
\* value of the source, and the advertised root is that of the source, whatever was
\* forgotten, lost or turned down on the way.
CatchesUp ==
    <>[](/\ \A d \in Delegates : iHeld[d].value = iSource
         /\ Delegates # {} => iAds.root = <<iSource>>)

\* A round that is queued ends with a signature, or with a source that does not answer: "It
\* re-enqueues itself each tick until the walk converges" (main.rs:162-163).
RoundQueued == \E n \in DOMAIN iApp.tasks : iApp.tasks[n].do = "sign"
RoundsEnd == RoundQueued ~> ~RoundQueued
===============================================================================
