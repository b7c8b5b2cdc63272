----------------------------- MODULE DepotRegistry -----------------------------
(***************************************************************************)
(* The registry of depot: one document that maps repository names to       *)
(* random ids, rewritten by every creation, deletion and change of         *)
(* settings on any server (push.rs register, api.rs), beside the           *)
(* repositories' manifests, which pushes write under the ids.              *)
(*                                                                         *)
(* A server blocks in one call at a time; a push runs in slices, so that   *)
(* other calls of its own server fall between its start and its commit.    *)
(* Each server looks names up in a copy of the registry, which it reads    *)
(* again only for a name it does not know or to rewrite it.                *)
(***************************************************************************)
EXTENDS DepotStore, FiniteSets

CONSTANTS GServers, GNames,
          GPushes,     \* the pushes that may be made
          GRounds,     \* rounds of the save loops (8)
          GMaxIds,     \* bound: repositories created
          GMaxCalls,   \* bound: creations, deletions and changes by admins
          GMaxFaults   \* bound: lost requests and replies, crashes

ASSUME RegistryAssumption == {GRounds, GMaxIds, GMaxCalls, GMaxFaults} \subseteq Nat

VARIABLES
    greg,     \* the registry in the bucket
    gman,     \* the manifest of each id: its writer and the pushes in it
    gsrv,     \* each server: its copy of the registry, the repositories in memory
    gcall,    \* the call a server is in
    gpush,    \* each push
    gtold,    \* what was acknowledged: repositories created
    gasked,   \* ids some deletion set out to remove
    gspent    \* what was used of the bounds

gvars == <<greg, gman, gsrv, gcall, gpush, gtold, gasked, gspent>>

NoId == 0
Ids == 1..GMaxIds
NoReg == [rev |-> 0, writer |-> None, ids |-> [n \in GNames |-> NoId], public |-> {}]
NoGman == [writer |-> None, pushes |-> {}]
NewServer == [reg |-> NoReg, fresh |-> FALSE, mem |-> [i \in {} |-> NoGman]]
NoGcall == [kind |-> "none", st |-> "read", name |-> "none", id |-> NoId, push |-> "none",
            round |-> 0, nonce |-> None]
NoGpush == [st |-> "new", s |-> "none", name |-> "none", id |-> NoId, created |-> FALSE]

GInit ==
    /\ greg = NoReg
    /\ gman = [i \in Ids |-> NoGman]
    /\ gsrv = [s \in GServers |-> NewServer]
    /\ gcall = [s \in GServers |-> NoGcall]
    /\ gpush = [p \in GPushes |-> NoGpush]
    /\ gtold = {}
    /\ gasked = {}
    /\ gspent = [ids |-> 0, calls |-> 0, faults |-> 0, nonces |-> 0]

GFault == /\ gspent.faults < GMaxFaults
          /\ gspent' = [gspent EXCEPT !.faults = @ + 1]

Loaded(x) == DOMAIN x.mem
Drop(f, gone) == [i \in DOMAIN f \ gone |-> f[i]]
Hold(f, i, v) == [j \in DOMAIN f \cup {i} |-> IF j = i THEN v ELSE f[j]]

\* refresh_registry: the copy becomes what is stored, and repositories deleted
\* elsewhere leave memory.
Read(x) ==
    LET ids == {greg.ids[n] : n \in GNames} IN
    [x EXCEPT !.reg = greg, !.fresh = TRUE,
              !.mem = IF greg = x.reg THEN @ ELSE Drop(@, DOMAIN @ \ ids)]

\* meta: a name the copy has is not looked up again; one it lacks is, unless the
\* registry was read within 3 seconds.
Meta(x, n) == IF x.reg.ids[n] # NoId \/ x.fresh THEN x ELSE Read(x)

\* open: the repository's manifest is loaded if it is not in memory.  A manifest
\* that was seen and is gone is an error.
Opens(x, n) ==
    LET y == Meta(x, n)
        i == y.reg.ids[n]
    IN IF i \in Loaded(y) THEN gman[i] # NoGman \/ y.mem[i] = NoGman ELSE TRUE
Opened(x, n) ==
    LET y == Meta(x, n)
        i == y.reg.ids[n]
    IN IF i = NoId THEN y ELSE [y EXCEPT !.mem = Hold(@, i, gman[i])]

GFree(s) == gcall[s] = NoGcall
GLeave(s) == gcall' = [gcall EXCEPT ![s] = NoGcall]

------------------------------------------------------------------------------
\* Calls begin.

AdminCall(s) ==
    /\ GFree(s)
    /\ gspent.calls < GMaxCalls
    /\ gspent' = [gspent EXCEPT !.calls = @ + 1]

\* create: the name must not be known; a random id is drawn.
Create(s, n) ==
    /\ GFree(s)
    /\ gspent.calls < GMaxCalls /\ gspent.ids < GMaxIds
    /\ LET x == Meta(gsrv[s], n) IN
       /\ x.reg.ids[n] = NoId
       /\ gsrv' = [gsrv EXCEPT ![s] = x]
    /\ gcall' = [gcall EXCEPT ![s] = [NoGcall EXCEPT !.kind = "register", !.name = n,
                                          !.id = gspent.ids + 1]]
    /\ gspent' = [gspent EXCEPT !.calls = @ + 1, !.ids = @ + 1]
    /\ UNCHANGED <<greg, gman, gpush, gtold, gasked>>

Delete(s, n) ==
    /\ AdminCall(s)
    /\ gcall' = [gcall EXCEPT ![s] = [NoGcall EXCEPT !.kind = "delete", !.name = n]]
    /\ UNCHANGED <<greg, gman, gsrv, gpush, gtold, gasked>>

\* patch: the repository is opened, then its settings are changed under its name.
Patch(s, n) ==
    /\ AdminCall(s)
    /\ Opens(gsrv[s], n)
    /\ LET x == Opened(gsrv[s], n) IN
       /\ x.reg.ids[n] # NoId
       /\ gsrv' = [gsrv EXCEPT ![s] = x]
       /\ gcall' = [gcall EXCEPT ![s] = [NoGcall EXCEPT !.kind = "publish", !.name = n,
                                             !.id = x.reg.ids[n]]]
    /\ UNCHANGED <<greg, gman, gpush, gtold, gasked>>

\* A push starts (Stage::Start to Stage::Check): a repository that does not exist
\* will be created, under an id drawn now.
PushBegin(p, s, n) ==
    /\ gpush[p] = NoGpush /\ GFree(s)
    /\ Opens(gsrv[s], n)
    /\ LET x == Opened(gsrv[s], n)
           i == x.reg.ids[n]
       IN /\ gsrv' = [gsrv EXCEPT ![s] = x]
          /\ i = NoId => gspent.ids < GMaxIds
          /\ gpush' = [gpush EXCEPT ![p] =
                [st |-> "going", s |-> s, name |-> n, created |-> i = NoId,
                 id |-> IF i = NoId THEN gspent.ids + 1 ELSE i]]
          /\ gspent' = IF i = NoId THEN [gspent EXCEPT !.ids = @ + 1] ELSE gspent
    /\ UNCHANGED <<greg, gman, gcall, gtold, gasked>>

\* Variant: a repository that left memory is registered again, whoever made it.
BeginsByRegistering(x, q) == TRUE

\* A push whose repository is not in memory registers it, if it is the one that
\* creates it; one that was deleted meanwhile stays deleted.
Begins(x, q) == q.id \in Loaded(x) \/ q.created

PushEnds(p, how) == gpush' = [gpush EXCEPT ![p].st = how]

CommitBegin(p) ==
    LET q == gpush[p]
        x == gsrv[q.s]
    IN
    /\ q.st = "going" /\ GFree(q.s)
    /\ IF Begins(x, q)
       THEN /\ gcall' = [gcall EXCEPT ![q.s] =
                  [NoGcall EXCEPT !.kind = IF q.id \in Loaded(x) THEN "commit" ELSE "register",
                                  !.st = IF q.id \in Loaded(x) THEN "put" ELSE "read",
                                  !.push = p, !.name = q.name, !.id = q.id]]
            /\ PushEnds(p, "commit")
       ELSE /\ PushEnds(p, "refused")
            /\ UNCHANGED gcall
    /\ UNCHANGED <<greg, gman, gsrv, gtold, gasked, gspent>>

------------------------------------------------------------------------------
\* Rounds of rewriting the registry: it is read again, and the change is built.

\* The call ends without success.
Refuse(s) ==
    /\ GLeave(s)
    /\ IF gcall[s].push = "none" THEN UNCHANGED gpush ELSE PushEnds(gcall[s].push, "refused")

\* A registration took: the creation is acknowledged, or the push goes on.
Registered(s, x) ==
    LET c == gcall[s] IN
    IF c.push = "none"
    THEN /\ gtold' = gtold \cup {<<c.name, c.id>>}
         /\ gsrv' = [gsrv EXCEPT ![s] = x]
         /\ GLeave(s)
    ELSE /\ gsrv' = [gsrv EXCEPT ![s] = [x EXCEPT !.mem = Hold(@, c.id, gman[c.id])]]
         /\ gcall' = [gcall EXCEPT ![s] = [c EXCEPT !.kind = "commit", !.st = "put", !.round = 0]]
         /\ UNCHANGED gtold

\* Variant: a name that is registered is taken to be our own registration.
AnyIsOwn(c, i) == i # NoId

\* Is the name registered, to the very repository being registered?
Own(c, i) == i = c.id

ReadRegistry(s) ==
    LET c == gcall[s]
        x == Read(gsrv[s])
        i == x.reg.ids[c.name]
        proceed == /\ gsrv' = [gsrv EXCEPT ![s] = x]
                   /\ gcall' = [gcall EXCEPT ![s].st = "put"]
                   /\ UNCHANGED <<gpush, gtold>>
        refuse == /\ gsrv' = [gsrv EXCEPT ![s] = x]
                  /\ Refuse(s)
                  /\ UNCHANGED gtold
    IN
    /\ c.kind \in {"register", "delete", "publish"} /\ c.st = "read"
    /\ IF c.kind = "register"
       THEN IF i = NoId THEN proceed
            ELSE IF Own(c, i) THEN Registered(s, x) /\ UNCHANGED gpush
            ELSE refuse
       ELSE IF i = NoId THEN refuse ELSE proceed
    /\ UNCHANGED <<greg, gman, gasked, gspent>>

\* The registry a call wants stored.
Rewritten(s) ==
    LET c == gcall[s]
        r == gsrv[s].reg
        i == r.ids[c.name]
    IN CASE c.kind = "register" -> [r EXCEPT !.ids[c.name] = c.id]
         [] c.kind = "delete"   -> [r EXCEPT !.ids[c.name] = NoId, !.public = @ \ {i}]
         [] c.kind = "publish"  -> [r EXCEPT !.public = @ \cup {i}]

\* The write took, as its answer or the read-back says.  A deletion goes on to
\* remove the objects.
Stored(s, r) ==
    LET c == gcall[s]
        x == [gsrv[s] EXCEPT !.reg = r]
        i == gsrv[s].reg.ids[c.name]
    IN CASE c.kind = "register" -> Registered(s, x)
         [] c.kind = "delete" ->
              /\ gsrv' = [gsrv EXCEPT ![s] = [x EXCEPT !.mem = Drop(@, {i})]]
              /\ gcall' = [gcall EXCEPT ![s] = [c EXCEPT !.st = "wipe", !.id = i]]
              /\ UNCHANGED gtold
         [] c.kind = "publish" ->
              /\ gsrv' = [gsrv EXCEPT ![s] = x]
              /\ GLeave(s)
              /\ UNCHANGED gtold

\* Another round, or the registry is too busy.
Again(s) ==
    LET c == gcall[s] IN
    IF c.round + 1 < GRounds
    THEN /\ gcall' = [gcall EXCEPT ![s] = [c EXCEPT !.st = "read", !.round = @ + 1, !.nonce = None]]
         /\ UNCHANGED gpush
    ELSE Refuse(s)

\* save_registry.  A refused write was beaten by another server's; one that was not
\* answered is settled by the next step.
PutRegistry(s) ==
    LET c == gcall[s]
        nonce == gspent.nonces + 1
        new == [Rewritten(s) EXCEPT !.rev = @ + 1, !.writer = nonce]
        takes == Accepts(greg, gsrv[s].reg.writer)
        drawn == [gspent EXCEPT !.nonces = nonce]
    IN
    /\ c.kind \in {"register", "delete", "publish"} /\ c.st = "put"
    /\ gasked' = IF c.kind = "delete" THEN gasked \cup {gsrv[s].reg.ids[c.name]} ELSE gasked
    /\ \/ /\ takes
          /\ greg' = new /\ gspent' = drawn
          /\ Stored(s, new)
          /\ UNCHANGED gpush
       \/ /\ ~takes
          /\ Again(s)
          /\ UNCHANGED <<greg, gsrv, gtold, gspent>>
       \/ /\ gspent.faults < GMaxFaults
          /\ gspent' = [drawn EXCEPT !.faults = @ + 1]
          /\ greg' \in {greg} \cup (IF takes THEN {new} ELSE {})
          /\ gcall' = [gcall EXCEPT ![s] = [c EXCEPT !.st = "settle", !.nonce = nonce]]
          /\ UNCHANGED <<gsrv, gtold, gpush>>
    /\ UNCHANGED gman

\* The read-back after a write that was not answered.
SettleRegistry(s) ==
    LET c == gcall[s]
        r == ReadBack("unknown", greg, c.nonce)
    IN
    /\ c.kind \in {"register", "delete", "publish"} /\ c.st = "settle"
    /\ \/ /\ r = "ok" /\ Stored(s, greg) /\ UNCHANGED <<gpush, gspent>>
       \/ /\ r = "conflict" /\ Again(s) /\ UNCHANGED <<gsrv, gtold, gspent>>
       \/ /\ r = "err" /\ Refuse(s) /\ UNCHANGED <<gsrv, gtold, gspent>>
       \/ /\ GFault /\ Refuse(s) /\ UNCHANGED <<gsrv, gtold>>
    /\ UNCHANGED <<greg, gman, gasked>>

\* delete_repo_objects; if it fails the objects stay.
Wipe(s) ==
    LET c == gcall[s] IN
    /\ c.kind = "delete" /\ c.st = "wipe"
    /\ \/ gman' = [gman EXCEPT ![c.id] = NoGman] /\ UNCHANGED gspent
       \/ GFault /\ UNCHANGED gman
    /\ GLeave(s)
    /\ UNCHANGED <<greg, gsrv, gpush, gtold, gasked>>

------------------------------------------------------------------------------
\* The manifest of a push, one round: it is replaced if it is the one in memory,
\* or read again; one that was there and is gone ends the push.
PutManifest(s) ==
    LET c == gcall[s]
        copy == gsrv[s].mem[c.id]
        nonce == gspent.nonces + 1
        new == [writer |-> nonce, pushes |-> copy.pushes \cup {c.push}]
    IN
    /\ c.kind = "commit" /\ c.st = "put"
    /\ \/ /\ gman[c.id].writer = copy.writer
          /\ gman' = [gman EXCEPT ![c.id] = new]
          /\ gspent' = [gspent EXCEPT !.nonces = nonce]
          /\ gsrv' = [gsrv EXCEPT ![s].mem = Hold(@, c.id, new)]
          /\ PushEnds(c.push, "done")
          /\ GLeave(s)
       \/ /\ gman[c.id].writer # copy.writer
          /\ IF gman[c.id] = NoGman \/ c.round + 1 >= GRounds
             THEN Refuse(s) /\ UNCHANGED gsrv
             ELSE /\ gsrv' = [gsrv EXCEPT ![s].mem = Hold(@, c.id, gman[c.id])]
                  /\ gcall' = [gcall EXCEPT ![s].round = @ + 1]
                  /\ UNCHANGED gpush
          /\ UNCHANGED <<gman, gspent>>
       \/ /\ gman[c.id].writer = copy.writer
          /\ gspent.faults < GMaxFaults
          /\ gspent' = [gspent EXCEPT !.faults = @ + 1, !.nonces = nonce]
          /\ gman' \in {gman, [gman EXCEPT ![c.id] = new]}
          /\ PushEnds(c.push, "refused")
          /\ GLeave(s)
          /\ UNCHANGED gsrv
    /\ UNCHANGED <<greg, gtold, gasked>>

\* Three seconds pass; a process dies with its pushes and starts again.
GExpire(s) ==
    /\ gsrv[s].fresh
    /\ gsrv' = [gsrv EXCEPT ![s].fresh = FALSE]
    /\ UNCHANGED <<greg, gman, gcall, gpush, gtold, gasked, gspent>>

GCrash(s) ==
    /\ GFault
    /\ gsrv' = [gsrv EXCEPT ![s] = [NewServer EXCEPT !.reg = greg, !.fresh = TRUE]]
    /\ GLeave(s)
    /\ gpush' = [p \in GPushes |-> IF gpush[p].s = s /\ gpush[p].st \in {"going", "commit"}
                                  THEN [gpush[p] EXCEPT !.st = "refused"] ELSE gpush[p]]
    /\ UNCHANGED <<greg, gman, gtold, gasked>>

GNext ==
    \/ \E s \in GServers :
          \/ \E n \in GNames : Create(s, n) \/ Delete(s, n) \/ Patch(s, n)
          \/ \E p \in GPushes, n \in GNames : PushBegin(p, s, n)
          \/ ReadRegistry(s) \/ PutRegistry(s) \/ SettleRegistry(s) \/ Wipe(s) \/ PutManifest(s)
          \/ GExpire(s) \/ GCrash(s)
    \/ \E p \in GPushes : CommitBegin(p)

GSpec == GInit /\ [][GNext]_gvars

------------------------------------------------------------------------------
GTypeOK ==
    /\ greg.ids \in [GNames -> Ids \cup {NoId}] /\ greg.public \subseteq Ids
    /\ greg.rev \in Nat /\ greg.writer \in 0..gspent.nonces
    /\ \A s \in GServers :
          /\ DOMAIN gsrv[s].mem \subseteq Ids /\ gsrv[s].reg.rev <= greg.rev
          /\ gcall[s].kind \in {"none", "register", "delete", "publish", "commit"}
          /\ gcall[s].kind = "commit" => gcall[s].id \in Loaded(gsrv[s])
    /\ \A p \in GPushes : gpush[p].st \in {"new", "going", "commit", "refused", "done"}
    /\ gasked \subseteq Ids

\* What was acknowledged stays: a repository keeps its name, whatever other servers
\* create, push first or publish, and a push is in the manifest of the repository its
\* name stands for, until somebody deletes it.  Of two first pushes to a name only one
\* creates it, and the other's commit is not lost under another id (register).
AcknowledgedStays ==
    /\ \A t \in gtold : greg.ids[t[1]] = t[2] \/ t[2] \in gasked
    /\ \A p \in GPushes :
           LET q == gpush[p] IN
           q.st = "done" /\ q.id \notin gasked
               => greg.ids[q.name] = q.id /\ p \in gman[q.id].pushes

\* A change of the stored registry, whoever makes it, adds, removes or publishes one
\* repository, and no name passes from one to another.
OneEntry ==
    /\ greg'.rev = greg.rev + 1
    /\ \/ greg'.ids = greg.ids /\ \E i \in Ids : greg'.public = greg.public \cup {i}
       \/ \E n \in GNames : /\ \A m \in GNames \ {n} : greg'.ids[m] = greg.ids[m]
                            /\ greg.ids[n] = NoId \/ greg'.ids[n] = NoId

\* A repository that was to be deleted comes back at most by a further round of the very
\* call that created it (whose first write was not seen to land): a push to it that was
\* under way does not bring it back (commit).
BroughtBack(n) == greg'.ids[n] # greg.ids[n] /\ greg'.ids[n] \in gasked
ByItsCreation(n) == \E s \in GServers : gcall[s].id = greg'.ids[n] /\ gcall[s].round > 0

\* Together the servers behave as one registry: every write of theirs is one change, and
\* none brings back what was deleted.
OneRegistry ==
    [][greg' # greg =>
          OneEntry /\ \A n \in GNames : BroughtBack(n) => ByItsCreation(n)]_gvars
=============================================================================
