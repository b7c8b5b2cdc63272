----------------------------- MODULE DepotTokens -----------------------------
(***************************************************************************)
(* The token book of depot (tokens.rs): one sealed document in the bucket, *)
(* minted into and revoked from by any of the servers that share it, each  *)
(* working from the copy it has in memory, and looked up on every request  *)
(* that carries a token (routes.rs, who).                                  *)
(*                                                                         *)
(* A server handles one request at a time and blocks in it, so it has at   *)
(* most one mint or revoke under way.  Between two of its storage requests *)
(* the other servers run.  A PUT is a message: it may arrive late (after   *)
(* its sender stopped waiting, even after its sender restarted) or never,  *)
(* and the answer to it may be lost.                                       *)
(***************************************************************************)
EXTENDS DepotStore, FiniteSets

CONSTANTS Servers,      \* the servers sharing the bucket
          Tokens,       \* the tokens that may be minted (each is random, so minted by one call)
          MaxTokens,    \* the book's capacity (1000)
          MaxAttempts,  \* rounds of the save loop (8)
          MaxCalls      \* bound: mint and revoke calls in a behaviour

ASSUME CapacityAssumption == MaxTokens \in Nat
ASSUME AttemptsAssumption == MaxAttempts \in Nat \ {0}
ASSUME CallsAssumption == MaxCalls \in Nat

VARIABLES
    doc,      \* the book in the bucket: [rev, writer, toks]
    wire,     \* PUTs sent and not yet arrived: [srv, etag, doc]
    nonces,   \* how many writer nonces were drawn
    book,     \* each server's copy of the book
    fresh,    \* each server: was it refreshed within the last 5 seconds
    pc,       \* where each server's mint or revoke stands
    op,       \* the call it is in: [kind, tok, attempt]
    pend,     \* the book it is writing
    first,    \* how its PUT was answered
    calls,    \* how many mint and revoke calls were made
    used,     \* tokens drawn so far
    asked,    \* tokens a revoke was called for
    minted,   \* tokens a mint call returned
    revoked   \* tokens a revoke call said are gone

vars == <<doc, wire, nonces, book, fresh, pc, op, pend, first, calls, used, asked, minted, revoked>>

NoBook == [rev |-> 0, writer |-> None, toks |-> {}]
NoOp == [kind |-> "none", attempt |-> 0]

Books == [rev : Nat, writer : Nat, toks : SUBSET Tokens]
Ops == {NoOp} \cup [kind : {"mint", "revoke"}, tok : Tokens, attempt : Nat]

TypeOK ==
    /\ doc \in Books
    /\ wire \subseteq [srv : Servers, etag : Nat, doc : Books]
    /\ nonces \in Nat
    /\ book \in [Servers -> Books]
    /\ fresh \in [Servers -> BOOLEAN]
    /\ pc \in [Servers -> {"boot", "idle", "refresh", "save", "wait", "readback"}]
    /\ op \in [Servers -> Ops]
    /\ \A s \in Servers : pc[s] \notin {"boot", "idle"} => op[s] # NoOp
    /\ pend \in [Servers -> Books]
    /\ first \in [Servers -> {"none", "refused", "unknown"}]
    /\ calls \in Nat
    /\ used \subseteq Tokens
    /\ asked \subseteq Tokens
    /\ minted \subseteq Tokens
    /\ revoked \subseteq Tokens

Init ==
    /\ doc = NoBook
    /\ wire = {}
    /\ nonces = 0
    /\ book = [s \in Servers |-> NoBook]
    /\ fresh = [s \in Servers |-> FALSE]
    /\ pc = [s \in Servers |-> "boot"]
    /\ op = [s \in Servers |-> NoOp]
    /\ pend = [s \in Servers |-> NoBook]
    /\ first = [s \in Servers |-> "none"]
    /\ calls = 0
    /\ used = {}
    /\ asked = {}
    /\ minted = {}
    /\ revoked = {}

------------------------------------------------------------------------------
\* Leave the call under way; what it answered is in minted and revoked.
Return(s) ==
    /\ pc' = [pc EXCEPT ![s] = "idle"]
    /\ op' = [op EXCEPT ![s] = NoOp]

\* Variant: the ETag is taken over, the book is not.
RefreshedTagOnly(s) ==
    /\ Newer(doc, book[s], book[s].writer)
    /\ book' = [book EXCEPT ![s].writer = doc.writer]
    /\ fresh' = [fresh EXCEPT ![s] = TRUE]

\* refresh, when the GET was answered and what came back is not older.
Refreshed(s) ==
    /\ Newer(doc, book[s], book[s].writer)
    /\ book' = [book EXCEPT ![s] = IF doc.writer = None THEN @ ELSE doc]
    /\ fresh' = [fresh EXCEPT ![s] = TRUE]

\* A process starts with an empty book and serves once it has read the stored one.
Boot(s) ==
    /\ pc[s] = "boot"
    /\ Refreshed(s)
    /\ pc' = [pc EXCEPT ![s] = "idle"]
    /\ UNCHANGED <<doc, wire, nonces, op, pend, first, calls, used, asked, minted, revoked>>

Mint(s, t) ==
    /\ pc[s] = "idle"
    /\ t \notin used
    /\ calls < MaxCalls
    /\ used' = used \cup {t}
    /\ op' = [op EXCEPT ![s] = [kind |-> "mint", tok |-> t, attempt |-> 0]]
    /\ pc' = [pc EXCEPT ![s] = "refresh"]
    /\ calls' = calls + 1
    /\ UNCHANGED <<doc, wire, nonces, book, fresh, pend, first, asked, minted, revoked>>

\* An admin revokes by id; ids are random, so the token is one that was drawn.
Revoke(s, t) ==
    /\ pc[s] = "idle"
    /\ t \in used
    /\ calls < MaxCalls
    /\ calls' = calls + 1
    /\ asked' = asked \cup {t}
    /\ op' = [op EXCEPT ![s] = [kind |-> "revoke", tok |-> t, attempt |-> 0]]
    /\ pc' = [pc EXCEPT ![s] = "refresh"]
    /\ UNCHANGED <<doc, wire, nonces, book, fresh, pend, first, used, minted, revoked>>

\* One round of the save loop up to the write: read the book again, see
\* whether there is still something to do.
RefreshMint(s) ==
    LET t == op[s].tok IN
    /\ pc[s] = "refresh" /\ op[s].kind = "mint"
    /\ Refreshed(s)
    /\ \/ /\ t \in book'[s].toks
          /\ minted' = minted \cup {t}
          /\ Return(s)
       \/ /\ t \notin book'[s].toks
          /\ Cardinality(book'[s].toks) >= MaxTokens
          /\ Return(s)
          /\ UNCHANGED minted
       \/ /\ t \notin book'[s].toks
          /\ Cardinality(book'[s].toks) < MaxTokens
          /\ pc' = [pc EXCEPT ![s] = "save"]
          /\ UNCHANGED <<op, minted>>
    /\ UNCHANGED <<doc, wire, nonces, pend, first, calls, used, asked, revoked>>

RefreshRevoke(s) ==
    LET t == op[s].tok IN
    /\ pc[s] = "refresh" /\ op[s].kind = "revoke"
    /\ Refreshed(s)
    /\ \/ /\ t \notin book'[s].toks
          /\ revoked' = IF op[s].attempt > 0 THEN revoked \cup {t} ELSE revoked
          /\ Return(s)
       \/ /\ t \in book'[s].toks
          /\ pc' = [pc EXCEPT ![s] = "save"]
          /\ UNCHANGED <<op, revoked>>
    /\ UNCHANGED <<doc, wire, nonces, pend, first, calls, used, asked, minted>>

\* The GET failed after its retries, or storage served an older book: the
\* call ends in an error.
RefreshFails(s) ==
    /\ pc[s] = "refresh"
    /\ Return(s)
    /\ UNCHANGED <<doc, wire, nonces, book, fresh, pend, first, calls, used, asked, minted, revoked>>

\* The book a call wants to see stored.
Changed(s) ==
    IF op[s].kind = "mint" THEN book[s].toks \cup {op[s].tok}
                           ELSE book[s].toks \ {op[s].tok}

\* save: the next revision under a fresh nonce, on condition of the ETag held.
Save(s) ==
    LET new == [rev |-> book[s].rev + 1, writer |-> nonces + 1, toks |-> Changed(s)] IN
    /\ pc[s] = "save"
    /\ nonces' = nonces + 1
    /\ pend' = [pend EXCEPT ![s] = new]
    /\ wire' = wire \cup {[srv |-> s, etag |-> book[s].writer, doc |-> new]}
    /\ pc' = [pc EXCEPT ![s] = "wait"]
    /\ UNCHANGED <<doc, book, fresh, op, first, calls, used, asked, minted, revoked>>

\* put_sealed said Saved::Ok: the call succeeded.
Saved(s) ==
    /\ book' = [book EXCEPT ![s] = pend[s]]
    /\ minted' = IF op[s].kind = "mint" THEN minted \cup {op[s].tok} ELSE minted
    /\ revoked' = IF op[s].kind = "revoke" THEN revoked \cup {op[s].tok} ELSE revoked
    /\ Return(s)

\* Variant: the next round starts without the call it is for.
ConflictForgetsCall(s) ==
    /\ pc' = [pc EXCEPT ![s] = "refresh"]
    /\ op' = [op EXCEPT ![s] = NoOp]

\* put_sealed said Saved::Conflict: another round, or "token book busy".
Conflict(s) ==
    IF op[s].attempt + 1 < MaxAttempts
    THEN /\ pc' = [pc EXCEPT ![s] = "refresh"]
         /\ op' = [op EXCEPT ![s].attempt = @ + 1]
    ELSE Return(s)

\* Is the sender of this PUT still waiting for its answer?
Awaited(w) == pc[w.srv] = "wait" /\ pend[w.srv] = w.doc

\* A PUT reaches the bucket, in time or late.  Its answer reaches the sender
\* if that one is still waiting, or is lost.
Arrive(w) ==
    /\ w \in wire
    /\ wire' = wire \ {w}
    /\ doc' = IF Accepts(doc, w.etag) THEN w.doc ELSE doc
    /\ \/ UNCHANGED <<book, pc, op, first, minted, revoked>>
       \/ /\ Awaited(w)
          /\ Accepts(doc, w.etag)
          /\ Saved(w.srv)
          /\ UNCHANGED first
       \/ /\ Awaited(w)
          /\ ~Accepts(doc, w.etag)
          /\ first' = [first EXCEPT ![w.srv] = "refused"]
          /\ pc' = [pc EXCEPT ![w.srv] = "readback"]
          /\ UNCHANGED <<book, op, minted, revoked>>
    /\ UNCHANGED <<nonces, fresh, pend, calls, used, asked>>

\* No usable answer (a timeout, a broken connection, a 5xx, an answer without
\* an ETag): the outcome of the PUT is unknown.
GiveUp(s) ==
    /\ pc[s] = "wait"
    /\ first' = [first EXCEPT ![s] = "unknown"]
    /\ pc' = [pc EXCEPT ![s] = "readback"]
    /\ UNCHANGED <<doc, wire, nonces, book, fresh, op, pend, calls, used, asked, minted, revoked>>

\* The read-back settles a PUT that was not seen to succeed.
Settle(s) ==
    LET r == ReadBack(first[s], doc, pend[s].writer) IN
    /\ pc[s] = "readback"
    /\ \/ r = "ok" /\ Saved(s)
       \/ r = "conflict" /\ Conflict(s) /\ UNCHANGED <<book, minted, revoked>>
       \/ r = "err" /\ Return(s) /\ UNCHANGED <<book, minted, revoked>>
    /\ first' = [first EXCEPT ![s] = "none"]
    /\ UNCHANGED <<doc, wire, nonces, fresh, pend, calls, used, asked>>

\* The store cannot be read back: an error, and nothing is known either way.
SettleFails(s) ==
    /\ pc[s] = "readback"
    /\ Return(s)
    /\ first' = [first EXCEPT ![s] = "none"]
    /\ UNCHANGED <<doc, wire, nonces, book, fresh, pend, calls, used, asked, minted, revoked>>

------------------------------------------------------------------------------
\* Variant: the book is read again only by a server that has none.
PresentToEmpty(s, t) ==
    /\ pc[s] = "idle"
    /\ book[s] = NoBook
    /\ fresh[s]
    /\ Refreshed(s)
    /\ UNCHANGED <<doc, wire, nonces, pc, op, pend, first, calls, used, asked, minted, revoked>>

\* A request carries token t (routes.rs, who): the copy in memory decides, and
\* is read again first only when it does not know t and is 5 seconds old.
Present(s, t) ==
    /\ pc[s] = "idle"
    /\ t \notin book[s].toks
    /\ ~fresh[s]
    /\ Refreshed(s)
    /\ UNCHANGED <<doc, wire, nonces, pc, op, pend, first, calls, used, asked, minted, revoked>>

\* GET /api/tokens reads the book again whatever its age.
List(s) ==
    /\ pc[s] = "idle"
    /\ Refreshed(s)
    /\ UNCHANGED <<doc, wire, nonces, pc, op, pend, first, calls, used, asked, minted, revoked>>

\* Five seconds pass without a refresh.
Expire(s) ==
    /\ fresh[s]
    /\ fresh' = [fresh EXCEPT ![s] = FALSE]
    /\ UNCHANGED <<doc, wire, nonces, book, pc, op, pend, first, calls, used, asked, minted, revoked>>

\* The process dies and starts again: its memory and its call are gone, the
\* PUTs it sent are not.
Restart(s) ==
    /\ pc[s] # "boot"
    /\ book' = [book EXCEPT ![s] = NoBook]
    /\ fresh' = [fresh EXCEPT ![s] = FALSE]
    /\ pc' = [pc EXCEPT ![s] = "boot"]
    /\ op' = [op EXCEPT ![s] = NoOp]
    /\ first' = [first EXCEPT ![s] = "none"]
    /\ UNCHANGED <<doc, wire, nonces, pend, calls, used, asked, minted, revoked>>

Call(s) == \E t \in Tokens : Mint(s, t) \/ Revoke(s, t) \/ Present(s, t)

Work(s) == \/ Boot(s) \/ RefreshMint(s) \/ RefreshRevoke(s) \/ RefreshFails(s)
           \/ Save(s) \/ GiveUp(s) \/ Settle(s) \/ SettleFails(s)

Next ==
    \/ \E s \in Servers : Call(s) \/ Work(s) \/ List(s) \/ Expire(s) \/ Restart(s)
    \/ \E w \in wire : Arrive(w)

Spec == Init /\ [][Next]_vars

\* A server that is up gets on with its call, requests keep coming with every
\* token, and seconds pass.
Fairness ==
    \A s \in Servers :
        /\ WF_vars(Work(s))
        /\ WF_vars(Expire(s))
        /\ \A t \in Tokens : WF_vars(Present(s, t))

FairSpec == Spec /\ Fairness

------------------------------------------------------------------------------
\* A token that a mint call returned is in the stored book, whatever the other
\* servers wrote since, until somebody asks to revoke it: an acknowledged mint
\* is never lost under a concurrent save or a late one (Tokens::mint).
MintedStays == \A t \in minted : t \in doc.toks \/ t \in asked

\* Storage that only does what it is asked is never mistaken for one that
\* rolled back: no server's copy gets ahead of the stored book, or outlives it
\* (the checks in Tokens::refresh).
NoFalseAlarm == \A s \in Servers : Newer(doc, book[s], book[s].writer)

\* The stored book changes by one token and one revision at a time: the saves
\* of all servers, retried, lost or late, are the changes of a single book.
Book == INSTANCE TokenBook WITH live <- doc.toks, changes <- doc.rev
OneBook == Book!Spec

\* A minted token is admitted by every server it is presented to, sooner or
\* later, unless it was revoked meanwhile (the second look in routes.rs, who).
MintSpreads ==
    \A s \in Servers, t \in Tokens :
        t \in minted ~> (t \in book[s].toks \/ t \in asked)

\* README: "revocation takes effect at once on this server and within seconds
\* on any other sharing the bucket".  Here: every other server stops admitting
\* a revoked token sooner or later, or restarts.
RevocationSpreads ==
    \A s \in Servers, t \in Tokens :
        t \in revoked ~> (t \notin book[s].toks)

\* README: "revocation takes effect at once": a token that a revoke call said
\* is gone is not in the stored book again.
RevokedStaysOut == \A t \in revoked : t \notin doc.toks
=============================================================================
