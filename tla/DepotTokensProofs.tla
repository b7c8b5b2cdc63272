-------------------------- MODULE DepotTokensProofs --------------------------
(***************************************************************************)
(* Proofs about the token book for every set of servers and tokens, every  *)
(* capacity and every number of attempts and calls: its types, that an     *)
(* acknowledged mint is never lost, and that DepotTokens implements        *)
(* TokenBook.                                                              *)
(***************************************************************************)
EXTENDS DepotTokens, TLAPS

------------------------------------------------------------------------------
\* The inductive invariant.

\* Nonces are drawn once: what is in use was drawn before.
NoncesDrawn ==
    /\ doc.writer <= nonces
    /\ \A s \in Servers : book[s].writer <= nonces
    /\ \A w \in wire : w.doc.writer \in 1..nonces /\ w.etag <= nonces
    /\ \A s \in Servers : pc[s] \in {"wait", "readback"} => pend[s].writer \in 1..nonces

\* A PUT that has not arrived was seen by nobody: it is the only one of its
\* nonce, it is not the stored book, and no copy and no condition comes from it.
NotSeen ==
    /\ \A w, v \in wire : w.doc.writer = v.doc.writer => w = v
    /\ \A w \in wire : w.doc.writer # doc.writer
    /\ \A w, v \in wire : v.etag # w.doc.writer
    /\ \A w \in wire, s \in Servers : book[s].writer # w.doc.writer

\* A copy with the stored book's ETag is the stored book; no copy is newer.
Coherent ==
    /\ doc.writer = None => doc = NoBook
    /\ \A s \in Servers :
        /\ book[s].writer = doc.writer => book[s] = doc
        /\ book[s].writer = None => book[s] = NoBook
        /\ doc.writer = None => book[s] = NoBook
        /\ book[s].rev <= doc.rev

\* new is old with one token more, or with one asked to be revoked less.
OneChange(old, new) ==
    /\ new.rev = old.rev + 1
    /\ \E t \in Tokens :
        \/ t \notin old.toks /\ new.toks = old.toks \cup {t}
        \/ t \in old.toks /\ t \in asked /\ new.toks = old.toks \ {t}

\* A PUT the bucket would accept now is one change to what it holds.
Based == \A w \in wire : w.etag = doc.writer => OneChange(doc, w.doc)

\* What a server is about to write, or is writing, is what its call asked for.
OnCourse ==
    \A s \in Servers :
        /\ op[s].kind = "revoke" => op[s].tok \in asked
        /\ pc[s] = "save" /\ op[s].kind = "mint" => op[s].tok \notin book[s].toks
        /\ pc[s] = "save" /\ op[s].kind = "revoke" => op[s].tok \in book[s].toks
        /\ pc[s] \in {"wait", "readback"} =>
            /\ op[s].kind = "mint" => op[s].tok \in pend[s].toks
            /\ doc.writer = pend[s].writer => doc = pend[s]
            /\ \A w \in wire : w.doc.writer = pend[s].writer => w.doc = pend[s]

Inv == /\ TypeOK /\ NoncesDrawn /\ NotSeen /\ Coherent /\ Based /\ OnCourse
       /\ MintedStays

------------------------------------------------------------------------------
LEMMA InitInv == Init => Inv
BY DEF Init, Inv, TypeOK, NoncesDrawn, NotSeen, Coherent, Based, OnCourse,
       MintedStays, Books, Ops, NoBook, NoOp, None

\* Replacing a copy by the stored book, or by the empty one, keeps the copies
\* coherent.
LEMMA CopyCoherent ==
    ASSUME TypeOK, Coherent, NEW s \in Servers, doc' = doc,
           NEW b \in {doc, NoBook, book[s]}, doc.writer = None => b \in {NoBook, book[s]},
           book' = [book EXCEPT ![s] = b]
    PROVE  Coherent'
<1> USE DEF Books, NoBook, None
<1>1. doc.writer = None => doc = NoBook
  BY DEF Coherent
<1>2. ASSUME NEW r \in Servers
      PROVE  /\ book'[r].writer = doc.writer => book'[r] = doc
             /\ book'[r].writer = None => book'[r] = NoBook
             /\ doc.writer = None => book'[r] = NoBook
             /\ book'[r].rev <= doc.rev
  <2>1. /\ book[r].writer = doc.writer => book[r] = doc
        /\ book[r].writer = None => book[r] = NoBook
        /\ doc.writer = None => book[r] = NoBook
        /\ book[r].rev <= doc.rev
    BY DEF Coherent
  <2>2. doc.rev \in Nat /\ doc.writer \in Nat
    BY DEF TypeOK
  <2>3. CASE r # s
    <3>1. book'[r] = book[r]
      BY <2>3 DEF TypeOK
    <3> QED
      BY <2>1, <3>1
  <2>4. CASE r = s
    <3>1. book'[r] = b
      BY <2>4 DEF TypeOK
    <3>2. CASE b = doc
      BY <3>1, <3>2, <1>1, <2>2
    <3>3. CASE b = NoBook
      BY <3>1, <3>3, <1>1, <2>2
    <3>4. CASE b = book[s]
      BY <3>1, <3>4, <2>1, <2>4
    <3> QED
      BY <3>2, <3>3, <3>4
  <2> QED
    BY <2>3, <2>4
<1> QED
  BY <1>1, <1>2 DEF Coherent

\* A refresh keeps them so.
LEMMA RefreshedCoherent ==
    ASSUME TypeOK, Coherent, NEW s \in Servers, doc' = doc, Refreshed(s)
    PROVE  Coherent'
<1>1. PICK b \in {doc, book[s]} :
        /\ book' = [book EXCEPT ![s] = b]
        /\ doc.writer = None => b = book[s]
  BY DEF Refreshed, TypeOK
<1> QED
  BY <1>1, CopyCoherent

LEMMA BootInv ==
    ASSUME Inv, NEW s \in Servers, Boot(s)
    PROVE  Inv'
<1> USE DEF Inv, Books, Ops, NoBook, NoOp, None
<1>1. TypeOK'
  BY DEF Boot, Refreshed, Newer, TypeOK
<1>2. NoncesDrawn'
  BY DEF Boot, Refreshed, Newer, NoncesDrawn, TypeOK
<1>3. NotSeen'
  BY DEF Boot, Refreshed, Newer, NoncesDrawn, NotSeen, TypeOK
<1>4. Coherent'
  BY RefreshedCoherent DEF Boot
<1>5. Based'
  BY DEF Boot, Refreshed, Newer, Based, Coherent, NoncesDrawn, NotSeen, OnCourse, OneChange, TypeOK
<1>6. OnCourse'
  BY DEF Boot, Refreshed, Newer, Coherent, NoncesDrawn, NotSeen, OnCourse, TypeOK
<1>7. MintedStays'
  BY DEF Boot, Refreshed, Newer, Based, Coherent, MintedStays, NotSeen, OnCourse, OneChange, TypeOK
<1> QED
  BY <1>1, <1>2, <1>3, <1>4, <1>5, <1>6, <1>7

LEMMA MintInv ==
    ASSUME Inv, NEW s \in Servers, NEW t \in Tokens, Mint(s, t)
    PROVE  Inv'
<1> USE DEF Inv, Books, Ops, NoBook, NoOp, None
<1>1. TypeOK'
  BY DEF Mint, TypeOK
<1>2. NoncesDrawn'
  BY DEF Mint, NoncesDrawn, TypeOK
<1>3. NotSeen'
  BY DEF Mint, NoncesDrawn, NotSeen, TypeOK
<1>4. Coherent'
  BY DEF Mint, Based, Coherent, NoncesDrawn, NotSeen, OnCourse, OneChange, TypeOK
<1>5. Based'
  BY DEF Mint, Based, Coherent, NoncesDrawn, NotSeen, OnCourse, OneChange, TypeOK
<1>6. OnCourse'
  BY DEF Mint, Coherent, NoncesDrawn, NotSeen, OnCourse, TypeOK
<1>7. MintedStays'
  BY DEF Mint, Based, Coherent, MintedStays, NotSeen, OnCourse, OneChange, TypeOK
<1> QED
  BY <1>1, <1>2, <1>3, <1>4, <1>5, <1>6, <1>7

LEMMA RevokeInv ==
    ASSUME Inv, NEW s \in Servers, NEW t \in Tokens, Revoke(s, t)
    PROVE  Inv'
<1> USE DEF Inv, Books, Ops, NoBook, NoOp, None
<1>1. TypeOK'
  BY DEF Revoke, TypeOK
<1>2. NoncesDrawn'
  BY DEF Revoke, NoncesDrawn, TypeOK
<1>3. NotSeen'
  BY DEF Revoke, NoncesDrawn, NotSeen, TypeOK
<1>4. Coherent'
  BY DEF Revoke, Based, Coherent, NoncesDrawn, NotSeen, OnCourse, OneChange, TypeOK
<1>5. Based'
  BY DEF Revoke, Based, Coherent, NoncesDrawn, NotSeen, OnCourse, OneChange, TypeOK
<1>6. OnCourse'
  BY DEF Revoke, Coherent, NoncesDrawn, NotSeen, OnCourse, TypeOK
<1>7. MintedStays'
  BY DEF Revoke, Based, Coherent, MintedStays, NotSeen, OnCourse, OneChange, TypeOK
<1> QED
  BY <1>1, <1>2, <1>3, <1>4, <1>5, <1>6, <1>7

LEMMA RefreshMintInv ==
    ASSUME Inv, NEW s \in Servers, RefreshMint(s)
    PROVE  Inv'
<1> USE DEF Inv, Books, Ops, NoBook, NoOp, None
<1>1. TypeOK'
  <2>1. book' \in [Servers -> Books] /\ fresh' \in [Servers -> BOOLEAN]
    BY DEF RefreshMint, Refreshed, TypeOK
  <2>2. \/ pc' = [pc EXCEPT ![s] = "idle"] /\ op' = [op EXCEPT ![s] = NoOp]
        \/ pc' = [pc EXCEPT ![s] = "save"] /\ op' = op
    BY DEF RefreshMint, Return
  <2>3. pc' \in [Servers -> {"boot", "idle", "refresh", "save", "wait", "readback"}]
    BY <2>2 DEF TypeOK
  <2>4. op' \in [Servers -> Ops]
    BY <2>2 DEF TypeOK
  <2>5. \A u \in Servers : pc'[u] \notin {"boot", "idle"} => op'[u] # NoOp
    BY <2>2 DEF RefreshMint, TypeOK
  <2>6. minted' \subseteq Tokens
    BY DEF RefreshMint, TypeOK
  <2> QED
    BY <2>1, <2>3, <2>4, <2>5, <2>6 DEF RefreshMint, TypeOK
<1>2. NoncesDrawn'
  BY DEF RefreshMint, Refreshed, Newer, Return, NoncesDrawn, TypeOK
<1>3. NotSeen'
  BY DEF RefreshMint, Refreshed, Newer, Return, NoncesDrawn, NotSeen, TypeOK
<1>4. Coherent'
  BY RefreshedCoherent DEF RefreshMint
<1>5. Based'
  BY SMTT(30) DEF RefreshMint, Refreshed, Newer, Return, Based, Coherent, NoncesDrawn, NotSeen, OnCourse, OneChange, TypeOK
<1>6. OnCourse'
  BY DEF RefreshMint, Refreshed, Newer, Return, Coherent, NoncesDrawn, NotSeen, OnCourse, TypeOK
<1>7. MintedStays'
  BY DEF RefreshMint, Refreshed, Newer, Return, Based, Coherent, MintedStays, NotSeen, OnCourse, OneChange, TypeOK
<1> QED
  BY <1>1, <1>2, <1>3, <1>4, <1>5, <1>6, <1>7

LEMMA RefreshRevokeInv ==
    ASSUME Inv, NEW s \in Servers, RefreshRevoke(s)
    PROVE  Inv'
<1> USE DEF Inv, Books, Ops, NoBook, NoOp, None
<1>1. TypeOK'
  <2>1. book' \in [Servers -> Books] /\ fresh' \in [Servers -> BOOLEAN]
    BY DEF RefreshRevoke, Refreshed, TypeOK
  <2>2. \/ pc' = [pc EXCEPT ![s] = "idle"] /\ op' = [op EXCEPT ![s] = NoOp]
        \/ pc' = [pc EXCEPT ![s] = "save"] /\ op' = op
    BY DEF RefreshRevoke, Return
  <2>3. pc' \in [Servers -> {"boot", "idle", "refresh", "save", "wait", "readback"}]
    BY <2>2 DEF TypeOK
  <2>4. op' \in [Servers -> Ops]
    BY <2>2 DEF TypeOK
  <2>5. \A u \in Servers : pc'[u] \notin {"boot", "idle"} => op'[u] # NoOp
    BY <2>2 DEF RefreshRevoke, TypeOK
  <2>6. revoked' \subseteq Tokens
    BY DEF RefreshRevoke, TypeOK
  <2> QED
    BY <2>1, <2>3, <2>4, <2>5, <2>6 DEF RefreshRevoke, TypeOK
<1>2. NoncesDrawn'
  BY DEF RefreshRevoke, Refreshed, Newer, Return, NoncesDrawn, TypeOK
<1>3. NotSeen'
  BY DEF RefreshRevoke, Refreshed, Newer, Return, NoncesDrawn, NotSeen, TypeOK
<1>4. Coherent'
  BY RefreshedCoherent DEF RefreshRevoke
<1>5. Based'
  BY DEF RefreshRevoke, Refreshed, Newer, Return, Based, Coherent, NoncesDrawn, NotSeen, OnCourse, OneChange, TypeOK
<1>6. OnCourse'
  BY DEF RefreshRevoke, Refreshed, Newer, Return, Coherent, NoncesDrawn, NotSeen, OnCourse, TypeOK
<1>7. MintedStays'
  BY DEF RefreshRevoke, Refreshed, Newer, Return, Based, Coherent, MintedStays, NotSeen, OnCourse, OneChange, TypeOK
<1> QED
  BY <1>1, <1>2, <1>3, <1>4, <1>5, <1>6, <1>7

LEMMA RefreshFailsInv ==
    ASSUME Inv, NEW s \in Servers, RefreshFails(s)
    PROVE  Inv'
<1> USE DEF Inv, Books, Ops, NoBook, NoOp, None
<1>1. TypeOK'
  BY DEF RefreshFails, Return, TypeOK
<1>2. NoncesDrawn'
  BY DEF RefreshFails, Return, NoncesDrawn, TypeOK
<1>3. NotSeen'
  BY DEF RefreshFails, Return, NoncesDrawn, NotSeen, TypeOK
<1>4. Coherent'
  BY DEF RefreshFails, Return, Based, Coherent, NoncesDrawn, NotSeen, OnCourse, OneChange, TypeOK
<1>5. Based'
  BY DEF RefreshFails, Return, Based, Coherent, NoncesDrawn, NotSeen, OnCourse, OneChange, TypeOK
<1>6. OnCourse'
  BY DEF RefreshFails, Return, Coherent, NoncesDrawn, NotSeen, OnCourse, TypeOK
<1>7. MintedStays'
  BY DEF RefreshFails, Return, Based, Coherent, MintedStays, NotSeen, OnCourse, OneChange, TypeOK
<1> QED
  BY <1>1, <1>2, <1>3, <1>4, <1>5, <1>6, <1>7

LEMMA SaveInv ==
    ASSUME Inv, NEW s \in Servers, Save(s)
    PROVE  Inv'
<1> USE DEF Inv, Books, Ops, NoBook, NoOp, None
<1>1. TypeOK'
  BY SMTT(30) DEF Save, Changed, TypeOK
<1>2. NoncesDrawn'
  BY DEF Save, Changed, NoncesDrawn, TypeOK
<1>3. NotSeen'
  <2> DEFINE new == [rev |-> book[s].rev + 1, writer |-> nonces + 1, toks |-> Changed(s)]
             msg == [srv |-> s, etag |-> book[s].writer, doc |-> new]
  <2>1. wire' = wire \cup {msg} /\ doc' = doc /\ book' = book
    BY DEF Save
  <2>2. msg.doc.writer = nonces + 1 /\ msg.etag = book[s].writer
    OBVIOUS
  <2>3. nonces \in Nat
    BY DEF TypeOK
  <2>4. \A w \in wire : /\ w.doc.writer \in Nat /\ w.doc.writer <= nonces
                        /\ w.etag \in Nat /\ w.etag <= nonces
    BY DEF TypeOK, NoncesDrawn
  <2>5. \A r \in Servers : book[r].writer \in Nat /\ book[r].writer <= nonces
    BY DEF TypeOK, NoncesDrawn
  <2>6. doc.writer \in Nat /\ doc.writer <= nonces
    BY DEF TypeOK, NoncesDrawn
  <2> HIDE DEF msg
  <2> QED
    BY <2>1, <2>2, <2>3, <2>4, <2>5, <2>6 DEF NotSeen
<1>4. Coherent'
  BY DEF Save, Changed, Based, Coherent, NoncesDrawn, NotSeen, OnCourse, OneChange, TypeOK
<1>5. Based'
  <2> DEFINE new == [rev |-> book[s].rev + 1, writer |-> nonces + 1, toks |-> Changed(s)]
             msg == [srv |-> s, etag |-> book[s].writer, doc |-> new]
  <2>1. wire' = wire \cup {msg} /\ doc' = doc /\ asked' = asked /\ pc[s] = "save"
    BY DEF Save
  <2>2. ASSUME book[s].writer = doc.writer PROVE OneChange(doc, new)
    <3>1. book[s] = doc /\ doc \in Books
      BY <2>2 DEF Coherent, TypeOK
    <3>2. op[s] # NoOp /\ op[s] \in Ops
      BY <2>1 DEF TypeOK
    <3>3. op[s].kind \in {"mint", "revoke"} /\ op[s].tok \in Tokens
      BY <3>2
    <3>4. CASE op[s].kind = "mint"
      BY <3>1, <3>3, <3>4, <2>1 DEF OneChange, OnCourse, Changed
    <3>5. CASE op[s].kind = "revoke"
      BY <3>1, <3>3, <3>5, <2>1 DEF OneChange, OnCourse, Changed
    <3> QED
      BY <3>3, <3>4, <3>5
  <2>3. ASSUME NEW w \in wire', w.etag = doc'.writer PROVE OneChange(doc, w.doc)
    <3>1. CASE w \in wire
      BY <3>1, <2>3, <2>1 DEF Based
    <3>2. CASE w = msg
      BY <3>2, <2>3, <2>1, <2>2
    <3> QED
      BY <2>1, <3>1, <3>2
  <2> QED
    BY <2>1, <2>3 DEF Based, OneChange
<1>6. OnCourse'
  <2> DEFINE new == [rev |-> book[s].rev + 1, writer |-> nonces + 1, toks |-> Changed(s)]
             msg == [srv |-> s, etag |-> book[s].writer, doc |-> new]
  <2>1. /\ wire' = wire \cup {msg} /\ doc' = doc /\ asked' = asked /\ op' = op
        /\ book' = book /\ pend' = [pend EXCEPT ![s] = new]
        /\ pc' = [pc EXCEPT ![s] = "wait"]
    BY DEF Save
  <2>2. nonces \in Nat /\ doc.writer \in Nat /\ doc.writer <= nonces
    BY DEF TypeOK, NoncesDrawn
  <2>3. \A w \in wire : w.doc.writer \in Nat /\ w.doc.writer <= nonces
    BY DEF TypeOK, NoncesDrawn
  <2>4. ASSUME NEW r \in Servers, r # s
        PROVE  /\ pc'[r] = pc[r] /\ pend'[r] = pend[r]
               /\ pc[r] \in {"wait", "readback"} => pend[r].writer # new.writer
    BY <2>1, <2>4, <2>2 DEF TypeOK, NoncesDrawn
  <2>5. pc'[s] = "wait" /\ pend'[s] = new
    BY <2>1 DEF TypeOK
  <2>6. op[s].kind = "mint" => op[s].tok \in new.toks
    BY DEF Changed
  <2>7. new.writer = nonces + 1 /\ msg.doc = new
    OBVIOUS
  <2>8. doc.writer # new.writer /\ \A w \in wire : w.doc.writer # new.writer
    BY <2>2, <2>3, <2>7
  <2> HIDE DEF new, msg
  <2>9. ASSUME NEW r \in Servers, r # s, pc'[r] \in {"wait", "readback"}
        PROVE  /\ op'[r].kind = "mint" => op'[r].tok \in pend'[r].toks
               /\ doc'.writer = pend'[r].writer => doc' = pend'[r]
               /\ \A w \in wire' : w.doc.writer = pend'[r].writer => w.doc = pend'[r]
    BY <2>1, <2>4, <2>7, <2>9 DEF OnCourse
  <2>10. /\ op'[s].kind = "mint" => op'[s].tok \in pend'[s].toks
         /\ doc'.writer = pend'[s].writer => doc' = pend'[s]
         /\ \A w \in wire' : w.doc.writer = pend'[s].writer => w.doc = pend'[s]
    BY <2>1, <2>5, <2>6, <2>7, <2>8
  <2>11. ASSUME NEW r \in Servers
         PROVE  /\ op'[r].kind = "revoke" => op'[r].tok \in asked'
                /\ pc'[r] = "save" => pc[r] = "save"
    BY <2>1, <2>4, <2>5 DEF OnCourse
  <2> QED
    BY <2>1, <2>9, <2>10, <2>11 DEF OnCourse
<1>7. MintedStays'
  BY DEF Save, Changed, Based, Coherent, MintedStays, NotSeen, OnCourse, OneChange, TypeOK
<1> QED
  BY <1>1, <1>2, <1>3, <1>4, <1>5, <1>6, <1>7

LEMMA GiveUpInv ==
    ASSUME Inv, NEW s \in Servers, GiveUp(s)
    PROVE  Inv'
<1> USE DEF Inv, Books, Ops, NoBook, NoOp, None
<1>1. TypeOK'
  BY DEF GiveUp, TypeOK
<1>2. NoncesDrawn'
  BY DEF GiveUp, NoncesDrawn, TypeOK
<1>3. NotSeen'
  BY DEF GiveUp, NoncesDrawn, NotSeen, TypeOK
<1>4. Coherent'
  BY DEF GiveUp, Based, Coherent, NoncesDrawn, NotSeen, OnCourse, OneChange, TypeOK
<1>5. Based'
  BY DEF GiveUp, Based, Coherent, NoncesDrawn, NotSeen, OnCourse, OneChange, TypeOK
<1>6. OnCourse'
  BY DEF GiveUp, Coherent, NoncesDrawn, NotSeen, OnCourse, TypeOK
<1>7. MintedStays'
  BY DEF GiveUp, Based, Coherent, MintedStays, NotSeen, OnCourse, OneChange, TypeOK
<1> QED
  BY <1>1, <1>2, <1>3, <1>4, <1>5, <1>6, <1>7

LEMMA SettleInv ==
    ASSUME Inv, NEW s \in Servers, Settle(s)
    PROVE  Inv'
<1> USE DEF Inv, Books, Ops, NoBook, NoOp, None
<1>1. TypeOK'
  <2>1. op[s] \in Ops /\ op[s] # NoOp /\ pc[s] = "readback"
    BY DEF Settle, TypeOK
  <2>2. /\ op[s] \in [kind : {"mint", "revoke"}, tok : Tokens, attempt : Nat]
        /\ [op[s] EXCEPT !.attempt = @ + 1] \in [kind : {"mint", "revoke"}, tok : Tokens, attempt : Nat]
    BY <2>1
  <2>3. op' \in [Servers -> Ops] /\ minted' \subseteq Tokens /\ revoked' \subseteq Tokens
    BY <2>2, SMTT(30) DEF Settle, Saved, Conflict, Return, TypeOK
  <2>4. pc' \in [Servers -> {"boot", "idle", "refresh", "save", "wait", "readback"}]
    BY DEF Settle, Saved, Conflict, Return, TypeOK
  <2>5. \A r \in Servers : pc'[r] \notin {"boot", "idle"} => op'[r] # NoOp
    <3>1. [op[s] EXCEPT !.attempt = @ + 1] # NoOp
      BY <2>2
    <3> QED
      BY <3>1 DEF Settle, Saved, Conflict, Return, TypeOK
  <2>6. book' \in [Servers -> Books]
    BY DEF Settle, Saved, TypeOK
  <2> QED
    BY <2>3, <2>4, <2>5, <2>6 DEF Settle, TypeOK
<1>2. NoncesDrawn'
  BY DEF Settle, Saved, Conflict, ReadBack, Return, NoncesDrawn, TypeOK
<1>3. NotSeen'
  BY SMTT(30) DEF Settle, Saved, Conflict, ReadBack, Return, NoncesDrawn, NotSeen, TypeOK
<1>4. Coherent'
  <2>1. doc' = doc /\ pc[s] = "readback"
    BY DEF Settle
  <2>2. CASE book' = book
    BY <2>1, <2>2 DEF Coherent
  <2>3. CASE book' = [book EXCEPT ![s] = pend[s]] /\ doc.writer # None /\ doc.writer = pend[s].writer
    <3>1. doc = pend[s]
      BY <2>1, <2>3 DEF OnCourse
    <3> QED
      BY <2>1, <2>3, <3>1, CopyCoherent
  <2> QED
    BY <2>2, <2>3 DEF Settle, Saved, ReadBack
<1>5. Based'
  BY SMTT(30) DEF Settle, Saved, Conflict, ReadBack, Return, Based, Coherent, NoncesDrawn, NotSeen, OnCourse, OneChange, TypeOK
<1>6. OnCourse'
  <2>1. /\ doc' = doc /\ wire' = wire /\ asked' = asked /\ pend' = pend
        /\ pc[s] = "readback" /\ pc'[s] \in {"idle", "refresh"}
    BY DEF Settle, Saved, Conflict, Return, TypeOK
  <2>2. op[s] \in Ops /\ op[s] # NoOp
    BY <2>1 DEF TypeOK
  <2>3. op'[s] \in {NoOp, [op[s] EXCEPT !.attempt = @ + 1]}
    BY DEF Settle, Saved, Conflict, Return, TypeOK
  <2>4. op'[s].kind = "revoke" => op'[s].tok = op[s].tok /\ op[s].kind = "revoke"
    BY <2>2, <2>3
  <2>5. \A r \in Servers : r # s => pc'[r] = pc[r] /\ op'[r] = op[r] /\ book'[r] = book[r]
    BY DEF Settle, Saved, Conflict, Return, TypeOK
  <2> HIDE DEF NoOp
  <2> QED
    BY <2>1, <2>4, <2>5 DEF OnCourse
<1>7. MintedStays'
  BY DEF Settle, Saved, Conflict, ReadBack, Return, Based, Coherent, MintedStays, NotSeen, OnCourse, OneChange, TypeOK
<1> QED
  BY <1>1, <1>2, <1>3, <1>4, <1>5, <1>6, <1>7

LEMMA SettleFailsInv ==
    ASSUME Inv, NEW s \in Servers, SettleFails(s)
    PROVE  Inv'
<1> USE DEF Inv, Books, Ops, NoBook, NoOp, None
<1>1. TypeOK'
  BY DEF SettleFails, Return, TypeOK
<1>2. NoncesDrawn'
  BY DEF SettleFails, Return, NoncesDrawn, TypeOK
<1>3. NotSeen'
  BY DEF SettleFails, Return, NoncesDrawn, NotSeen, TypeOK
<1>4. Coherent'
  BY DEF SettleFails, Return, Based, Coherent, NoncesDrawn, NotSeen, OnCourse, OneChange, TypeOK
<1>5. Based'
  BY DEF SettleFails, Return, Based, Coherent, NoncesDrawn, NotSeen, OnCourse, OneChange, TypeOK
<1>6. OnCourse'
  BY DEF SettleFails, Return, Coherent, NoncesDrawn, NotSeen, OnCourse, TypeOK
<1>7. MintedStays'
  BY DEF SettleFails, Return, Based, Coherent, MintedStays, NotSeen, OnCourse, OneChange, TypeOK
<1> QED
  BY <1>1, <1>2, <1>3, <1>4, <1>5, <1>6, <1>7

LEMMA PresentInv ==
    ASSUME Inv, NEW s \in Servers, NEW t \in Tokens, Present(s, t)
    PROVE  Inv'
<1> USE DEF Inv, Books, Ops, NoBook, NoOp, None
<1>1. TypeOK'
  BY DEF Present, Refreshed, Newer, TypeOK
<1>2. NoncesDrawn'
  BY DEF Present, Refreshed, Newer, NoncesDrawn, TypeOK
<1>3. NotSeen'
  BY DEF Present, Refreshed, Newer, NoncesDrawn, NotSeen, TypeOK
<1>4. Coherent'
  BY RefreshedCoherent DEF Present
<1>5. Based'
  BY DEF Present, Refreshed, Newer, Based, Coherent, NoncesDrawn, NotSeen, OnCourse, OneChange, TypeOK
<1>6. OnCourse'
  BY DEF Present, Refreshed, Newer, Coherent, NoncesDrawn, NotSeen, OnCourse, TypeOK
<1>7. MintedStays'
  BY DEF Present, Refreshed, Newer, Based, Coherent, MintedStays, NotSeen, OnCourse, OneChange, TypeOK
<1> QED
  BY <1>1, <1>2, <1>3, <1>4, <1>5, <1>6, <1>7

LEMMA ListInv ==
    ASSUME Inv, NEW s \in Servers, List(s)
    PROVE  Inv'
<1> USE DEF Inv, Books, Ops, NoBook, NoOp, None
<1>1. TypeOK'
  BY DEF List, Refreshed, Newer, TypeOK
<1>2. NoncesDrawn'
  BY DEF List, Refreshed, Newer, NoncesDrawn, TypeOK
<1>3. NotSeen'
  BY DEF List, Refreshed, Newer, NoncesDrawn, NotSeen, TypeOK
<1>4. Coherent'
  BY RefreshedCoherent DEF List
<1>5. Based'
  BY DEF List, Refreshed, Newer, Based, Coherent, NoncesDrawn, NotSeen, OnCourse, OneChange, TypeOK
<1>6. OnCourse'
  BY DEF List, Refreshed, Newer, Coherent, NoncesDrawn, NotSeen, OnCourse, TypeOK
<1>7. MintedStays'
  BY DEF List, Refreshed, Newer, Based, Coherent, MintedStays, NotSeen, OnCourse, OneChange, TypeOK
<1> QED
  BY <1>1, <1>2, <1>3, <1>4, <1>5, <1>6, <1>7

LEMMA ExpireInv ==
    ASSUME Inv, NEW s \in Servers, Expire(s)
    PROVE  Inv'
<1> USE DEF Inv, Books, Ops, NoBook, NoOp, None
<1>1. TypeOK'
  BY DEF Expire, TypeOK
<1>2. NoncesDrawn'
  BY DEF Expire, NoncesDrawn, TypeOK
<1>3. NotSeen'
  BY DEF Expire, NoncesDrawn, NotSeen, TypeOK
<1>4. Coherent'
  BY DEF Expire, Based, Coherent, NoncesDrawn, NotSeen, OnCourse, OneChange, TypeOK
<1>5. Based'
  BY DEF Expire, Based, Coherent, NoncesDrawn, NotSeen, OnCourse, OneChange, TypeOK
<1>6. OnCourse'
  BY DEF Expire, Coherent, NoncesDrawn, NotSeen, OnCourse, TypeOK
<1>7. MintedStays'
  BY DEF Expire, Based, Coherent, MintedStays, NotSeen, OnCourse, OneChange, TypeOK
<1> QED
  BY <1>1, <1>2, <1>3, <1>4, <1>5, <1>6, <1>7

LEMMA RestartInv ==
    ASSUME Inv, NEW s \in Servers, Restart(s)
    PROVE  Inv'
<1> USE DEF Inv, Books, Ops, NoBook, NoOp, None
<1>1. TypeOK'
  BY DEF Restart, TypeOK
<1>2. NoncesDrawn'
  BY DEF Restart, NoncesDrawn, TypeOK
<1>3. NotSeen'
  BY DEF Restart, NoncesDrawn, NotSeen, TypeOK
<1>4. Coherent'
  BY CopyCoherent DEF Restart
<1>5. Based'
  BY DEF Restart, Based, Coherent, NoncesDrawn, NotSeen, OnCourse, OneChange, TypeOK
<1>6. OnCourse'
  BY DEF Restart, Coherent, NoncesDrawn, NotSeen, OnCourse, TypeOK
<1>7. MintedStays'
  BY DEF Restart, Based, Coherent, MintedStays, NotSeen, OnCourse, OneChange, TypeOK
<1> QED
  BY <1>1, <1>2, <1>3, <1>4, <1>5, <1>6, <1>7

LEMMA ArriveInv ==
    ASSUME Inv, NEW w \in wire, Arrive(w)
    PROVE  Inv'
<1> DEFINE s == w.srv
<1> USE DEF Inv, Books, Ops, NoBook, NoOp, None
<1>0. /\ s \in Servers /\ w.doc \in Books /\ doc \in Books
      /\ wire' = wire \ {w} /\ nonces' = nonces /\ pend' = pend /\ asked' = asked
      /\ w.doc.writer # doc.writer
  BY DEF TypeOK, Arrive, NotSeen
<1>a. CASE /\ doc.writer = w.etag /\ doc' = w.doc
           /\ UNCHANGED <<book, pc, op, first, minted, revoked>>
  <2> USE <1>0, <1>a
  <2>1. OneChange(doc, w.doc)
    BY DEF Based
  <2>2. w.doc.writer \in 1..nonces
    BY DEF NoncesDrawn
  <2>3. TypeOK'
    BY DEF TypeOK, Arrive
  <2>4. NoncesDrawn'
    BY DEF NoncesDrawn
  <2>5. NotSeen'
    BY DEF NotSeen
  <2>6. Coherent'
    <3>1. \A r \in Servers : book[r].writer # w.doc.writer
      BY DEF NotSeen
    <3>2. \A r \in Servers : book[r].rev \in Nat /\ book[r].rev <= doc.rev
      BY DEF Coherent, TypeOK
    <3>3. w.doc.rev = doc.rev + 1 /\ w.doc.writer # 0
      BY <2>1, <2>2 DEF OneChange
    <3> QED
      BY <3>1, <3>2, <3>3 DEF Coherent
  <2>7. Based'
    BY DEF Based, NotSeen
  <2>8. OnCourse'
    BY DEF OnCourse, NotSeen
  <2>9. MintedStays'
    BY <2>1 DEF MintedStays, OneChange
  <2> QED
    BY <2>3, <2>4, <2>5, <2>6, <2>7, <2>8, <2>9
<1>b. CASE doc.writer = w.etag /\ doc' = w.doc /\ Awaited(w) /\ Saved(s) /\ first' = first
  <2> USE <1>0, <1>b
  <2>1. OneChange(doc, w.doc)
    BY DEF Based
  <2>2. w.doc.writer \in 1..nonces
    BY DEF NoncesDrawn
  <2>3. /\ pc[s] = "wait" /\ pend[s] = w.doc /\ op[s] \in Ops /\ op[s] # NoOp
        /\ book' = [book EXCEPT ![s] = w.doc]
        /\ pc' = [pc EXCEPT ![s] = "idle"] /\ op' = [op EXCEPT ![s] = NoOp]
    BY DEF Awaited, Saved, Return, TypeOK
  <2>4. op[s].tok \in Tokens /\ op[s].kind \in {"mint", "revoke"}
    BY <2>3
  <2>5. TypeOK'
    BY <2>3, <2>4 DEF TypeOK, Arrive, Saved
  <2>6. NoncesDrawn'
    BY <2>2, <2>3 DEF NoncesDrawn, TypeOK
  <2>7. NotSeen'
    BY <2>3 DEF NotSeen, TypeOK
  <2>8. Coherent'
    <3>1. \A r \in Servers : book[r].writer # w.doc.writer
      BY DEF NotSeen
    <3>2. \A r \in Servers : book[r].rev \in Nat /\ book[r].rev <= doc.rev
      BY DEF Coherent, TypeOK
    <3>3. w.doc.rev = doc.rev + 1 /\ w.doc.writer # 0
      BY <2>1, <2>2 DEF OneChange
    <3>4. \A r \in Servers : book'[r] = IF r = s THEN w.doc ELSE book[r]
      BY <2>3 DEF TypeOK
    <3> QED
      BY <3>1, <3>2, <3>3, <3>4 DEF Coherent
  <2>9. Based'
    BY DEF Based, NotSeen
  <2>10. OnCourse'
    <3>1. pc'[s] = "idle" /\ op'[s].kind = "none"
      BY <2>3 DEF TypeOK
    <3>2. \A r \in Servers : r # s => pc'[r] = pc[r] /\ op'[r] = op[r] /\ book'[r] = book[r]
      BY <2>3 DEF TypeOK
    <3> QED
      BY <3>1, <3>2 DEF OnCourse, NotSeen
  <2>11. MintedStays'
    <3>1. op[s].kind = "mint" => op[s].tok \in w.doc.toks
      BY <2>3 DEF OnCourse
    <3>2. minted' \subseteq minted \cup {op[s].tok}
      BY DEF Saved
    <3>3. op[s].kind # "mint" => minted' = minted
      BY DEF Saved
    <3>4. \A t \in minted : t \in w.doc.toks \/ t \in asked
      BY <2>1 DEF MintedStays, OneChange
    <3> QED
      BY <3>1, <3>2, <3>3, <3>4 DEF MintedStays
  <2> QED
    BY <2>5, <2>6, <2>7, <2>8, <2>9, <2>10, <2>11
<1>c. CASE /\ doc' = doc /\ first' \in [Servers -> {"none", "refused", "unknown"}]
           /\ pc' \in {pc, [pc EXCEPT ![s] = "readback"]} /\ (pc' # pc => pc[s] = "wait")
           /\ UNCHANGED <<book, op, minted, revoked>>
  <2> USE <1>0, <1>c
  <2>1. \A r \in Servers : \/ pc'[r] = pc[r]
                           \/ pc[r] = "wait" /\ pc'[r] = "readback"
    BY DEF TypeOK
  <2>2. TypeOK'
    BY <2>1 DEF TypeOK, Arrive
  <2>3. NoncesDrawn'
    BY <2>1 DEF NoncesDrawn
  <2>4. NotSeen'
    BY DEF NotSeen
  <2>5. Coherent'
    BY DEF Coherent
  <2>6. Based'
    BY DEF Based, OneChange
  <2>7. OnCourse'
    BY <2>1 DEF OnCourse
  <2>8. MintedStays'
    BY DEF MintedStays
  <2> QED
    BY <2>2, <2>3, <2>4, <2>5, <2>6, <2>7, <2>8
<1> QED
  <2>1. CASE Accepts(doc, w.etag)
    BY <2>1, <1>a, <1>b DEF Arrive, Accepts
  <2>2. CASE ~Accepts(doc, w.etag)
    <3>1. doc' = doc /\ UNCHANGED <<book, op, minted, revoked>>
      BY <2>2 DEF Arrive
    <3>2. \/ pc' = pc /\ first' = first
          \/ /\ pc[s] = "wait" /\ pc' = [pc EXCEPT ![s] = "readback"]
             /\ first' = [first EXCEPT ![s] = "refused"]
      BY <2>2 DEF Arrive, Awaited
    <3>3. first' \in [Servers -> {"none", "refused", "unknown"}]
      BY <1>0, <3>2 DEF TypeOK
    <3> QED
      BY <3>1, <3>2, <3>3, <1>c
  <2> QED
    BY <2>1, <2>2

LEMMA StutterInv ==
    ASSUME Inv, UNCHANGED vars
    PROVE  Inv'
BY DEF Inv, vars, TypeOK, NoncesDrawn, NotSeen, Coherent, Based, OneChange, OnCourse, MintedStays

LEMMA NextInv ==
    ASSUME Inv, [Next]_vars
    PROVE  Inv'
<1>1. CASE UNCHANGED vars
  BY <1>1, StutterInv
<1>2. ASSUME NEW s \in Servers, Call(s) PROVE Inv'
  BY <1>2, MintInv, RevokeInv, PresentInv DEF Call
<1>3. ASSUME NEW s \in Servers, Work(s) PROVE Inv'
  BY <1>3, BootInv, RefreshMintInv, RefreshRevokeInv, RefreshFailsInv, SaveInv,
     GiveUpInv, SettleInv, SettleFailsInv DEF Work
<1>4. ASSUME NEW s \in Servers, List(s) \/ Expire(s) \/ Restart(s) PROVE Inv'
  BY <1>4, ListInv, ExpireInv, RestartInv
<1>5. ASSUME NEW w \in wire, Arrive(w) PROVE Inv'
  BY <1>5, ArriveInv
<1> QED
  BY <1>1, <1>2, <1>3, <1>4, <1>5 DEF Next

LEMMA InvHolds == Spec => []Inv
BY InitInv, NextInv, PTL DEF Spec

------------------------------------------------------------------------------
\* The types of the model's state, for any number of servers, tokens and calls.
THEOREM TypesHold == Spec => []TypeOK
<1>1. Inv => TypeOK
  BY DEF Inv
<1> QED
  BY <1>1, InvHolds, PTL

\* Whatever requests are lost, late or concurrent, a token that Tokens::mint
\* returned is in the stored book until a revoke of it is called.
THEOREM MintNeverLost == Spec => []MintedStays
<1>1. Inv => MintedStays
  BY DEF Inv
<1> QED
  BY <1>1, InvHolds, PTL

\* An honest bucket never trips the rollback checks of Tokens::refresh.
THEOREM HonestStoragePasses == Spec => []NoFalseAlarm
<1>1. Inv => NoFalseAlarm
  <2> SUFFICES ASSUME Inv, NEW s \in Servers PROVE Newer(doc, book[s], book[s].writer)
    BY DEF NoFalseAlarm
  <2>1. book[s].rev \in Nat /\ doc.rev \in Nat /\ book[s].rev <= doc.rev
    BY DEF Inv, TypeOK, Coherent, Books
  <2>2. doc.writer = None => book[s].writer = None
    BY DEF Inv, Coherent, NoBook
  <2> QED
    BY <2>1, <2>2 DEF Newer
<1> QED
  BY <1>1, InvHolds, PTL

\* The servers' saves are the changes of one book, one token at a time:
\* DepotTokens implements TokenBook.
THEOREM Refinement == Spec => OneBook
<1>1. Init => Book!Init
  BY DEF Init, Book!Init, NoBook
<1>2. ASSUME Inv, [Next]_vars PROVE [Book!Next]_(Book!vars)
  <2>1. CASE UNCHANGED doc
    BY <2>1 DEF Book!vars
  <2>2. CASE doc' # doc
    <3>1. PICK w \in wire : Arrive(w)
      BY <1>2, <2>2 DEF Next, vars, Call, Work, Mint, Revoke, Present, Boot, RefreshMint,
         RefreshRevoke, RefreshFails, Save, GiveUp, Settle, SettleFails, List, Expire, Restart
    <3>2. doc' = w.doc /\ w.etag = doc.writer
      BY <3>1, <2>2 DEF Arrive, Accepts
    <3>3. OneChange(doc, w.doc)
      BY <3>2, <1>2 DEF Inv, Based
    <3> QED
      BY <3>2, <3>3 DEF OneChange, Book!Next, Book!Mint, Book!Revoke
  <2> QED
    BY <2>1, <2>2
<1> QED
  BY <1>1, <1>2, InvHolds, PTL DEF Spec, OneBook, Book!Spec

=============================================================================
