------------------------------ MODULE WarpadProofs ------------------------------
(***************************************************************************)
(* Proofs that the pages of warpad drop no saved line silently and that    *)
(* quiet pages show the newest document, for any pages and bounds.  What a *)
(* page has of the newest version is the newest document, and a save under *)
(* way holds whatever its base holds; so a save of the newest version      *)
(* misses nothing but what was put aside for undo.  And no version passes  *)
(* a page by: it is shown, held back, on the wire or being opened.  Both   *)
(* end for a page whose saveTimer runs out during a decryption (raced).    *)
(***************************************************************************)
EXTENDS Warpad, TLAPS

-------------------------------------------------------------------------------
\* The inductive invariant.  Lines are numbered as they are typed; n is the last.

DocsOf(n) == [version : Nat, text : SUBSET (1..n)]
TasksOf(n) == [for : {"doc", "rebase"}, doc : DocsOf(n)]
TabsOf(n) ==
    [es : {"connecting", "open"}, wire : Seq(DocsOf(n)), base : Nat, baseText : SUBSET (1..n),
     ta : SUBSET (1..n), timer : BOOLEAN, wait : Nat, strays : Nat, saving : BOOLEAN,
     told : BOOLEAN, raced : BOOLEAN, save : {"none", "sealing", "sent", "answered"},
     text : SUBSET (1..n), v : Nat, ok : BOOLEAN, reply : DocsOf(n), held : DocsOf(n), opening : Seq(TasksOf(n))]

\* A document that somebody has: an earlier one, or the newest.
Known(d, doc) == d.version <= doc.version /\ (d.version = doc.version => d.text = doc.text)

\* What a page knows of the document, and of the save it has under way.
Informed(t, doc) ==
    /\ t.save # "none" => t.saving
    /\ t.save = "answered" /\ t.ok => t.reply.text = t.text
    /\ Known([version |-> t.base, text |-> t.baseText], doc)
    /\ Known(t.reply, doc) /\ (t.held = NoDoc \/ Known(t.held, doc))
    /\ \A i \in DOMAIN t.wire : Known(t.wire[i], doc)
    /\ \A i \in DOMAIN t.opening : Known(t.opening[i].doc, doc)

\* What a page that did not race does not lose of its base; the base moves under no save.
Faithful(t, lost) ==
    ~t.raced =>
    /\ t.baseText \subseteq t.ta \cup lost
    /\ t.saving => t.opening = <<>> /\ t.ta # t.baseText
    /\ t.told => ~t.saving /\ t.opening = <<>> /\ t.ta # t.baseText
    /\ t.save # "none" => t.baseText \subseteq t.text \cup lost /\ t.text \subseteq t.ta
    /\ t.save \in {"sent", "answered"} => t.v = t.base
    /\ \A i \in DOMAIN t.opening :
           t.opening[i].for = "rebase" => Len(t.opening) = 1 /\ t.ta # t.baseText

Good(t, n, doc, lost) == t \in TabsOf(n) /\ Informed(t, doc) /\ Faithful(t, lost)

PInv ==
    /\ pCount.typed \in Nat /\ pDoc \in DocsOf(pCount.typed)
    /\ pTab \in [PTabs -> TabsOf(pCount.typed)]
    /\ \A c \in PTabs : Good(pTab[c], pCount.typed, pDoc, pLost)

-------------------------------------------------------------------------------
\* The page's helpers.

LEMMA HandleDocGood ==
    ASSUME NEW n, NEW t, NEW doc, NEW lost, NEW d \in DocsOf(n), Good(t, n, doc, lost), Known(d, doc)
    PROVE  Good(HandleDoc(t, d), n, doc, lost)
<1>1. CASE d.version <= t.base
  BY <1>1 DEF HandleDoc
<1>2. CASE ~(d.version <= t.base) /\ PendingEdits(t)
  <2> DEFINE u == [t EXCEPT !.held = d]
  <2>1. HandleDoc(t, d) = u
    BY <1>2 DEF HandleDoc
  <2>2. u \in TabsOf(n) /\ u.held = d
        /\ u.wire = t.wire /\ u.base = t.base /\ u.baseText = t.baseText /\ u.ta = t.ta
        /\ u.saving = t.saving /\ u.told = t.told /\ u.raced = t.raced
        /\ u.save = t.save /\ u.text = t.text /\ u.v = t.v /\ u.ok = t.ok
        /\ u.reply = t.reply /\ u.opening = t.opening
    BY DEF Good, TabsOf
  <2> HIDE DEF u
  <2> QED
    BY <2>1, <2>2 DEF Good, Informed, Faithful
<1>3. CASE ~(d.version <= t.base) /\ ~PendingEdits(t)
  <2> DEFINE task == [for |-> "doc", doc |-> d]
             opening == Append(t.opening, task)
             u == [t EXCEPT !.opening = opening]
  <2>1. HandleDoc(t, d) = u
    BY <1>3 DEF HandleDoc
  <2>2. t.opening \in Seq(TasksOf(n)) /\ task \in TasksOf(n)
    BY DEF Good, TabsOf, TasksOf
  <2>3. \A i \in DOMAIN opening : (i \in DOMAIN t.opening /\ opening[i] = t.opening[i]) \/ opening[i] = task
    BY <2>2
  <2>4. ~t.raced => \A i \in DOMAIN t.opening : t.opening[i].for # "rebase"
    BY <1>3 DEF PendingEdits, Good, Faithful
  <2>5. task.for = "doc" /\ task.doc = d
    OBVIOUS
  <2>6. opening \in Seq(TasksOf(n))
    BY <2>2
  <2> HIDE DEF task, opening
  <2>7. u \in TabsOf(n) /\ u.opening = opening
        /\ u.wire = t.wire /\ u.base = t.base /\ u.baseText = t.baseText /\ u.ta = t.ta
        /\ u.saving = t.saving /\ u.told = t.told /\ u.raced = t.raced
        /\ u.save = t.save /\ u.text = t.text /\ u.v = t.v /\ u.ok = t.ok
        /\ u.reply = t.reply /\ u.held = t.held
    BY <2>6 DEF Good, TabsOf
  <2> HIDE DEF u
  <2>8. Informed(u, doc)
    BY <2>3, <2>5, <2>7 DEF Good, Informed
  <2>9. ~t.saving /\ ~u.saving /\ t.ta = t.baseText
    BY <1>3, <2>7 DEF PendingEdits
  <2>10. ~t.raced => \A i \in DOMAIN u.opening : u.opening[i].for # "rebase"
    BY <2>3, <2>4, <2>5, <2>7
  <2>11. Faithful(u, lost)
    BY <2>7, <2>9, <2>10 DEF Good, Faithful
  <2> QED
    BY <2>1, <2>7, <2>8, <2>11 DEF Good
<1> QED
  BY <1>1, <1>2, <1>3

LEMMA ApplyHeldGood ==
    ASSUME NEW n \in Nat, NEW t, NEW doc, NEW lost, Good(t, n, doc, lost)
    PROVE  Good(ApplyHeld(t), n, doc, lost)
<1> DEFINE u == [t EXCEPT !.held = NoDoc]
<1>1. NoDoc \in DocsOf(n)
  BY DEF NoDoc, DocsOf
<1>2. t.held \in DocsOf(n)
  BY DEF Good, TabsOf
<1>3. CASE t.held = NoDoc
  BY <1>3 DEF ApplyHeld
<1>4. CASE t.held # NoDoc
  <2>1. /\ u \in TabsOf(n) /\ u.held = NoDoc
        /\ u.wire = t.wire /\ u.base = t.base /\ u.baseText = t.baseText /\ u.ta = t.ta
        /\ u.saving = t.saving /\ u.told = t.told /\ u.raced = t.raced
        /\ u.save = t.save /\ u.text = t.text /\ u.v = t.v /\ u.ok = t.ok
        /\ u.reply = t.reply /\ u.opening = t.opening
    BY <1>1 DEF Good, TabsOf
  <2>2. ApplyHeld(t) = HandleDoc(u, t.held)
    BY <1>4 DEF ApplyHeld
  <2> HIDE DEF u
  <2>3. Good(u, n, doc, lost)
    BY <2>1 DEF Good, Informed, Faithful
  <2>4. Known(t.held, doc)
    BY <1>4 DEF Good, Informed
  <2> QED
    BY <1>2, <2>2, <2>3, <2>4, HandleDocGood
<1> QED
  BY <1>3, <1>4

\* A page as it starts to save.
Idle(t) == [t EXCEPT !.timer = FALSE, !.wait = 0, !.told = FALSE, !.raced = @ \/ t.opening # <<>>]

LEMMA IdleFields ==
    ASSUME NEW n \in Nat, NEW t \in TabsOf(n)
    PROVE  /\ Idle(t) \in TabsOf(n) /\ Idle(t).held = t.held /\ Idle(t).es = t.es
           /\ Idle(t).wire = t.wire /\ Idle(t).base = t.base /\ Idle(t).baseText = t.baseText
           /\ Idle(t).ta = t.ta /\ Idle(t).saving = t.saving /\ Idle(t).save = t.save
           /\ Idle(t).text = t.text /\ Idle(t).v = t.v /\ Idle(t).ok = t.ok
           /\ Idle(t).reply = t.reply /\ Idle(t).opening = t.opening
           /\ Idle(t).timer = FALSE /\ Idle(t).told = FALSE
           /\ ~Idle(t).raced => ~t.raced /\ t.opening = <<>>
<1> DEFINE raced == t.raced \/ t.opening # <<>>
           u == [t EXCEPT !.timer = FALSE, !.wait = 0, !.told = FALSE, !.raced = raced]
<1>1. Idle(t) = u
  BY Zenon DEF Idle
<1>2. raced \in BOOLEAN /\ (~raced => ~t.raced /\ t.opening = <<>>)
  OBVIOUS
<1> HIDE DEF raced
<1>3. /\ u \in TabsOf(n) /\ u.held = t.held /\ u.es = t.es
      /\ u.wire = t.wire /\ u.base = t.base /\ u.baseText = t.baseText
      /\ u.ta = t.ta /\ u.saving = t.saving /\ u.save = t.save
      /\ u.text = t.text /\ u.v = t.v /\ u.ok = t.ok
      /\ u.reply = t.reply /\ u.opening = t.opening
      /\ u.timer = FALSE /\ u.told = FALSE /\ u.raced = raced
  BY <1>2 DEF TabsOf
<1> HIDE DEF u
<1> QED
  BY <1>1, <1>2, <1>3

LEMMA StartSaveGood ==
    ASSUME NEW n \in Nat, NEW t, NEW doc, NEW lost, Good(t, n, doc, lost)
    PROVE  Good(StartSave(t), n, doc, lost)
<1> DEFINE idle == Idle(t)
<1>0. t \in TabsOf(n)
  BY DEF Good
<1>1. CASE t.saving
  BY <1>1 DEF StartSave
<1>2. /\ idle \in TabsOf(n) /\ idle.held = t.held /\ idle.wire = t.wire
      /\ idle.base = t.base /\ idle.baseText = t.baseText /\ idle.ta = t.ta
      /\ idle.saving = t.saving /\ idle.save = t.save /\ idle.text = t.text /\ idle.v = t.v
      /\ idle.ok = t.ok /\ idle.reply = t.reply /\ idle.opening = t.opening
      /\ idle.told = FALSE
  BY <1>0, IdleFields
<1>3. ~idle.raced => ~t.raced /\ t.opening = <<>>
  BY <1>0, IdleFields
<1>4. StartSave(t) = IF t.saving THEN t ELSE IF t.ta = t.baseText THEN ApplyHeld(idle)
                     ELSE [idle EXCEPT !.saving = TRUE, !.save = "sealing", !.text = t.ta]
  BY DEF StartSave, Idle
<1> HIDE DEF idle
<1>5. CASE ~t.saving /\ t.ta = t.baseText
  <2>1. Informed(idle, doc)
    BY <1>0, <1>2 DEF Good, Informed
  <2>2. Faithful(idle, lost)
    BY <1>0, <1>2, <1>3 DEF Good, Faithful
  <2>3. Good(ApplyHeld(idle), n, doc, lost)
    BY <1>2, <2>1, <2>2, ApplyHeldGood DEF Good
  <2> QED
    BY <1>4, <1>5, <2>3
<1>6. CASE ~t.saving /\ t.ta # t.baseText
  <2> DEFINE u == [idle EXCEPT !.saving = TRUE, !.save = "sealing", !.text = t.ta]
  <2>1. t.ta \in SUBSET (1..n)
    BY <1>0 DEF TabsOf
  <2>2. /\ u \in TabsOf(n) /\ u.held = t.held /\ u.raced = idle.raced /\ u.told = FALSE
        /\ u.wire = t.wire /\ u.base = t.base /\ u.baseText = t.baseText /\ u.ta = t.ta
        /\ u.saving = TRUE /\ u.save = "sealing" /\ u.text = t.ta /\ u.v = t.v /\ u.ok = t.ok
        /\ u.reply = t.reply /\ u.opening = t.opening
    BY <1>2, <2>1 DEF TabsOf
  <2>3. StartSave(t) = u
    BY <1>4, <1>6
  <2> HIDE DEF u
  <2>4. Informed(u, doc)
    BY <2>2 DEF Good, Informed
  <2>5. Faithful(u, lost)
    BY <1>3, <1>6, <2>2 DEF Good, Faithful
  <2> QED
    BY <2>2, <2>3, <2>4, <2>5 DEF Good
<1>7. t.saving \in BOOLEAN
  BY <1>0 DEF TabsOf
<1> QED
  BY <1>1, <1>5, <1>6, <1>7

-------------------------------------------------------------------------------
\* What others do.

\* More is put aside for undo.
LEMMA MoreGood ==
    ASSUME NEW n \in Nat, NEW t, NEW doc, NEW lost, NEW more, Good(t, n, doc, lost), lost \subseteq more
    PROVE  Good(t, n, doc, more)
BY DEF Good, Faithful

LEMMA TabsGrow ==
    ASSUME NEW n \in Nat
    PROVE  DocsOf(n) \subseteq DocsOf(n + 1) /\ TabsOf(n) \subseteq TabsOf(n + 1)
<1>1. 1..n \subseteq 1..(n + 1)
  OBVIOUS
<1>2. DocsOf(n) \subseteq DocsOf(n + 1)
  BY <1>1 DEF DocsOf
<1>3. TasksOf(n) \subseteq TasksOf(n + 1)
  BY <1>2 DEF TasksOf
<1>4. Seq(DocsOf(n)) \subseteq Seq(DocsOf(n + 1)) /\ Seq(TasksOf(n)) \subseteq Seq(TasksOf(n + 1))
  BY <1>2, <1>3
<1>5. SUBSET (1..n) \subseteq SUBSET (1..(n + 1))
  BY <1>1
<1> QED
  BY <1>2, <1>4, <1>5 DEF TabsOf

\* A newer document: what was known is still known.
LEMMA NewerKnown ==
    ASSUME NEW n, NEW t, NEW doc, NEW lost, NEW newer, Good(t, n, doc, lost),
           newer.version = doc.version + 1, doc.version \in Nat
    PROVE  Good(t, n, newer, lost)
<1>1. ASSUME NEW d, Known(d, doc), d.version \in Nat PROVE Known(d, newer)
  BY <1>1 DEF Known
<1>2. /\ t.base \in Nat /\ t.reply.version \in Nat /\ t.held.version \in Nat
      /\ \A i \in DOMAIN t.wire : t.wire[i].version \in Nat
      /\ \A i \in DOMAIN t.opening : t.opening[i].doc.version \in Nat
  <2>1. /\ t.base \in Nat /\ t.reply \in DocsOf(n) /\ t.held \in DocsOf(n)
        /\ t.wire \in Seq(DocsOf(n)) /\ t.opening \in Seq(TasksOf(n))
    BY DEF Good, TabsOf
  <2>2. /\ \A i \in DOMAIN t.wire : t.wire[i] \in DocsOf(n)
        /\ \A i \in DOMAIN t.opening : t.opening[i] \in TasksOf(n)
    BY <2>1
  <2>3. \A d \in DocsOf(n) : d.version \in Nat
    BY DEF DocsOf
  <2>4. \A k \in TasksOf(n) : k.doc \in DocsOf(n)
    BY DEF TasksOf
  <2> QED
    BY <2>1, <2>2, <2>3, <2>4
<1>3. Informed(t, newer)
  <2>1. Known([version |-> t.base, text |-> t.baseText], newer)
    BY <1>1, <1>2 DEF Good, Informed
  <2> QED
    BY <1>1, <1>2, <2>1 DEF Good, Informed
<1> QED
  BY <1>3 DEF Good

\* A document that comes over the stream.
LEMMA WireGood ==
    ASSUME NEW n, NEW t, NEW doc, NEW lost, NEW wire \in Seq(DocsOf(n)), Good(t, n, doc, lost),
           NEW es \in {"connecting", "open"}, \A i \in DOMAIN wire : Known(wire[i], doc)
    PROVE  Good([t EXCEPT !.es = es, !.wire = wire], n, doc, lost)
<1> DEFINE u == [t EXCEPT !.es = es, !.wire = wire]
<1>1. /\ u \in TabsOf(n) /\ u.held = t.held
      /\ u.wire = wire /\ u.base = t.base /\ u.baseText = t.baseText /\ u.ta = t.ta
      /\ u.saving = t.saving /\ u.told = t.told /\ u.raced = t.raced
      /\ u.save = t.save /\ u.text = t.text /\ u.v = t.v /\ u.ok = t.ok
      /\ u.reply = t.reply /\ u.opening = t.opening
  BY DEF Good, TabsOf
<1> HIDE DEF u
<1>2. Good(u, n, doc, lost)
  BY <1>1 DEF Good, Informed, Faithful
<1> QED
  BY <1>2 DEF u

\* Its timers are set, cleared or run out.
LEMMA TimersGood ==
    ASSUME NEW n, NEW t, NEW doc, NEW lost, Good(t, n, doc, lost),
           NEW timer \in BOOLEAN, NEW wait \in Nat, NEW strays \in Nat
    PROVE  Good([t EXCEPT !.timer = timer, !.wait = wait, !.strays = strays], n, doc, lost)
<1> DEFINE u == [t EXCEPT !.timer = timer, !.wait = wait, !.strays = strays]
<1>1. /\ u \in TabsOf(n) /\ u.held = t.held /\ u.wire = t.wire
      /\ u.base = t.base /\ u.baseText = t.baseText /\ u.ta = t.ta
      /\ u.saving = t.saving /\ u.told = t.told /\ u.raced = t.raced
      /\ u.save = t.save /\ u.text = t.text /\ u.v = t.v /\ u.ok = t.ok
      /\ u.reply = t.reply /\ u.opening = t.opening
  BY DEF Good, TabsOf
<1> HIDE DEF u
<1>2. Good(u, n, doc, lost)
  BY <1>1 DEF Good, Informed, Faithful
<1> QED
  BY <1>2 DEF u

LEMMA SetAgainGood ==
    ASSUME NEW n, NEW t, NEW doc, NEW lost, Good(t, n, doc, lost)
    PROVE  Good(SetAgain(t), n, doc, lost)
<1> DEFINE strays == IF t.timer THEN t.strays + 1 ELSE t.strays
           u == [t EXCEPT !.strays = strays]
<1>1. t \in TabsOf(n)
  BY DEF Good
<1>2. u.opening = t.opening /\ SetAgain(t) = [u EXCEPT !.timer = TRUE, !.wait = Len(u.opening)]
  BY <1>1 DEF SetAgain, SetTimer, TabsOf
<1>3. strays \in Nat /\ Len(t.opening) \in Nat
  BY <1>1 DEF TabsOf
<1> HIDE DEF strays
<1>4. SetAgain(t) = [t EXCEPT !.timer = TRUE, !.wait = Len(t.opening), !.strays = strays]
  BY <1>1, <1>2 DEF TabsOf
<1> HIDE DEF u
<1>5. Good([t EXCEPT !.timer = TRUE, !.wait = Len(t.opening), !.strays = strays], n, doc, lost)
  BY <1>3, TimersGood
<1> QED
  BY <1>4, <1>5, Zenon

-------------------------------------------------------------------------------
\* The actions.  All but ApiSave, Type and DocOpened change one page only.

LEMMA OnePage ==
    ASSUME PInv, NEW c \in PTabs, NEW t, Good(t, pCount.typed, pDoc, pLost),
           pTab' = [pTab EXCEPT ![c] = t], pCount'.typed = pCount.typed, UNCHANGED <<pDoc, pLost>>
    PROVE  PInv'
<1>1. t \in TabsOf(pCount.typed)
  BY DEF Good
<1>2. pTab' \in [PTabs -> TabsOf(pCount.typed)]
  BY <1>1 DEF PInv
<1>3. \A d \in PTabs : pTab'[d] = IF d = c THEN t ELSE pTab[d]
  BY DEF PInv
<1> QED
  BY <1>2, <1>3 DEF PInv

LEMMA StreamInv ==
    ASSUME PInv, NEW c \in PTabs, PadStream(c) \/ DocArrives(c) \/ PadStreamBreaks(c)
    PROVE  PInv'
<1>0. /\ pCount.typed \in Nat /\ pDoc \in DocsOf(pCount.typed) /\ pTab \in [PTabs -> TabsOf(pCount.typed)]
      /\ Good(pTab[c], pCount.typed, pDoc, pLost)
  BY DEF PInv
<1>1. CASE PadStream(c)
  <2> DEFINE u == [pTab[c] EXCEPT !.es = "open", !.wire = <<pDoc>>]
  <2>1. pTab' = [pTab EXCEPT ![c] = u] /\ UNCHANGED <<pDoc, pLost, pCount>>
    BY <1>0, <1>1 DEF PadStream
  <2>2. <<pDoc>> \in Seq(DocsOf(pCount.typed)) /\ \A i \in DOMAIN <<pDoc>> : Known(<<pDoc>>[i], pDoc)
    BY <1>0 DEF Known, DocsOf
  <2>3. Good(u, pCount.typed, pDoc, pLost)
    BY <1>0, <2>2, WireGood
  <2> HIDE DEF u
  <2> QED
    BY <2>1, <2>3, OnePage
<1>2. CASE PadStreamBreaks(c)
  <2> DEFINE u == [pTab[c] EXCEPT !.es = "connecting", !.wire = <<>>]
  <2>1. /\ pTab' = [pTab EXCEPT ![c] = u] /\ UNCHANGED <<pDoc, pLost>>
        /\ pCount' = [pCount EXCEPT !.faults = @ + 1]
    BY <1>0, <1>2 DEF PadStreamBreaks
  <2>2. <<>> \in Seq(DocsOf(pCount.typed)) /\ \A i \in DOMAIN <<>> : Known(<<>>[i], pDoc)
    OBVIOUS
  <2>3. Good(u, pCount.typed, pDoc, pLost)
    BY <1>0, <2>2, WireGood
  <2>4. pCount'.typed = pCount.typed
    BY <2>1
  <2> HIDE DEF u
  <2> QED
    BY <2>1, <2>3, <2>4, OnePage
<1>3. CASE DocArrives(c)
  <2> DEFINE wire == pTab[c].wire
             t == [pTab[c] EXCEPT !.wire = Tail(wire)]
             u == HandleDoc(t, Head(wire))
  <2>1. pTab' = [pTab EXCEPT ![c] = u] /\ UNCHANGED <<pDoc, pLost, pCount>>
    BY <1>0, <1>3 DEF DocArrives
  <2>2. wire \in Seq(DocsOf(pCount.typed)) /\ wire # <<>> /\ pTab[c].es \in {"connecting", "open"}
    BY <1>0, <1>3 DEF DocArrives, TabsOf
  <2>3. \A i \in DOMAIN wire : Known(wire[i], pDoc)
    BY <1>0 DEF Good, Informed
  <2> HIDE DEF wire
  <2>4. /\ Tail(wire) \in Seq(DocsOf(pCount.typed)) /\ Head(wire) \in DocsOf(pCount.typed)
        /\ Known(Head(wire), pDoc) /\ \A i \in DOMAIN Tail(wire) : Known(Tail(wire)[i], pDoc)
    <3>1. 1 \in DOMAIN wire /\ Head(wire) = wire[1] /\ Tail(wire) \in Seq(DocsOf(pCount.typed))
      BY <2>2
    <3>2. \A i \in DOMAIN Tail(wire) : i + 1 \in DOMAIN wire /\ Tail(wire)[i] = wire[i + 1]
      BY <2>2
    <3>3. Head(wire) \in DocsOf(pCount.typed)
      BY <2>2, <3>1
    <3> QED
      BY <2>3, <3>1, <3>2, <3>3
  <2>5. t = [pTab[c] EXCEPT !.es = pTab[c].es, !.wire = Tail(wire)]
    BY <1>0 DEF TabsOf, wire
  <2>6. Good(t, pCount.typed, pDoc, pLost)
    BY <1>0, <2>2, <2>4, <2>5, WireGood
  <2>7. Good(u, pCount.typed, pDoc, pLost)
    BY <2>4, <2>6, HandleDocGood
  <2> HIDE DEF u
  <2> QED
    BY <2>1, <2>7, OnePage
<1> QED
  BY <1>1, <1>2, <1>3

LEMMA TypeInv ==
    ASSUME PInv, NEW c \in PTabs, Type(c)
    PROVE  PInv'
<1> DEFINE n == pCount.typed
           u == [pTab[c] EXCEPT !.ta = @ \cup {n + 1}, !.told = FALSE, !.timer = TRUE,
                                !.wait = Len(pTab[c].opening)]
<1>0. /\ n \in Nat /\ pDoc \in DocsOf(n) /\ pTab \in [PTabs -> TabsOf(n)]
      /\ \A d \in PTabs : Good(pTab[d], n, pDoc, pLost)
  BY DEF PInv
<1>1. pCount'.typed = n + 1
  BY DEF Type
<1>2. pTab' = [pTab EXCEPT ![c] = u] /\ UNCHANGED <<pDoc, pLost>>
  <2>1. SetTimer([pTab[c] EXCEPT !.ta = @ \cup {n + 1}, !.told = FALSE]) = u
    BY <1>0 DEF SetTimer, TabsOf
  <2> QED
    BY <1>1, <2>1 DEF Type
<1>3. DocsOf(n) \subseteq DocsOf(n + 1) /\ TabsOf(n) \subseteq TabsOf(n + 1)
  BY <1>0, TabsGrow
<1>4. /\ pTab[c] \in TabsOf(n + 1) /\ n + 1 \in 1..(n + 1) /\ n + 1 \notin pTab[c].baseText
      /\ Len(pTab[c].opening) \in Nat
  <2>1. pTab[c] \in TabsOf(n) /\ pTab[c] \in TabsOf(n + 1)
    BY <1>0, <1>3
  <2>2. pTab[c].baseText \in SUBSET (1..n) /\ pTab[c].opening \in Seq(TasksOf(n))
    BY <2>1 DEF TabsOf
  <2> QED
    BY <1>0, <2>1, <2>2
<1> HIDE DEF n
<1>5. /\ u \in TabsOf(n + 1) /\ u.held = pTab[c].held /\ u.wire = pTab[c].wire
      /\ u.base = pTab[c].base /\ u.baseText = pTab[c].baseText /\ u.ta = pTab[c].ta \cup {n + 1}
      /\ u.saving = pTab[c].saving /\ u.told = FALSE /\ u.raced = pTab[c].raced
      /\ u.save = pTab[c].save /\ u.text = pTab[c].text
      /\ u.v = pTab[c].v /\ u.ok = pTab[c].ok /\ u.reply = pTab[c].reply /\ u.opening = pTab[c].opening
  BY <1>4 DEF TabsOf
<1> HIDE DEF u
<1>6. u.ta # u.baseText
  BY <1>4, <1>5
<1>7. Good(u, n + 1, pDoc, pLost)
  <2>1. Informed(u, pDoc)
    BY <1>0, <1>5 DEF Good, Informed
  <2>2. Faithful(u, pLost)
    BY <1>0, <1>5, <1>6 DEF Good, Faithful
  <2> QED
    BY <1>5, <2>1, <2>2 DEF Good
<1>8. \A d \in PTabs : pTab'[d] = IF d = c THEN u ELSE pTab[d]
  BY <1>0, <1>2
<1>9. \A d \in PTabs : Good(pTab'[d], n + 1, pDoc, pLost)
  BY <1>0, <1>3, <1>7, <1>8 DEF Good
<1>10. pTab' \in [PTabs -> TabsOf(n + 1)]
  BY <1>2, <1>9, <1>0 DEF Good
<1>11. n + 1 \in Nat
  BY <1>0
<1> QED
  BY <1>0, <1>1, <1>2, <1>3, <1>9, <1>10, <1>11 DEF PInv

LEMMA TimerInv ==
    ASSUME PInv, NEW c \in PTabs, TimerFires(c) \/ StrayFires(c)
    PROVE  PInv'
<1> DEFINE t1 == [pTab[c] EXCEPT !.timer = FALSE]
           t2 == [pTab[c] EXCEPT !.strays = @ - 1]
<1>0. /\ pCount.typed \in Nat /\ pTab \in [PTabs -> TabsOf(pCount.typed)]
      /\ Good(pTab[c], pCount.typed, pDoc, pLost) /\ pTab[c] \in TabsOf(pCount.typed)
  BY DEF PInv
<1>1. /\ \/ pTab' = [pTab EXCEPT ![c] = StartSave(t1)]
         \/ pTab[c].strays > 0 /\ pTab' = [pTab EXCEPT ![c] = StartSave(t2)]
      /\ UNCHANGED <<pDoc, pLost, pCount>>
  <2>1. CASE TimerFires(c)
    BY <2>1 DEF TimerFires
  <2>2. CASE StrayFires(c)
    BY <2>2 DEF StrayFires
  <2> QED
    BY <2>1, <2>2
<1>2. t1 = [pTab[c] EXCEPT !.timer = FALSE, !.wait = pTab[c].wait, !.strays = pTab[c].strays]
  BY <1>0 DEF TabsOf
<1>3. t2 = [pTab[c] EXCEPT !.timer = pTab[c].timer, !.wait = pTab[c].wait, !.strays = pTab[c].strays - 1]
  BY <1>0 DEF TabsOf
<1>4. /\ pTab[c].wait \in Nat /\ pTab[c].strays \in Nat /\ pTab[c].timer \in BOOLEAN
      /\ pTab[c].strays > 0 => pTab[c].strays - 1 \in Nat
  BY <1>0 DEF TabsOf
<1> HIDE DEF t1, t2
<1>5. Good(t1, pCount.typed, pDoc, pLost)
  BY <1>0, <1>2, <1>4, TimersGood
<1>6. pTab[c].strays > 0 => Good(t2, pCount.typed, pDoc, pLost)
  BY <1>0, <1>3, <1>4, TimersGood
<1> QED
  BY <1>0, <1>1, <1>5, <1>6, StartSaveGood, OnePage

LEMMA SealedInv ==
    ASSUME PInv, NEW c \in PTabs, Sealed(c)
    PROVE  PInv'
<1> DEFINE u == [pTab[c] EXCEPT !.save = "sent", !.v = pTab[c].base]
<1>0. /\ pTab \in [PTabs -> TabsOf(pCount.typed)]
      /\ Good(pTab[c], pCount.typed, pDoc, pLost) /\ pTab[c] \in TabsOf(pCount.typed)
  BY DEF PInv
<1>1. pTab' = [pTab EXCEPT ![c] = u] /\ UNCHANGED <<pDoc, pLost, pCount>>
  BY <1>0 DEF Sealed
<1>2. /\ u \in TabsOf(pCount.typed) /\ u.held = pTab[c].held /\ u.wire = pTab[c].wire
      /\ u.base = pTab[c].base /\ u.baseText = pTab[c].baseText /\ u.ta = pTab[c].ta
      /\ u.saving = pTab[c].saving /\ u.told = pTab[c].told /\ u.raced = pTab[c].raced
      /\ u.save = "sent" /\ u.text = pTab[c].text
      /\ u.v = pTab[c].base /\ u.ok = pTab[c].ok /\ u.reply = pTab[c].reply /\ u.opening = pTab[c].opening
  BY <1>0 DEF TabsOf
<1> HIDE DEF u
<1>3. pTab[c].save # "none"
  BY DEF Sealed
<1>4. Good(u, pCount.typed, pDoc, pLost)
  BY <1>0, <1>2, <1>3 DEF Good, Informed, Faithful
<1> QED
  BY <1>1, <1>4, OnePage

LEMMA FailsInv ==
    ASSUME PInv, NEW c \in PTabs, SealFails(c) \/ SaveRefused(c) \/ SaveThrows(c)
    PROVE  PInv'
<1> DEFINE t == pTab[c]
           told == [t EXCEPT !.save = "none", !.saving = FALSE, !.told = TRUE]
           idle == [t EXCEPT !.save = "none", !.saving = FALSE]
           stuck == [t EXCEPT !.save = "none"]
<1>0. /\ pTab \in [PTabs -> TabsOf(pCount.typed)]
      /\ Good(t, pCount.typed, pDoc, pLost) /\ t \in TabsOf(pCount.typed)
  BY DEF PInv
<1>1. /\ \/ t.save = "sealing" /\ pTab' = [pTab EXCEPT ![c] = told]
         \/ pTab' = [pTab EXCEPT ![c] = SetAgain(idle)]
         \/ pTab' = [pTab EXCEPT ![c] = stuck]
      /\ UNCHANGED <<pDoc, pLost>> /\ pCount' = [pCount EXCEPT !.faults = @ + 1]
  BY <1>0 DEF SealFails, SaveRefused, SaveThrows, TryLater
<1>2. pCount'.typed = pCount.typed
  BY <1>1
<1> HIDE DEF t
<1>3. /\ told \in TabsOf(pCount.typed) /\ told.held = t.held /\ told.wire = t.wire
      /\ told.base = t.base /\ told.baseText = t.baseText /\ told.ta = t.ta /\ told.raced = t.raced
      /\ told.saving = FALSE /\ told.told = TRUE /\ told.save = "none" /\ told.text = t.text
      /\ told.v = t.v /\ told.ok = t.ok /\ told.reply = t.reply /\ told.opening = t.opening
  BY <1>0 DEF TabsOf
<1>4. /\ idle \in TabsOf(pCount.typed) /\ idle.held = t.held /\ idle.wire = t.wire
      /\ idle.base = t.base /\ idle.baseText = t.baseText /\ idle.ta = t.ta
      /\ idle.saving = FALSE /\ idle.told = t.told /\ idle.raced = t.raced /\ idle.save = "none"
      /\ idle.text = t.text /\ idle.v = t.v /\ idle.ok = t.ok /\ idle.reply = t.reply
      /\ idle.opening = t.opening
  BY <1>0 DEF TabsOf
<1>5. /\ stuck \in TabsOf(pCount.typed) /\ stuck.held = t.held /\ stuck.wire = t.wire
      /\ stuck.base = t.base /\ stuck.baseText = t.baseText /\ stuck.ta = t.ta
      /\ stuck.saving = t.saving /\ stuck.told = t.told /\ stuck.raced = t.raced
      /\ stuck.save = "none" /\ stuck.text = t.text
      /\ stuck.v = t.v /\ stuck.ok = t.ok /\ stuck.reply = t.reply /\ stuck.opening = t.opening
  BY <1>0 DEF TabsOf
<1> HIDE DEF told, idle, stuck
<1>6. t.save = "sealing" => Good(told, pCount.typed, pDoc, pLost)
  BY <1>0, <1>3 DEF Good, Informed, Faithful
<1>7. Good(idle, pCount.typed, pDoc, pLost)
  BY <1>0, <1>4 DEF Good, Informed, Faithful
<1>8. Good(stuck, pCount.typed, pDoc, pLost)
  BY <1>0, <1>5 DEF Good, Informed, Faithful
<1> QED
  BY <1>1, <1>2, <1>6, <1>7, <1>8, SetAgainGood, OnePage

\* A save of the newest version makes a newer one, which holds the lines of the older
\* but for those put aside, unless the page has raced.
LEMMA ApiSaveInv ==
    ASSUME PInv, NEW c \in PTabs, ApiSave(c)
    PROVE  PInv' /\ (pDoc.text \subseteq pDoc'.text \cup pLost \/ (Saves(c) /\ pTab[c].raced))
<1> DEFINE n == pCount.typed
           t == pTab[c]
<1>0. /\ n \in Nat /\ pDoc \in DocsOf(n) /\ pTab \in [PTabs -> TabsOf(n)] /\ t \in TabsOf(n)
      /\ \A d \in PTabs : Good(pTab[d], n, pDoc, pLost)
  BY DEF PInv
<1>1. /\ pDoc.version \in Nat /\ pDoc.text \in SUBSET (1..n) /\ t.text \in SUBSET (1..n)
      /\ UNCHANGED <<pLost, pCount>> /\ t.save = "sent"
  BY <1>0 DEF ApiSave, DocsOf, TabsOf
<1>2. CASE ~SameBase(t.v)
  <2> DEFINE u == [t EXCEPT !.save = "answered", !.ok = FALSE, !.reply = pDoc]
  <2>1. pTab' = [pTab EXCEPT ![c] = u] /\ UNCHANGED pDoc
    BY <1>0, <1>2 DEF ApiSave
  <2> HIDE DEF t
  <2>2. /\ u \in TabsOf(n) /\ u.held = t.held /\ u.wire = t.wire
        /\ u.base = t.base /\ u.baseText = t.baseText /\ u.ta = t.ta
        /\ u.saving = t.saving /\ u.told = t.told /\ u.raced = t.raced
        /\ u.save = "answered" /\ u.text = t.text
        /\ u.v = t.v /\ u.ok = FALSE /\ u.reply = pDoc /\ u.opening = t.opening
    BY <1>0 DEF TabsOf
  <2> HIDE DEF u
  <2>3. Good(t, n, pDoc, pLost)
    BY <1>0 DEF t
  <2>4. Informed(u, pDoc)
    BY <1>1, <2>2, <2>3 DEF Good, Informed, Known
  <2>5. Faithful(u, pLost)
    BY <1>1, <2>2, <2>3 DEF Good, Faithful
  <2>6. Good(u, n, pDoc, pLost)
    BY <2>2, <2>4, <2>5 DEF Good
  <2> QED
    BY <1>1, <2>1, <2>6, OnePage
<1>3. CASE SameBase(t.v)
  <2> DEFINE newer == [version |-> pDoc.version + 1, text |-> t.text]
             heard(d) == IF pTab[d].es = "open" THEN [pTab[d] EXCEPT !.wire = Append(@, newer)]
                         ELSE pTab[d]
             u == [heard(c) EXCEPT !.save = "answered", !.ok = TRUE, !.reply = newer]
  <2>1. pDoc' = newer /\ pTab' = [d \in PTabs |-> IF d = c THEN u ELSE heard(d)]
    BY <1>3, ZenonT(60) DEF ApiSave
  <2>2. /\ newer \in DocsOf(n) /\ newer.version = pDoc.version + 1 /\ newer.text = t.text
        /\ Known(newer, newer)
    BY <1>1 DEF DocsOf, Known
  <2> HIDE DEF newer, t
  <2>3. ASSUME NEW d \in PTabs PROVE Good(heard(d), n, newer, pLost)
    <3>1. Good(pTab[d], n, newer, pLost)
      BY <1>0, <1>1, <2>2, NewerKnown
    <3>2. pTab[d].wire \in Seq(DocsOf(n)) /\ \A i \in DOMAIN pTab[d].wire : Known(pTab[d].wire[i], newer)
      BY <3>1 DEF Good, TabsOf, Informed
    <3> DEFINE wire == Append(pTab[d].wire, newer)
    <3>3. wire \in Seq(DocsOf(n)) /\ \A i \in DOMAIN wire : Known(wire[i], newer)
      BY <2>2, <3>2
    <3> HIDE DEF wire
    <3>4. Good([pTab[d] EXCEPT !.es = "open", !.wire = wire], n, newer, pLost)
      BY <3>1, <3>3, WireGood
    <3>5. pTab[d].es = "open" => [pTab[d] EXCEPT !.wire = wire] = [pTab[d] EXCEPT !.es = "open", !.wire = wire]
      BY <1>0 DEF TabsOf
    <3> QED
      BY <3>1, <3>4, <3>5 DEF wire
  <2>4. Good(heard(c), n, newer, pLost)
    BY <2>3
  <2>5. heard(c).save = "sent" /\ heard(c).text = t.text /\ heard(c) \in TabsOf(n)
    BY <1>0, <1>1, <2>4 DEF t, TabsOf, Good
  <2> DEFINE h == heard(c)
  <2> HIDE DEF h, heard
  <2>6. u = [h EXCEPT !.save = "answered", !.ok = TRUE, !.reply = newer]
    BY DEF h
  <2>7. h \in TabsOf(n) /\ h.save = "sent" /\ h.text = t.text /\ Good(h, n, newer, pLost)
    BY <2>4, <2>5 DEF h
  <2> HIDE DEF u
  <2>8. /\ u \in TabsOf(n) /\ u.held = h.held /\ u.wire = h.wire
        /\ u.base = h.base /\ u.baseText = h.baseText /\ u.ta = h.ta
        /\ u.saving = h.saving /\ u.told = h.told /\ u.raced = h.raced
        /\ u.save = "answered" /\ u.text = h.text
        /\ u.v = h.v /\ u.ok = TRUE /\ u.reply = newer /\ u.opening = h.opening
    BY <2>2, <2>6, <2>7 DEF TabsOf
  <2>9. Good(u, n, newer, pLost)
    <3>1. Informed(u, newer)
      BY <2>2, <2>7, <2>8 DEF Good, Informed
    <3>2. Faithful(u, pLost)
      BY <2>2, <2>7, <2>8 DEF Good, Faithful
    <3> QED
      BY <2>8, <3>1, <3>2 DEF Good
  <2>10. \A d \in PTabs : Good(pTab'[d], n, newer, pLost)
    BY <2>1, <2>3, <2>9
  <2>11. pTab' \in [PTabs -> TabsOf(n)]
    BY <2>1, <2>3, <2>9 DEF Good
  <2>12. PInv'
    BY <1>0, <1>1, <2>1, <2>2, <2>10, <2>11 DEF PInv
  <2>13. ASSUME ~t.raced PROVE pDoc.text \subseteq newer.text \cup pLost
    <3>1. Good(t, n, pDoc, pLost) /\ t.v = pDoc.version
      BY <1>0, <1>3 DEF t, SameBase
    <3>2. t.v = t.base /\ t.baseText \subseteq t.text \cup pLost
      BY <1>1, <2>13, <3>1 DEF Good, Faithful
    <3>3. t.baseText = pDoc.text
      BY <3>1, <3>2 DEF Good, Informed, Known
    <3> QED
      BY <2>2, <3>2, <3>3
  <2>14. Saves(c)
    BY <1>0, <1>1, <2>1, <2>8 DEF Saves, t
  <2>15. t.raced => pTab[c].raced
    BY DEF t
  <2> QED
    BY <2>1, <2>12, <2>13, <2>14, <2>15
<1> QED
  BY <1>2, <1>3

\* The page agrees with what it saved, or opens what came instead.
LEMMA AnsweredInv ==
    ASSUME PInv, NEW c \in PTabs, SaveAnswered(c)
    PROVE  PInv'
<1> DEFINE n == pCount.typed
           p == pTab[c]
           t == [p EXCEPT !.save = "none", !.saving = FALSE]
           agreed == [t EXCEPT !.base = t.reply.version, !.baseText = t.text]
           again == SetAgain(agreed)
           task == [for |-> "rebase", doc |-> t.reply]
           opens == [t EXCEPT !.opening = Append(@, task)]
<1>0. /\ n \in Nat /\ p \in TabsOf(n) /\ Good(p, n, pDoc, pLost) /\ p.save = "answered"
      /\ pTab \in [PTabs -> TabsOf(n)]
  BY DEF PInv, SaveAnswered
<1>1. /\ UNCHANGED <<pDoc, pLost, pCount>>
      /\ pTab' = [pTab EXCEPT ![c] = IF ~t.ok THEN opens ELSE IF t.ta # t.text THEN again ELSE ApplyHeld(agreed)]
  BY <1>0 DEF SaveAnswered
<1> HIDE DEF n, p
<1>2. /\ t \in TabsOf(n) /\ t.held = p.held /\ t.wire = p.wire
      /\ t.base = p.base /\ t.baseText = p.baseText /\ t.ta = p.ta
      /\ t.saving = FALSE /\ t.told = p.told /\ t.raced = p.raced
      /\ t.save = "none" /\ t.text = p.text
      /\ t.v = p.v /\ t.ok = p.ok /\ t.reply = p.reply /\ t.opening = p.opening
  BY <1>0 DEF TabsOf
<1> HIDE DEF t
<1>3. /\ p.saving /\ (p.ok => p.reply.text = p.text)
      /\ ~p.raced => ~p.told /\ p.opening = <<>> /\ p.ta # p.baseText /\ p.text \subseteq p.ta
  BY <1>0 DEF Good, Informed, Faithful
<1>4. t.reply \in DocsOf(n) /\ t.reply.version \in Nat /\ t.text \in SUBSET (1..n)
  BY <1>2 DEF TabsOf, DocsOf
<1>5. ASSUME ~t.ok PROVE Good(opens, n, pDoc, pLost)
  <2>1. task \in TasksOf(n) /\ t.opening \in Seq(TasksOf(n)) /\ task.doc = t.reply
    BY <1>2, <1>4 DEF TasksOf, TabsOf
  <2> DEFINE opening == Append(t.opening, task)
  <2> HIDE DEF task
  <2>2. /\ opening \in Seq(TasksOf(n))
        /\ \A i \in DOMAIN opening :
               (i \in DOMAIN t.opening /\ opening[i] = t.opening[i]) \/ opening[i] = task
        /\ t.opening = <<>> => Len(opening) = 1
    BY <2>1
  <2> HIDE DEF opening
  <2>3. /\ opens \in TabsOf(n) /\ opens.held = t.held /\ opens.wire = t.wire
        /\ opens.base = t.base /\ opens.baseText = t.baseText /\ opens.ta = t.ta
        /\ opens.saving = FALSE /\ opens.told = t.told /\ opens.raced = t.raced
        /\ opens.save = "none" /\ opens.text = t.text
        /\ opens.v = t.v /\ opens.ok = t.ok /\ opens.reply = t.reply /\ opens.opening = opening
    BY <1>2, <2>2 DEF opening, TabsOf
  <2> HIDE DEF opens
  <2>4. Informed(opens, pDoc)
    BY <1>0, <1>2, <2>1, <2>2, <2>3 DEF Good, Informed
  <2>5. Faithful(opens, pLost)
    BY <1>0, <1>2, <1>3, <2>2, <2>3 DEF Good, Faithful
  <2> QED
    BY <2>3, <2>4, <2>5 DEF Good
<1>6. /\ agreed \in TabsOf(n) /\ agreed.held = t.held /\ agreed.wire = t.wire
      /\ agreed.base = t.reply.version /\ agreed.baseText = t.text /\ agreed.ta = t.ta
      /\ agreed.saving = FALSE /\ agreed.told = t.told /\ agreed.raced = t.raced
      /\ agreed.save = "none" /\ agreed.text = t.text
      /\ agreed.v = t.v /\ agreed.ok = t.ok /\ agreed.reply = t.reply /\ agreed.opening = t.opening
  BY <1>2, <1>4 DEF TabsOf
<1> HIDE DEF agreed, task, opens
<1>7. ASSUME t.ok PROVE Good(agreed, n, pDoc, pLost)
  <2>1. Informed(agreed, pDoc)
    BY <1>0, <1>2, <1>3, <1>6, <1>7 DEF Good, Informed, Known
  <2>2. Faithful(agreed, pLost)
    BY <1>2, <1>3, <1>6 DEF Faithful
  <2> QED
    BY <1>6, <2>1, <2>2 DEF Good
<1>8. ASSUME t.ok PROVE Good(again, n, pDoc, pLost)
  BY <1>7, <1>8, SetAgainGood
<1>9. ASSUME t.ok PROVE Good(ApplyHeld(agreed), n, pDoc, pLost)
  BY <1>0, <1>7, <1>9, ApplyHeldGood
<1>10. Good(IF ~t.ok THEN opens ELSE IF t.ta # t.text THEN again ELSE ApplyHeld(agreed), n, pDoc, pLost)
  BY <1>5, <1>8, <1>9
<1> HIDE DEF again
<1> QED
  BY <1>1, <1>10, OnePage DEF n

\* A page that rebases holds what came, but for the lines it put aside.
LEMMA OpenedInv ==
    ASSUME PInv, NEW c \in PTabs, DocOpened(c)
    PROVE  PInv'
<1> DEFINE n == pCount.typed
           t == pTab[c]
           task == Head(t.opening)
           doc == task.doc
           tail == Tail(t.opening)
<1>0. /\ n \in Nat /\ t \in TabsOf(n) /\ Good(t, n, pDoc, pLost) /\ t.opening # <<>>
      /\ pTab \in [PTabs -> TabsOf(n)] /\ pDoc \in DocsOf(n)
      /\ \A d \in PTabs : Good(pTab[d], n, pDoc, pLost)
      /\ UNCHANGED <<pDoc, pCount>>
  BY DEF PInv, DocOpened
<1>1. IF task.for = "doc" THEN ShowDoc(c, doc) ELSE Rebase(c, doc)
  BY DEF DocOpened
<1> HIDE DEF n
<1>2. t.opening \in Seq(TasksOf(n)) /\ t.opening # <<>>
  BY <1>0 DEF TabsOf
<1> DEFINE opening == t.opening
<1>3. /\ 1 \in DOMAIN opening /\ task = opening[1] /\ task \in TasksOf(n) /\ tail \in Seq(TasksOf(n))
      /\ \A i \in DOMAIN tail : i + 1 \in DOMAIN opening /\ tail[i] = opening[i + 1]
      /\ Len(opening) = 1 => tail = <<>>
  <2> HIDE DEF opening
  <2>1. opening \in Seq(TasksOf(n)) /\ opening # <<>> /\ task = Head(opening) /\ tail = Tail(opening)
    BY <1>2 DEF opening
  <2> HIDE DEF task, tail
  <2>2. 1 \in DOMAIN opening /\ task = opening[1] /\ tail \in Seq(TasksOf(n))
    BY <2>1
  <2>3. \A i \in DOMAIN tail : i + 1 \in DOMAIN opening /\ tail[i] = opening[i + 1]
    BY <2>1
  <2>4. Len(opening) = 1 => tail = <<>>
    BY <2>1
  <2>5. task \in TasksOf(n)
    BY <2>1, <2>2
  <2> QED
    BY <2>2, <2>3, <2>4, <2>5
<1>4. doc \in DocsOf(n) /\ doc.version \in Nat /\ doc.text \in SUBSET (1..n) /\ Known(doc, pDoc)
  BY <1>0, <1>3 DEF TasksOf, DocsOf, Good, Informed
<1>5. /\ t.save # "none" => t.saving
      /\ ~t.raced => ~t.saving /\ ~t.told
  <2>1. ~t.raced => ~t.saving /\ ~t.told
    BY <1>0, <1>2 DEF Good, Faithful
  <2> QED
    BY <1>0, <2>1 DEF Good, Informed
<1>6. \A i \in DOMAIN tail : Known(tail[i].doc, pDoc)
  BY <1>0, <1>3 DEF Good, Informed
<1> DEFINE wait == IF t.wait = 0 THEN 0 ELSE t.wait - 1
           shut == [t EXCEPT !.opening = tail, !.wait = wait]
<1>6a. wait \in Nat /\ Decrypted(t) = shut
  BY <1>0 DEF Decrypted, TabsOf
<1> HIDE DEF t, task, tail, opening, doc, wait
<1>6b. /\ shut \in TabsOf(n) /\ shut.held = t.held /\ shut.wire = t.wire
       /\ shut.base = t.base /\ shut.baseText = t.baseText /\ shut.ta = t.ta
       /\ shut.saving = t.saving /\ shut.told = t.told /\ shut.raced = t.raced
       /\ shut.save = t.save /\ shut.text = t.text
       /\ shut.v = t.v /\ shut.ok = t.ok /\ shut.reply = t.reply /\ shut.opening = tail
  BY <1>0, <1>3, <1>6a DEF TabsOf
<1> HIDE DEF shut
<1>7. ASSUME NEW u, NEW lost, Good(u, n, pDoc, lost), pLost \subseteq lost,
             pTab' = [pTab EXCEPT ![c] = u], pLost' = lost
      PROVE  PInv'
  <2>1. \A d \in PTabs : pTab'[d] = IF d = c THEN u ELSE pTab[d]
    BY <1>0, <1>7
  <2>2. \A d \in PTabs : Good(pTab'[d], n, pDoc, lost)
    BY <1>0, <1>7, <2>1, MoreGood
  <2>3. pTab' \in [PTabs -> TabsOf(n)]
    BY <1>0, <1>7, <2>2 DEF Good
  <2> QED
    BY <1>0, <1>7, <2>2, <2>3 DEF PInv, n
<1>8. CASE task.for = "doc"
  <2> DEFINE u == [shut EXCEPT !.base = doc.version, !.baseText = doc.text, !.ta = doc.text,
                               !.told = FALSE]
  <2>1. pTab' = [pTab EXCEPT ![c] = u] /\ pLost' = pLost
    BY <1>1, <1>6a, <1>8 DEF ShowDoc, t
  <2>2. /\ u \in TabsOf(n) /\ u.held = t.held /\ u.wire = t.wire
        /\ u.base = doc.version /\ u.baseText = doc.text /\ u.ta = doc.text
        /\ u.saving = t.saving /\ u.told = FALSE /\ u.raced = t.raced
        /\ u.save = t.save /\ u.text = t.text
        /\ u.v = t.v /\ u.ok = t.ok /\ u.reply = t.reply /\ u.opening = tail
    BY <1>4, <1>6b DEF TabsOf
  <2> HIDE DEF u
  <2>3. ASSUME ~t.raced PROVE \A i \in DOMAIN tail : tail[i].for # "rebase"
    <3>1. ASSUME NEW i \in DOMAIN opening, opening[i].for = "rebase" PROVE FALSE
      <4>1. Len(opening) = 1 /\ i = 1
        BY <1>0, <1>2, <2>3, <3>1 DEF Good, Faithful, opening
      <4> QED
        BY <1>3, <1>8, <3>1, <4>1
    <3> QED
      BY <1>3, <3>1
  <2>4. Informed(u, pDoc)
    BY <1>0, <1>4, <1>6, <2>2 DEF Good, Informed, Known
  <2>5. Faithful(u, pLost)
    BY <1>5, <2>2, <2>3 DEF Faithful
  <2> QED
    BY <1>7, <2>1, <2>2, <2>4, <2>5 DEF Good
<1>9. CASE task.for # "doc"
  <2>1. task.for = "rebase"
    BY <1>3, <1>9 DEF TasksOf
  <2>2. ~t.raced => tail = <<>>
    BY <1>0, <1>3, <2>1 DEF Good, Faithful, opening
  <2> DEFINE rest == [shut EXCEPT !.base = doc.version, !.baseText = doc.text]
             merged == [rest EXCEPT !.ta = MergeDisjoint(t, doc.text)]
  <2>3. \/ pTab' = [pTab EXCEPT ![c] = StartSave(merged)] /\ pLost' = pLost
        \/ pTab' = [pTab EXCEPT ![c] = StartSave(rest)] /\ pLost' = pLost \cup (doc.text \ t.ta)
    BY <1>1, <1>6a, <1>9 DEF Rebase, t
  <2>4. /\ rest \in TabsOf(n) /\ rest.held = t.held /\ rest.wire = t.wire
        /\ rest.base = doc.version /\ rest.baseText = doc.text /\ rest.ta = t.ta
        /\ rest.saving = t.saving /\ rest.told = t.told /\ rest.raced = t.raced
        /\ rest.save = t.save /\ rest.text = t.text
        /\ rest.v = t.v /\ rest.ok = t.ok /\ rest.reply = t.reply /\ rest.opening = tail
    BY <1>4, <1>6b DEF TabsOf
  <2>5. MergeDisjoint(t, doc.text) \in SUBSET (1..n)
    BY <1>0, <1>4 DEF MergeDisjoint, TabsOf
  <2> HIDE DEF rest
  <2>6. /\ merged \in TabsOf(n) /\ merged.held = t.held /\ merged.wire = t.wire
        /\ merged.base = doc.version /\ merged.baseText = doc.text
        /\ merged.ta = MergeDisjoint(t, doc.text)
        /\ merged.saving = t.saving /\ merged.told = t.told /\ merged.raced = t.raced
        /\ merged.save = t.save /\ merged.text = t.text
        /\ merged.v = t.v /\ merged.ok = t.ok /\ merged.reply = t.reply /\ merged.opening = tail
    BY <2>4, <2>5 DEF TabsOf
  <2> HIDE DEF merged
  <2>7. Informed(rest, pDoc) /\ Informed(merged, pDoc)
    BY <1>0, <1>4, <1>6, <2>4, <2>6 DEF Good, Informed, Known
  <2>8. ~t.raced => t.baseText \subseteq t.ta \cup pLost
    BY <1>0 DEF Good, Faithful
  <2>9. ~t.raced => doc.text \subseteq merged.ta \cup pLost
    BY <2>6, <2>8 DEF MergeDisjoint
  <2>10. Faithful(merged, pLost)
    BY <1>5, <2>2, <2>6, <2>9 DEF Faithful
  <2> DEFINE lost == pLost \cup (doc.text \ t.ta)
  <2>11. Faithful(rest, lost)
    BY <1>5, <2>2, <2>4 DEF Faithful
  <2>12. Good(StartSave(merged), n, pDoc, pLost) /\ Good(StartSave(rest), n, pDoc, lost)
    <3>1. Good(merged, n, pDoc, pLost) /\ Good(rest, n, pDoc, lost)
      BY <2>4, <2>6, <2>7, <2>10, <2>11 DEF Good
    <3> HIDE DEF lost
    <3> QED
      BY <1>0, <3>1, StartSaveGood
  <2>13. pLost \subseteq lost
    OBVIOUS
  <2>14. ASSUME pTab' = [pTab EXCEPT ![c] = StartSave(merged)], pLost' = pLost PROVE PInv'
    BY <1>7, <2>12, <2>14
  <2>15. ASSUME pTab' = [pTab EXCEPT ![c] = StartSave(rest)], pLost' = lost PROVE PInv'
    BY <1>7, <2>12, <2>13, <2>15
  <2> QED
    BY <2>3, <2>14, <2>15
<1> QED
  BY <1>8, <1>9

-------------------------------------------------------------------------------
LEMMA PStart == PInit => PInv
<1> SUFFICES ASSUME PInit PROVE PInv
  OBVIOUS
<1>1. pCount.typed = 0 /\ pDoc = NoDoc /\ pTab = [c \in PTabs |-> PadTab]
  BY DEF PInit
<1>2. NoDoc \in DocsOf(0)
  BY DEF NoDoc, DocsOf
<1>3. PadTab \in TabsOf(0)
  BY <1>2 DEF PadTab, TabsOf
<1>4. Known(NoDoc, NoDoc) /\ Known([version |-> 0, text |-> {}], NoDoc)
  BY DEF Known, NoDoc
<1>5. Good(PadTab, 0, NoDoc, pLost)
  BY <1>3, <1>4 DEF Good, Informed, Faithful, PadTab
<1> QED
  BY <1>1, <1>2, <1>3, <1>5 DEF PInv

LEMMA PKept ==
    ASSUME PInv, [PNext]_pVars
    PROVE  PInv' /\ (\/ pDoc.text \subseteq pDoc'.text \cup pLost
                     \/ \E c \in PTabs : Saves(c) /\ pTab[c].raced)
<1>1. ASSUME NEW c \in PTabs, ApiSave(c)
      PROVE  PInv' /\ (pDoc.text \subseteq pDoc'.text \cup pLost \/ (Saves(c) /\ pTab[c].raced))
  BY <1>1, ApiSaveInv
<1>2. ASSUME NEW c \in PTabs, PadStream(c) \/ DocArrives(c) \/ PadStreamBreaks(c)
      PROVE  PInv' /\ pDoc' = pDoc
  BY <1>2, StreamInv DEF PadStream, DocArrives, PadStreamBreaks
<1>3. ASSUME NEW c \in PTabs, TimerFires(c) \/ StrayFires(c) PROVE PInv' /\ pDoc' = pDoc
  BY <1>3, TimerInv DEF TimerFires, StrayFires
<1>4. ASSUME NEW c \in PTabs, Sealed(c) PROVE PInv' /\ pDoc' = pDoc
  BY <1>4, SealedInv DEF Sealed
<1>5. ASSUME NEW c \in PTabs, SaveAnswered(c) PROVE PInv' /\ pDoc' = pDoc
  BY <1>5, AnsweredInv DEF SaveAnswered
<1>6. ASSUME NEW c \in PTabs, DocOpened(c) PROVE PInv' /\ pDoc' = pDoc
  BY <1>6, OpenedInv DEF DocOpened
<1>7. ASSUME NEW c \in PTabs, Type(c) PROVE PInv' /\ pDoc' = pDoc
  BY <1>7, TypeInv, ZenonT(30) DEF Type
<1>8. ASSUME NEW c \in PTabs, SealFails(c) \/ SaveRefused(c) \/ SaveThrows(c)
      PROVE  PInv' /\ pDoc' = pDoc
  BY <1>8, FailsInv DEF SealFails, SaveRefused, SaveThrows
<1>9. ASSUME UNCHANGED pVars PROVE PInv' /\ pDoc' = pDoc
  BY <1>9 DEF pVars, PInv
<1> QED
  BY <1>1, <1>2, <1>3, <1>4, <1>5, <1>6, <1>7, <1>8, <1>9 DEF PNext, PageStep

\* However saves collide, fail, are refused or come late, the save of a page whose
\* saveTimer never ran out during a decryption takes no saved line out of the document,
\* unless the page put the line aside and showed it (api_save, handleDoc, rebase and
\* mergeLines of warpad).
THEOREM WordsStay == PSpec => SavedWordsStay
<1>1. PInit => PInv
  BY PStart
<1>2. PInv /\ [PNext]_pVars => PInv'
  BY PKept
<1>3. PInv /\ [PNext]_pVars
      => [\/ pDoc.text \subseteq pDoc'.text \cup pLost
          \/ \E c \in PTabs : Saves(c) /\ pTab[c].raced]_pVars
  BY PKept
<1> QED
  BY <1>1, <1>2, <1>3, PTL DEF PSpec, SavedWordsStay

-------------------------------------------------------------------------------
\* What a page has heard: the second inductive invariant, of pages that keep up.

\* The version n is shown, or is under way to be.
Reached(t, n) ==
    \/ t.base = n
    \/ t.held # NoDoc /\ t.held.version = n
    \/ \E i \in DOMAIN t.wire : t.wire[i].version = n
    \/ \E i \in DOMAIN t.opening : t.opening[i].doc.version = n

\* Documents are heard, held back and opened in the order of their versions, and what
\* answers a save or is being opened is no older than the base.
Ordered(t) ==
    /\ \A i, j \in DOMAIN t.wire : i <= j => t.wire[i].version <= t.wire[j].version
    /\ t.held # NoDoc => \A i \in DOMAIN t.wire : t.held.version <= t.wire[i].version
    /\ \A i, j \in DOMAIN t.opening :
           i <= j => t.opening[i].doc.version <= t.opening[j].doc.version
    /\ \A i \in DOMAIN t.opening :
           /\ t.base <= t.opening[i].doc.version
           /\ t.opening[i].for = "doc" =>
                  \A j \in DOMAIN t.wire : t.opening[i].doc.version <= t.wire[j].version
    /\ t.save = "answered" => t.base < t.reply.version

\* A page that has something to save, or a newer document held back, will look again,
\* or it says that its text was not saved.
Busy(t) ==
    \/ t.timer \/ t.saving \/ (t.told /\ t.ta # t.baseText)
    \/ \E i \in DOMAIN t.opening : t.opening[i].for = "rebase"
Resting(t) == ~Busy(t) => t.ta = t.baseText /\ (t.held = NoDoc \/ t.held.version <= t.base)

Abreast(t, doc) == (t.es = "open" => Reached(t, doc.version)) /\ Ordered(t) /\ Resting(t)

KeepsUp == \A c \in PTabs : pTab[c].raced \/ Abreast(pTab[c], pDoc)

LEMMA TypedParts ==
    ASSUME NEW n, NEW t \in TabsOf(n)
    PROVE  /\ t.base \in Nat /\ t.held.version \in Nat /\ t.reply.version \in Nat
           /\ {t.timer, t.saving} \subseteq BOOLEAN
           /\ t.wire \in Seq(DocsOf(n)) /\ t.opening \in Seq(TasksOf(n))
           /\ \A i \in DOMAIN t.wire : t.wire[i].version \in Nat
           /\ \A i \in DOMAIN t.opening :
                  t.opening[i].doc.version \in Nat /\ t.opening[i].for \in {"doc", "rebase"}
<1>1. /\ t.base \in Nat /\ t.held \in DocsOf(n) /\ t.reply \in DocsOf(n)
      /\ t.wire \in Seq(DocsOf(n)) /\ t.opening \in Seq(TasksOf(n))
      /\ {t.timer, t.saving} \subseteq BOOLEAN
  BY DEF TabsOf
<1>2. \A d \in DocsOf(n) : d.version \in Nat
  BY DEF DocsOf
<1>3. \A k \in TasksOf(n) : k.doc \in DocsOf(n) /\ k.for \in {"doc", "rebase"}
  BY DEF TasksOf
<1>4. \A i \in DOMAIN t.wire : t.wire[i] \in DocsOf(n)
  BY <1>1
<1>5. \A i \in DOMAIN t.opening : t.opening[i] \in TasksOf(n)
  BY <1>1
<1> QED
  BY <1>1, <1>2, <1>3, <1>4, <1>5

\* A document that arrives, or was held back, is shown, held or opened.
LEMMA HandleDocAbreast ==
    ASSUME NEW n, NEW t, NEW doc, NEW lost, NEW d \in DocsOf(n), doc.version \in Nat,
           Good(t, n, doc, lost), ~t.raced, Known(d, doc), Ordered(t), Resting(t),
           t.es = "open" => Reached(t, doc.version) \/ d.version = doc.version,
           \A j \in DOMAIN t.wire : d.version <= t.wire[j].version,
           t.held # NoDoc => t.held.version <= d.version,
           \A i \in DOMAIN t.opening : t.opening[i].for = "doc" => t.opening[i].doc.version <= d.version
    PROVE  Abreast(HandleDoc(t, d), doc)
<1>1. t \in TabsOf(n) /\ d.version \in Nat /\ d.version <= doc.version /\ t.base <= doc.version
  BY DEF Good, Informed, Known, DocsOf
<1>2. /\ t.base \in Nat /\ t.held.version \in Nat
      /\ {t.timer, t.saving} \subseteq BOOLEAN /\ t.opening \in Seq(TasksOf(n))
      /\ \A i \in DOMAIN t.opening :
             t.opening[i].doc.version \in Nat /\ t.opening[i].for \in {"doc", "rebase"}
  BY <1>1, TypedParts
<1>3. CASE d.version <= t.base
  <2>1. t.es = "open" => Reached(t, doc.version)
    BY <1>1, <1>2, <1>3 DEF Reached
  <2> QED
    BY <1>3, <2>1 DEF HandleDoc, Abreast
<1>4. CASE ~(d.version <= t.base) /\ PendingEdits(t)
  <2> DEFINE u == [t EXCEPT !.held = d]
  <2>1. HandleDoc(t, d) = u
    BY <1>4 DEF HandleDoc
  <2>2. /\ u.held = d /\ u.es = t.es /\ u.wire = t.wire /\ u.base = t.base /\ u.baseText = t.baseText
        /\ u.ta = t.ta /\ u.timer = t.timer /\ u.saving = t.saving
        /\ u.told = t.told /\ u.raced = t.raced /\ u.save = t.save
        /\ u.reply = t.reply /\ u.opening = t.opening
    BY <1>1 DEF TabsOf
  <2> HIDE DEF u
  <2>3. d # NoDoc
    BY <1>2, <1>4 DEF NoDoc
  <2>4. u.es = "open" => Reached(u, doc.version)
    <3>1. t.held # NoDoc /\ t.held.version = doc.version => d.version = doc.version
      BY <1>1, <1>2
    <3> QED
      BY <2>2, <2>3, <3>1 DEF Reached
  <2>5. Ordered(u)
    BY <2>2 DEF Ordered
  <2>6. Resting(u)
    BY <1>4, <2>2 DEF Resting, Busy, PendingEdits
  <2> QED
    BY <2>1, <2>4, <2>5, <2>6 DEF Abreast
<1>5. CASE ~(d.version <= t.base) /\ ~PendingEdits(t)
  <2> DEFINE task == [for |-> "doc", doc |-> d]
             opening == Append(t.opening, task)
             u == [t EXCEPT !.opening = opening]
  <2>1. HandleDoc(t, d) = u
    BY <1>5 DEF HandleDoc
  <2>2. task.for = "doc" /\ task.doc = d
    OBVIOUS
  <2> HIDE DEF task
  <2>3. /\ Len(t.opening) \in Nat /\ DOMAIN t.opening = 1..Len(t.opening)
        /\ DOMAIN opening = 1..(Len(t.opening) + 1) /\ opening[Len(t.opening) + 1] = task
        /\ \A i \in DOMAIN t.opening : opening[i] = t.opening[i]
    BY <1>2
  <2> HIDE DEF opening
  <2>4. /\ u.opening = opening /\ u.es = t.es /\ u.wire = t.wire /\ u.base = t.base
        /\ u.baseText = t.baseText /\ u.ta = t.ta /\ u.timer = t.timer /\ u.saving = t.saving
        /\ u.told = t.told /\ u.raced = t.raced
        /\ u.save = t.save /\ u.reply = t.reply /\ u.held = t.held
    BY <1>1 DEF TabsOf
  <2> HIDE DEF u
  <2> DEFINE N == Len(t.opening)
  <2> HIDE DEF N
  <2>5. /\ N \in Nat /\ DOMAIN t.opening = 1..N /\ DOMAIN opening = 1..(N + 1)
        /\ opening[N + 1].doc = d /\ opening[N + 1].for = "doc"
        /\ \A i \in 1..N : opening[i] = t.opening[i]
    BY <2>2, <2>3 DEF N
  <2>6. \A i \in 1..N : t.opening[i].for = "doc"
    BY <1>2, <1>5, <2>5 DEF PendingEdits, Good, Faithful
  <2>7. \A i \in 1..(N + 1) : i \in 1..N \/ i = N + 1
    BY <2>5
  <2>8. u.es = "open" => Reached(u, doc.version)
    <3>1. N + 1 \in DOMAIN u.opening /\ u.opening[N + 1].doc.version = d.version
      BY <2>4, <2>5
    <3>2. \A i \in DOMAIN t.opening : i \in DOMAIN u.opening /\ u.opening[i] = t.opening[i]
      BY <2>4, <2>5
    <3> QED
      BY <2>4, <3>1, <3>2 DEF Reached
  <2>9. Ordered(u)
    <3>1. \A i, j \in DOMAIN u.opening : i <= j => u.opening[i].doc.version <= u.opening[j].doc.version
      <4> SUFFICES ASSUME NEW i \in 1..(N + 1), NEW j \in 1..(N + 1), i <= j
                   PROVE  opening[i].doc.version <= opening[j].doc.version
        BY <2>4, <2>5
      <4>1. CASE i \in 1..N /\ j \in 1..N
        BY <2>5, <4>1 DEF Ordered
      <4>2. CASE i \in 1..N /\ j = N + 1
        BY <2>5, <2>6, <4>2
      <4>3. CASE i = N + 1 /\ j = N + 1
        BY <1>1, <2>5, <4>3
      <4>4. ~(i = N + 1 /\ j \in 1..N)
        BY <2>5
      <4> QED
        BY <2>7, <4>1, <4>2, <4>3, <4>4
    <3>2. ASSUME NEW i \in DOMAIN u.opening
          PROVE  /\ u.base <= u.opening[i].doc.version
                 /\ \A j \in DOMAIN u.wire : u.opening[i].doc.version <= u.wire[j].version
      <4>1. CASE i \in 1..N
        <5>1. u.opening[i] = t.opening[i] /\ t.opening[i].for = "doc" /\ i \in DOMAIN t.opening
          BY <2>4, <2>5, <2>6, <4>1
        <5> QED
          BY <2>4, <5>1 DEF Ordered
      <4>2. CASE i = N + 1
        BY <1>1, <1>2, <1>5, <2>4, <2>5, <4>2
      <4> QED
        BY <2>4, <2>5, <2>7, <4>1, <4>2, <3>2
    <3> QED
      BY <2>4, <3>1, <3>2 DEF Ordered
  <2>10. Resting(u)
    <3>1. Busy(t) => Busy(u)
      BY <2>4, <2>5 DEF Busy
    <3> QED
      BY <2>4, <3>1 DEF Resting
  <2> QED
    BY <2>1, <2>8, <2>9, <2>10 DEF Abreast
<1> QED
  BY <1>3, <1>4, <1>5

\* What was held back is shown or opened when the page has nothing of its own to save.
LEMMA ApplyHeldAbreast ==
    ASSUME NEW n \in Nat, NEW t, NEW doc, NEW lost, Good(t, n, doc, lost), ~t.raced,
           doc.version \in Nat, t.es = "open" => Reached(t, doc.version), Ordered(t),
           t.opening = <<>>, t.ta = t.baseText
    PROVE  Abreast(ApplyHeld(t), doc)
<1> DEFINE u == [t EXCEPT !.held = NoDoc]
<1>1. NoDoc \in DocsOf(n)
  BY DEF NoDoc, DocsOf
<1>2. t \in TabsOf(n) /\ t.held \in DocsOf(n)
  BY DEF Good, TabsOf
<1>3. CASE t.held = NoDoc
  BY <1>3 DEF ApplyHeld, Abreast, Resting
<1>4. CASE t.held # NoDoc
  <2>1. /\ u \in TabsOf(n) /\ u.held = NoDoc /\ u.es = t.es /\ u.timer = t.timer
        /\ u.wire = t.wire /\ u.base = t.base /\ u.baseText = t.baseText /\ u.ta = t.ta
        /\ u.saving = t.saving /\ u.told = t.told /\ u.raced = t.raced
        /\ u.save = t.save /\ u.text = t.text /\ u.v = t.v /\ u.ok = t.ok
        /\ u.reply = t.reply /\ u.opening = t.opening
    BY <1>1, <1>2 DEF TabsOf
  <2>2. ApplyHeld(t) = HandleDoc(u, t.held)
    BY <1>4 DEF ApplyHeld
  <2> HIDE DEF u
  <2>3. Good(u, n, doc, lost)
    BY <2>1 DEF Good, Informed, Faithful
  <2>4. Known(t.held, doc)
    BY <1>4 DEF Good, Informed
  <2>5. Ordered(u) /\ Resting(u)
    BY <2>1 DEF Ordered, Resting
  <2>6. u.es = "open" => Reached(u, doc.version) \/ t.held.version = doc.version
    BY <2>1 DEF Reached
  <2>7. \A j \in DOMAIN u.wire : t.held.version <= u.wire[j].version
    BY <1>4, <2>1 DEF Ordered
  <2>8. \A i \in DOMAIN u.opening : u.opening[i].for = "doc" => u.opening[i].doc.version <= t.held.version
    BY <2>1
  <2> QED
    BY <1>2, <2>1, <2>2, <2>3, <2>4, <2>5, <2>6, <2>7, <2>8, HandleDocAbreast
<1> QED
  BY <1>3, <1>4

\* A page that raced has raced for good, and it races when it saves while it opens.
LEMMA RacedStays ==
    ASSUME NEW n \in Nat, NEW t \in TabsOf(n)
    PROVE  /\ \A d \in DocsOf(n) : t.raced => HandleDoc(t, d).raced
           /\ t.raced => ApplyHeld(t).raced
           /\ t.raced => StartSave(t).raced
           /\ ~t.saving /\ t.opening # <<>> => StartSave(t).raced
<1>1. ASSUME NEW k \in TabsOf(n), NEW d \in DocsOf(n), k.raced PROVE HandleDoc(k, d).raced
  <2>1. [k EXCEPT !.held = d].raced
    BY <1>1 DEF TabsOf
  <2>2. \A opening : [k EXCEPT !.opening = opening].raced
    BY <1>1 DEF TabsOf
  <2> QED
    BY <1>1, <2>1, <2>2 DEF HandleDoc
<1>2. ASSUME NEW k \in TabsOf(n), k.raced PROVE ApplyHeld(k).raced
  <2> DEFINE u == [k EXCEPT !.held = NoDoc]
  <2>1. NoDoc \in DocsOf(n)
    BY DEF NoDoc, DocsOf
  <2>2. u \in TabsOf(n) /\ u.raced /\ k.held \in DocsOf(n)
    BY <1>2, <2>1 DEF TabsOf
  <2> HIDE DEF u
  <2>3. HandleDoc(u, k.held).raced
    BY <1>1, <2>2
  <2> QED
    BY <1>2, <2>3 DEF ApplyHeld, u
<1> DEFINE idle == Idle(t)
<1>3. idle \in TabsOf(n) /\ (t.raced \/ t.opening # <<>> => idle.raced)
  BY IdleFields
<1>4. StartSave(t) = IF t.saving THEN t ELSE IF t.ta = t.baseText THEN ApplyHeld(idle)
                     ELSE [idle EXCEPT !.saving = TRUE, !.save = "sealing", !.text = t.ta]
  BY DEF StartSave, Idle
<1> HIDE DEF idle
<1>5. idle.raced => ApplyHeld(idle).raced
  BY <1>2, <1>3
<1>6. idle.raced => [idle EXCEPT !.saving = TRUE, !.save = "sealing", !.text = t.ta].raced
  BY <1>3 DEF TabsOf
<1> QED
  BY <1>1, <1>2, <1>3, <1>4, <1>5, <1>6

LEMMA StartSaveAbreast ==
    ASSUME NEW n \in Nat, NEW t, NEW doc, NEW lost, Good(t, n, doc, lost), ~t.raced,
           doc.version \in Nat, t.es = "open" => Reached(t, doc.version), Ordered(t)
    PROVE  StartSave(t).raced \/ Abreast(StartSave(t), doc)
<1> DEFINE idle == Idle(t)
<1>0. t \in TabsOf(n) /\ t.saving \in BOOLEAN
  BY DEF Good, TabsOf
<1>1. CASE t.saving
  BY <1>1 DEF StartSave, Abreast, Resting, Busy
<1>2. CASE ~t.saving /\ t.opening # <<>>
  BY <1>0, <1>2, RacedStays
<1>3. /\ idle \in TabsOf(n) /\ idle.held = t.held /\ idle.es = t.es /\ idle.wire = t.wire
      /\ idle.base = t.base /\ idle.baseText = t.baseText /\ idle.ta = t.ta
      /\ idle.saving = t.saving /\ idle.save = t.save /\ idle.text = t.text /\ idle.v = t.v
      /\ idle.ok = t.ok /\ idle.reply = t.reply /\ idle.opening = t.opening
      /\ idle.told = FALSE
  BY <1>0, IdleFields
<1>4. CASE ~t.saving /\ t.opening = <<>> /\ t.ta = t.baseText
  <2>1. ~idle.raced
    BY <1>0, <1>4 DEF Idle, TabsOf
  <2>2. StartSave(t) = ApplyHeld(idle)
    BY <1>4 DEF StartSave, Idle
  <2> HIDE DEF idle
  <2>3. Informed(idle, doc)
    BY <1>3 DEF Good, Informed
  <2>4. Faithful(idle, lost)
    BY <1>3 DEF Good, Faithful
  <2>5. Ordered(idle) /\ (idle.es = "open" => Reached(idle, doc.version))
    BY <1>3 DEF Ordered, Reached
  <2>6. Good(idle, n, doc, lost) /\ idle.opening = <<>> /\ idle.ta = idle.baseText
    BY <1>3, <1>4, <2>3, <2>4 DEF Good
  <2> QED
    BY <2>1, <2>2, <2>5, <2>6, ApplyHeldAbreast
<1>5. CASE ~t.saving /\ t.opening = <<>> /\ t.ta # t.baseText
  <2> DEFINE u == [idle EXCEPT !.saving = TRUE, !.save = "sealing", !.text = t.ta]
  <2>1. StartSave(t) = u
    BY <1>5 DEF StartSave, Idle
  <2> HIDE DEF idle
  <2>2. /\ u.held = t.held /\ u.es = t.es /\ u.wire = t.wire /\ u.base = t.base
        /\ u.saving = TRUE /\ u.save = "sealing" /\ u.reply = t.reply /\ u.opening = t.opening
    BY <1>3 DEF TabsOf
  <2> HIDE DEF u
  <2>3. Ordered(u) /\ (u.es = "open" => Reached(u, doc.version))
    BY <2>2 DEF Ordered, Reached
  <2>4. Resting(u)
    BY <2>2 DEF Resting, Busy
  <2> QED
    BY <2>1, <2>3, <2>4 DEF Abreast
<1> QED
  BY <1>0, <1>1, <1>2, <1>4, <1>5

-------------------------------------------------------------------------------
\* The actions keep it.

LEMMA OnePageUp ==
    ASSUME PInv, KeepsUp, NEW c \in PTabs, NEW t, t.raced \/ Abreast(t, pDoc),
           pTab' = [pTab EXCEPT ![c] = t], pDoc' = pDoc
    PROVE  KeepsUp'
<1>1. \A d \in PTabs : pTab'[d] = IF d = c THEN t ELSE pTab[d]
  BY DEF PInv
<1>2. \A d \in PTabs : pTab'[d].raced \/ Abreast(pTab'[d], pDoc)
  BY <1>1 DEF KeepsUp
<1> QED
  BY <1>2 DEF KeepsUp

LEMMA PageFacts ==
    ASSUME PInv, KeepsUp, NEW c \in PTabs, ~pTab[c].raced
    PROVE  /\ pCount.typed \in Nat /\ pDoc \in DocsOf(pCount.typed) /\ pDoc.version \in Nat
           /\ pTab \in [PTabs -> TabsOf(pCount.typed)] /\ pTab[c] \in TabsOf(pCount.typed)
           /\ Good(pTab[c], pCount.typed, pDoc, pLost)
           /\ (pTab[c].es = "open" => Reached(pTab[c], pDoc.version))
           /\ Ordered(pTab[c]) /\ Resting(pTab[c])
BY DEF PInv, KeepsUp, Abreast, DocsOf

LEMMA StreamUp ==
    ASSUME PInv, KeepsUp, NEW c \in PTabs, ~pTab[c].raced, PadStream(c) \/ PadStreamBreaks(c)
    PROVE  KeepsUp'
<1> DEFINE t == pTab[c]
<1>0. /\ t \in TabsOf(pCount.typed) /\ Good(t, pCount.typed, pDoc, pLost) /\ pDoc.version \in Nat
      /\ Ordered(t) /\ Resting(t) /\ pTab \in [PTabs -> TabsOf(pCount.typed)]
  BY PageFacts
<1>1. CASE PadStream(c)
  <2> DEFINE w == <<pDoc>>
             u == [t EXCEPT !.es = "open", !.wire = w]
  <2>1. pTab' = [pTab EXCEPT ![c] = u] /\ pDoc' = pDoc
    BY <1>0, <1>1 DEF PadStream
  <2> HIDE DEF t
  <2>2. DOMAIN w = {1} /\ w[1] = pDoc
    OBVIOUS
  <2> HIDE DEF w
  <2>3. /\ u.wire = w /\ u.held = t.held /\ u.base = t.base /\ u.baseText = t.baseText
        /\ u.ta = t.ta /\ u.timer = t.timer /\ u.saving = t.saving
        /\ u.told = t.told /\ u.raced = t.raced /\ u.save = t.save
        /\ u.reply = t.reply /\ u.opening = t.opening
    BY <1>0 DEF TabsOf
  <2> HIDE DEF u
  <2>4. Reached(u, pDoc.version)
    BY <2>2, <2>3 DEF Reached
  <2>5. Ordered(u)
    <3>1. \A i, j \in DOMAIN u.wire : i <= j => u.wire[i].version <= u.wire[j].version
      BY <1>0, <2>2, <2>3
    <3>2. u.held # NoDoc => \A i \in DOMAIN u.wire : u.held.version <= u.wire[i].version
      BY <1>0, <2>2, <2>3 DEF Good, Informed, Known
    <3>3. \A i \in DOMAIN u.opening : \A j \in DOMAIN u.wire : u.opening[i].doc.version <= u.wire[j].version
      BY <1>0, <2>2, <2>3 DEF Good, Informed, Known
    <3> QED
      BY <1>0, <2>3, <3>1, <3>2, <3>3 DEF Ordered
  <2>6. Resting(u)
    BY <1>0, <2>3 DEF Resting, Busy
  <2> QED
    BY <2>1, <2>4, <2>5, <2>6, OnePageUp DEF Abreast
<1>2. CASE PadStreamBreaks(c)
  <2> DEFINE u == [t EXCEPT !.es = "connecting", !.wire = <<>>]
  <2>1. pTab' = [pTab EXCEPT ![c] = u] /\ pDoc' = pDoc
    BY <1>0, <1>2 DEF PadStreamBreaks
  <2> HIDE DEF t
  <2>2. /\ u.es = "connecting" /\ u.wire = <<>> /\ u.held = t.held /\ u.base = t.base
        /\ u.baseText = t.baseText /\ u.ta = t.ta /\ u.timer = t.timer /\ u.saving = t.saving
        /\ u.told = t.told /\ u.raced = t.raced
        /\ u.save = t.save /\ u.reply = t.reply /\ u.opening = t.opening
    BY <1>0 DEF TabsOf
  <2> HIDE DEF u
  <2>3. Ordered(u) /\ Resting(u)
    BY <1>0, <2>2 DEF Ordered, Resting, Busy
  <2> QED
    BY <2>1, <2>2, <2>3, OnePageUp DEF Abreast
<1> QED
  BY <1>1, <1>2

LEMMA ArrivesUp ==
    ASSUME PInv, KeepsUp, NEW c \in PTabs, ~pTab[c].raced, DocArrives(c)
    PROVE  KeepsUp'
<1> DEFINE p == pTab[c]
           n == pCount.typed
           wire == p.wire
           d == Head(wire)
           tail == Tail(wire)
           t == [p EXCEPT !.wire = tail]
<1>0. /\ p \in TabsOf(n) /\ Good(p, n, pDoc, pLost) /\ pDoc.version \in Nat /\ pDoc \in DocsOf(n)
      /\ (p.es = "open" => Reached(p, pDoc.version)) /\ Ordered(p) /\ Resting(p)
      /\ pTab \in [PTabs -> TabsOf(n)] /\ n \in Nat /\ ~p.raced
  BY PageFacts
<1>1. pTab' = [pTab EXCEPT ![c] = HandleDoc(t, d)] /\ pDoc' = pDoc /\ wire # <<>>
  BY <1>0 DEF DocArrives
<1> HIDE DEF p, n
<1>2. wire \in Seq(DocsOf(n)) /\ \A i \in DOMAIN wire : Known(wire[i], pDoc)
  BY <1>0 DEF TabsOf, Good, Informed
<1>3. /\ d \in DocsOf(n) /\ tail \in Seq(DocsOf(n)) /\ 1 \in DOMAIN wire /\ d = wire[1]
      /\ \A i \in DOMAIN tail : i + 1 \in DOMAIN wire /\ tail[i] = wire[i + 1] /\ i \in Nat \ {0}
      /\ \A i \in DOMAIN wire : i = 1 \/ (i - 1 \in DOMAIN tail /\ tail[i - 1] = wire[i])
  <2> HIDE DEF wire
  <2>1. 1 \in DOMAIN wire /\ d = wire[1]
    BY <1>1, <1>2
  <2>2. tail \in Seq(DocsOf(n)) /\ Len(tail) = Len(wire) - 1 /\ Len(wire) \in Nat \ {0}
    BY <1>1, <1>2
  <2>3. \A i \in DOMAIN tail : i + 1 \in DOMAIN wire /\ tail[i] = wire[i + 1] /\ i \in Nat \ {0}
    BY <1>1, <1>2
  <2>4. \A i \in DOMAIN wire : i = 1 \/ (i - 1 \in DOMAIN tail /\ tail[i - 1] = wire[i])
    BY <1>1, <1>2, <2>2
  <2> QED
    BY <1>2, <2>1, <2>2, <2>3, <2>4
<1> HIDE DEF d, tail
<1>4. /\ t \in TabsOf(n) /\ t.wire = tail /\ t.es = p.es /\ t.held = p.held /\ t.base = p.base
      /\ t.baseText = p.baseText /\ t.ta = p.ta /\ t.timer = p.timer /\ t.saving = p.saving
      /\ t.told = p.told /\ t.raced = p.raced
      /\ t.save = p.save /\ t.text = p.text /\ t.v = p.v /\ t.ok = p.ok /\ t.reply = p.reply
      /\ t.opening = p.opening
  BY <1>0, <1>3 DEF TabsOf
<1> HIDE DEF t
<1>5. Known(d, pDoc) /\ \A i \in DOMAIN tail : Known(tail[i], pDoc)
  BY <1>2, <1>3
<1>6. Good(t, n, pDoc, pLost)
  BY <1>0, <1>4, <1>5 DEF Good, Informed, Faithful
<1>7. \A i, j \in DOMAIN tail : i <= j => tail[i].version <= tail[j].version
  <2> SUFFICES ASSUME NEW i \in DOMAIN tail, NEW j \in DOMAIN tail, i <= j
               PROVE  tail[i].version <= tail[j].version
    OBVIOUS
  <2>1. i + 1 <= j + 1 /\ i + 1 \in DOMAIN wire /\ j + 1 \in DOMAIN wire
    BY <1>3
  <2>2. wire[i + 1].version <= wire[j + 1].version
    BY <1>0, <2>1 DEF Ordered
  <2> QED
    BY <1>3, <2>2
<1>8. \A j \in DOMAIN tail : d.version <= tail[j].version
  <2> SUFFICES ASSUME NEW j \in DOMAIN tail PROVE d.version <= tail[j].version
    OBVIOUS
  <2>1. 1 <= j + 1 /\ j + 1 \in DOMAIN wire
    BY <1>3
  <2>2. wire[1].version <= wire[j + 1].version
    BY <1>0, <1>3, <2>1 DEF Ordered
  <2> QED
    BY <1>3, <2>2
<1>9. /\ p.held # NoDoc => \A i \in DOMAIN tail : p.held.version <= tail[i].version
      /\ \A i \in DOMAIN p.opening : p.opening[i].for = "doc" =>
             \A j \in DOMAIN tail : p.opening[i].doc.version <= tail[j].version
  BY <1>0, <1>3 DEF Ordered
<1>10. Ordered(t)
  BY <1>0, <1>4, <1>7, <1>9 DEF Ordered
<1>11. Resting(t)
  BY <1>0, <1>4 DEF Resting, Busy
<1>12. t.es = "open" => Reached(t, pDoc.version) \/ d.version = pDoc.version
  <2>1. ASSUME NEW i \in DOMAIN wire, wire[i].version = pDoc.version
        PROVE  d.version = pDoc.version \/ \E j \in DOMAIN tail : tail[j].version = pDoc.version
    BY <1>3, <2>1
  <2> QED
    BY <1>0, <1>4, <2>1 DEF Reached
<1>13. /\ t.held # NoDoc => t.held.version <= d.version
       /\ \A i \in DOMAIN t.opening : t.opening[i].for = "doc" => t.opening[i].doc.version <= d.version
  BY <1>0, <1>3, <1>4 DEF Ordered
<1>14. Abreast(HandleDoc(t, d), pDoc)
  <2>1. ~t.raced
    BY <1>0, <1>4
  <2> QED
    BY <2>1, <1>0, <1>3, <1>4, <1>5, <1>6, <1>8, <1>10, <1>11, <1>12, <1>13, HandleDocAbreast
<1> QED
  BY <1>1, <1>14, OnePageUp

\* Typing, sealing and failures move no document.
LEMMA EditUp ==
    ASSUME PInv, KeepsUp, NEW c \in PTabs, ~pTab[c].raced,
           Type(c) \/ Sealed(c) \/ SealFails(c) \/ SaveRefused(c) \/ SaveThrows(c)
    PROVE  KeepsUp'
<1> DEFINE t == pTab[c]
           idle == [t EXCEPT !.save = "none", !.saving = FALSE]
<1>0. /\ t \in TabsOf(pCount.typed) /\ (t.es = "open" => Reached(t, pDoc.version))
      /\ Ordered(t) /\ Resting(t) /\ pTab \in [PTabs -> TabsOf(pCount.typed)]
      /\ (t.save # "none" => t.ta # t.baseText)
  BY PageFacts DEF Good, Informed, Faithful
<1>1. PICK u : /\ pTab' = [pTab EXCEPT ![c] = u] /\ pDoc' = pDoc
               /\ \/ u = SetTimer([t EXCEPT !.ta = @ \cup {pCount'.typed}, !.told = FALSE])
                  \/ u = [t EXCEPT !.save = "sent", !.v = t.base]
                  \/ t.save = "sealing" /\ u = [t EXCEPT !.save = "none", !.saving = FALSE, !.told = TRUE]
                  \/ u = SetAgain(idle)
                  \/ u = [t EXCEPT !.save = "none"]
  BY <1>0 DEF Type, Sealed, SealFails, SaveRefused, SaveThrows, TryLater
<1> HIDE DEF t
<1>2. /\ u.es = t.es /\ u.wire = t.wire /\ u.held = t.held /\ u.base = t.base
      /\ u.baseText = t.baseText /\ u.reply = t.reply /\ u.opening = t.opening
      /\ u.save # "answered" \/ u.save = t.save
      /\ \/ u.timer = TRUE \/ (u.told = TRUE /\ u.ta # u.baseText)
         \/ u.timer = t.timer /\ u.saving = t.saving /\ u.told = t.told /\ u.ta = t.ta
  <2>1. CASE u = SetTimer([t EXCEPT !.ta = @ \cup {pCount'.typed}, !.told = FALSE])
    BY <1>0, <2>1 DEF SetTimer, TabsOf
  <2>2. CASE u = [t EXCEPT !.save = "sent", !.v = t.base]
    BY <1>0, <2>2 DEF TabsOf
  <2>3. CASE t.save = "sealing" /\ u = [t EXCEPT !.save = "none", !.saving = FALSE, !.told = TRUE]
    BY <1>0, <2>3 DEF TabsOf
  <2>4. CASE u = SetAgain(idle)
    BY <1>0, <2>4 DEF SetAgain, SetTimer, TabsOf
  <2>5. CASE u = [t EXCEPT !.save = "none"]
    BY <1>0, <2>5 DEF TabsOf
  <2> QED
    BY <1>1, <2>1, <2>2, <2>3, <2>4, <2>5
<1>3. u.es = "open" => Reached(u, pDoc.version)
  BY <1>0, <1>2 DEF Reached
<1>4. Ordered(u)
  BY <1>0, <1>2 DEF Ordered
<1>5. Resting(u)
  BY <1>0, <1>2 DEF Resting, Busy
<1> QED
  BY <1>1, <1>3, <1>4, <1>5, OnePageUp DEF Abreast

LEMMA TimerUp ==
    ASSUME PInv, KeepsUp, NEW c \in PTabs, ~pTab[c].raced, TimerFires(c) \/ StrayFires(c)
    PROVE  KeepsUp'
<1> DEFINE p == pTab[c]
           n == pCount.typed
           t1 == [p EXCEPT !.timer = FALSE]
           t2 == [p EXCEPT !.strays = @ - 1]
<1>0. /\ p \in TabsOf(n) /\ Good(p, n, pDoc, pLost) /\ pDoc.version \in Nat /\ n \in Nat
      /\ (p.es = "open" => Reached(p, pDoc.version)) /\ Ordered(p)
  BY PageFacts
<1>1. PICK t : /\ t = t1 \/ (p.strays > 0 /\ t = t2)
               /\ pTab' = [pTab EXCEPT ![c] = StartSave(t)] /\ pDoc' = pDoc
  <2>1. CASE TimerFires(c)
    BY <2>1 DEF TimerFires
  <2>2. CASE StrayFires(c)
    BY <2>2 DEF StrayFires
  <2> QED
    BY <2>1, <2>2
<1>2. ~p.raced
  OBVIOUS
<1> HIDE DEF p, n
<1>3. /\ t \in TabsOf(n) /\ t.es = p.es /\ t.held = p.held /\ t.wire = p.wire /\ t.base = p.base
      /\ t.baseText = p.baseText /\ t.ta = p.ta /\ t.saving = p.saving /\ t.told = p.told
      /\ t.raced = p.raced /\ t.save = p.save
      /\ t.text = p.text /\ t.v = p.v /\ t.ok = p.ok /\ t.reply = p.reply /\ t.opening = p.opening
  <2>1. CASE t = t1
    BY <1>0, <2>1 DEF TabsOf
  <2>2. CASE p.strays > 0 /\ t = t2
    <3>1. p.strays - 1 \in Nat
      BY <1>0, <2>2 DEF TabsOf
    <3>2. PICK k \in Nat : t = [p EXCEPT !.strays = k]
      BY <2>2, <3>1
    <3> QED
      BY <1>0, <3>2 DEF TabsOf
  <2> QED
    BY <1>1, <2>1, <2>2
<1> HIDE DEF t1, t2
<1>4. Good(t, n, pDoc, pLost)
  BY <1>0, <1>3 DEF Good, Informed, Faithful
<1>5. (t.es = "open" => Reached(t, pDoc.version)) /\ Ordered(t)
  BY <1>0, <1>3 DEF Reached, Ordered
<1>6. StartSave(t).raced \/ Abreast(StartSave(t), pDoc)
  BY <1>0, <1>2, <1>3, <1>4, <1>5, StartSaveAbreast
<1> QED
  BY <1>1, <1>6, OnePageUp

\* A page that listens hears of a newer document.
LEMMA HeardUp ==
    ASSUME NEW n, NEW t, NEW doc, NEW lost, NEW newer \in DocsOf(n), Good(t, n, doc, lost),
           Abreast(t, doc), doc.version \in Nat, newer.version = doc.version + 1,
           NEW h, h = IF t.es = "open" THEN [t EXCEPT !.wire = Append(@, newer)] ELSE t
    PROVE  Abreast(h, newer) /\ h \in TabsOf(n) /\ h.base = t.base /\ h.saving = t.saving
<1>0. t \in TabsOf(n) /\ Ordered(t) /\ Resting(t)
  BY DEF Good, Abreast
<1>1. CASE t.es = "open"
  <2> DEFINE wire == Append(t.wire, newer)
  <2>1. t.wire \in Seq(DocsOf(n))
    BY <1>0, TypedParts
  <2>2. PICK N \in Nat : N = Len(t.wire) /\ DOMAIN t.wire = 1..N
    BY <2>1
  <2>3. /\ wire \in Seq(DocsOf(n)) /\ DOMAIN wire = 1..(N + 1) /\ wire[N + 1] = newer
        /\ \A i \in 1..N : wire[i] = t.wire[i]
    BY <2>1, <2>2
  <2>4. h = [t EXCEPT !.wire = wire]
    BY <1>1
  <2> HIDE DEF wire
  <2>5. /\ h \in TabsOf(n) /\ h.wire = wire /\ h.held = t.held /\ h.base = t.base
        /\ h.baseText = t.baseText /\ h.ta = t.ta /\ h.timer = t.timer /\ h.saving = t.saving
        /\ h.told = t.told /\ h.raced = t.raced
        /\ h.save = t.save /\ h.reply = t.reply /\ h.opening = t.opening
    BY <1>0, <2>3, <2>4 DEF TabsOf
  <2>6. \A i \in 1..(N + 1) : i \in 1..N \/ i = N + 1
    OBVIOUS
  <2>7. /\ \A i \in 1..N : t.wire[i].version <= newer.version
        /\ t.held # NoDoc => t.held.version <= newer.version
        /\ \A i \in DOMAIN t.opening : t.opening[i].doc.version <= newer.version
    <3>1. /\ \A i \in 1..N : t.wire[i].version \in Nat /\ t.wire[i].version <= doc.version
          /\ t.held.version \in Nat /\ (t.held # NoDoc => t.held.version <= doc.version)
          /\ \A i \in DOMAIN t.opening :
                 t.opening[i].doc.version \in Nat /\ t.opening[i].doc.version <= doc.version
      BY <1>0, <2>2, TypedParts DEF Good, Informed, Known
    <3> QED
      BY <3>1
  <2>8. Ordered(h)
    <3>1. \A i, j \in DOMAIN h.wire : i <= j => h.wire[i].version <= h.wire[j].version
      <4> SUFFICES ASSUME NEW i \in 1..(N + 1), NEW j \in 1..(N + 1), i <= j
                   PROVE  wire[i].version <= wire[j].version
        BY <2>3, <2>5
      <4>1. CASE i \in 1..N /\ j \in 1..N
        BY <1>0, <2>2, <2>3, <4>1 DEF Ordered
      <4>2. CASE i \in 1..N /\ j = N + 1
        BY <2>3, <2>7, <4>2
      <4>3. CASE i = N + 1 /\ j = N + 1
        BY <2>3, <4>3
      <4> QED
        BY <2>6, <4>1, <4>2, <4>3
    <3>2. h.held # NoDoc => \A i \in DOMAIN h.wire : h.held.version <= h.wire[i].version
      <4> SUFFICES ASSUME t.held # NoDoc, NEW i \in 1..(N + 1)
                   PROVE  t.held.version <= wire[i].version
        BY <2>3, <2>5
      <4> QED
        BY <1>0, <2>2, <2>3, <2>6, <2>7 DEF Ordered
    <3>3. \A i \in DOMAIN h.opening : h.opening[i].for = "doc" =>
              \A j \in DOMAIN h.wire : h.opening[i].doc.version <= h.wire[j].version
      <4> SUFFICES ASSUME NEW i \in DOMAIN t.opening, t.opening[i].for = "doc", NEW j \in 1..(N + 1)
                   PROVE  t.opening[i].doc.version <= wire[j].version
        BY <2>3, <2>5
      <4> QED
        BY <1>0, <2>2, <2>3, <2>6, <2>7 DEF Ordered
    <3> QED
      BY <1>0, <2>5, <3>1, <3>2, <3>3 DEF Ordered
  <2>9. Resting(h)
    BY <1>0, <2>5 DEF Resting, Busy
  <2>10. Reached(h, newer.version)
    <3>1. N + 1 \in DOMAIN h.wire /\ h.wire[N + 1].version = newer.version
      BY <2>3, <2>5
    <3> QED
      BY <3>1 DEF Reached
  <2> QED
    BY <2>5, <2>8, <2>9, <2>10 DEF Abreast
<1>2. CASE t.es # "open"
  BY <1>0, <1>2 DEF Abreast
<1> QED
  BY <1>1, <1>2

\* Everyone who listens hears of the new version; who is refused gets a newer document.
LEMMA ApiSaveUp ==
    ASSUME PInv, KeepsUp, NEW c \in PTabs, ApiSave(c)
    PROVE  KeepsUp'
<1> DEFINE t == pTab[c]
           n == pCount.typed
<1>0. /\ t \in TabsOf(n) /\ Good(t, n, pDoc, pLost) /\ pDoc.version \in Nat /\ n \in Nat
      /\ pTab \in [PTabs -> TabsOf(n)]
  BY DEF PInv, DocsOf
<1>1. /\ t.save = "sent" /\ t.saving /\ t.base <= pDoc.version /\ t.base \in Nat
      /\ ~t.raced => t.v = t.base
      /\ t.raced \/ Abreast(t, pDoc)
  BY <1>0 DEF ApiSave, Good, Faithful, Informed, Known, TabsOf, KeepsUp
<1>2. CASE ~SameBase(t.v)
  <2> DEFINE u == [t EXCEPT !.save = "answered", !.ok = FALSE, !.reply = pDoc]
  <2>1. pTab' = [pTab EXCEPT ![c] = u] /\ pDoc' = pDoc
    BY <1>0, <1>2 DEF ApiSave
  <2> HIDE DEF t
  <2>2. /\ u.es = t.es /\ u.wire = t.wire /\ u.held = t.held /\ u.base = t.base
        /\ u.baseText = t.baseText /\ u.ta = t.ta /\ u.timer = t.timer
        /\ u.saving = t.saving /\ u.told = t.told /\ u.raced = t.raced
        /\ u.reply = pDoc /\ u.opening = t.opening
    BY <1>0 DEF TabsOf
  <2> HIDE DEF u
  <2>3. CASE t.raced
    <3>1. u.raced
      BY <2>2, <2>3
    <3> QED
      BY <2>1, <3>1, OnePageUp
  <2>4. CASE ~t.raced
    <3>1. t.base < pDoc.version
      BY <1>0, <1>1, <1>2, <2>4 DEF SameBase
    <3>2. Ordered(t) /\ Resting(t) /\ (t.es = "open" => Reached(t, pDoc.version))
      BY <1>1, <2>4 DEF Abreast
    <3>3. Ordered(u)
      BY <2>2, <3>1, <3>2 DEF Ordered
    <3>4. Resting(u) /\ (u.es = "open" => Reached(u, pDoc.version))
      BY <2>2, <3>2 DEF Resting, Busy, Reached
    <3> QED
      BY <2>1, <3>3, <3>4, OnePageUp DEF Abreast
  <2> QED
    BY <2>3, <2>4
<1>3. CASE SameBase(t.v)
  <2> DEFINE newer == [version |-> pDoc.version + 1, text |-> t.text]
             heard(d) == IF pTab[d].es = "open" THEN [pTab[d] EXCEPT !.wire = Append(@, newer)]
                         ELSE pTab[d]
             u == [heard(c) EXCEPT !.save = "answered", !.ok = TRUE, !.reply = newer]
  <2>1. pDoc' = newer /\ pTab' = [d \in PTabs |-> IF d = c THEN u ELSE heard(d)]
    BY <1>3 DEF ApiSave
  <2>2. newer \in DocsOf(n) /\ newer.version = pDoc.version + 1
    BY <1>0 DEF DocsOf, TabsOf
  <2>3. t.base < newer.version
    BY <1>0, <1>1, <2>2
  <2> HIDE DEF newer
  <2>4. ASSUME NEW d \in PTabs, pTab[d].raced PROVE heard(d).raced
    BY <1>0, <2>4 DEF TabsOf
  <2>5. ASSUME NEW d \in PTabs, ~pTab[d].raced
        PROVE  /\ Abreast(heard(d), newer) /\ heard(d) \in TabsOf(n)
               /\ heard(d).base = pTab[d].base /\ heard(d).saving = pTab[d].saving
    <3>1. Good(pTab[d], n, pDoc, pLost) /\ Abreast(pTab[d], pDoc)
      BY <2>5 DEF PInv, KeepsUp
    <3>2. PICK h : h = heard(d)
      OBVIOUS
    <3> QED
      BY <1>0, <2>2, <2>5, <3>1, <3>2, HeardUp
  <2>6. u.raced \/ Abreast(u, newer)
    <3>1. CASE t.raced
      BY <1>0, <3>1 DEF TabsOf
    <3>2. CASE ~t.raced
      <4>1. PICK h : h = heard(c)
        OBVIOUS
      <4>2. /\ Abreast(h, newer) /\ h \in TabsOf(n) /\ h.base = t.base /\ h.saving
            /\ u = [h EXCEPT !.save = "answered", !.ok = TRUE, !.reply = newer]
        BY <1>1, <2>5, <3>2, <4>1
      <4> HIDE DEF t, u, heard
      <4>3. /\ u.es = h.es /\ u.wire = h.wire /\ u.held = h.held /\ u.base = h.base
            /\ u.baseText = h.baseText /\ u.ta = h.ta /\ u.timer = h.timer
            /\ u.saving = h.saving /\ u.told = h.told
            /\ u.reply = newer /\ u.opening = h.opening
        BY <4>2 DEF TabsOf
      <4>4. Ordered(u)
        BY <2>3, <4>2, <4>3 DEF Abreast, Ordered
      <4>5. Resting(u) /\ (u.es = "open" => Reached(u, newer.version))
        BY <4>2, <4>3 DEF Abreast, Resting, Busy, Reached
      <4> QED
        BY <4>4, <4>5 DEF Abreast
    <3> QED
      BY <3>1, <3>2
  <2>7. \A d \in PTabs : heard(d).raced \/ Abreast(heard(d), newer)
    BY <2>4, <2>5
  <2> HIDE DEF u, heard
  <2>8. \A d \in PTabs : pTab'[d].raced \/ Abreast(pTab'[d], newer)
    BY <2>1, <2>6, <2>7
  <2> QED
    BY <2>1, <2>8 DEF KeepsUp
<1> QED
  BY <1>2, <1>3

LEMMA AnsweredUp ==
    ASSUME PInv, KeepsUp, NEW c \in PTabs, ~pTab[c].raced, SaveAnswered(c)
    PROVE  KeepsUp'
<1> DEFINE n == pCount.typed
           p == pTab[c]
           t == [p EXCEPT !.save = "none", !.saving = FALSE]
           agreed == [t EXCEPT !.base = t.reply.version, !.baseText = t.text]
           again == SetAgain(agreed)
           task == [for |-> "rebase", doc |-> t.reply]
           opens == [t EXCEPT !.opening = Append(@, task)]
<1>0. /\ n \in Nat /\ p \in TabsOf(n) /\ Good(p, n, pDoc, pLost) /\ p.save = "answered"
      /\ (p.es = "open" => Reached(p, pDoc.version)) /\ Ordered(p) /\ Resting(p)
      /\ pDoc.version \in Nat /\ ~p.raced
  BY PageFacts DEF SaveAnswered
<1>1. /\ pDoc' = pDoc
      /\ pTab' = [pTab EXCEPT ![c] = IF ~t.ok THEN opens ELSE IF t.ta # t.text THEN again ELSE ApplyHeld(agreed)]
  BY <1>0, PageFacts DEF SaveAnswered
<1> HIDE DEF n, p
<1>2. /\ t \in TabsOf(n) /\ t.es = p.es /\ t.held = p.held /\ t.wire = p.wire
      /\ t.base = p.base /\ t.baseText = p.baseText /\ t.ta = p.ta /\ t.timer = p.timer
      /\ t.saving = FALSE /\ t.told = p.told /\ t.raced = p.raced
      /\ t.save = "none" /\ t.text = p.text
      /\ t.v = p.v /\ t.ok = p.ok /\ t.reply = p.reply /\ t.opening = p.opening
  BY <1>0 DEF TabsOf
<1> HIDE DEF t
<1>3. /\ t.opening = <<>> /\ (t.ok => t.reply.text = t.text) /\ t.text \subseteq t.ta
      /\ t.base < t.reply.version /\ t.reply.version <= pDoc.version
      /\ t.base \in Nat /\ t.reply.version \in Nat
  <2>1. t.base < t.reply.version /\ t.reply.version <= pDoc.version
    BY <1>0, <1>2 DEF Ordered, Good, Informed, Known
  <2> QED
    BY <1>0, <1>2, <2>1, TypedParts DEF Good, Informed, Faithful
<1>4. t.reply \in DocsOf(n) /\ t.text \in SUBSET (1..n)
  BY <1>2 DEF TabsOf
<1>5. (t.es = "open" => Reached(t, pDoc.version)) /\ Ordered(t)
  BY <1>0, <1>2 DEF Reached, Ordered
<1>6. Abreast(opens, pDoc)
  <2>1. Append(t.opening, task) = <<task>> /\ DOMAIN <<task>> = {1} /\ <<task>>[1] = task
    BY <1>3
  <2>2. task.doc = t.reply /\ task.for = "rebase"
    OBVIOUS
  <2> HIDE DEF task
  <2> DEFINE one == <<task>>
  <2>3. DOMAIN one = {1} /\ one[1] = task /\ opens = [t EXCEPT !.opening = one]
    BY <2>1
  <2> HIDE DEF one, opens
  <2>4. /\ opens.es = t.es /\ opens.held = t.held /\ opens.wire = t.wire
        /\ opens.base = t.base /\ opens.save = "none" /\ opens.reply = t.reply
        /\ opens.opening = one
    BY <1>2, <2>3 DEF TabsOf
  <2>5. Ordered(opens)
    BY <1>3, <1>5, <2>2, <2>3, <2>4 DEF Ordered
  <2>6. Busy(opens)
    BY <2>2, <2>3, <2>4 DEF Busy
  <2>7. opens.es = "open" => Reached(opens, pDoc.version)
    BY <1>3, <1>5, <2>4 DEF Reached
  <2> QED
    BY <2>5, <2>6, <2>7 DEF Abreast, Resting
<1>7. /\ agreed \in TabsOf(n) /\ agreed.es = t.es /\ agreed.held = t.held /\ agreed.wire = t.wire
      /\ agreed.base = t.reply.version /\ agreed.baseText = t.text /\ agreed.ta = t.ta
      /\ agreed.saving = FALSE /\ agreed.told = t.told /\ agreed.raced = t.raced
      /\ agreed.save = "none" /\ agreed.text = t.text
      /\ agreed.v = t.v /\ agreed.ok = t.ok /\ agreed.reply = t.reply /\ agreed.opening = t.opening
  BY <1>2, <1>3, <1>4 DEF TabsOf
<1> HIDE DEF agreed, task, opens
<1>8. Ordered(agreed)
  BY <1>3, <1>5, <1>7 DEF Ordered
<1>9. agreed.es = "open" => Reached(agreed, pDoc.version)
  BY <1>3, <1>5, <1>7 DEF Reached
<1>10. Abreast(again, pDoc)
  <2>1. /\ again.es = agreed.es /\ again.held = agreed.held /\ again.wire = agreed.wire
        /\ again.base = agreed.base /\ again.timer = TRUE /\ again.save = agreed.save
        /\ again.reply = agreed.reply /\ again.opening = agreed.opening
    BY <1>7 DEF SetAgain, SetTimer, TabsOf
  <2> HIDE DEF again
  <2>2. Ordered(again) /\ Resting(again)
    BY <1>8, <2>1 DEF Ordered, Resting, Busy
  <2>3. again.es = "open" => Reached(again, pDoc.version)
    BY <1>9, <2>1 DEF Reached
  <2> QED
    BY <2>2, <2>3 DEF Abreast
<1>11. ASSUME t.ok, t.ta = t.text PROVE Abreast(ApplyHeld(agreed), pDoc)
  <2>1. Informed(agreed, pDoc)
    BY <1>0, <1>2, <1>3, <1>7, <1>11 DEF Good, Informed, Known
  <2>2. ~t.told /\ ~agreed.raced
    BY <1>0, <1>2, <1>7 DEF Good, Informed, Faithful
  <2>2a. Faithful(agreed, pLost)
    BY <1>3, <1>7, <2>2 DEF Faithful
  <2>3. Good(agreed, n, pDoc, pLost) /\ agreed.ta = agreed.baseText /\ agreed.opening = <<>>
    BY <1>3, <1>7, <1>11, <2>1, <2>2a DEF Good
  <2> QED
    BY <1>0, <1>8, <1>9, <2>2, <2>3, ApplyHeldAbreast
<1>12. Abreast(IF ~t.ok THEN opens ELSE IF t.ta # t.text THEN again ELSE ApplyHeld(agreed), pDoc)
  BY <1>6, <1>10, <1>11
<1> HIDE DEF again
<1> QED
  BY <1>1, <1>12, OnePageUp

LEMMA OpenedUp ==
    ASSUME PInv, KeepsUp, NEW c \in PTabs, ~pTab[c].raced, DocOpened(c)
    PROVE  KeepsUp'
<1> DEFINE n == pCount.typed
           t == pTab[c]
           opening == t.opening
           task == Head(opening)
           doc == task.doc
           tail == Tail(opening)
<1>0. /\ n \in Nat /\ t \in TabsOf(n) /\ Good(t, n, pDoc, pLost) /\ opening # <<>>
      /\ (t.es = "open" => Reached(t, pDoc.version)) /\ Ordered(t) /\ Resting(t)
      /\ pDoc.version \in Nat /\ pDoc' = pDoc /\ ~t.raced
  BY PageFacts DEF DocOpened
<1>1. IF task.for = "doc" THEN ShowDoc(c, doc) ELSE Rebase(c, doc)
  BY DEF DocOpened
<1>2. opening \in Seq(TasksOf(n))
  BY <1>0 DEF TabsOf
<1>3. /\ 1 \in DOMAIN opening /\ task = opening[1] /\ task \in TasksOf(n) /\ tail \in Seq(TasksOf(n))
      /\ \A i \in DOMAIN tail : i + 1 \in DOMAIN opening /\ tail[i] = opening[i + 1] /\ i \in Nat \ {0}
      /\ \A i \in DOMAIN opening : i = 1 \/ (i - 1 \in DOMAIN tail /\ tail[i - 1] = opening[i])
      /\ Len(opening) = 1 => tail = <<>> /\ \A i \in DOMAIN opening : i = 1
  <2> HIDE DEF opening
  <2>1. opening \in Seq(TasksOf(n)) /\ opening # <<>> /\ task = Head(opening) /\ tail = Tail(opening)
    BY <1>0, <1>2
  <2> HIDE DEF task, tail
  <2>2. 1 \in DOMAIN opening /\ task = opening[1] /\ tail \in Seq(TasksOf(n))
    BY <2>1
  <2>3. \A i \in DOMAIN tail : i + 1 \in DOMAIN opening /\ tail[i] = opening[i + 1] /\ i \in Nat \ {0}
    BY <2>1
  <2>4. Len(opening) = 1 => tail = <<>> /\ \A i \in DOMAIN opening : i = 1
    BY <2>1
  <2>5. task \in TasksOf(n)
    BY <2>1, <2>2
  <2>6. \A i \in DOMAIN opening : i = 1 \/ (i - 1 \in DOMAIN tail /\ tail[i - 1] = opening[i])
    BY <2>1, <2>2
  <2> QED
    BY <2>2, <2>3, <2>4, <2>5, <2>6
<1>4. /\ doc \in DocsOf(n) /\ doc.version \in Nat /\ doc.text \in SUBSET (1..n) /\ Known(doc, pDoc)
      /\ doc.version <= pDoc.version /\ t.base <= doc.version /\ t.base \in Nat
  <2>1. doc \in DocsOf(n) /\ Known(doc, pDoc) /\ t.base <= doc.version /\ t.base \in Nat
    BY <1>0, <1>3 DEF TasksOf, Good, Informed, Ordered, TabsOf
  <2> QED
    BY <2>1 DEF DocsOf, Known
<1>5. ~t.saving /\ ~t.told /\ t.save = "none" /\ t.timer \in BOOLEAN
  BY <1>0 DEF Good, Informed, Faithful, TabsOf
<1>6. ASSUME NEW i \in DOMAIN opening, opening[i].for = "rebase" PROVE Len(opening) = 1
  BY <1>0, <1>6 DEF Good, Faithful
<1>7. /\ \A i, j \in DOMAIN opening : i <= j => opening[i].doc.version <= opening[j].doc.version
      /\ \A i \in DOMAIN opening : opening[i].for = "doc" =>
             \A j \in DOMAIN t.wire : opening[i].doc.version <= t.wire[j].version
  BY <1>0 DEF Ordered
\* What the page shows next has reached all that it had reached.
<1>8. ASSUME NEW u, u.base = doc.version, u.held = t.held, u.wire = t.wire, u.opening = tail, u.es = t.es
      PROVE  u.es = "open" => Reached(u, pDoc.version)
  <2>1. ASSUME NEW i \in DOMAIN opening, opening[i].doc.version = pDoc.version
        PROVE  doc.version = pDoc.version \/ \E j \in DOMAIN tail : tail[j].doc.version = pDoc.version
    BY <1>3, <2>1
  <2>2. t.base = pDoc.version => doc.version = pDoc.version
    BY <1>0, <1>4
  <2> QED
    BY <1>0, <1>8, <2>1, <2>2 DEF Reached
<1> DEFINE wait == IF t.wait = 0 THEN 0 ELSE t.wait - 1
           shut == [t EXCEPT !.opening = tail, !.wait = wait]
<1>8a. wait \in Nat /\ Decrypted(t) = shut
  BY <1>0 DEF Decrypted, TabsOf
<1> HIDE DEF t, task, tail, opening, doc, n, wait
<1>8b. /\ shut \in TabsOf(n) /\ shut.es = t.es /\ shut.held = t.held /\ shut.wire = t.wire
       /\ shut.base = t.base /\ shut.baseText = t.baseText /\ shut.ta = t.ta
       /\ shut.timer = t.timer /\ shut.saving = t.saving /\ shut.told = t.told
       /\ shut.raced = t.raced /\ shut.save = t.save /\ shut.text = t.text
       /\ shut.v = t.v /\ shut.ok = t.ok /\ shut.reply = t.reply /\ shut.opening = tail
  BY <1>0, <1>3, <1>8a DEF TabsOf
<1> HIDE DEF shut
<1>9. CASE task.for = "doc"
  <2> DEFINE u == [shut EXCEPT !.base = doc.version, !.baseText = doc.text, !.ta = doc.text,
                               !.told = FALSE]
  <2>1. pTab' = [pTab EXCEPT ![c] = u]
    BY <1>1, <1>8a, <1>9 DEF ShowDoc, t
  <2>2. /\ u.es = t.es /\ u.held = t.held /\ u.wire = t.wire /\ u.timer = t.timer
        /\ u.base = doc.version /\ u.baseText = doc.text /\ u.ta = doc.text
        /\ u.saving = t.saving /\ u.told = FALSE
        /\ u.save = t.save /\ u.reply = t.reply /\ u.opening = tail
    BY <1>8b DEF TabsOf
  <2> HIDE DEF u
  <2>3. \A i \in DOMAIN opening : opening[i].for # "rebase"
    BY <1>3, <1>6, <1>9
  <2>4. Ordered(u)
    <3>1. ASSUME NEW i \in DOMAIN tail, NEW j \in DOMAIN tail, i <= j
          PROVE  tail[i].doc.version <= tail[j].doc.version
      <4>1. i + 1 <= j + 1 /\ i + 1 \in DOMAIN opening /\ j + 1 \in DOMAIN opening
        BY <1>3, <3>1
      <4>2. opening[i + 1].doc.version <= opening[j + 1].doc.version
        BY <1>7, <4>1
      <4> QED
        BY <1>3, <4>2
    <3>2. ASSUME NEW i \in DOMAIN tail PROVE doc.version <= tail[i].doc.version
      <4>1. 1 <= i + 1 /\ i + 1 \in DOMAIN opening
        BY <1>3
      <4>2. opening[1].doc.version <= opening[i + 1].doc.version
        BY <1>3, <1>7, <4>1
      <4> QED
        BY <1>3, <4>2 DEF doc
    <3>3. ASSUME NEW i \in DOMAIN tail, tail[i].for = "doc", NEW j \in DOMAIN t.wire
          PROVE  tail[i].doc.version <= t.wire[j].version
      BY <1>3, <1>7, <3>3
    <3> QED
      BY <1>0, <1>5, <2>2, <3>1, <3>2, <3>3 DEF Ordered
  <2>5. Resting(u)
    <3>1. ~Busy(u) => ~Busy(t)
      BY <1>5, <2>2, <2>3 DEF Busy, opening
    <3>2. t.held.version \in Nat
      BY <1>0, TypedParts
    <3> QED
      BY <1>0, <1>4, <2>2, <3>1, <3>2 DEF Resting
  <2>6. u.es = "open" => Reached(u, pDoc.version)
    BY <1>8, <2>2
  <2> QED
    BY <1>0, <2>1, <2>4, <2>5, <2>6, OnePageUp DEF Abreast
<1>10. CASE task.for # "doc"
  <2>1. task.for = "rebase"
    BY <1>3, <1>10 DEF TasksOf
  <2>2. tail = <<>>
    BY <1>3, <1>6, <2>1
  <2> DEFINE rest == [shut EXCEPT !.base = doc.version, !.baseText = doc.text]
             merged == [rest EXCEPT !.ta = MergeDisjoint(t, doc.text)]
             lost == pLost \cup (doc.text \ t.ta)
  <2>3. pTab' = [pTab EXCEPT ![c] = StartSave(merged)] \/ pTab' = [pTab EXCEPT ![c] = StartSave(rest)]
    BY <1>1, <1>8a, <1>10 DEF Rebase, t
  <2>4. /\ rest \in TabsOf(n) /\ rest.es = t.es /\ rest.held = t.held /\ rest.wire = t.wire
        /\ rest.base = doc.version /\ rest.baseText = doc.text /\ rest.ta = t.ta
        /\ rest.saving = t.saving /\ rest.told = t.told /\ rest.raced = t.raced
        /\ rest.save = t.save /\ rest.text = t.text
        /\ rest.v = t.v /\ rest.ok = t.ok /\ rest.reply = t.reply /\ rest.opening = tail
    BY <1>4, <1>8b DEF TabsOf
  <2>5. MergeDisjoint(t, doc.text) \in SUBSET (1..n)
    BY <1>0, <1>4 DEF MergeDisjoint, TabsOf
  <2> HIDE DEF rest
  <2>6. /\ merged \in TabsOf(n) /\ merged.es = t.es /\ merged.held = t.held /\ merged.wire = t.wire
        /\ merged.base = doc.version /\ merged.baseText = doc.text
        /\ merged.ta = MergeDisjoint(t, doc.text)
        /\ merged.saving = t.saving /\ merged.told = t.told /\ merged.raced = t.raced
        /\ merged.save = t.save /\ merged.text = t.text
        /\ merged.v = t.v /\ merged.ok = t.ok /\ merged.reply = t.reply /\ merged.opening = tail
    BY <2>4, <2>5 DEF TabsOf
  <2> HIDE DEF merged
  <2>7. Informed(rest, pDoc) /\ Informed(merged, pDoc)
    BY <1>0, <1>4, <2>2, <2>4, <2>6 DEF Good, Informed, Known
  <2>8. t.baseText \subseteq t.ta \cup pLost
    BY <1>0 DEF Good, Faithful
  <2>9. doc.text \subseteq merged.ta \cup pLost
    BY <2>6, <2>8 DEF MergeDisjoint
  <2>10. Good(merged, n, pDoc, pLost)
    BY <1>5, <2>2, <2>6, <2>7, <2>9 DEF Faithful, Good
  <2>11. Good(rest, n, pDoc, lost)
    BY <1>5, <2>2, <2>4, <2>7 DEF Faithful, Good
  <2> HIDE DEF lost
  <2>12. Ordered(rest) /\ Ordered(merged)
    BY <1>0, <1>5, <2>2, <2>4, <2>6 DEF Ordered
  <2>13. (rest.es = "open" => Reached(rest, pDoc.version)) /\ (merged.es = "open" => Reached(merged, pDoc.version))
    BY <1>8, <2>4, <2>6
  <2>13a. ~merged.raced /\ ~rest.raced
    BY <1>0, <2>4, <2>6
  <2>14. StartSave(merged).raced \/ Abreast(StartSave(merged), pDoc)
    BY <1>0, <2>10, <2>12, <2>13, <2>13a, StartSaveAbreast
  <2>15. StartSave(rest).raced \/ Abreast(StartSave(rest), pDoc)
    BY <1>0, <2>11, <2>12, <2>13, <2>13a, StartSaveAbreast
  <2> QED
    BY <1>0, <2>3, <2>14, <2>15, OnePageUp
<1> QED
  BY <1>9, <1>10

-------------------------------------------------------------------------------
LEMMA UpStart == PInit => KeepsUp
<1> SUFFICES ASSUME PInit PROVE KeepsUp
  OBVIOUS
<1>1. pDoc = NoDoc /\ \A c \in PTabs : pTab[c] = PadTab
  BY DEF PInit
<1>2. Abreast(PadTab, NoDoc)
  BY DEF Abreast, Ordered, Resting, PadTab
<1> QED
  BY <1>1, <1>2 DEF KeepsUp

\* A page that raced stays so, whatever it does.
LEMMA RacedUp ==
    ASSUME PInv, KeepsUp, NEW c \in PTabs, pTab[c].raced,
           \/ PadStream(c) \/ PadStreamBreaks(c) \/ DocArrives(c) \/ Type(c) \/ Sealed(c)
           \/ SealFails(c) \/ SaveRefused(c) \/ SaveThrows(c) \/ TimerFires(c) \/ StrayFires(c)
           \/ SaveAnswered(c) \/ DocOpened(c)
    PROVE  KeepsUp'
<1> DEFINE n == pCount.typed
           p == pTab[c]
<1>0. n \in Nat /\ p \in TabsOf(n) /\ pTab \in [PTabs -> TabsOf(n)] /\ p.raced
  BY DEF PInv
<1>1. ASSUME NEW u, pTab' = [pTab EXCEPT ![c] = u], u.raced, pDoc' = pDoc PROVE KeepsUp'
  BY <1>1, OnePageUp
<1>2. CASE PadStream(c) \/ PadStreamBreaks(c)
  <2> DEFINE u1 == [p EXCEPT !.es = "open", !.wire = <<pDoc>>]
             u2 == [p EXCEPT !.es = "connecting", !.wire = <<>>]
  <2>1. (pTab' = [pTab EXCEPT ![c] = u1] \/ pTab' = [pTab EXCEPT ![c] = u2]) /\ pDoc' = pDoc
    <3>1. CASE PadStream(c)
      BY <1>0, <3>1 DEF PadStream
    <3>2. CASE PadStreamBreaks(c)
      BY <1>0, <3>2 DEF PadStreamBreaks
    <3> QED
      BY <1>2, <3>1, <3>2
  <2>2. u1.raced /\ u2.raced
    BY <1>0 DEF TabsOf
  <2> QED
    BY <1>1, <2>1, <2>2
<1>3. CASE DocArrives(c)
  <2> DEFINE t == [p EXCEPT !.wire = Tail(@)]
             d == Head(p.wire)
  <2>1. pTab' = [pTab EXCEPT ![c] = HandleDoc(t, d)] /\ pDoc' = pDoc /\ p.wire # <<>>
    BY <1>0, <1>3 DEF DocArrives
  <2>2. p.wire \in Seq(DocsOf(n))
    BY <1>0 DEF TabsOf
  <2>3. d \in DocsOf(n) /\ Tail(p.wire) \in Seq(DocsOf(n))
    <3> DEFINE wire == p.wire
    <3>1. wire \in Seq(DocsOf(n)) /\ wire # <<>> /\ d = Head(wire)
      BY <2>1, <2>2
    <3> HIDE DEF wire, d
    <3>2. d \in DocsOf(n) /\ Tail(wire) \in Seq(DocsOf(n))
      BY <3>1
    <3> QED
      BY <3>2 DEF wire
  <2>4. t \in TabsOf(n) /\ t.raced
    BY <1>0, <2>3 DEF TabsOf
  <2> HIDE DEF t, d
  <2>5. HandleDoc(t, d).raced
    BY <1>0, <2>3, <2>4, RacedStays
  <2> QED
    BY <1>1, <2>1, <2>5
<1>4. CASE Type(c)
  <2>1. PICK line : pTab' = [pTab EXCEPT ![c] = SetTimer([p EXCEPT !.ta = @ \cup {line}, !.told = FALSE])]
                    /\ pDoc' = pDoc
    BY <1>0, <1>4 DEF Type
  <2>2. SetTimer([p EXCEPT !.ta = @ \cup {line}, !.told = FALSE]).raced
    BY <1>0 DEF SetTimer, TabsOf
  <2> QED
    BY <1>1, <2>1, <2>2
<1>5. CASE Sealed(c) \/ SealFails(c) \/ SaveThrows(c)
  <2> DEFINE u1 == [p EXCEPT !.save = "sent", !.v = p.base]
             u2 == [p EXCEPT !.save = "none", !.saving = FALSE, !.told = TRUE]
             u3 == [p EXCEPT !.save = "none"]
  <2>1. CASE Sealed(c)
    <3>1. pTab' = [pTab EXCEPT ![c] = u1] /\ pDoc' = pDoc
      BY <1>0, <2>1 DEF Sealed
    <3>2. u1.raced
      BY <1>0 DEF TabsOf
    <3> QED
      BY <1>1, <3>1, <3>2
  <2>2. CASE SealFails(c)
    <3>1. pTab' = [pTab EXCEPT ![c] = u2] /\ pDoc' = pDoc
      BY <1>0, <2>2 DEF SealFails
    <3>2. u2.raced
      BY <1>0 DEF TabsOf
    <3> QED
      BY <1>1, <3>1, <3>2
  <2>3. CASE SaveThrows(c)
    <3>1. pTab' = [pTab EXCEPT ![c] = u3] /\ pDoc' = pDoc
      BY <1>0, <2>3 DEF SaveThrows
    <3>2. u3.raced
      BY <1>0 DEF TabsOf
    <3> QED
      BY <1>1, <3>1, <3>2
  <2> QED
    BY <1>5, <2>1, <2>2, <2>3
<1>6. ASSUME NEW t \in TabsOf(n), t.raced PROVE SetAgain(t).raced
  BY <1>6 DEF SetAgain, SetTimer, TabsOf
<1> DEFINE idle == [p EXCEPT !.save = "none", !.saving = FALSE]
<1>7. idle \in TabsOf(n) /\ idle.raced /\ idle.reply \in DocsOf(n) /\ idle.text \in SUBSET (1..n)
  BY <1>0 DEF TabsOf
<1>8. CASE SaveRefused(c)
  <2>1. pTab' = [pTab EXCEPT ![c] = SetAgain(idle)] /\ pDoc' = pDoc
    BY <1>0, <1>8 DEF SaveRefused, TryLater
  <2> HIDE DEF idle
  <2> QED
    BY <1>1, <1>6, <1>7, <2>1
<1>9. CASE TimerFires(c) \/ StrayFires(c)
  <2>1. PICK t \in TabsOf(n) : t.raced /\ pTab' = [pTab EXCEPT ![c] = StartSave(t)] /\ pDoc' = pDoc
    <3>1. CASE TimerFires(c)
      <4>1. [p EXCEPT !.timer = FALSE] \in TabsOf(n) /\ [p EXCEPT !.timer = FALSE].raced
        BY <1>0 DEF TabsOf
      <4> QED
        BY <1>0, <3>1, <4>1 DEF TimerFires
    <3>2. CASE StrayFires(c)
      <4>1. p.strays - 1 \in Nat
        BY <1>0, <3>2 DEF StrayFires, TabsOf
      <4>2. [p EXCEPT !.strays = p.strays - 1] \in TabsOf(n) /\ [p EXCEPT !.strays = p.strays - 1].raced
        BY <1>0, <4>1 DEF TabsOf
      <4> QED
        BY <1>0, <3>2, <4>2 DEF StrayFires
    <3> QED
      BY <1>9, <3>1, <3>2
  <2>2. StartSave(t).raced
    BY <1>0, <2>1, RacedStays
  <2> QED
    BY <1>1, <2>1, <2>2
<1>10. CASE SaveAnswered(c)
  <2> DEFINE agreed == [idle EXCEPT !.base = idle.reply.version, !.baseText = idle.text]
             task == [for |-> "rebase", doc |-> idle.reply]
             opens == [idle EXCEPT !.opening = Append(@, task)]
  <2>1. /\ pDoc' = pDoc
        /\ pTab' = [pTab EXCEPT ![c] = IF ~idle.ok THEN opens ELSE IF idle.ta # idle.text
                                       THEN SetAgain(agreed) ELSE ApplyHeld(agreed)]
    BY <1>0, <1>10 DEF SaveAnswered
  <2> HIDE DEF idle
  <2>2. idle.reply.version \in Nat
    BY <1>7 DEF DocsOf
  <2>3. agreed \in TabsOf(n) /\ agreed.raced
    BY <1>7, <2>2 DEF TabsOf
  <2>4. opens.raced
    BY <1>7 DEF TabsOf
  <2> HIDE DEF agreed, opens
  <2>5. SetAgain(agreed).raced /\ ApplyHeld(agreed).raced
    BY <1>0, <1>6, <2>3, RacedStays
  <2> QED
    BY <1>1, <2>1, <2>4, <2>5
<1>11. CASE DocOpened(c)
  <2> DEFINE opening == p.opening
             doc == Head(opening).doc
             shut == Decrypted(p)
             rest == [shut EXCEPT !.base = doc.version, !.baseText = doc.text]
             merged == [rest EXCEPT !.ta = MergeDisjoint(p, doc.text)]
             shown == [shut EXCEPT !.base = doc.version, !.baseText = doc.text, !.ta = doc.text,
                                   !.told = FALSE]
  <2>1. /\ opening # <<>> /\ pDoc' = pDoc
        /\ \/ pTab' = [pTab EXCEPT ![c] = shown]
           \/ pTab' = [pTab EXCEPT ![c] = StartSave(rest)]
           \/ pTab' = [pTab EXCEPT ![c] = StartSave(merged)]
    BY <1>11 DEF DocOpened, ShowDoc, Rebase
  <2>2. opening \in Seq(TasksOf(n))
    BY <1>0 DEF TabsOf
  <2> HIDE DEF opening
  <2>3. Head(opening) \in TasksOf(n) /\ Tail(opening) \in Seq(TasksOf(n))
    BY <2>1, <2>2
  <2>4. doc.version \in Nat /\ doc.text \in SUBSET (1..n)
    BY <2>3 DEF TasksOf, DocsOf
  <2> HIDE DEF doc
  <2>5. MergeDisjoint(p, doc.text) \in SUBSET (1..n)
    BY <1>0, <2>4 DEF MergeDisjoint, TabsOf
  <2>6. shut \in TabsOf(n) /\ shut.raced
    <3> DEFINE wait == IF p.wait = 0 THEN 0 ELSE p.wait - 1
    <3>1. wait \in Nat /\ shut = [p EXCEPT !.opening = Tail(opening), !.wait = wait]
      BY <1>0 DEF Decrypted, TabsOf, opening
    <3> HIDE DEF wait, shut
    <3> QED
      BY <1>0, <2>3, <3>1 DEF TabsOf
  <2> HIDE DEF shut
  <2>7. shown.raced
    BY <2>6 DEF TabsOf
  <2>8. rest \in TabsOf(n) /\ rest.raced
    BY <2>4, <2>6 DEF TabsOf
  <2> HIDE DEF rest, shown
  <2>9. merged \in TabsOf(n) /\ merged.raced
    BY <2>5, <2>8 DEF TabsOf
  <2> HIDE DEF merged
  <2>10. StartSave(rest).raced /\ StartSave(merged).raced
    BY <1>0, <2>8, <2>9, RacedStays
  <2> QED
    BY <1>1, <2>1, <2>7, <2>10
<1> QED
  BY <1>2, <1>3, <1>4, <1>5, <1>8, <1>9, <1>10, <1>11

LEMMA UpKept ==
    ASSUME PInv, KeepsUp, [PNext]_pVars
    PROVE  KeepsUp'
<1>1. CASE UNCHANGED pVars
  BY <1>1 DEF pVars, KeepsUp
<1>2. ASSUME NEW c \in PTabs, ApiSave(c) PROVE KeepsUp'
  BY <1>2, ApiSaveUp
<1>3. ASSUME NEW c \in PTabs,
             \/ PadStream(c) \/ PadStreamBreaks(c) \/ DocArrives(c) \/ Type(c) \/ Sealed(c)
             \/ SealFails(c) \/ SaveRefused(c) \/ SaveThrows(c) \/ TimerFires(c) \/ StrayFires(c)
             \/ SaveAnswered(c) \/ DocOpened(c)
      PROVE  KeepsUp'
  <2>1. CASE pTab[c].raced
    BY <1>3, <2>1, RacedUp
  <2>2. CASE ~pTab[c].raced
    BY <1>3, <2>2, StreamUp, ArrivesUp, EditUp, TimerUp, AnsweredUp, OpenedUp
  <2> QED
    BY <2>1, <2>2
<1> QED
  BY <1>1, <1>2, <1>3 DEF PNext, PageStep

LEMMA QuietIsNewest == PInv /\ KeepsUp => QuietShowsDoc
<1> SUFFICES ASSUME PInv, KeepsUp, NEW c \in PTabs,
                    pTab[c].es = "open", pTab[c].wire = <<>>, pTab[c].opening = <<>>,
                    ~pTab[c].saving, ~pTab[c].timer, ~pTab[c].raced,
                    ~(pTab[c].told /\ pTab[c].ta # pTab[c].baseText)
             PROVE  pTab[c].base = pDoc.version /\ pTab[c].ta = pDoc.text
  BY DEF QuietShowsDoc
<1> DEFINE t == pTab[c]
<1>1. /\ t \in TabsOf(pCount.typed) /\ Good(t, pCount.typed, pDoc, pLost)
      /\ Reached(t, pDoc.version) /\ Resting(t) /\ pDoc.version \in Nat
  BY PageFacts
<1>2. ~Busy(t)
  BY DEF Busy
<1>3. t.base \in Nat /\ t.base <= pDoc.version /\ t.held.version \in Nat
  BY <1>1, TypedParts DEF Good, Informed, Known
<1>4. t.ta = t.baseText /\ t.base = pDoc.version
  BY <1>1, <1>2, <1>3 DEF Resting, Reached
<1> QED
  BY <1>1, <1>4 DEF Good, Informed, Known

\* A page on which nothing is under way shows the newest document, or says that its own
\* text could not be saved: no version was passed over while its edits were pending, a
\* save collided or its stream was down (handleDoc, held, applyHeld, save of ui.html and
\* the first event of api_stream), unless its saveTimer ever ran out during a decryption.
THEOREM QuietPagesAgree == PSpec => []QuietShowsDoc
<1>1. PInit => PInv /\ KeepsUp
  BY PStart, UpStart
<1>2. PInv /\ KeepsUp /\ [PNext]_pVars => PInv' /\ KeepsUp'
  BY PKept, UpKept
<1> QED
  BY <1>1, <1>2, QuietIsNewest, PTL DEF PSpec
===============================================================================
