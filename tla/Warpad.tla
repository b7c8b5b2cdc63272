-------------------------------- MODULE Warpad --------------------------------
(***************************************************************************)
(* One pad of warpad: the versioned document on the server                 *)
(* (warpad/src/main.rs) and the pages that edit it (warpad/src/ui.html).   *)
(* A page saves the whole text against the version it last agreed on, a    *)
(* stale save is answered with the newer document, and the page rebases.   *)
(* A text is the set of lines typed into it; every typed line is new.      *)
(* What a page awaits (sealing, opening, an answer) is a step of its own,  *)
(* and anything may happen in between.  Awaited decryptions of one page    *)
(* end in the order they began, and each takes less than the 800 ms of a   *)
(* debounce: a timer runs out only when what was being decrypted as it was *)
(* set is done.  A timer already set may run out during a decryption.      *)
(***************************************************************************)
EXTENDS Naturals, Sequences, SequencesExt, FiniteSetsExt

CONSTANTS
    PTabs,          \* the pages (browser tabs)
    PMaxLines,      \* bound: lines typed by all of them together
    PMaxFaults      \* bound: broken streams, and saves that are not sent or get no answer

ASSUME PadAssumption == {PMaxLines, PMaxFaults} \subseteq Nat

VARIABLES
    pDoc,       \* Pad: its version and the text of its blob
    pTab,       \* the pages, with their streams
    pLost,      \* lines a page was told were replaced, and kept for undo
    pCount      \* lines typed, and faults

pVars == <<pDoc, pTab, pLost, pCount>>

(***************************************************************************)
(* es and wire are the page's event stream and what it has yet to hear;    *)
(* base and baseText are baseVersion and baseText, ta the textarea; timer  *)
(* is set while saveTimer runs, and wait counts what was being decrypted   *)
(* when it was set and still is; strays are timers that saveTimer forgot,  *)
(* and that still run out.  save is what became of a save in flight:       *)
(* "none", "sealing" its text, "sent", or "answered" with reply; saving is *)
(* the page's flag, and told is set while the state line says that the     *)
(* text could not be sealed or is too large.  opening are the documents    *)
(* being decrypted, for the stream ("doc") or for a rebase ("rebase").     *)
(* raced is history: save ran while one of them was still on its way.      *)
(***************************************************************************)
NoDoc == [version |-> 0, text |-> {}]

PadTab ==
    [es |-> "connecting", wire |-> <<>>, base |-> 0, baseText |-> {}, ta |-> {},
     timer |-> FALSE, wait |-> 0, strays |-> 0, saving |-> FALSE, told |-> FALSE,
     raced |-> FALSE, save |-> "none", text |-> {}, v |-> 0, ok |-> FALSE, reply |-> NoDoc,
     held |-> NoDoc, opening |-> <<>>]

\* A new pad is version 0 and empty; the pages have loaded it (initPad).
PInit ==
    /\ pDoc = NoDoc
    /\ pTab = [c \in PTabs |-> PadTab]
    /\ pLost = {}
    /\ pCount = [typed |-> 0, faults |-> 0]

-----------------------------------------------------------------------------
\* The server.

\* api_stream: the first event is the document as it is now.
PadStream(c) ==
    /\ pTab[c].es = "connecting"
    /\ pTab' = [pTab EXCEPT ![c].es = "open", ![c].wire = <<pDoc>>]
    /\ UNCHANGED <<pDoc, pLost, pCount>>

\* Variant: the base version of a save is not looked at.
AnyBase(v) == TRUE

SameBase(v) == v = pDoc.version

\* api_save: a save of the current version replaces the document, and
\* everyone who listens hears of it; any other is answered with the document.
ApiSave(c) ==
    /\ pTab[c].save = "sent"
    /\ IF SameBase(pTab[c].v)
       THEN /\ pDoc' = [version |-> pDoc.version + 1, text |-> pTab[c].text]
            /\ pTab' = [d \in PTabs |->
                   LET t == IF pTab[d].es = "open"
                            THEN [pTab[d] EXCEPT !.wire = Append(@, pDoc')]
                            ELSE pTab[d]
                   IN  IF d = c
                       THEN [t EXCEPT !.save = "answered", !.ok = TRUE, !.reply = pDoc']
                       ELSE t]
       ELSE /\ pTab' = [pTab EXCEPT ![c].save = "answered", ![c].ok = FALSE,
                                    ![c].reply = pDoc]
            /\ pDoc' = pDoc
    /\ UNCHANGED <<pLost, pCount>>

-----------------------------------------------------------------------------
\* The page.
PendingEdits(t) == t.saving \/ t.ta # t.baseText

\* handleDoc, up to its await.
HandleDoc(t, doc) ==
    IF doc.version <= t.base THEN t
    ELSE IF PendingEdits(t) THEN [t EXCEPT !.held = doc]
    ELSE [t EXCEPT !.opening = Append(@, [for |-> "doc", doc |-> doc])]

\* Variant: what was held back stays there.
KeepHeld(t) == t

\* applyHeld
ApplyHeld(t) ==
    IF t.held = NoDoc THEN t ELSE HandleDoc([t EXCEPT !.held = NoDoc], t.held)

\* saveTimer is set.
SetTimer(t) == [t EXCEPT !.timer = TRUE, !.wait = Len(t.opening)]

\* It is set though it may be running: save does not clear it a second time.
SetAgain(t) == SetTimer([t EXCEPT !.strays = IF t.timer THEN @ + 1 ELSE @])

\* save, up to the await of sealDoc.
StartSave(t) ==
    LET idle == [t EXCEPT !.timer = FALSE, !.wait = 0, !.told = FALSE,
                          !.raced = @ \/ t.opening # <<>>]
    IN  IF t.saving THEN t
        ELSE IF t.ta = t.baseText THEN ApplyHeld(idle)
        ELSE [idle EXCEPT !.saving = TRUE, !.save = "sealing", !.text = t.ta]

\* A line is typed; the debounce starts again.
Type(c) ==
    /\ pCount.typed < PMaxLines
    /\ pCount' = [pCount EXCEPT !.typed = @ + 1]
    /\ pTab' = [pTab EXCEPT ![c] =
           SetTimer([pTab[c] EXCEPT !.ta = @ \cup {pCount'.typed}, !.told = FALSE])]
    /\ UNCHANGED <<pDoc, pLost>>

\* saveTimer runs out, after a debounce or before a retry.
TimerFires(c) ==
    /\ pTab[c].timer /\ pTab[c].wait = 0
    /\ pTab' = [pTab EXCEPT ![c] = StartSave([@ EXCEPT !.timer = FALSE])]
    /\ UNCHANGED <<pDoc, pLost, pCount>>

StrayFires(c) ==
    /\ pTab[c].strays > 0
    /\ pTab' = [pTab EXCEPT ![c] = StartSave([pTab[c] EXCEPT !.strays = @ - 1])]
    /\ UNCHANGED <<pDoc, pLost, pCount>>

\* sealDoc is done: the save names the version the page has by now.
Sealed(c) ==
    /\ pTab[c].save = "sealing"
    /\ pTab' = [pTab EXCEPT ![c].save = "sent", ![c].v = pTab[c].base]
    /\ UNCHANGED <<pDoc, pLost, pCount>>

\* sealDoc fails, or the blob is too large: the page says so and lets it be.
SealFails(c) ==
    /\ pTab[c].save = "sealing"
    /\ pCount.faults < PMaxFaults
    /\ pCount' = [pCount EXCEPT !.faults = @ + 1]
    /\ pTab' = [pTab EXCEPT ![c].save = "none", ![c].saving = FALSE, ![c].told = TRUE]
    /\ UNCHANGED <<pDoc, pLost>>

\* The rest of save: the text is the new base, or the document that came
\* instead is opened for a rebase.
SaveAnswered(c) ==
    /\ pTab[c].save = "answered"
    /\ LET t == [pTab[c] EXCEPT !.save = "none", !.saving = FALSE]
           agreed == [t EXCEPT !.base = t.reply.version, !.baseText = t.text]
       IN  pTab' = [pTab EXCEPT ![c] =
               IF ~t.ok
               THEN [t EXCEPT !.opening = Append(@, [for |-> "rebase", doc |-> t.reply])]
               ELSE IF t.ta # t.text THEN SetAgain(agreed)
               ELSE ApplyHeld(agreed)]
    /\ UNCHANGED <<pDoc, pLost, pCount>>

\* Variant: the timer is not set again.
RefusedForGood(t) == [t EXCEPT !.save = "none", !.saving = FALSE]

TryLater(t) == SetAgain([t EXCEPT !.save = "none", !.saving = FALSE])

\* No room, or a body the server will not take: tried again in three seconds.
SaveRefused(c) ==
    /\ pTab[c].save = "sent"
    /\ pCount.faults < PMaxFaults
    /\ pCount' = [pCount EXCEPT !.faults = @ + 1]
    /\ pTab' = [pTab EXCEPT ![c] = TryLater(@)]
    /\ UNCHANGED <<pDoc, pLost>>

\* The request fails: fetch throws out of save, and saving stays set.
SaveThrows(c) ==
    /\ pTab[c].save \in {"sent", "answered"}
    /\ pCount.faults < PMaxFaults
    /\ pCount' = [pCount EXCEPT !.faults = @ + 1]
    /\ pTab' = [pTab EXCEPT ![c].save = "none"]
    /\ UNCHANGED <<pDoc, pLost>>

\* A decryption is done.
Decrypted(t) == [t EXCEPT !.opening = Tail(@), !.wait = IF @ = 0 THEN 0 ELSE @ - 1]

\* The rest of handleDoc: the document is shown as it came.
ShowDoc(c, doc) ==
    /\ pTab' = [pTab EXCEPT ![c] =
           [Decrypted(@) EXCEPT !.base = doc.version, !.baseText = doc.text, !.ta = doc.text,
                             !.told = FALSE]]
    /\ pLost' = pLost

\* mergeLines of edits that do not touch: what either side changed of the base.
MergeDisjoint(t, remote) ==
    (t.ta \cap remote) \cup (t.ta \ t.baseText) \cup (remote \ t.baseText)

\* The rest of rebase: edits that do not touch are merged; of edits that do
\* the page keeps its own, and shows the other text for undo.
Rebase(c, doc) ==
    LET t == pTab[c]
        rest == [Decrypted(t) EXCEPT !.base = doc.version, !.baseText = doc.text]
    IN  \/ /\ pTab' = [pTab EXCEPT ![c] =
                  StartSave([rest EXCEPT !.ta = MergeDisjoint(t, doc.text)])]
           /\ pLost' = pLost
        \/ /\ t.ta # t.baseText /\ doc.text # t.baseText
           /\ pTab' = [pTab EXCEPT ![c] = StartSave(rest)]
           /\ pLost' = pLost \cup (doc.text \ t.ta)

\* openDoc is done.
DocOpened(c) ==
    /\ pTab[c].opening # <<>>
    /\ LET task == Head(pTab[c].opening)
       IN  IF task.for = "doc" THEN ShowDoc(c, task.doc) ELSE Rebase(c, task.doc)
    /\ UNCHANGED <<pDoc, pCount>>

\* The first event of a stream and every doc event.
DocArrives(c) ==
    /\ pTab[c].wire # <<>>
    /\ pTab' = [pTab EXCEPT ![c] =
           HandleDoc([pTab[c] EXCEPT !.wire = Tail(@)], Head(pTab[c].wire))]
    /\ UNCHANGED <<pDoc, pLost, pCount>>

\* The stream breaks, what was on its way is lost, and it connects again.
PadStreamBreaks(c) ==
    /\ pTab[c].es = "open"
    /\ pCount.faults < PMaxFaults
    /\ pCount' = [pCount EXCEPT !.faults = @ + 1]
    /\ pTab' = [pTab EXCEPT ![c].es = "connecting", ![c].wire = <<>>]
    /\ UNCHANGED <<pDoc, pLost>>

\* What goes on by itself.
PageStep(c) ==
    \/ PadStream(c) \/ ApiSave(c) \/ TimerFires(c) \/ StrayFires(c) \/ Sealed(c)
    \/ SaveAnswered(c) \/ DocOpened(c) \/ DocArrives(c)

PNext ==
    \E c \in PTabs :
        \/ PageStep(c) \/ Type(c) \/ SealFails(c) \/ SaveRefused(c)
        \/ SaveThrows(c) \/ PadStreamBreaks(c)

PSpec == PInit /\ [][PNext]_pVars

\* Timers run out, promises settle, sockets deliver; whether somebody types
\* and what fails is open.
PFairSpec == PSpec /\ \A c \in PTabs : WF_pVars(PageStep(c))

-----------------------------------------------------------------------------
PTypeOK ==
    LET Doc == [version : Nat, text : SUBSET (1..PMaxLines)] IN
    /\ pDoc \in Doc /\ pLost \subseteq 1..PMaxLines
    /\ pCount \in [typed : 0..PMaxLines, faults : 0..PMaxFaults]
    /\ \A c \in PTabs : LET t == pTab[c] IN
           /\ t.es \in {"connecting", "open"} /\ t.wire \in Seq(Doc)
           /\ {t.base, t.v} \subseteq 0..pDoc.version /\ t.wait \in 0..Len(t.opening)
           /\ t.strays \in Nat
           /\ t.save \in {"none", "sealing", "sent", "answered"}
           /\ {t.timer, t.saving, t.told, t.raced, t.ok} \subseteq BOOLEAN
           /\ {t.held, t.reply} \subseteq Doc
           /\ \A s \in {t.baseText, t.ta, t.text} : s \subseteq 1..PMaxLines
           /\ t.opening \in Seq([for : {"doc", "rebase"}, doc : Doc])

\* The document is replaced by what page c saved.
Saves(c) == pTab[c].save = "sent" /\ pTab'[c].save = "answered" /\ pTab'[c].ok

\* A line that was saved stays in the document, whoever saves what when,
\* unless the page that replaced it showed it on the warning bar ("it will
\* not silently drop someone's words", main.rs:252; api_save's base version,
\* rebase, mergeLines).  A page whose saveTimer ran out during a decryption is
\* let off: its save may name a base that the text it sends never saw.
SavedWordsStay ==
    [][pDoc.text \subseteq pDoc'.text \cup pLost \/ \E c \in PTabs : Saves(c) /\ pTab[c].raced]_pVars

\* A page where nothing is under way shows the document as it is, or says that
\* its text could not be saved: no version was passed over while edits were
\* pending or the stream was down (handleDoc, held, applyHeld, the first event
\* of a stream).  A page whose saveTimer ran out during a decryption may go back
\* to an older document.
QuietShowsDoc ==
    \A c \in PTabs : LET t == pTab[c] IN
        /\ t.es = "open" /\ t.wire = <<>> /\ t.opening = <<>>
        /\ ~t.saving /\ ~t.timer
        => \/ t.base = pDoc.version /\ t.ta = pDoc.text
           \/ t.told /\ t.ta # t.baseText
           \/ t.raced

\* The page still says "saving" after a request that failed, and saves no more.
Stuck(c) == pTab[c].saving /\ pTab[c].save = "none"

\* What is typed reaches the document, or the page warns of the other text it
\* kept, however often saves collide or are refused (save's retry, rebase).
\* Three things the code does are allowed for: a request that throws leaves the
\* page stuck, a text that cannot be sealed or is too large is left until the
\* next edit and the page says so, and handleDoc may put a document over a line
\* just typed.
TypedIsSaved ==
    \A c \in PTabs, n \in 1..PMaxLines :
        n \in pTab[c].ta ~> \/ n \in pDoc.text \cup pLost
                            \/ n \notin pTab[c].ta \/ Stuck(c) \/ pTab[c].told
=============================================================================
