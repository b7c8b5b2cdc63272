----------------------------- MODULE DepotServe -----------------------------
(***************************************************************************)
(* The HTTP server of depot/src/serve.rs: one cooperative loop over every  *)
(* connection, with the budget push.rs charges for the packs being         *)
(* received.  A client is the tokens it has yet to send and what it does   *)
(* with the socket: it sends any part of them at any time, pipelines,      *)
(* half-closes, resets, reads or stops reading.  A head is two tokens (its *)
(* first line and its blank line), a body a number of data tokens; HEAD    *)
(* requests, 100-continue and the limit on the length of a head are left   *)
(* out.  One round of the loop inside service is an action, and no other   *)
(* connection moves until service returns.                                 *)
(***************************************************************************)
EXTENDS Naturals, Sequences, SequencesExt, FiniteSetsExt

CONSTANTS
    SConns,         \* the connections clients open
    SScripts,       \* the sequences of requests a client may send
    SBufferBudget,  \* BUFFER_BUDGET
    SBodyMax,       \* twice the largest body Plan::Buffer takes
    SPushCap        \* PushSink.cap

ASSUME ServeAssumption ==
    /\ \A script \in SScripts : script \in Seq(
           [plan : {"respond", "buffer", "stream"}, body : Nat, pulls : Nat])
    /\ SBufferBudget \in Nat /\ SBodyMax \in Nat /\ SPushCap \in Nat

Nobody == "nobody"

VARIABLES
    sScript,    \* the requests each client sends
    sUnsent,    \* the tokens it has not sent yet
    sConn,      \* the connections: Conn, and what its phase holds
    sHeld,      \* Budget: the bytes pushes in flight hold
    sTodo,      \* step: connections not serviced yet in this pass
    sNow,       \* the connection service is in, or Nobody
    sBuffered   \* step's running count of buffered bytes

sVars == <<sScript, sUnsent, sConn, sHeld, sTodo, sNow, sBuffered>>

Tokens(script) ==
    FlattenSeq([n \in DOMAIN script |->
        <<<<"line", n>>, <<"blank", n>>>> \o
            [i \in 1..script[n].body |-> <<"data", n>>]])

(***************************************************************************)
(* phase is Conn.phase ("new" before accept, "gone" after retain), in and  *)
(* out the two buffers (an output is TRUE where an answer ends), left the  *)
(* body tokens to come, buf the bytes of a buffered body, charge what the  *)
(* push on it holds and failed PushSink.failed, pulls the work its source  *)
(* has left, parsed the requests whose heads were parsed (0 for bytes that *)
(* were no head), answered how many were answered, read and written       *)
(* whether anything was in this pass.                                      *)
(***************************************************************************)
NewConn ==
    [phase |-> "new", in |-> <<>>, out |-> <<>>, keep |-> TRUE, eof |-> FALSE,
     left |-> 0, buf |-> 0, charge |-> 0, failed |-> FALSE, pulls |-> 0,
     parsed |-> <<>>, answered |-> 0, read |-> FALSE, written |-> FALSE]

SInit ==
    /\ sScript \in [SConns -> SScripts]
    /\ sUnsent = [c \in SConns |-> Tokens(sScript[c])]
    /\ sConn = [c \in SConns |-> NewConn]
    /\ sHeld = 0 /\ sTodo = {} /\ sNow = Nobody /\ sBuffered = 0

Live == {c \in SConns : sConn[c].phase \notin {"new", "gone"}}
Buffered(conn) == FoldSet(LAMBDA c, sum : conn[c].buf + sum, 0, SConns)
Charged(S) == FoldSet(LAMBDA c, sum : sConn[c].charge + sum, 0, S)
Request(c) == sScript[c][Last(sConn[c].parsed)]

-----------------------------------------------------------------------------
(***************************************************************************)
(* step: retain, accept, count what is buffered, service every connection. *)
(***************************************************************************)
\* Variant: no clock for a request body.
RunOutNoBody(k) ==
    \/ k.phase = "head" /\ (k.in = <<>> => ~k.read /\ ~k.written)
    \/ k.phase \in {"out", "done", "close"} /\ k.out # <<>> /\ ~k.written

\* The clock of its phase may have run out.  A connection with part of a
\* head is timed from the last head it had parsed, moving or not.
RunOut(k) ==
    \/ k.phase = "head" /\ (k.in = <<>> => ~k.read /\ ~k.written)
    \/ k.phase = "body" /\ ~k.read
    \/ k.phase \in {"out", "done", "close"} /\ k.out # <<>> /\ ~k.written

Closed(k) == k.phase = "close" /\ k.out = <<>>

\* A connection that goes takes its sink or job along, and the charge.
Pass(dropped, accepted) ==
    /\ sTodo = {} /\ sNow = Nobody
    /\ dropped \subseteq {c \in Live : Closed(sConn[c]) \/ RunOut(sConn[c])}
    /\ {c \in Live : Closed(sConn[c])} \subseteq dropped
    /\ accepted \subseteq {c \in SConns : sConn[c].phase = "new"}
    /\ sConn' = [c \in SConns |->
           IF c \in dropped THEN [NewConn EXCEPT !.phase = "gone"] ELSE
           IF c \in accepted THEN [NewConn EXCEPT !.phase = "head"] ELSE
           [sConn[c] EXCEPT !.read = FALSE, !.written = FALSE]]
    /\ sHeld' = sHeld - Charged(dropped)
    /\ sTodo' = (Live \ dropped) \cup accepted
    /\ sBuffered' = Buffered(sConn')
    /\ UNCHANGED <<sScript, sUnsent, sNow>>

Step == \E dropped \in SUBSET SConns, accepted \in SUBSET SConns :
            Pass(dropped, accepted)

\* read_some: whatever part of what the client sends has come, with the end
\* of its stream perhaps behind it.
Reads(k) == k.phase \in {"head", "body"} /\ ~k.eof

Service(c) ==
    LET k == sConn[c] IN
    /\ sNow = Nobody /\ c \in sTodo
    /\ sNow' = c /\ sTodo' = sTodo \ {c}
    /\ \E n \in 0..Len(sUnsent[c]), eof \in BOOLEAN :
         /\ (~Reads(k)) => n = 0 /\ ~eof
         /\ sUnsent' = [sUnsent EXCEPT ![c] = SubSeq(@, n + 1, Len(@))]
         /\ sConn' = [sConn EXCEPT ![c] =
                [k EXCEPT !.in = @ \o SubSeq(sUnsent[c], 1, n),
                          !.read = @ \/ n > 0, !.eof = @ \/ eof]]
    /\ UNCHANGED <<sScript, sHeld, sBuffered>>

\* A reset: the phase is replaced at once, sink and all, and nothing sent.
Reset(c) ==
    /\ sNow = Nobody /\ c \in sTodo /\ Reads(sConn[c])
    /\ sTodo' = sTodo \ {c}
    /\ sConn' = [sConn EXCEPT ![c] = [@ EXCEPT !.phase = "close", !.eof = TRUE,
                     !.out = <<>>, !.buf = 0, !.charge = 0]]
    /\ sHeld' = sHeld - sConn[c].charge
    /\ UNCHANGED <<sScript, sUnsent, sNow, sBuffered>>

-----------------------------------------------------------------------------
(***************************************************************************)
(* service: the loop goes round again with the connection k and the budget *)
(* at held, or is left, and what is in the write buffer is flushed.        *)
(***************************************************************************)
Round(c, k, held) ==
    /\ sConn' = [sConn EXCEPT ![c] = k]
    /\ sHeld' = held
    /\ UNCHANGED <<sScript, sUnsent, sTodo, sNow>>

\* The keep-alive transition: the next head, or the end.
Finished(k) ==
    IF k.phase = "done" /\ k.out = <<>>
    THEN [k EXCEPT !.phase = IF k.keep /\ ~k.eof THEN "head" ELSE "close"]
    ELSE k

Leave(c, k, held) ==
    /\ \/ \E n \in 0..Len(k.out) :
            /\ sConn' = [sConn EXCEPT ![c] = Finished(
                   [k EXCEPT !.out = SubSeq(@, n + 1, Len(@)),
                             !.written = @ \/ n > 0])]
            /\ sHeld' = held
       \/ /\ k.out # <<>>   \* the client is gone: write fails
          /\ sConn' = [sConn EXCEPT ![c] =
                 [k EXCEPT !.phase = "close", !.out = <<>>, !.buf = 0, !.charge = 0]]
          /\ sHeld' = held - k.charge
    /\ sNow' = Nobody
    /\ UNCHANGED <<sScript, sUnsent, sTodo>>

\* start_response with a whole body, with whatever the request held let go.
Whole(k) ==
    [k EXCEPT !.phase = "done", !.out = Append(@, TRUE), !.left = 0, !.buf = 0,
              !.charge = 0, !.failed = FALSE, !.answered = @ + 1]
\* The same, on a connection that will close.
Refusal(k) == Whole([k EXCEPT !.keep = FALSE])
\* start_response with a source: the head now, the body pulled from it.
Streamed(k, pulls) ==
    [k EXCEPT !.phase = "out", !.out = Append(@, FALSE), !.left = 0, !.buf = 0,
              !.pulls = pulls]

HeadEnd(k) == {i \in DOMAIN k.in : k.in[i][1] = "blank"}
EndOfHead(k) == CHOOSE i \in HeadEnd(k) : \A j \in HeadEnd(k) : i <= j

NoHeadYet(c) ==
    LET k == sConn[c] IN
    /\ sNow = c /\ k.phase = "head" /\ HeadEnd(k) = {}
    /\ Leave(c, [k EXCEPT !.phase = IF k.eof THEN "close" ELSE "head"], sHeld)
    /\ UNCHANGED sBuffered

\* Variant: a request refused unread leaves its body in the stream.
UnreadBodyStays(k, r) == k
\* A request answered without its body being read closes the connection.
UnreadBody(k, r) == IF r.body > 0 THEN [k EXCEPT !.keep = FALSE] ELSE k

ParseHead(c) ==
    LET k    == sConn[c]
        end  == EndOfHead(k)
        n    == k.in[end][2]
        rest == [k EXCEPT !.in = SubSeq(@, end + 1, Len(@))]
        r    == sScript[c][n]
        head == [rest EXCEPT !.parsed = Append(@, n)]
    IN
    /\ sNow = c /\ k.phase = "head" /\ HeadEnd(k) # {}
    /\ IF SubSeq(k.in, 1, end) # <<<<"line", n>>, <<"blank", n>>>>
       THEN Round(c, Refusal([rest EXCEPT !.parsed = Append(@, 0)]), sHeld)
       ELSE CASE r.plan = "respond" /\ r.pulls = 0 ->
                   Round(c, Whole(UnreadBody(head, r)), sHeld)
              [] r.plan = "respond" /\ r.pulls > 0 ->
                   Round(c, Streamed(UnreadBody(head, r), r.pulls), sHeld)
              [] r.plan = "buffer" /\ r.body > SBodyMax ->
                   Round(c, Refusal(head), sHeld)
              [] OTHER ->
                   Round(c, [head EXCEPT !.phase = "body", !.left = r.body], sHeld)
    /\ UNCHANGED sBuffered

-----------------------------------------------------------------------------
(***************************************************************************)
(* Phase::Body.  The decoder takes what belongs to the body from the read  *)
(* buffer; then the target gets it.                                        *)
(***************************************************************************)
Came(k) == IF Len(k.in) < k.left THEN Len(k.in) ELSE k.left
Taken(k) == [k EXCEPT !.in = SubSeq(@, Came(k) + 1, Len(@)), !.left = @ - Came(k)]
InBody(c, plan) == sNow = c /\ sConn[c].phase = "body" /\ Request(c).plan = plan

\* The body is misframed: the request fails, and what it held goes.
Misframed(c) ==
    /\ sNow = c /\ sConn[c].phase = "body" /\ Came(sConn[c]) > 0
    /\ Round(c, Refusal(sConn[c]), sHeld - sConn[c].charge)
    /\ UNCHANGED sBuffered

\* Nothing more will come: nobody is left to read an answer.
CutShort(k) == [k EXCEPT !.phase = "close", !.keep = FALSE, !.left = 0,
                         !.buf = 0, !.charge = 0, !.failed = FALSE]

BufferBody(c) ==
    LET k == Taken(sConn[c])
        n == Came(sConn[c])
        more == [k EXCEPT !.buf = @ + n]
    IN
    /\ InBody(c, "buffer")
    /\ IF sBuffered + n > SBufferBudget
       THEN /\ Round(c, Refusal(k), sHeld)
            /\ UNCHANGED sBuffered
       ELSE /\ sBuffered' = sBuffered + n
            /\ CASE k.left = 0 /\ Request(c).pulls = 0 -> Round(c, Whole(more), sHeld)
                 [] k.left = 0 /\ Request(c).pulls > 0 ->
                        Round(c, Streamed(more, Request(c).pulls), sHeld)
                 [] k.left > 0 /\ k.eof -> Leave(c, CutShort(more), sHeld)
                 [] OTHER -> Leave(c, more, sHeld)

\* Charge::set, from n to total.
Grown(held, n, total) == held + (total - n)

\* PushSink::data: a push that does not fit is refused, keeps what it holds
\* and reads on, so that its client comes to hear of it.
StreamBody(c) ==
    LET k     == Taken(sConn[c])
        n     == Came(sConn[c])
        total == k.charge + n
        fits  == Grown(sHeld, k.charge, total) <= SPushCap
        fed   == IF k.failed THEN k
                 ELSE IF fits THEN [k EXCEPT !.charge = total]
                 ELSE [k EXCEPT !.failed = TRUE]
        held  == IF ~k.failed /\ fits THEN Grown(sHeld, k.charge, total) ELSE sHeld
    IN
    /\ InBody(c, "stream")
    /\ CASE k.left = 0 /\ fed.failed -> Round(c, Whole(fed), held - fed.charge)
         [] k.left = 0 /\ ~fed.failed -> Round(c, Streamed(fed, Request(c).pulls), held)
         [] k.left > 0 /\ k.eof -> Leave(c, CutShort(fed), held - fed.charge)
         [] OTHER -> Leave(c, fed, held)
    /\ UNCHANGED sBuffered

-----------------------------------------------------------------------------
(***************************************************************************)
(* Phase::Out, Phase::Done and Phase::Close.                               *)
(***************************************************************************)
\* The source is pulled while the write buffer is low; the last pull ends
\* the answer and the job.
Out(c) ==
    LET k == sConn[c] IN
    /\ sNow = c /\ k.phase = "out"
    /\ IF Len(k.out) > 1
       THEN Leave(c, k, sHeld)
       ELSE IF k.pulls > 1
       THEN Leave(c, [k EXCEPT !.pulls = @ - 1, !.out = Append(@, FALSE)], sHeld)
       ELSE Leave(c, [k EXCEPT !.phase = "done", !.pulls = 0, !.charge = 0,
                               !.out = Append(@, TRUE), !.answered = @ + 1],
                  sHeld - k.charge)
    /\ UNCHANGED sBuffered

\* No terminal chunk: the client must see a broken body, not a short one.
SourceFails(c) ==
    LET k == sConn[c] IN
    /\ sNow = c /\ k.phase = "out" /\ Len(k.out) <= 1
    /\ Leave(c, [k EXCEPT !.phase = "close", !.keep = FALSE, !.charge = 0],
             sHeld - k.charge)
    /\ UNCHANGED sBuffered

Done(c) ==
    LET k == sConn[c] IN
    /\ sNow = c /\ k.phase = "done"
    /\ CASE k.out # <<>> -> Leave(c, k, sHeld)
         [] k.out = <<>> /\ k.keep /\ ~k.eof /\ HeadEnd(k) # {} ->
                Round(c, [k EXCEPT !.phase = "head"], sHeld)
         [] k.out = <<>> /\ k.keep /\ ~k.eof /\ HeadEnd(k) = {} ->
                Leave(c, [k EXCEPT !.phase = "head"], sHeld)
         [] k.out = <<>> /\ k.keep /\ k.eof /\ k.in # <<>> ->
                Round(c, [k EXCEPT !.phase = "head"], sHeld)
         [] OTHER -> Leave(c, [k EXCEPT !.phase = "close"], sHeld)
    /\ UNCHANGED sBuffered

Close(c) ==
    /\ sNow = c /\ sConn[c].phase = "close"
    /\ Leave(c, sConn[c], sHeld)
    /\ UNCHANGED sBuffered

SLoop(c) ==
    \/ NoHeadYet(c) \/ ParseHead(c)
    \/ Misframed(c) \/ BufferBody(c) \/ StreamBody(c)
    \/ Out(c) \/ SourceFails(c) \/ Done(c) \/ Close(c)

SNext == Step \/ \E c \in SConns : Service(c) \/ Reset(c) \/ SLoop(c)

SSpec == SInit /\ [][SNext]_sVars

\* The loop goes on: passes begin, every connection is serviced, and service
\* returns.  A clock that keeps running out is seen in the end.
SFairSpec ==
    /\ SSpec
    /\ WF_sVars(SNext)
    /\ \A c \in SConns : SF_sVars(Step /\ c \in Live /\ sConn'[c].phase = "gone")

-----------------------------------------------------------------------------
\* What the variables are; and the budgets hold across every connection at once.
\* Bodies held whole stay within theirs, though a pass counts them once and then
\* only adds what it takes in (BUFFER_BUDGET).  What is charged is what the pushes
\* in flight hold, as a body that is being received or as the job that answers it:
\* no way a request ends leaves a charge behind or gives one back twice.
STypeOK ==
    /\ sScript \in [SConns -> SScripts]
    /\ \A c \in SConns :
         /\ \E n \in 0..Len(Tokens(sScript[c])) :
                sUnsent[c] = SubSeq(Tokens(sScript[c]), n + 1, Len(Tokens(sScript[c])))
         /\ sConn[c].phase \in
                {"new", "head", "body", "out", "done", "close", "gone"}
         /\ sConn[c].left \in Nat /\ sConn[c].buf \in Nat
         /\ sConn[c].charge \in Nat /\ sConn[c].pulls \in Nat
    /\ sHeld \in 0..SPushCap /\ sBuffered \in Nat
    /\ sTodo \subseteq SConns /\ sNow \in SConns \cup {Nobody}
    /\ Buffered(sConn) <= SBufferBudget
    /\ sHeld = Charged({c \in SConns : sConn[c].phase \in {"body", "out"}})

\* What a connection takes for the head of a request is one: the requests of
\* a client are taken in the order it sent them, none from the body of
\* another, and each is answered before the next is looked at.
InRequestOrder ==
    \A c \in SConns : LET k == sConn[c] IN
        /\ k.parsed = [n \in 1..Len(k.parsed) |-> n]
        /\ k.answered \in {Len(k.parsed), Len(k.parsed) - 1}

\* Memory that pushes hold comes back whatever their clients do: stop
\* sending, stop reading, or refuse to hear that the push was refused.
ChargesEnd == sHeld > 0 ~> sHeld = 0
=============================================================================
