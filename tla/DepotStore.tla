----------------------------- MODULE DepotStore -----------------------------
(***************************************************************************)
(* What every mutable document of depot (the registry, the token book, a   *)
(* repository's manifest) shares: it is one sealed object in the bucket    *)
(* that carries a revision and the nonce of the write that made it, it is  *)
(* replaced by a conditional PUT that is sent exactly once, and a PUT that *)
(* is refused or whose reply is lost is settled by reading the object      *)
(* back.                                                                   *)
(*                                                                         *)
(* A document is a record with the fields rev and writer (and a payload of *)
(* its own).  A missing object is the document of revision 0, whose writer *)
(* is None.  Sealing draws a fresh nonce for every write, so no two bodies *)
(* and no two ETags are equal: the writer stands for the ETag too.         *)
(***************************************************************************)
EXTENDS Naturals

\* No ETag is known: the object was missing when it was last read.
None == 0

\* Variant for testing the properties: a store that ignores preconditions.
AlwaysAccepts(doc, etag) == TRUE

\* The bucket's side of a conditional PUT: If-Match names the ETag of the
\* object as it stands, If-None-Match: * (etag = None) wants no object.
Accepts(doc, etag) == doc.writer = etag

\* Variant: any object found by the read-back is taken for our own write.
TrustingReadBack(first, doc, nonce) ==
    IF doc.writer # None THEN "ok" ELSE IF first = "refused" THEN "conflict" ELSE "err"

\* put_sealed_once after a PUT that did not come back with an ETag.  first is
\* "refused" (412 or 409) or "unknown" (no usable answer); doc is what the
\* read-back finds.  Our own nonce means our write is the one in place.
ReadBack(first, doc, nonce) ==
    IF doc.writer # None
    THEN IF doc.writer = nonce THEN "ok" ELSE "conflict"
    ELSE IF first = "refused" THEN "conflict" ELSE "err"

\* A document read again may not be older than the copy in memory, and may
\* not have disappeared: both are refused as a rollback by storage.
Newer(doc, mem, etag) ==
    IF doc.writer = None THEN etag = None ELSE doc.rev >= mem.rev
=============================================================================
