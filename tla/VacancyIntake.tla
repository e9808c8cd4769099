--------------------------- MODULE VacancyIntake ---------------------------
(***************************************************************************)
(* The companion's intake of one vacancy: its row, its append-only         *)
(* snapshots, and the three steps in which a request reads and writes      *)
(* them.  The session reads outside any transaction, so two requests       *)
(* interleave between their reads and the one transaction that writes.     *)
(*                                                                         *)
(* Payload is what the extension captured; Content[p] is the normalized    *)
(* projection of it (what the content hash is computed over) and KeyOf[p]    *)
(* the idempotency key, a 32-bit hash of the payload before it is          *)
(* normalized: two payloads may have the same content and different keys,  *)
(* or, when the hash collides, the same key and different contents.        *)
(***************************************************************************)
EXTENDS Naturals, Sequences, FiniteSets, SequencesExt

CONSTANTS Payloads, Fields, Values, Keys, KeyOf, Content

NoValue == "none"

ASSUME IntakeAssumption ==
    /\ KeyOf \in [Payloads -> Keys]
    /\ Content \in [Payloads -> [Fields -> Values]]
    /\ Fields # {} /\ NoValue \notin Values

VARIABLES row,      \* the vacancy; revision 0 when there is none
          snaps     \* its snapshots, sorted by captured_at and then by id

Contents == [Fields -> Values]
NoContent == [f \in Fields |-> NoValue]

Rows == [fields : Contents \cup {NoContent}, hash : Contents \cup {NoContent},
         revision : Nat]
NoRow == [fields |-> NoContent, hash |-> NoContent, revision |-> 0]
Exists(r) == r.revision > 0

Snapshots == [key : Keys, content : Contents]

IntakeInit == row = NoRow /\ snaps = <<>>

Stored == {snaps[i] : i \in DOMAIN snaps}
WithKey(p) == {s \in Stored : s.key = KeyOf[p]}

-----------------------------------------------------------------------------
(* A request at the companion.  `read' is the row it decided on.           *)

IntakeReplies == {"ok", "CONFLICT", "INTERNAL_ERROR", "UNAUTHORIZED"}

Posts == [stage : {"none", "sent", "keyRead", "decided", "answered"},
          payload : Payloads \cup {NoValue}, read : Rows,
          reply : IntakeReplies \cup {NoValue}]
NoPost == [stage |-> "none", payload |-> NoValue, read |-> NoRow, reply |-> NoValue]
NewPost(p) == [NoPost EXCEPT !.stage = "sent", !.payload = p]
Answered(post, code) == [post EXCEPT !.stage = "answered", !.reply = code, !.read = NoRow]

\* The first read: a key that was used before is answered from its snapshot,
\* or refused when that snapshot has another content.
ReadsKey(post) ==
    LET prior == WithKey(post.payload)
    IN  IF prior = {} THEN [post EXCEPT !.stage = "keyRead"]
        ELSE IF \E s \in prior : s.content = Content[post.payload]
        THEN Answered(post, "ok")
        ELSE Answered(post, "CONFLICT")

\* The second read: the row and its newest snapshot; equal content is
\* answered as unchanged (only last_seen_at moves).
ReadsRow(post) ==
    IF Exists(row) /\ Last(snaps).content = Content[post.payload]
    THEN Answered(post, "ok")
    ELSE [post EXCEPT !.stage = "decided", !.read = row]

\* The session updates only the columns whose value differs from the row it
\* has read, and adds one to the revision it has read.
UpdatedRow(read, content) ==
    [fields |-> [f \in Fields |-> IF content[f] = read.fields[f]
                                  THEN row.fields[f] ELSE content[f]],
     hash |-> content,
     revision |-> read.revision + 1]

CreatedRow(content) == [fields |-> content, hash |-> content, revision |-> 1]

\* A mutant that relies on the read made before the transaction.
AppendSnapshotBlindly(p) ==
    snaps' = Append(snaps, [key |-> KeyOf[p], content |-> Content[p]])

\* A snapshot of the payload is appended unless its key has one already.
\* captured_at counts whole seconds and a random id decides between snapshots
\* of one second, so the new one may sort before any of that second: a
\* behaviour may pass within a second, and so it may sort anywhere.
AppendSnapshot(p) ==
    IF WithKey(p) # {} THEN UNCHANGED snaps
    ELSE \E i \in 1..(Len(snaps) + 1) :
            snaps' = InsertAt(snaps, i, [key |-> KeyOf[p], content |-> Content[p]])

\* The transaction.  Creating a vacancy that another request has created
\* meanwhile breaks the unique constraint and is rolled back.
Duplicate(post) == ~Exists(post.read) /\ Exists(row)
Outcome(post) == Answered(post, IF Duplicate(post) THEN "INTERNAL_ERROR" ELSE "ok")

Writes(post) ==
    IF Duplicate(post) THEN UNCHANGED <<row, snaps>>
    ELSE /\ row' = IF Exists(post.read)
                   THEN UpdatedRow(post.read, Content[post.payload])
                   ELSE CreatedRow(Content[post.payload])
         /\ AppendSnapshot(post.payload)
=============================================================================
