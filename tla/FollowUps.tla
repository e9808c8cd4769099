------------------------------ MODULE FollowUps ------------------------------
(***************************************************************************)
(* The follow-up routes of companion/app/api/application_ops.py over the   *)
(* table followups, for one application.  As everywhere in the companion a *)
(* request reads, and then writes in one transaction with its event.       *)
(***************************************************************************)
EXTENDS Naturals, Sequences, FiniteSets

CONSTANTS
    Callers,        \* concurrent requests
    FollowUpKeys,   \* idempotency keys clients send
    NoFollowUpKey,  \* no key
    MaxFollowUps,   \* bound: no creation starts when there are so many rows
    MaxRevision     \* bound: a follow-up at that revision is not updated again

ASSUME FollowUpsAssumptions ==
    /\ NoFollowUpKey \notin FollowUpKeys
    /\ MaxFollowUps \in Nat /\ MaxRevision \in Nat

VARIABLES
    followups,  \* followups, in the order of their insertion
    logged,     \* for each of them, the followup_updated and _draft_generated events
    caller      \* one record per request

followUpVars == <<followups, logged, caller>>

\* "pending" stands for the open statuses, "completed" for the closing ones
FollowUpStatuses == {"pending", "completed", "sent"}

\* due_at and draft_text are written with the row, and nothing is decided on them.
FollowUp == [key : FollowUpKeys \cup {NoFollowUpKey}, status : FollowUpStatuses, sent_at : BOOLEAN,
             revision : Nat \ {0}]

NewFollowUp(key) == [key |-> key, status |-> "pending", sent_at |-> FALSE, revision |-> 1]

\* item is the row as it was read; confirmed is sent_confirmation
Caller == [pc : {"idle", "create", "update", "generate"}, key : FollowUpKeys \cup {NoFollowUpKey},
           id : Nat, item : FollowUp, status : FollowUpStatuses, confirmed : BOOLEAN]

NewCaller == [pc |-> "idle", key |-> NoFollowUpKey, id |-> 0, item |-> NewFollowUp(NoFollowUpKey),
              status |-> "pending", confirmed |-> FALSE]

FollowUpsInit ==
    /\ followups = <<>>
    /\ logged = <<>>
    /\ caller = [c \in Callers |-> NewCaller]

CallerAt(c, point) == caller[c].pc = point

AnswerCaller(c) == caller' = [caller EXCEPT ![c] = NewCaller]

HasKey(key) == key # NoFollowUpKey /\ \E f \in DOMAIN followups : followups[f].key = key

-----------------------------------------------------------------------------
\* create_followup: a key that is known is answered with its row.
CreateFollowUpReads(c) ==
    /\ CallerAt(c, "idle")
    /\ Len(followups) < MaxFollowUps
    /\ \E key \in FollowUpKeys \cup {NoFollowUpKey} :
         /\ ~ HasKey(key)
         /\ caller' = [caller EXCEPT ![c].pc = "create", ![c].key = key]
    /\ UNCHANGED <<followups, logged>>

\* The INSERT fails when its key was taken meanwhile.
InsertFollowUp(c) ==
    /\ CallerAt(c, "create")
    /\ IF HasKey(caller[c].key) THEN UNCHANGED <<followups, logged>>
       ELSE /\ followups' = Append(followups, NewFollowUp(caller[c].key))
            /\ logged' = Append(logged, 0)
    /\ AnswerCaller(c)

\* A request that changes a follow-up names the revision it knows; one that is
\* stale when it is read is refused, and leaves nothing behind.
ReadsFollowUp(c, f, point, status, confirmed) ==
    /\ CallerAt(c, "idle")
    /\ followups[f].revision < MaxRevision
    /\ caller' = [caller EXCEPT ![c] = [NewCaller EXCEPT
                    !.pc = point, !.id = f, !.item = followups[f], !.status = status,
                    !.confirmed = confirmed]]
    /\ UNCHANGED <<followups, logged>>

\* update_followup: a confirmation makes the status "sent", and a status "sent"
\* needs one; a request without a status writes the one it has read.
UpdateFollowUpReads(c) ==
    \E f \in DOMAIN followups :
        \/ ReadsFollowUp(c, f, "update", "sent", TRUE)
        \/ \E status \in (FollowUpStatuses \ {"sent"}) \cup {followups[f].status} :
             ReadsFollowUp(c, f, "update", status, FALSE)

GenerateFollowUpReads(c) ==
    \E f \in DOMAIN followups : ReadsFollowUp(c, f, "generate", followups[f].status, FALSE)

StillFresh(c) == followups[caller[c].id].revision = caller[c].item.revision

\* What the UPDATE sets, from the item as it was read.
UpdatedFollowUp(c, old) ==
    [old EXCEPT !.status = caller[c].status,
                !.sent_at = caller[c].confirmed \/ caller[c].item.sent_at,
                !.revision = @ + 1]

\* Mutant: the UPDATE forgets AND revision = expected_revision.
UpdateFollowUpBlind(c) ==
    LET f == caller[c].id IN
    /\ CallerAt(c, "update")
    /\ followups' = [followups EXCEPT ![f] = UpdatedFollowUp(c, @)]
    /\ logged' = [logged EXCEPT ![f] = @ + 1]
    /\ AnswerCaller(c)

\* No row updated is a rollback and a 409.
UpdateFollowUpWrites(c) ==
    LET f == caller[c].id IN
    /\ CallerAt(c, "update")
    /\ IF StillFresh(c)
       THEN /\ followups' = [followups EXCEPT ![f] = UpdatedFollowUp(c, @)]
            /\ logged' = [logged EXCEPT ![f] = @ + 1]
       ELSE UNCHANGED <<followups, logged>>
    /\ AnswerCaller(c)

\* generate_followup looks at no rowcount: the event is written in any case.
GenerateFollowUpWrites(c) ==
    LET f == caller[c].id IN
    /\ CallerAt(c, "generate")
    /\ followups' = IF StillFresh(c)
                    THEN [followups EXCEPT ![f].revision = @ + 1]
                    ELSE followups
    /\ logged' = [logged EXCEPT ![f] = @ + 1]
    /\ AnswerCaller(c)

FollowUpsNext ==
    \E c \in Callers :
        \/ CreateFollowUpReads(c) \/ InsertFollowUp(c)
        \/ UpdateFollowUpReads(c) \/ UpdateFollowUpWrites(c)
        \/ GenerateFollowUpReads(c) \/ GenerateFollowUpWrites(c)

FollowUpsSpec == FollowUpsInit /\ [][FollowUpsNext]_followUpVars

-----------------------------------------------------------------------------
\* Properties.

FollowUpsTypeOK ==
    /\ followups \in Seq(FollowUp)
    /\ logged \in Seq(Nat) /\ Len(logged) = Len(followups)
    /\ caller \in [Callers -> Caller]

\* A confirmed sending is never forgotten: sent_at stays, although each update
\* writes it back from the row it has read, and "sent" is only ever shown of a
\* follow-up that has it.  Every change of a follow-up is in the log.
SendingIsRecorded ==
    /\ [][\A f \in DOMAIN followups : followups[f].sent_at => followups'[f].sent_at]_followups
    /\ [](\A f \in DOMAIN followups :
            /\ followups[f].status = "sent" => followups[f].sent_at
            /\ followups[f].revision <= 1 + logged[f])

\* Retries of a creation, also concurrent ones, make one follow-up.
OneFollowUpPerKey ==
    \A f, g \in DOMAIN followups :
      (followups[f].key # NoFollowUpKey /\ followups[f].key = followups[g].key) => f = g

\* No follow-up is forgotten, made twice or changed without a trace.
FollowUpsOnRecord == [](FollowUpsTypeOK /\ OneFollowUpPerKey) /\ SendingIsRecorded
=============================================================================
