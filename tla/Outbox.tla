------------------------------- MODULE Outbox -------------------------------
(***************************************************************************)
(* The extension's outbox of captured vacancies and the drains that        *)
(* deliver it to VacancyIntake.  Every open panel polls the companion and  *)
(* drains the outbox when it is connected; nothing keeps two drains apart, *)
(* of two panels or of one.  A drain lists the entries once, then posts    *)
(* them one after the other and settles each by its id, whatever has       *)
(* become of the entry meanwhile.  A reply can be lost, and a panel        *)
(* closed, while the companion still works on the request: the request     *)
(* moves to a slot of its own and runs to its end.                         *)
(*                                                                         *)
(* Ops Mode is on throughout and no reset runs.                            *)
(***************************************************************************)
EXTENDS VacancyIntake

CONSTANTS Drains,          \* drains that may run at the same time
          MaxEntries,      \* bound: captures
          MaxLost          \* bound: replies lost and panels closed

ASSUME OutboxAssumption == MaxEntries \in Nat /\ MaxLost \in Nat
                           /\ Drains \cap (1..MaxLost) = {}

VARIABLES outbox,    \* entries in the order of their sequence number
          drains,    \* what each drain still has to deliver
          posts,     \* the request of each drain, and the abandoned ones
          lost       \* how many requests were abandoned

outboxVars == <<row, snaps, outbox, drains, posts, lost>>

Live == {"pending", "retrying"}
SetAside == {"dead", "conflict"}
\* "gone" stands for an entry that was deleted; "waiting" for one whose next
\* attempt is not due.
Entries == [payload : Payloads, status : Live \cup SetAside \cup {"waiting", "gone"}]

Slots == Drains \cup (1..MaxLost)

OutboxInit ==
    /\ IntakeInit
    /\ outbox = <<>>
    /\ drains = [d \in Drains |-> <<>>]
    /\ posts = [s \in Slots |-> NoPost]
    /\ lost = 0

-----------------------------------------------------------------------------
(* What the reply to a delivery means.                                     *)

Retryable == {"NETWORK_ERROR", "TIMEOUT", "ABORTED", "GATEWAY_TIMEOUT",
              "SERVICE_UNAVAILABLE", "RATE_LIMITED"}
Conflicting == {"REVISION_CONFLICT", "IDEMPOTENCY_CONFLICT", "CONFLICT"}

\* A mutant that takes a timeout for an acknowledgement.
ClassifyHopefully(code) ==
    IF code \in {"ok", "TIMEOUT"} THEN "committed"
    ELSE IF code \in Conflicting THEN "conflict" ELSE "dead"

Classify(code) ==
    CASE code = "ok"           -> "committed"
      [] code \in Conflicting  -> "conflict"
      [] code \in Retryable    -> "retry"
      [] OTHER                 -> "dead"

\* What an outcome does to the entry; nothing when it is gone already.
AfterOutcome(entry, outcome) ==
    IF entry.status = "gone" THEN entry
    ELSE [entry EXCEPT !.status = CASE outcome = "committed" -> "gone"
                                    [] outcome = "retry"     -> "waiting"
                                    [] OTHER                 -> outcome]

-----------------------------------------------------------------------------
(* The extension.                                                          *)

\* A save of the vacancy in the popup is mirrored to the outbox.
Enqueue(p) ==
    /\ Len(outbox) < MaxEntries
    /\ outbox' = Append(outbox, [payload |-> p, status |-> "pending"])
    /\ UNCHANGED <<row, snaps, drains, posts, lost>>

\* The backoff of an entry passes.
BecomesDue(e) ==
    /\ e \in DOMAIN outbox
    /\ outbox[e].status = "waiting"
    /\ outbox' = [outbox EXCEPT ![e].status = "retrying"]
    /\ UNCHANGED <<row, snaps, drains, posts, lost>>

\* The one list of S in ascending order.
InOrder(S) == {list \in [1..Cardinality(S) -> S] : \A i, j \in DOMAIN list : i < j => list[i] < list[j]}

\* A mutant that forgets the entries of an earlier attempt.
ListFresh == InOrder({e \in DOMAIN outbox : outbox[e].status = "pending"})

\* The entries to deliver, oldest first.
ListPending == InOrder({e \in DOMAIN outbox : outbox[e].status \in Live})

StartDrain(d) ==
    /\ drains[d] = <<>>
    /\ \E list \in ListPending : list # <<>> /\ drains' = [drains EXCEPT ![d] = list]
    /\ UNCHANGED <<row, snaps, outbox, posts, lost>>

\* The next entry of the list is posted as it was listed.
Deliver(d) ==
    /\ drains[d] # <<>> /\ posts[d] = NoPost
    /\ posts' = [posts EXCEPT ![d] = NewPost(outbox[Head(drains[d])].payload)]
    /\ UNCHANGED <<row, snaps, outbox, drains, lost>>

\* The reply arrives and the entry is settled by its id.
SettleEntry(d) ==
    /\ posts[d].stage = "answered"
    /\ outbox' = [outbox EXCEPT ![Head(drains[d])] = AfterOutcome(@, Classify(posts[d].reply))]
    /\ drains' = [drains EXCEPT ![d] = Tail(@)]
    /\ posts' = [posts EXCEPT ![d] = NoPost]
    /\ UNCHANGED <<row, snaps, lost>>

\* The request times out, or its reply is lost; a failure to cache an accepted
\* intake has the same outcome.
GiveUp(d) ==
    /\ posts[d] # NoPost
    /\ lost < MaxLost
    /\ outbox' = [outbox EXCEPT ![Head(drains[d])] = AfterOutcome(@, Classify("TIMEOUT"))]
    /\ drains' = [drains EXCEPT ![d] = Tail(@)]
    /\ posts' = [posts EXCEPT ![d] = NoPost, ![lost + 1] = posts[d]]
    /\ lost' = lost + 1
    /\ UNCHANGED <<row, snaps>>

\* The panel is closed in the middle of a drain.
ClosePanel(d) ==
    /\ drains[d] # <<>>
    /\ lost < MaxLost
    /\ drains' = [drains EXCEPT ![d] = <<>>]
    /\ posts' = [posts EXCEPT ![d] = NoPost, ![lost + 1] = posts[d]]
    /\ lost' = lost + 1
    /\ UNCHANGED <<row, snaps, outbox>>

-----------------------------------------------------------------------------
(* The companion, at the request of one slot.                              *)

Handle(s) ==
    /\ posts[s].stage = "sent"
    /\ posts' = [posts EXCEPT ![s] = ReadsKey(@)]
    /\ UNCHANGED <<row, snaps, outbox, drains, lost>>

\* The client token is not accepted, or the payload not valid.
Refuse(s) ==
    /\ posts[s].stage = "sent"
    /\ posts' = [posts EXCEPT ![s] = Answered(@, "UNAUTHORIZED")]
    /\ UNCHANGED <<row, snaps, outbox, drains, lost>>

Decide(s) ==
    /\ posts[s].stage = "keyRead"
    /\ posts' = [posts EXCEPT ![s] = ReadsRow(@)]
    /\ UNCHANGED <<row, snaps, outbox, drains, lost>>

Commit(s) ==
    /\ posts[s].stage = "decided"
    /\ Writes(posts[s])
    /\ posts' = [posts EXCEPT ![s] = Outcome(@)]
    /\ UNCHANGED <<outbox, drains, lost>>

Companion(s) == Handle(s) \/ Refuse(s) \/ Decide(s) \/ Commit(s)

OutboxNext ==
    \/ \E p \in Payloads : Enqueue(p)
    \/ \E e \in DOMAIN outbox : BecomesDue(e)
    \/ \E d \in Drains : StartDrain(d) \/ Deliver(d) \/ SettleEntry(d) \/ GiveUp(d) \/ ClosePanel(d)
    \/ \E s \in Slots : Companion(s)

OutboxSpec == OutboxInit /\ [][OutboxNext]_outboxVars

\* A panel that stays open polls every minute, a backoff ends, and a request
\* that is not given up is answered and its reply read.  An abandoned request
\* need not run any further: the companion may have been stopped.
Fairness ==
    /\ \A e \in 1..MaxEntries : WF_outboxVars(BecomesDue(e))
    /\ \A d \in Drains : /\ WF_outboxVars(StartDrain(d)) /\ WF_outboxVars(Deliver(d))
                        /\ WF_outboxVars(Companion(d)) /\ WF_outboxVars(SettleEntry(d))

FairOutboxSpec == OutboxSpec /\ Fairness

-----------------------------------------------------------------------------
(* The outbox, the requests and the stored vacancy are of the shapes the   *)
(* tables and messages have; in particular a row exists exactly when it    *)
(* has a content, and the history of an existing row is not empty.         *)
OutboxTypeOK ==
    /\ row \in Rows /\ (Exists(row) <=> row.fields # NoContent) /\ (Exists(row) <=> row.hash # NoContent)
    /\ snaps \in Seq(Snapshots) /\ (Exists(row) <=> Len(snaps) > 0)
    /\ outbox \in Seq(Entries) /\ Len(outbox) <= MaxEntries
    /\ drains \in [Drains -> Seq(1..MaxEntries)]
    /\ posts \in [Slots -> Posts]
    /\ \A d \in Drains : posts[d] # NoPost => drains[d] # <<>>
    /\ lost \in 0..MaxLost

(* An entry leaves the outbox only after its delivery was acknowledged: of  *)
(* every deleted entry the companion has a snapshot under its key, or one   *)
(* of the same content that was the newest when the entry arrived.          *)
DeletedIsStored ==
    \A e \in DOMAIN outbox :
        outbox[e].status = "gone" =>
            \E s \in Stored : \/ s.key = KeyOf[outbox[e].payload]
                             \/ s.content = Content[outbox[e].payload]

(* Lost replies, repeated deliveries and drains that deliver the same entry *)
(* at the same time never append a second snapshot for one key.             *)
OneSnapshotPerKey ==
    \A i, j \in DOMAIN snaps : snaps[i].key = snaps[j].key => i = j

(* Whatever requests overlap, each field of the row holds the value of a    *)
(* capture whose key is in the history.  (Of its content only while no two  *)
(* captures collide: a collision that is in flight updates the row and      *)
(* leaves the snapshot of the other content.)                               *)
RowComesFromHistory ==
    Exists(row) =>
        \A f \in Fields :
            \E p \in Payloads : WithKey(p) # {} /\ Content[p][f] = row.fields[f]

(* A capture is set aside as a conflict only when its key was taken by      *)
(* another content; a retry of its own delivery never is.                   *)
ConflictIsCollision ==
    \A e \in DOMAIN outbox :
        outbox[e].status = "conflict" =>
            \E s \in WithKey(outbox[e].payload) : s.content # Content[outbox[e].payload]

(* What leaves the outbox went where its last status says.                 *)
OutboxOnRecord == OutboxTypeOK /\ DeletedIsStored /\ ConflictIsCollision

(* The row of a vacancy and the history of its captures belong together.   *)
HistoryOnRecord == OneSnapshotPerKey /\ RowComesFromHistory

(* Every captured vacancy is delivered or set aside for the user: while a   *)
(* panel stays open, no entry waits in the outbox for ever.                 *)
StatusIs(e, statuses) == e \in DOMAIN outbox /\ outbox[e].status \in statuses
EveryCaptureSettles ==
    \A e \in 1..MaxEntries :
        StatusIs(e, Live \cup {"waiting"}) ~> StatusIs(e, SetAside \cup {"gone"})

(* A genuine update always appends a snapshot: a request whose key was used *)
(* before, and which is therefore answered without a write, finds the row   *)
(* with the content it brought.                                             *)
GenuineUpdateAppends ==
    [][\A s \in Slots :
        (posts[s].stage = "sent" /\ posts'[s].reply = "ok")
            => row.hash = Content[posts[s].payload]]_outboxVars
=============
