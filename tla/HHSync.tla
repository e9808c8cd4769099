-------------------------------- MODULE HHSync --------------------------------
(***************************************************************************)
(* The manual sync of vacancies from the HH API (api/hh.py): requests that *)
(* fetch the pages of their search profiles and store the items, all in    *)
(* one transaction of SQLite, which begins with the first write and ends   *)
(* with the audit row.  The session does not flush before a query          *)
(* (autoflush=False in db/session.py): a hit waits for the next flush.     *)
(***************************************************************************)
EXTENDS Naturals, Sequences, FiniteSets, SequencesExt

CONSTANTS
    Syncs,        \* threads that serve POST /hh/sync/vacancies
    Profiles,     \* search profiles, numbered in the order of created_at
    Vacancies,    \* source_vacancy_id
    Pages,        \* what HH may serve as a page: sequences of items
    MaxSyncItems,     \* MAX_SYNC_ITEMS
    MaxPages,     \* pages of a query that is not too broad
    MaxRuns,      \* bound on the syncs that are started
    MaxPatches    \* bound on the changes of profiles

VARIABLES
    db,           \* the tables, and the tables as the one open transaction has left them
    enabled,      \* profiles that are enabled
    leases,       \* _sync_flight_scopes
    sync,         \* thread -> its request
    started,
    patches

syncVars == <<db, enabled, leases, sync, started, patches>>

None == 0
\* An item that normalize_vacancy refuses.
Malformed == [vacancy |-> "no stable id", content |-> None]
Offered == UNION {ToSet(page) : page \in Pages}

ASSUME SyncAssumption ==
    /\ Profiles \subseteq Nat /\ MaxSyncItems \in Nat
    /\ Pages \subseteq Seq(Offered)
    /\ \A item \in Offered \ {Malformed} : item.vacancy \in Vacancies /\ item.content # None
\* all_enabled; an explicit scope names a profile.
AllEnabled == {}

NoSync ==
    [at |-> "idle", scope |-> AllEnabled, todo |-> <<>>, page |-> 0, pages |-> 0, items |-> <<>>,
     last |-> FALSE, seen |-> 0, stored |-> 0, errors |-> FALSE, limited |-> FALSE,
     intake |-> "none", writing |-> FALSE, fresh |-> <<>>, served |-> {}, lost |-> FALSE]
Tables == [rows |-> [v \in Vacancies |-> None], keys |-> {}, hits |-> {}, runs |-> {}]

SyncInit ==
    /\ db = [committed |-> Tables, written |-> Tables]
    /\ enabled = Profiles
    /\ leases = {}
    /\ sync = [s \in Syncs |-> NoSync]
    /\ started = 0 /\ patches = 0

SyncAt(s, point) == sync[s].at = point
SyncBecomes(s, record) == sync' = [sync EXCEPT ![s] = record]
InOrder(ps) == SetToSortSeq(ps, <)

-----------------------------------------------------------------------------
(* The profiles of a run.                                                  *)

\* A scope that is under way is refused with 409, one with a profile that is
\* not enabled with 422.
StartSync(s, scope) ==
    /\ SyncAt(s, "idle") /\ started < MaxRuns
    /\ scope \notin leases /\ scope \subseteq enabled
    /\ started' = started + 1
    /\ leases' = leases \cup {scope}
    /\ SyncBecomes(s, [NoSync EXCEPT !.at = "profile", !.scope = scope,
                                 !.todo = InOrder(IF scope = AllEnabled THEN enabled ELSE scope)])
    /\ UNCHANGED <<db, enabled, patches>>

ProfileEnds(record) == [record EXCEPT !.at = "profile", !.todo = Tail(@), !.items = <<>>]
\* An HHApiError, or a value that cannot be read, ends the profile, not the run.
ProfileFails(record) == [ProfileEnds(record) EXCEPT !.errors = TRUE, !.lost = TRUE]

\* The size of the query is asked first: too broad, or a failure; nothing; or some pages.
PreviewProfile(s) ==
    /\ SyncAt(s, "profile") /\ sync[s].todo # <<>> /\ ~sync[s].limited
    /\ \/ SyncBecomes(s, ProfileFails(sync[s]))
       \/ SyncBecomes(s, ProfileEnds(sync[s]))
       \/ \E pages \in 1..MaxPages :
            SyncBecomes(s, [sync[s] EXCEPT !.at = "fetch", !.page = 0, !.pages = pages])
    /\ UNCHANGED <<db, enabled, leases, started, patches>>

\* What is over the limit of the run is dropped, and reported as an error.
\* The mutant takes a run that is exactly full for one that lost nothing.
Kept(record, items) == SubSeq(items, 1, Min({Len(items), MaxSyncItems - record.seen}))
TruncatedUnreported(record, items) ==
    LET kept == Kept(record, items) IN
    [record EXCEPT !.items = kept, !.seen = @ + Len(kept), !.lost = @ \/ Len(kept) < Len(items),
                   !.limited = record.seen + Len(kept) >= MaxSyncItems]
Truncated(record, items) ==
    LET kept == Kept(record, items)
        over == Len(kept) < Len(items) IN
    [record EXCEPT !.items = kept, !.seen = @ + Len(kept), !.lost = @ \/ over,
                   !.limited = over, !.errors = @ \/ over]

FetchPage(s) ==
    /\ SyncAt(s, "fetch")
    /\ \/ SyncBecomes(s, ProfileFails(sync[s]))
       \/ \E items \in Pages, last \in BOOLEAN :
            LET r == Truncated(sync[s], items) IN
            SyncBecomes(s, [r EXCEPT !.at = "items", !.last = last \/ r.items = <<>>])
    /\ UNCHANGED <<db, enabled, leases, started, patches>>

NextPage(s) ==
    /\ SyncAt(s, "items") /\ sync[s].items = <<>>
    /\ LET r == sync[s] IN
       SyncBecomes(s, IF r.last \/ r.limited \/ r.page + 1 >= r.pages THEN ProfileEnds(r)
                  ELSE [r EXCEPT !.at = "fetch", !.page = @ + 1])
    /\ UNCHANGED <<db, enabled, leases, started, patches>>

-----------------------------------------------------------------------------
(* The items of a page.                                                    *)

\* A thread that has begun its transaction sees its own writes.
Sees(s) == IF sync[s].writing THEN db.written ELSE db.committed
Item(s) == Head(sync[s].items)
Profile(s) == Head(sync[s].todo)
Key(s) == <<Profile(s), Item(s).vacancy, Item(s).content>>
Pair(s) == <<Profile(s), Item(s).vacancy>>

\* VacancyIntakeService.intake: a key that is known changes nothing.
Intake(s) ==
    LET row == Sees(s).rows[Item(s).vacancy] IN
    CASE Key(s) \in Sees(s).keys -> "replay"
      [] OTHER -> CASE row = None -> "created"
                    [] row = Item(s).content -> "seen"
                    [] OTHER -> "updated"

\* The item is stored when its hit is in the session.
HitNoted(record, pair, hits) ==
    [record EXCEPT !.at = "items", !.items = Tail(@), !.stored = @ + 1, !.intake = "none",
                   !.served = @ \cup {pair},
                   !.fresh = IF pair \in hits THEN @ ELSE Append(@, pair)]

ReadItem(s) ==
    /\ SyncAt(s, "items") /\ sync[s].items # <<>>
    /\ IF Item(s) = Malformed
         THEN SyncBecomes(s, ProfileFails(sync[s]))
         ELSE IF Intake(s) = "replay"
                THEN SyncBecomes(s, HitNoted(sync[s], Pair(s), Sees(s).hits))
                ELSE SyncBecomes(s, [sync[s] EXCEPT !.at = "write", !.intake = Intake(s)])
    /\ UNCHANGED <<db, enabled, leases, started, patches>>

\* SQLite has one writer; the first write of a thread waits for it.
MayWrite(s) == \A t \in Syncs \ {s} : ~sync[t].writing
Flushable(s) ==
    /\ IsInjective(sync[s].fresh)
    /\ ToSet(sync[s].fresh) \cap Sees(s).hits = {}
    /\ sync[s].intake = "created" => Sees(s).rows[Item(s).vacancy] = None

WriteItem(s) ==
    /\ SyncAt(s, "write") /\ MayWrite(s) /\ Flushable(s)
    /\ LET hits == Sees(s).hits \cup ToSet(sync[s].fresh)
           stored == sync[s].intake \in {"created", "updated"} IN
       /\ db' = [db EXCEPT !.written =
                   [Sees(s) EXCEPT !.hits = hits,
                                   !.rows[Item(s).vacancy] = Item(s).content,
                                   !.keys = IF stored THEN @ \cup {Key(s)} ELSE @]]
       /\ SyncBecomes(s, HitNoted([sync[s] EXCEPT !.writing = TRUE, !.fresh = <<>>], Pair(s), hits))
    /\ UNCHANGED <<enabled, leases, started, patches>>

-----------------------------------------------------------------------------
(* The end of a run.                                                       *)

Finished(s) == SyncAt(s, "profile") /\ (sync[s].todo = <<>> \/ sync[s].limited)
Audit(record) ==
    [status |-> IF record.errors THEN "partial" ELSE "success", seen |-> record.seen,
     stored |-> record.stored, served |-> record.served, lost |-> record.lost]

\* The lease is released on every way out.
Release(s) == SyncBecomes(s, NoSync) /\ leases' = leases \ {sync[s].scope}

FinishSync(s) ==
    /\ Finished(s) /\ MayWrite(s) /\ Flushable(s)
    /\ db' = [db EXCEPT !.committed =
                [Sees(s) EXCEPT !.hits = @ \cup ToSet(sync[s].fresh),
                                !.runs = @ \cup {Audit(sync[s])}]]
    /\ Release(s)
    /\ UNCHANGED <<enabled, started, patches>>

\* Another thread writes for longer than the busy timeout, or a constraint is violated: 500.
WriteFails(s) ==
    /\ SyncAt(s, "write") \/ Finished(s)
    /\ ~MayWrite(s) \/ ~Flushable(s)
    /\ Release(s)
    /\ UNCHANGED <<db, enabled, started, patches>>

\* The companion stops.
StopSyncs ==
    /\ \E s \in Syncs : ~SyncAt(s, "idle")
    /\ sync' = [s \in Syncs |-> NoSync] /\ leases' = {}
    /\ UNCHANGED <<db, enabled, started, patches>>

PatchProfile(p) ==
    /\ patches < MaxPatches /\ patches' = patches + 1
    /\ \A s \in Syncs : ~sync[s].writing
    /\ enabled' = IF p \in enabled THEN enabled \ {p} ELSE enabled \cup {p}
    /\ UNCHANGED <<db, leases, sync, started>>

SyncStep(s) ==
    \/ \E scope \in SUBSET Profiles : StartSync(s, scope)
    \/ PreviewProfile(s) \/ FetchPage(s) \/ NextPage(s) \/ ReadItem(s) \/ WriteItem(s)
    \/ FinishSync(s) \/ WriteFails(s)

SyncNext == (\E s \in Syncs : SyncStep(s)) \/ StopSyncs \/ \E p \in Profiles : PatchProfile(p)

-----------------------------------------------------------------------------
\* A run that reports success lost nothing of what HH served, and what a run reports is in the
\* tables, whatever other runs and crashes did meanwhile; what did not report left nothing.
AuditIsTrue ==
    /\ \A run \in db.committed.runs :
         /\ run.status = "success" => ~run.lost /\ run.stored = run.seen
         /\ run.served \subseteq db.committed.hits
         /\ run.stored <= run.seen /\ run.seen <= MaxSyncItems
    /\ \A pair \in db.committed.hits :
         /\ db.committed.rows[pair[2]] # None
         /\ \E run \in db.committed.runs : pair \in run.served
=============================================================================
