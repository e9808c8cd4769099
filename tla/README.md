# VacancyPilot: TLA+ models, model checking and proofs

VacancyPilot is a Chrome MV3 extension (TypeScript: `src/src/`, `src/entrypoints/`)
that helps one person to find vacancies on hh.ru, evaluate them and track
applications, and a local companion (FastAPI and SQLite: `src/companion/app/`)
that becomes the authority in *Ops Mode*. This directory models the parts of the
two in which concurrency, failure and ordering decide whether the program is
right, checks them with TLC on small instances and proves the most important
results with TLAPS for every instance.

Paths below are relative to the repository as it is mounted, `src/`.

## 1. Inventory of the system

### 1.1 Execution model

* **Companion.** The handlers are synchronous functions that FastAPI runs in a
  thread pool, so requests interleave between any two statements. SQLAlchemy
  sessions use `autoflush=False, expire_on_commit=False` (`db/session.py`), and
  SQLite (WAL, 5 s busy timeout) starts a transaction at the first write. A
  handler therefore *reads without a transaction and then writes in one*: each
  model has one action per read that matters and one for the writing
  transaction. The coordinator is the exception: it opens with `BEGIN IMMEDIATE`,
  and each of its operations is one action. Pairing handlers are `async` and keep
  their challenges in memory.
* **Extension.** Background worker, popup, side panel, options page and content
  scripts are separate contexts that share IndexedDB (Dexie) and
  `chrome.storage`; the browser may stop each of them at any `await`.
* **Between them.** HTTP on loopback with timeouts, idempotency keys and
  revisions. The companion calls one LLM provider and the HH API.

### 1.2 Components

| Component | State | Operations | Interacts with | What makes it correct |
|---|---|---|---|---|
| Provider coordinator `analysis/coordinator.py` | `provider_executions`, `provider_attempts` | claim, reserve, release, mark repairing, finish, mark unknown | called by the analysis service | one owner per operation, attempts numbered without gap, daily ceiling |
| Analysis service `analysis/service.py` | `engine_runs`, the request's own variables | gate, cache, claim, wait, preflight, send, persist, repair, settle | coordinator, provider, receipts, engine package | results shared, settled means settled, every call accounted, every request answered |
| Provider adapter `analysis/provider.py` | none | analyze, repair, readiness, cost estimate | service | an outcome that may have happened is never reported as one that did not |
| Compiler, validators `analysis/compiler.py`, `validators.py` | none (pure) | compile the input, validate the output | service, receipts | the content that is sent is the content that was reviewed |
| Application factory `api/r5_application_factory.py` | `application_sessions`, `_items` | preview, create, get, execute | analysis service, intake | one analyst per item, reviewed plan kept, queue completes |
| Application workflow `domain/workflow.py`, `api/application_ops.py` | `applications`, `application_events` | create, transition, next action, event | letters | event log and row agree, no answer without confirmation |
| Follow-ups `api/application_ops.py` | `followups` | create, update, generate | workflow | one per idempotency key, revision-checked |
| Cover letters `api/letters.py`, `domain/repositories.py` | `cover_letters`, `letter_versions` | generate, import, edit, final, sent | workflow | row agrees with its versions, a sent letter is closed |
| Vacancy intake `domain/vacancy_intake.py`, `api/vacancies.py` | `vacancies`, `vacancy_snapshots` | intake, hydrate, list, triage | outbox, HH sync | replays change nothing, history append-only |
| HH vacancy sync `api/hh.py` | lease in memory, `hh_sync_runs`, hits | profiles, sync | intake | one sync per scope, the audit row tells what is stored |
| HH account `hh/oauth.py` | tokens in memory and keyring, pending states | start, callback, refresh, disconnect, restore | HH client | a refresh token is spent once, a disconnect forgets |
| Preview receipts `security/receipts.py` | none (HMAC) | sign, verify | service, factory | only what was reviewed is sent, for 5 minutes |
| Pairing, tokens, limits `security/pairing.py`, `rate_limit.py`, `auth.py` | challenges and windows in memory, token hash in `settings` | start, confirm, recover, revoke, verify | every protected route | single use, bounded attempts, one current token |
| Migration `api/migration.py`, `services/migration-service.ts` | checkpoints, authority | preview, import, resume, switch | operating mode | authority switches after the import it was made for |
| Engine package `engine/` | directory of the installed package | load, validate, install, index | analysis service | an installed package is whole, also after a crash |
| Projection, analytics `api/ops_projection.py`, `r5_analytics.py` | none (queries) | read | all tables | counts agree with the tables |
| HTTP shell `main.py`, `middleware.py`, `errors.py` | none | errors, limits, request ids | all | stable error codes |
| Outbox `services/outbox-service.ts`, `db/ops-repository.ts` | Dexie `syncOutbox` | enqueue, drain, retry, settle | intake | delivered or set aside, never dropped, never doubled |
| Intake mirror `services/ops-intake.ts` | `opsCache` | build payload, key, deliver, cache | outbox, intake | equal key means equal content |
| Operating mode `services/operating-mode.ts`, `CompanionSettings.tsx` | settings, authority row | resolve mode, toggle, repair | all of the extension | the companion is canonical only after an import |
| Pairing (extension) `services/companion-service.ts`, `companion-auth-bridge.ts` | stored token, token and status cache of each page | pair, recover, probe, disconnect | companion, settings | a forgotten token stays forgotten |
| Settings, Labs, reset `db/settings-bridge.ts`, `services/labs-control.ts`, `reset-guard.ts`, `delete-all.ts` | settings object, counter of writes, epoch | load, save, gate, guard, delete | every writer | nothing survives a reset, a gate that closed stays closed |
| Standalone AI `services/ai-budget.ts`, `vacancy-analysis-ai.ts`, `ai-cache.ts` | Dexie `aiExecution`, `aiBudget`, cache | look up, reserve, complete, mark unknown, store | provider | as the companion coordinator |
| Request plan `services/ai-plan.ts`, `redaction.ts`, `ai-input-builders.ts` | settings, the reviewed plan | build, preview, hash, send | AI, letter studio | only what was reviewed leaves the browser |
| Output validation `services/ai-validation.ts` | none (pure) | coerce, replace, normalise | AI, panel | what is shown is the answer or the fallback |
| Scoring `services/scoring.ts`, `score-recompute.ts` | scores | score, cap, recompute | UI | caps dominate, better never scores less |
| Letter studio `components/CoverLetterStudio.tsx` | draft, gate, Dexie letters | edit, generate, review, save | AI, profiles | no final letter breaks its constraints |
| Panel context `entrypoints/background.ts`, `sidepanel/App.tsx` | bindings, contexts of tabs, generation | announce, bind, refresh, reset | pages | late answers are dropped |
| Badges `entrypoints/*.content.ts`, `services/search-*.ts` | generations, badge states, visits | render, act, record, clean up | page, background | a render that is late changes nothing |
| Tracker, guided apply `services/tracker.ts`, `guided-apply-mutation.ts`, `hr-timeline-sync.ts` | Dexie jobs, applications, budget of Labs | save, move, sync, apply | UI | nothing is "applied" unless the user said so |
| Profiles `components/ProfileManager.tsx`, `ResumeManager.tsx` | profiles, resumes, references to them | save, select, delete | letters, tracker | references resolve at every step of a deletion |
| Views `entrypoints/*/App.tsx`, `components/` | as the components above | | all | |

### 1.3 Hard behaviours

* decisions on rows read before the transaction that writes (all companion
  handlers but the coordinator);
* calls that may have happened: provider timeouts, lost HTTP acknowledgements;
* threads, processes and panels that die between two commits;
* retries that race with what they retry; keys derived from content;
* bounded resources: daily attempts, budgets of Labs;
* several contexts that process one queue, or save one object as a whole;
* a row that is read, awaited over and put back, without a revision;
* answers that arrive after a navigation, a newer request or a reset.

`PROJECT.json` lists each at its line under `hazards`, with the properties that
watch it or the reason why none does.

## 2. Modules

| Module | Models | Composed from |
|---|---|---|
| `ProviderCoordinator` | the two tables and their transactions, callers free to use their tokens in any order | |
| `SingleFlight` | abstract promise of coordination (ADR-008): one holder, numbered calls, final verdicts (an unknown one may become a failure where `UnknownIsFinal` is false) | |
| `AnalysisService` | `analyze` by concurrent threads | extends `ProviderCoordinator`, implements `SingleFlight` |
| `ApplicationFactory` | one reviewed batch, confirmed and executed by concurrent clients | takes `analyze` as `AnalysisService` shows it |
| `ApplicationWorkflow` | applications of one vacancy and their event log | |
| `CoverLetters` | letters of one application and their versions | |
| `FollowUps` | follow-ups of one application | |
| `VacancyIntake` | row and snapshots of one vacancy, and the three steps of an intake request | |
| `Outbox` | entries, concurrent drains, abandoned requests | extends `VacancyIntake` |
| `StandaloneAI` | panels that pursue reviewed plans through cache, ledger and provider | implements `SingleFlight` |
| `ProviderPlan` | what a request contains, from the sources to the message that is sent | |
| `AnalysisOutput` | what becomes of a provider's answer | |
| `Scoring` | the rule-based score and its recomputation | |
| `LetterStudio` | draft, constraints, review gate and saves of the cover letter studio | |
| `PageContext` | how page, popup, worker and panel agree on a vacancy | |
| `PageBadges` | renders, quick actions, visits and resets on HH pages | |
| `LocalTracker` | tracked jobs under writers that read, wait and put back | |
| `Authority` | intent, authority and the first migration | |
| `Pairing` | one stored token, the client objects of several pages, the companion's token | |
| `Profiles` | profiles, resumes and the rows that refer to them | |
| `SettingsStore` | settings saved as a whole, the gate of Labs, the write barrier, the deletions | |
| `EnginePackage` | the installer, the loads beside it, the index | |
| `HHSync` | concurrent syncs over one transaction of SQLite | |
| `HHOAuth` | tokens of the HH account in memory, keyring and at HH | |
| `*Proofs` | theorems: each about the module it is named after; `AnalysisServiceProofs` also about `Outbox` and `VacancyIntake`, `AuthorityProofs` also about `LocalTracker`, `PageBadges` and `Scoring`, `RecordsProofs` about `ApplicationWorkflow`, `CoverLetters` and `FollowUps`, `ExtensionProofs` about `PageContext`, `Pairing`, `SettingsStore`, `LetterStudio` and `Profiles`, `IntegrationsProofs` about `HHOAuth`, `EnginePackage` and `HHSync`, `StandaloneProofs` about `StandaloneAI`, `ProviderPlan` and `AnalysisOutput` | extend them |
| `MC*` | constants, symmetry and initial states of the TLC runs; `MCCompanion`, `MCRecords`, `MCBatches`, `MCStandalone`, `MCExtension`, `MCLiveness` put parts side by side | |

### ProviderCoordinator

`execution` is `provider_executions` (state, owner token, attempt count),
`attempts` is `provider_attempts`, `minted` the owner tokens that were handed out.
Actions carry the names of the methods: `ClaimOperation`,
`ReserveAndMarkDispatching` with its refusal `DenyBudget`,
`ReleaseBeforeDispatch`, `MarkRepairing`, `Finish`, `MarkOutcomeUnknown`. Each is
one `BEGIN IMMEDIATE` transaction. The specification lets every caller use its
tokens in any order, which is more than the service does; what holds here holds
for every present and future caller.

### AnalysisService

A request record has a `pc` that names the next statement with an effect on
shared state. The actions follow the source: `GateRefuses`/`GatePasses`,
`CacheHit`/`CacheMiss`, `ClaimGranted` and the three ways a claim can find the
row, `WaitObserves`/`WaitTimesOut` (the bounded observation of another owner),
preflight, reservation, `Send`, the answers of the provider (success, invalid,
error, unknown), the committed run, the bounded repair, settlement. `Abort` is a
thread that dies: process exit, `SQLITE_BUSY`, any exception nobody catches.
Whether an outcome is unknown is asked twice, of different texts: an error with a
status whose text says NETWORK marks the row `outcome_unknown` (`service.py:612-619`,
`1174`), but is stored as PROVIDER_ERROR (`1149-1165`), so that `analyze` goes on to
`finish` (`318`) and the row becomes `failed` (`NetworkUnknown`). `SingleFlight`
allows that step, `PutDown`, to the service and denies it to the panels (`UnknownIsFinal`).
Abstracted: the text of prompts and answers, costs, the key's derivation (an
operation key is a model value, `PlanOf` the plan it was built from).

### ApplicationFactory

`session` and `item` are the two tables, `vacancy` the version of each vacancy
now, `client` a client's program point in `create_session` or `execute_session`.
`execute_session` re-reads the candidates, claims each with a guarded update,
reads the vacancy, analyses and settles; the last one to finish completes the
session. `Reimport` is an intake of the vacancy by somebody else, `Die` a
process that ends. `returned` says of a vacancy that it came back to the content of the
plan after it had left it. `requeued` is the row the ORM session still holds from its own
last write, which decides the completion query (`expire_on_commit=False`).
The items are read a moment before the plan check; `ExecuteBegins` takes both at
once because the guarded claim makes an older reading harmless.

### ApplicationWorkflow, CoverLetters, FollowUps

`apps` are the rows for one vacancy, `events` the append-only log, `sent` whether
a sent letter exists, `request` what each writer has read. Transition, next
action and note are a reading and a writing action; `transition_application`
looks at the number of rows its guarded update has changed, `update_application`
does not. Statuses are the strings of `APPLICATION_STATUSES` and
`ALLOWED_TRANSITIONS`.

`letters` are the rows of one application with their append-only `versions`;
`newest` is the letter that `ORDER BY created_at DESC` returns, which with a clock
of one second may be any of those made in the same second. Each route is a start
(`StartEdit`, `StartSent`), the reads of `_append`, and one transaction
(`InsertLetter`, `UpdateLetter`) that computes the columns from the row *as read*.
Concurrent first requests may create two letters: the code allows it, and the
properties hold for each of them.

`followups` are the rows with their idempotency key, `logged` counts the events of
each. `generate_followup` logs without looking at the number of rows it updated;
`update_followup` looks. Bodies, due dates and drafts are data.

### VacancyIntake and Outbox

An intake reads by key (`Handle`), reads the row and its newest snapshot
(`Decide`) and writes in one transaction (`Commit`). `UpdatedRow` writes what the
ORM writes: the columns that differ from the row *it has read*, and the revision
it has read plus one. `Content` is the normalized projection and `KeyOf` the
32-bit hash of the payload before normalization, so both equal content under two
keys and a collision are in the instance. `captured_at` counts seconds and a
random id orders snapshots of one second: a new snapshot may sort anywhere.
`Outbox` adds the Dexie entries and one drain per open panel
(`OpsStatusIndicator.tsx` polls in popup and side panel). `GiveUp` and
`ClosePanel` leave the request running in a slot of its own.

### StandaloneAI, ProviderPlan, AnalysisOutput, Scoring

The evaluation of a vacancy without a companion. In `StandaloneAI` a panel's
`request` walks from review through staleness check, cache, reservation (one
Dexie transaction over execution and budget) and provider to settlement and the
two writes of the cache; panels close, the day changes, and the three deletions
run beside it. It maps to `SingleFlight` with the panel as caller.
`ProviderPlan` follows the same request as data: which fields a source has and
what occurs in them (an address, a link, a token), through the two functions that
redact, to the message. `AnalysisOutput` coerces a field as JSON type and value, with what
`Number()` makes of it: a blank text is 0, and passes for a score the provider gave.
A flag without a code is kept as `low_signal`. The mock provider's formula is in it. `Scoring` computes in integers what the code
computes with `Math.round`; word matching is its input (the percentage of
overlap, the number of matched skills). A recomputation passes no company (`NoCompany`), so
nothing that is stored heeds the blacklist; that branch is modelled with the rest of `scoreJob`.

### LetterStudio, PageContext, PageBadges, LocalTracker

`studio` is the React state of one studio, with the saves that are under way;
texts are sets of what occurs in them, so the checks of a draft are set
operations. The emoji check is what its regular expression does: it has the `g`
flag and keeps its `lastIndex`.
In `PageContext`, `detections` are the refreshes of the panel with the answers
they wait for; the worker may be stopped and loses its generation with it.
`PageBadges` has `renders` with their generation and what they have read, so far;
`asOf` says how old an answer is. The two modules share no state: what a page
announces is one, what it draws the other.
`LocalTracker` has one `task` per writer that has read and not yet put: save,
move, quick action, messages, guided apply, change of profile.

### Authority, Pairing, Profiles, SettingsStore

`Authority` has the two stores that decide the mode (`intent` in
`chrome.storage`, `authority` in Dexie), the migration's steps as one action per
`await`, and readers that repair a contradiction between the two they have read
one after the other. `imported` is what the companion has committed. The barrier of a
deletion (`clearing`) is a variable of the page that deletes: it holds up the importer when
it is the importer's own, and a deletion by another page (`AnotherPageClears`) comes between
any two of its writes; `overtaken` records the one place where that matters.
`Pairing` has, for each page, the token in its client object, its shared probe
and its status cache, which is how a stale token comes back. `Profiles` deletes
put by put; `late` and `takenAlong` are history variables that name the rows
`ReferencesResolve` excepts. `SettingsStore` has the whole object each section
has loaded (`shown`), the handlers that are under way, and the barrier of each
page; `foreign` and `killed` are history variables.

### EnginePackage, HHSync, HHOAuth

What the companion takes in from outside. In `EnginePackage`, `dirs` are the
directories `.staging`, `current` and `.previous`, each a function from the files
that are in it to their content; the installer is one action per directory
operation, each of which may fail, and `Interrupted` ends the process with a copy
or a removal half done. A digest is modelled as the content it is the digest of. The manifest of the
package is tied to nothing: for a V4 package the version of the source manifest is taken from
it and then compared with it (`package.py:229-237`, `836`, `901`). A load
takes one step per file, of whatever directory is current by then. Two commands
at once, which would share `.staging`, are excluded.
In `HHSync`, `db.committed` are the tables and `db.written` the tables as the one
open transaction sees them; SQLite has one writer, so one such copy is enough.
`fresh` are the hits in the session that no flush has written yet. Whatever HH
serves is a page out of `Pages`, the same item on two pages included.
In `HHOAuth`, tokens are numbers in the order HH issues them, `spent` is HH's
memory of refresh tokens it has answered, `replaced` is a history variable. `Disconnect` clears memory and keyring at once: a callback between the
two writes ends in a state that the other orders reach too.

## 3. Runs

Parts that share no variable are checked in one run: an initial state chooses the
part, so that the state spaces add up instead of multiplying. Where a component
has several invariants of one theme, one definition ending in `OnRecord` is their
conjunction, type correctness included, and is what the run checks.

| Run | Question | Bounds |
|---|---|---|
| `service` | is `analyze` single-flight and accounted, and are settled operations never sent again, also when threads die, and does it implement `SingleFlight`; does the audit row of a sync tell the truth? | 3 requests (owner, duplicate, late retry), 2 keys of one plan, 2 days of limit 2: the second key's call refuses the repair of the first on the day it is made and not on the next; sync: 2 syncs of 2 profiles, 1 vacancy with 2 contents, 2 pages of up to 2 items, limit 2, 1 change of a profile |
| `liveness` | is everybody answered, does every operation leave flight, and has every capture exactly its effect and settles? | service: 2 requests, one may die, 1 operation, 2 days, limits 1 and 2; outbox: 2 drains, 2 captures out of 4 (equal content with two keys, two edits that collide), 1 lost reply or closed panel |
| `factory` | one analyst per item, settled once, session completed exactly when it should, every execution returns; is a refresh token of HH spent once; is the active package kept, whole and loaded as one? | batch: 2 clients, 2 vacancies with 2 versions, of which one may return to its first and the other be archived, one client may die; account: 2 threads, 2 authorizations, 3 tokens; package: 2 versions, one of them also with another manifest for the same files, and a broken one, 2 files, 3 installations, 1 load |
| `records` | do logs and rows of the companion stay one history; does the ledger keep numbers, ceiling and owners in *any* order of transactions? | workflow: 2 writers, 5 of the statuses (one path to an answer, one terminal, one shortcut), 4 events; letters: 2 editors, 2 texts, 2 letters, 4 versions (draft, source, sent and one too many); follow-ups: 1 key, 2 rows by a race, revision 3; ledger: 3 callers, 2 operations, 2 days, limits 1 and 2 |
| `standalone` | is only what was reviewed sent and paid once, is every result within reach, and does the score respect its caps and order? | plan: every privacy setting, 32 sources; panels: 2 panels, 2 plans of one input, limit 2 with one call of before the ledger, 1 disturbance (closed panel, new day, deletion); output: every answer with up to two fields out of order; scoring: 4 profiles (one with weights that are not modest, one with the highest that are), 4 vacancies, every field at and around its boundaries, one edit |
| `extension` | do the extension's surfaces stand late answers, overlapping writers, resets and closed pages, and is the companion canonical only after an import? | letters: 1 studio, 2 vacancies, 1 letter, 2 versions, 2 saves under way; page: 1 tab, 2 vacancies, 1 navigation, 2 refreshes, 1 reset; badges: 1 card, 3 renders (two overlap, a third is newer); tracker: 1 vacancy, 2 tasks at once; pairing: 2 pages, 2 tokens, 1 toggle; profiles: 2 profiles, 2 resumes, 2 clicks; settings: 2 pages, 3 presses; authority: 2 imports, 1 toggle from either position, 1 reader, 1 local change or deletion |
| `attempt_release` | *violated*: every call that was sent is counted | 2 requests, 1 operation |
| `plan_kept` | *violated*: a session keeps the plan that was reviewed | a vacancy that changes and changes back |
| `sent_letter` | *violated*: a sent letter cannot be changed | 2 editors, 1 text, 2 letters, 5 versions |
| `genuine_update` | *violated*: a genuine update appends a snapshot | 1 drain, 3 captures |
| `unsafe_reset` | *violated*: an unsafe execution blocks a reset | 2 panels, 1 deletion |
| `kill_switch` | *violated*: the kill switch suppresses Labs | 2 pages, 2 presses |

The instances have two of each actor because each hazard in the list needs a
reader and a writer that overtakes it; where a third changes the picture (a retry
behind owner and duplicate, the third render) there are three. `MCExtension`
fixes what a part that is not chosen starts with, and starts the profiles with all
references in place and the settings with Labs switched on, since from there the
deletions and the switch have something to break.

`MayReturn` and `MayArchive` bound which vacancies change back and which are archived, in
`factory` one each. What the documentation promises of the plan, `PlanIsKept`, is violated (run
`plan_kept`); what the code keeps of it, `PlanIsKeptUnlessReturned`, is checked in `factory`
with a vacancy that does return: other content than was reviewed is sent only of a vacancy
that has been through other content and back.

`CHECK_DEADLOCK FALSE` stands where the system comes to rest: all requests
answered, all entries settled, every bound of clicks or events reached.

### What the violations say

Each compares the code with a sentence of the repository; `PROJECT.json` quotes it.

1. *Attempt release* (`coordinator.py:372`): after a denied repair the operation
   is claimable; a second claim that fails its preflight releases the newest
   attempt, which is the one that was sent, and the day counts one call too few.
2. *Plan kept* (`r5_application_factory.py:512`): the plan is compared once at the
   start, and each item is compiled again at its turn.
3. *Sent letter* (`repositories.py:322`): `add_version` looks for a sent version
   before its transaction, and the update compares only the revision. A request names a
   revision without a letter; where two first writes made two letters, one that names
   the revision of the first is handed the second, which is sent at that very revision
   in between, and the update matches. The first letter is safe, since every named
   revision is one it has had; that is what `LettersOnRecord` says, and the attempt to
   prove it of every letter is how this was found. It takes five versions, one more
   than `records` has.
4. *Genuine update* (`vacancy_intake.py:212`): content that returns to an earlier
   value reuses its key and is taken for a replay.
5. *Unsafe reset* (`delete-all.ts:107`): the check and the transaction that clears
   are two awaits, and the barrier between them belongs to one page only.
6. *Kill switch* (`settings-bridge.ts:170`): a page that loaded the settings before
   the switch was saved takes it back with its own save.

### Disagreements the models show and no run repeats

The models contain these behaviours; they were met while modelling, and the
passing properties are worded around them.

* *Durable `outcome_unknown`* (`docs/ARCHITECTURE.md:145`, `ADR-008:38`): an error whose
  text says NETWORK is marked so and then put down as `failed` (`service.py:318`); see
  `AnalysisService` above. It is not called again either way.
* *Blacklist → skip, at most 40 points* (`docs/Техническое заданиеV.1.md:1428`): the stored score
  is computed without the company (`score-recompute.ts:70`).
* *A score the provider gave* (`ai-validation.ts:450`): an empty `fitScore` is read as 0.
* *Process-wide write barrier* (`reset-guard.ts:2`): each page has its own; a deletion by another page between
  the last two writes of a migration leaves the companion canonical without a checkpoint.
* *The source manifest names the package's version* (`package.py:901`): for a V4 package
  the check compares the version with itself, and a load may take the manifest of
  another package with the same files.
* *Resumable queue* (`db/models.py:491`): `ANALYZING` is committed before the call,
  and nothing picks such an item up after a death.
* *Stale writes* and *one application per vacancy*
  (`AOPS13_SECURITY_REVIEW.md:10-11`): `update_application` does not look at the
  number of rows it changed and answers 200 with an event in the log;
  `create_application` finds and then inserts without a unique constraint.
* *Prompted answers* (`ai-provider-openai.ts:128`, `ai-validation.ts:474`): the
  prompt's "Return JSON" names no `confidence`, and an answer without one counts as
  wrong, so that an answer in the form that was asked for is replaced by the
  fallback.
* *Saving keeps the status* (`tracker.ts:205`): true of one writer, not of a save that
  overlaps with a move.
* *One vacancy in the panel* (`background.ts:273`, "A short reload race is not
  permission to reuse an old vacancy"): page and job are read one after the other;
  a navigation in between shows the job of one vacancy under the heading of another
  until the next refresh.
* *Deleted data stay off pages* (`FIX4_DATA_SECURITY_ACCEPTANCE.md:62`): a render
  or a visit that had read badge states before a deletion draws, and stores, them
  afterwards (`search.content.ts:79`).
* *Dexie canonical until step 8* (`migration-service.ts:16`): a local write between the
  capture of the snapshot and the switch is in no import.
* *Only the refused token is deleted* (`companion-service.ts:131`): a refused probe
  deletes whatever token is stored by then.
* *A sent letter cannot be changed* (`CoverLetterStudio.tsx:1137`): a save that was
  under way when the letter was marked as sent puts its own text back.
* *An index of the validated package* (`index.py:18` and `:39`): `service.py:520` reads the
  files again, by path and without digests, and the package may have been replaced.
  `PackageOnRecord` therefore says that each indexed text was validated, not of which package.
* *A missing file is an error* (`package.py:761`): one that vanishes between the listing
  and its turn is passed over, and the load is valid without it.
* *Intermediate flushes remain valid* (`hh.py:546`): a vacancy that ends one page and
  starts the next gets two hits, since nothing flushes the first before the second is
  looked for; the next flush violates the unique constraint and the whole run is lost.
  That is why `AuditIsTrue` speaks of what was reported and not of what was fetched.
* *Refresh only after expiry* (`AOPS11_RUNTIME_CONTRACT.md:20`): the callback writes the
  keyring before the memory and holds no lock, so another thread refreshes a token that
  has just been issued.
* *A disconnect clears the tokens* (`AOPS11_RUNTIME_CONTRACT.md:8`): a callback that has
  consumed its state stores its tokens after a disconnect.

### Fairness

* `liveness`, service: weak fairness of `Work(r)` for every request: a thread runs on
  unless it dies. `Abort` is not fair and not forced; the wait for another owner
  is bounded in the source and ends by `WaitTimesOut`.
* `liveness`, outbox: a panel that stays open polls every 60 s (`StartDrain`), posts, gets an
  answer and settles; backoffs end. `GiveUp`, `ClosePanel` and abandoned requests
  are not fair. Losses are bounded by `MaxLost`: with unbounded losses nothing is
  delivered, as in reality. The two parts run side by side; where one runs, the other
  rests with none of its fair steps enabled.
* `factory`: weak fairness of `Run(c)`: a handler that started ends. Nothing forces
  a client to start.
* The syncs beside the service, account and packages beside the factory, `records`,
  `standalone` and `extension` state safety only: every part there waits for a user or for HH, and a page may be closed
  at any `await`, so nothing is promised to happen.

## 4. Proofs

`ProviderCoordinatorProofs` proves, for every number of operations, callers, days
and limits, from `CoordinatorAssumptions` alone: type correctness,
`AttemptsNumbered`, `DispatchIsCounted`, `BudgetCeiling`, `OwnershipNotStolen`.
Each invariant is preserved by an arbitrary transaction; `RowAfter` and
`CountsNeverFall` say what a transaction does to a row, and the ceiling follows
from a cardinality argument (`FewerWithinBudget`): the transaction counts and
inserts at once, so the count it compared is the count it increases by one.

`AnalysisServiceProofs` first shows that each step of the service is one
transaction or leaves the tables alone (`StepsAreTransactions`), so
`ServiceUsesCoordinator` carries all coordinator theorems over. The service's own
results need the strengthening

    ServiceInv == /\ ServiceTypeOK
                  /\ \A r : Stands(r) /\ CallsNewest(r) /\ HoldsRun(r)
                  /\ RunsNumbered /\ SuccessIsFinal
                  /\ OneSuccessPerOperation /\ SettledRunCommitted

`Stands` ties the program point of a request to the row it owns (`SingleOwner` is
not inductive without it), `CallsNewest` says that the attempt in hand is the
newest of its operation, `HoldsRun` that a run a request is about to settle is
committed, `RunsNumbered` and `SuccessIsFinal` that runs carry attempt numbers
and none follows a success. From it: type correctness, single owner, settled runs
are committed, one success per operation, settled operations never reopen (but for
`PutDown`: an unknown outcome may become a failure, by its owner), and
that every step of the service is a step of `SingleFlight` or a stutter under the
mapping of the instance in `AnalysisService`.

`SendsAgreeWithReplies` (`SendsMatchReply`) adds `Counts(r)`: before the first call
nothing was sent for the request, between that and the repair's at most one call, never
more than two; a request that asks for a repair is not repairing yet; and an answer
that says nothing was sent is only given at the points before the first call. The one
answer that could mislead is the denied repair: it carries the run of the first call,
which is committed (`HoldsRun`) and so is not `NoRun` (`NoRunAssumption`).

The same module proves what `liveness` checks of the captures that the extension delivers to
the companion, from `OutboxInv`. What carries it is that an answer is true when the companion
gives it and stays true (`PostsInv`): "stored" and "duplicate" are of a key that has
a snapshot and a conflict of one that has another content, the history only grows (`StoredGrows`)
and so the late answer to a request that a drain has abandoned or a closed panel has left behind is
as good as the one in time. A drain is at the entries it has listed and has
posted the first that is left (`DrainsInv`). A new snapshot may sort anywhere among those
of its second, so the history is spoken of as the set of its elements
(`InsertedElements`).

* `CapturesAreDelivered` (`OutboxOnRecord`): an entry is settled on such an answer only.
* `HistoryIsKept` (`HistoryOnRecord`): the transaction refuses a key that has a snapshot, and
  the columns it writes are those of its capture or remain (`WritesKeep`).

`ApplicationFactoryProofs` proves the safety properties of the batch from

    FactoryInv == /\ FactoryTypeOK
                  /\ \A c \in Clients : HoldsItem(c) /\ OutcomeOnRecord(c)
                  /\ NothingQueued
                  /\ OneAnalystPerItem /\ ReadyIsAnalysed /\ CompletedIsSettled
                  /\ SomeoneCloses

`HoldsItem` says that a client past its claim has an item in its queue,
`OutcomeOnRecord` that an outcome it is about to write was given to that item, and
`SomeoneCloses` that while a session with settled items is not completed, somebody
is left who will look at them without a row of its own in the way (or has died);
`LastOneCompletes` is a state in which nobody is left, so it follows. The steps
are of three kinds, each with a lemma: those that touch no item (`QuietStep`),
those of the work on one item (`WorkStep`) and its settlement (`SettleStep`).
`PlanKept` (`PlanIsKeptUnlessReturned`) adds `PlanInv`: of every vacancy that never came
back to the reviewed content (`Steady`), a client in the loop holds receipts for that
content, and nothing else was ever sent.

`RecordsProofs` proves what `records` checks of three tables written by handlers that
read first and write later. The common argument: a request that waits for its write
carries the row it has read, and *as long as the revision is the one it has read, the
row is* (rows change only by a higher revision), so that the guarded update writes what
was decided on the current row.

* `WorkflowIsKept` (`WorkflowOnRecord`), from `WorkflowInv`: every event belongs to an
  application (`EventsAreOwned`); a key tells its intent, and the revision in a
  transition's key is below that of the application (`KeysTellIntent`), which is why a
  replayed key is never written twice; `Sound` is the common argument for a transition.
* `LettersAreKept` (`LettersOnRecord`), from `LettersInv`: `newest` names a letter as soon
  as there is one, and `KnowsOfLetter` is the common argument for the first letter,
  with the revision the request names bounded by the one it has read. For the second
  letter it is false: see `sent_letter` above.
* `FollowUpsAreKept` (`FollowUpsOnRecord`, an action property in it), from `FollowUpsInv`:
  one row per key, the status "sent" only with a time, every revision logged, and
  `KnowsOfFollowUp`.

`IntegrationsProofs` proves three results of what the companion takes in.

* `RefreshTokensAreSpentOnce`: the refresh holds the lock
  (`RefreshHoldsLock`), the bundle in the keyring was not replaced
  (`BundleIsCurrent`), and an answer that waits to be stored differs from every
  token in the keyring or on its way (`RefreshedIsNew`, `ExchangedIsNew`). The last is
  what makes callbacks, which do not take the lock, harmless to this property.
* `PackagesAreKept` (`PackageOnRecord`), from `PackageInv`. Of the installer: `current` is the
  active package or not there, and then `.previous` holds it (`Standing`); from the
  validation on `.staging` holds the source, and what each step assumes of
  the directories is so (`UnderWay`). Of a load: what it has read was part of a valid
  package, it reads in the order of the source (`ReadInOrder`), and unless it has
  failed every part read is the one its manifest and checksums name (`Agrees`). So a load that
  did not fail read the files and instructions of one package, and the manifest of one with
  the same files, which may be another.
* `SyncReportsTruly` (`AuditIsTrue`), from `SyncInv`. Of each request: what it has seen is
  stored, still in its hands, or reported as an error (`Counted`), and what it has served has a
  row and a hit, in the tables it sees or waiting in its session (`NotedIn`). Of the
  open transaction: there is one (`OneWriter`), and it only adds to what is committed
  (`Adds`), so that a request that does not write may read the one for the other; its
  hits are its own request's, so that they reach the tables together with the run that
  reports them.

`StandaloneProofs` proves five results of the evaluation without a companion.

* Of the panels, three from one invariant, `PanelsInv`, which has to speak of deletions,
  since a deletion may wipe the ledger under a request that still runs. `HoldsRow`:
  a request reserved since the last wipe owns its row, one reserved before has left it in
  the ledger that was wiped (`past`). `CallsOnce`, `NoSharedCall`, `CallsArePaid`: a call is
  made once for its operation and paid for first. `BudgetIsKept`: rows of the budget and
  calls of an older version stay within the limit. `Stores`, `RowsAreKept`: a result that is not
  stored is in no row, and a row without its result is excused by the user's deletion. From it
  `WithinBudgetAndReviewed` (`StandaloneOnRecord`; `SpentWasPaid` maps calls injectively to paid
  rows), `CompletedStaysReachable` (`CompletedResultIsReachable`) and
  `PanelsAreSingleFlight`: a step of the ledger moves holder and verdict of one
  operation (`OneRowMapped`), everything else, a wipe too, is a stutter, because a
  flight is named by its operation and the wipe it follows.
* `ReviewedIsSent` (`OnlyReviewedIsSent`): preview and messages are both the set of fields that
  are permitted and hold something (`Sendable`; `ShownOfPlan` for the one, `MessagesOfPlan`
  for the other), and the hash keeps the settings of the review (`PlanInv`).
* `AnswersAreShownOrReplaced` (`ShownIsAnswerOrFallback`): an answer in order
  passes the normalisation unchanged, where a blank text is in order as the number 0, and so does
  the fallback (`FallbackStays`). That
  the verdicts of the mock keep to their bands for any number of skills rests on bounds
  of a rounded quotient (`Ratio45Bounds`).

`AuthorityProofs` and `ExtensionProofs` prove properties of nine parts of the extension, one of
each and two of the score:

* `OpsIsImported` of the operating mode: a migration that is past its request has a
  committed import, and one that is about to switch has its checkpoint saved,
  unless a deletion took it away; then either the page's own barrier is up and refuses
  the switch, or the deletion was another page's and there is no checkpoint (`WasOvertaken`).
* `OnlyTheUserApplies` of the tracker: a task waits between reading a row and putting it
  back, so what it holds has to be declared as well as what is stored (`TasksDeclared`, over the
  lists of steps a task can have left). A task with the guided step or a
  confirmed move is of a vacancy the user confirmed, a deletion takes no declaration back,
  and every other writer repeats a status it has read.
* `BadgesStayFresh` (`BadgesNeverGoBack`, an action property) of the pages: what the newest
  render has read is never older than the badges that are shown (`NewestIsFresh`),
  because it began when they had been put, and no other render puts one.
* `VerdictsHeedFlags` (`VerdictHeedsFlags`) of the score: every component is a whole number of
  points, also where it divides by a number from the profile or the vacancy; the total is the
  least of it and the caps (`CapsHold`), which exists, and each cap of a mismatch is below
  the lowest score that says "apply". `ScoringInv` says that a stored score is that of some
  vacancy and some profile, perhaps of an earlier parse or one deleted since.
* `BetterVacanciesScoreNoLess` (`BetterNeverScoresLess`, an action property) of the score: while
  its profile exists a stored score is that of the vacancy as it is (`ScoreIsCurrent`), so
  that old and new score are those of two vacancies of which one is better. Each
  component grows, since rounded quotients and shares do (`RoundGrows`, `SharesInOrder`), with
  one exception: an offer just below the wish may get more than one that reaches it in its
  upper end. It also raises the flag that costs 15 points, which makes up for that if the
  weight of the salary is at most 51. Every flag that costs or caps is raised by one component
  and never by the better vacancy alone, so that less is taken off, fewer caps apply (`CapsGrow`),
  and the verdict follows the points (`VerdictGrows`). The property speaks of profiles
  that are `Modest`: 51 at most, and no weight negative. The code bounds no weight, and for others
  the order does not hold: with 52, an offer of up to 995 where 1000 is wanted gets 52 - 15 = 37
  points, and one that reaches the wish in its upper end gets 36. The default weights are
  modest; `scoringWeights` may name any, but the form of the extension only
  passes on what the profile has (`ProfileManager.tsx:132`).
* `ResetIsComplete` of the settings: past the barrier no handler of the page
  is on its way to a store (`BarrierHolds`), and what was cleared so far stays so
  (`StaysCleared`).
* `ForgottenTokensStay` of the pairing: a token about to be saved was never stored
  before, and whoever still holds a removed one was told that the client was
  reset (`HoldersAreStale`), so that it does not inject it.
* `StaleAnswersDropped` of the page context: a request whose generation is the
  worker's was read after the last reset (`TellsItsEra`), so that the comparison of
  generations is enough, also after the worker was stopped.
* `FinalLettersKeepConstraints` of the studio: every change ends in a render, which checks the
  text it shows (`Checked`, `RenderedIsChecked`), so what the buttons ask is never about an
  earlier text; the exception for emoji in the property is the memory of the pattern.
* `LinksResolve` of profiles and resumes: what a deletion has cleared from a table stays
  cleared, unless a writer that it overtook puts the reference back (`Cleared`); a put
  that was not overtaken names only what no deletion is after, or repeats the row
  (`PutIsSound`), whoever makes it: the form, which knows the profile of the resume it
  saves (`SubmitKnowsOwner`), the panel or another deletion's sweep.

The assumptions are those of the modules (`CoordinatorAssumptions`, `ServiceAssumptions`,
`NoRunAssumption`, `FactoryAssumptions`, `WorkflowAssumptions`, `LettersAssumptions`,
`FollowUpsAssumptions`, `PairingAssumption`, `OAuthAssumption`, `StandaloneAssumption`,
`SyncAssumption`, `AnswersAssumption`, `ProfilesAssumption`, `IntakeAssumption`,
`OutboxAssumption`, `ScoringAssumption`: shapes and ranges of the constants, none about
behaviour). `EnginePackage` has `FilesAssumption`: the files are a non-empty list without the
three fixed names, a package is a function. Bounds on clicks, tokens,
versions and events are parameters of the guards and may have any value. These modules prove
about `Init /\ [][Next]_vars` of the part; in
the runs the same actions move it while the other parts stand still.

Every invariant and every action property that a passing run checks is stated by a theorem,
and so is the refinement of the panels. No theorem has a hypothesis
beside the assumptions on the constants. What needs fairness (`ServiceComesToRest`, `EveryCaptureSettles`,
`ExecutionReturns`) is out of the prover's reach and stays with TLC.

## 5. What is not modelled

The `components` list gives the reason for each part. In short: DOM parsing,
wording, the secret store of the operating system and HTTP plumbing are I/O;
projections and analytics are queries; triage is a set of gates like those of
`Scoring` over other data. Of the pairing the rate limiter and the hash of the code
are left out, and expiry is a step that may happen at any time. The selection of
content in the compiler and the applicant sync, which stores one row of readiness per
capability, are not modelled. Of the vacancy sync the counters of hits and the
triage counts are left out.
`manualRetry` of the outbox and `releaseAiAttemptBeforeDispatch` of the standalone
ledger have no caller. In `Outbox`, Ops Mode stays on and no reset runs.

## 6. Plan

Next, in the order of what can go most wrong: the compiler's selection under its
budget and the triage gates as operators against a reference; two installations at
once, when the command gets a lock to model.
Theorems planned: type correctness of the parts that have no theorem on it alone.

## 7. Running

    tlc -workers 2 -config MCLiveness.cfg MCLiveness
    tlapm AnalysisServiceProofs.tla
