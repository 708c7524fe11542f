# CivicBrain in TLA+

CivicBrain turns photographs of civic defects into *incidents*, sends field
workers out with *work orders*, resolves an incident only on photographic
evidence taken on the spot, asks the citizen, and confirms by itself after 72
hours of silence. Around that it links incidents as causes, publishes their
milestones in a hash chain, weighs them by matrices its administrators set, and
imports their staff. This directory models the parts where mistakes are hard to
see and hard to test: everything that several requests, devices or failures can
do to the same rows.

All paths below are under `src/`; `services.py` alone is
`civicbrain/domain/dispatch/services.py`.

## 1. The system

FastAPI handlers over PostgreSQL/PostGIS (async SQLAlchemy), Redis as a cache
and a rate limiter, Supabase for identity and for direct table access from the
web client. `infra/database.py:47-56` gives every request one session, rolled
back when the handler raises; every handler that writes commits once, at its
end. Nothing asks for more than READ COMMITTED, nothing locks with `FOR UPDATE`,
and no UPDATE compares a version.

| Part | State | Operations | What makes it correct |
|---|---|---|---|
| Report aggregation (`domain/intake/services.py:31-93, 209-229`) | `intake_report.status` | recomputed by every handler that moves an incident | a report is always the aggregate of its incidents; none is closed with an open issue |
| Work orders (`services.py:43-235`) | `work_order`: status, worker, version, proof | create, start, resolve; cancel and reassign directly on the table | nothing is completed without evidence; one worker's proof stands under another's name only where two requests overlapped |
| Citizen feedback, auto-confirm (`services.py:238-349`) | `incident.status`, deadline | confirm, dispute, hourly cron | each resolution is answered; a dispute stops the clock |
| Incident status endpoint (`api/v1/incidents.py:68-123`) | `incident.status` | PATCH to any status | cannot resolve without proof |
| Offline field sync (`services.py:355-757`) | `sync_mutation_log`, `dispatch_conflict_review` | batch push, conflict arbitration, delta pull | each mutation takes effect once, is answered, and evidence is not lost |
| Adjudication (`services.py:799-879`) | review queue | accept, uphold | a review is decided once (it is not, when two supervisors overlap); the outcome names the right worker |
| Intake, routing, deduplication (`domain/intake/services.py:96-206, 232-366`, `dedup.py`, `vision.py`, `api/v1/intake.py`) | reports, observations, incidents | form and photo submission | a lone submission opens no duplicate; a report is filed with the aggregate of its incidents |
| Causal graph (`domain/causal/graph.py`, `api/v1/causal.py`, migration 0008) | links between incidents; flag, count and boost of a root | create link, downstream | acyclic; the stored blast radius is not overstated |
| Transparency ledger (`domain/transparency/services.py`) | hash chain per incident | checkpoint, verify | one unbroken chain with one noise; changes are noticed |
| Prioritisation (`domain/prioritization/`, `api/v1/prioritization.py`) | weight matrices | set, read the active one | one active matrix; an update replaces what it read |
| Taxonomy and its cache (`api/v1/taxonomy.py`, `infra/cache.py`) | categories, cached list | propose, approve, list | readers come to see an approval |
| Rate limiting (`infra/rate_limit.py`) | counter with expiry | INCR, EXPIRE | a window admits the limit, and ends |
| Hierarchy and bulk import (`api/v1/hierarchy.py:247-715`, `domain/identity/models.py`) | accounts, profiles, seats, import log | dry run, import | whole or not at all; one profile per phone; one seat per ward |
| Analytics, NLP, GIS, exports, assistant | none of their own | reads | (numbers and wording) |

Interactions. Every handler that moves an incident recomputes the reports
linked to it, except the two citizen handlers, which write their own report.
Sync and adjudication reach into the work-order and incident tables the REST
handlers own. The cron is a call from outside
(`.github/workflows/auto_confirm_cron.yml`). Dispatchers cancel and reassign
past the service, through PostgREST. The table constraint
`chk_incident_resolved_evidence` backs the handlers up.

What is hard here:

- *order*: work captured offline arrives after the order was completed,
  cancelled or given to someone else; reviews are decided after more work was
  done; PATCH writes any status over any other;
- *retries*: a device that hears nothing sends again, while its first request
  may still run;
- *interleaving*: handlers check a status, an assignment or a review, then write
  by primary key what they computed from the row as read; the session omits
  columns it believes unchanged, so half of a handler's intention can be lost;
- *shared rows*: two incidents of one report, two reports on one incident, two
  links of one pair of incidents, two imports of one phone or ward;
- *two stores*: the database and the cache, the database and the identity
  provider, with a crash between the two calls;
- *time*: deadlines count from the capture, not from the sync; a NULL deadline
  never expires;
- *partial failure*: one bad mutation takes its batch with it.

`PROJECT.json` lists each at its line, with the property that answers it.

## 2. The modules

    Lifecycle --+----------------+--------------+--------------+
                |                |              |              |
        ReportAggregation <== Dispatch     HandlerRaces   IntakeRouting    FieldSync ==> ExactlyOnce
                                 |                                             |
                             MCDispatch                                    MCFieldSync

            MCRaces          = HandlerRaces + OrderRaces
            MCRecords        = ReportAggregation + CausalGraph + Ledger + IntakeRouting
            MCAdministration = Governance + RateLimiter + StaffImport

    proofs: LifecycleProofs, ReportAggregationProofs, DispatchProofs,
            HandlerRacesProofs, OrderRacesProofs, FieldSyncProofs,
            RecordsProofs (CausalGraph, Ledger, IntakeRouting),
            AdministrationProofs (Governance, RateLimiter, StaffImport)

(`==>` reads "implements"; the proof modules extend what they prove about.)

**Lifecycle**: the two status enums, the progression ranks and
`calculate_intake_status_from_children`, as constant operators.

**ReportAggregation** (abstract): incidents move in any way, and the reports
linked to the ones that moved are recomputed, no others. It says what the
platform promises of `recompute_intake_report_status`.

**Dispatch**: the tables `incident`, `work_order`, `intake_report.status`,
`sync_mutation_log`, `dispatch_conflict_review` and the clock; one action per
handler or sync branch, each a whole transaction.

| Code | Action |
|---|---|
| `create_work_order` without/with a worker | `CreateWorkOrder`, `DispatchWorkOrder` |
| `start_work_order`, `resolve_work_order` | `StartWorkOrder`, `ResolveWorkOrder` |
| `update_incident_status` | `UpdateIncidentStatus` |
| `citizen_confirm_report`, `citizen_dispute_report` | `CitizenConfirm`, `CitizenDispute` |
| `evaluate_auto_confirm_cron` | `AutoConfirmCron` |
| `process_field_sync` | `ProcessFieldSync`: start applied or in conflict, resolve rejected, too late, in review or applied, unsupported |
| `adjudicate_dispatch_conflict` | `AcceptWorkerEvidence`, `UpholdDispatcher` |
| direct table writes | `DispatcherCancel`, `DispatcherReassign` |

Handlers run one at a time here; what changes when they overlap is HandlerRaces
for incidents and reports and OrderRaces for orders, log and reviews. A handler
that raises changes nothing, so a refusal is the absence of a step. The revision
counter is OrderRaces' too: no handler's behaviour depends on it.
Evidence is abstracted to *who submitted it*, *which photographs* (or none) and
*whether it was within 50 m*; those are what the properties tell apart.

**HandlerRaces**: the same handlers as sequences of SQL statements in
interleaving transactions. `table` is what is committed, `txn` what each session
has read (identity map), flushed (and so locked) and still has to do. An UPDATE
waits for the row's lock and writes over what it finds; a status column the
session believes unchanged is not in it. Only status columns are kept. Sync and
adjudication are left out: their statements on incidents and reports are those of
start and resolve, and their own tables are in OrderRaces.
A PATCH to `resolved` is left out, for it hangs on the evidence that Dispatch
has. A transaction may roll back at any time (a refusal, a lost
connection, Postgres choosing it as the victim of a deadlock); two that wait for
each other stand still until one does.

**OrderRaces**: the row of a work order (status, worker, version, proof), the log
and the review queue under concurrent handlers. A transaction is cut after each
SELECT whose result it checks and before each write that may have to wait: the
order is read (`BeginRest`, `LoadOrder`) and updated by primary key
(`FlushOrder`), the review is read (`BeginAdjudication`) and decided
(`FlushDecision`), the log is read (`BeginSync`) and inserted into under its
unique key (`InsertLog`); what was written shows at COMMIT. `Updated` is the
session's UPDATE: each column that differs from the row as read, over the row as
it is. The dispatcher's writes are single statements. Two history variables:
`stale`, the requests that have read a row which another transaction changed
before they committed, and `excused`, the orders that such a request was the
last to complete. Refused evidence is Dispatch's, longer batches are FieldSync's.

**FieldSync**: a device that queues mutations and sends what is unanswered, a
network and a server that may lose requests, transactions and answers, and
`process_field_sync` statement by statement, so that the retries of one device
race each other. The unique key of the log row is the only thing between two
copies of a batch. **ExactlyOnce** (abstract): a mutation gets one outcome for
ever, and the device is told that outcome and no other. The device is not in
the repository; it is taken to do what `docs/specs/phase-9.md` says.

**IntakeRouting**: a form or a photo as one transaction with one step per
observation (`RouteObservation`): what is in the photo (`Detected`), whose it is
(`DepartmentOf`), the candidates the query returns, their weights in hundredths
of a bit (`MatchWeight`), and the link or the new incident. Other submissions,
and the handlers that move incidents (`MoveIncident`, for what Dispatch does in
detail), commit in between; statuses are as the session first loaded them.

**CausalGraph**: `POST /causal/links` as the statements of interleaving
transactions: load the two incidents, read the links, check, INSERT with its
trigger, UPDATE of the root (flushed by the SELECT of the scores), UPDATE and
COMMIT. `Downstream` is reachability, stated without recursion as the least
closed set. Locks are those PostgreSQL takes: the unique pair, the root's row.

**Ledger**: `record_ledger_checkpoint` in two steps (it reads the chain; it
inserts and commits) for the rows of one incident, and
`verify_incident_ledger_chain`. A hash is the tuple of what was hashed.

**Governance**: what an organisation's administrators configure (weight
matrices, categories) and the cache over both: each write a transaction followed
by a delete of the key that may be lost, each read a cache call, a SELECT and a
cache call. `excused` remembers per key that such a loss or a late fill happened.

**RateLimiter**: INCR and EXPIRE of one key, the window, lost EXPIREs.

**StaffImport**: `bulk_import_users`: the reads at its start, the judgement of
the rows (`Created`, on what was `known`), then per row an account at the
provider, outside of the transaction, and the inserts, with the unique keys and the foreign key on the
provider's users as the migrations define them.

The `MC...` modules hold the constants of the runs. `MCRaces`,
`MCRecords` and `MCAdministration` put modules that share no variable side by side: `focus`,
chosen once, names the one that moves. So one run explores each alone, and a
property of one is checked on all behaviours of that one.

## 3. What the runs show

Runs that pass:

| Run | Instance | Shows |
|---|---|---|
| `sync` | 1 incident, 1 order, 2 workers with one offline mutation each | handler by handler: `TypeOK`; log and review queue agree (`ReviewMatchesLog`); outcomes and decisions are final (`OutcomesAreFinal`); no incident stays resolved for ever (`ResolutionIsAnswered`) |
| `aggregation` | 2 incidents, 2 reports sharing one, 2 orders, PATCH to `triaged`, `resolved`, `rejected`; all but the citizen's two endpoints | Dispatch implements ReportAggregation; no route resolves without proof (`EvidenceGate`); a resolved incident has a deadline even when PATCH wrote it (`ResolvedHasDeadline`); the proof shown is held by an order of this very incident (`ProofCustody`) |
| `races` | *statuses*: 3 requests out of 7 calls, 2 incidents, 2 reports sharing one, 1 order; *orders*: 3 requests of any kind over 1 order, 2 workers with a proof each, an offline resolution of one and an offline start of the other, any number of cancellations and reassignments | the lock on its incident keeps a single-incident report aggregated under every interleaving (`SingleChildAggregated`); a staff handler that runs alone repairs what races broke (`LoneHandlerRepairs`); an answered resolution has completed its order (`ResolveCompletesItsOrder`); another worker's proof, or none, on a completed order needs an overlap (`ForeignProofNeedsOverlap`); a review for exactly the conflicts the log tells of, even when two transmissions of a mutation decide differently (`QueueFollowsLog`); a handler whose reads were not overtaken does exactly what it does alone (`UndisturbedHandlersAreSerial`), so that Dispatch's account of it stands |
| `retries` | 3 mutations on 1 order, 2 connections, 2 faults | `ExactlyOnceSpec`; the order is what the applied mutations made of it (`EffectsAreLogged`); everything queued is answered (`EveryMutationIsAnswered`) |
| `records` | *reports*: 3 incidents, 2 reports, all 11^3 combinations and all moves; *causal*: 3 incidents, 3 requests; *ledger*: 3 callers, 3 statuses, 2 positions, 2 offsets, 2 times; *intake*: 2 submissions of 6 kinds, 2 departments, one step of the clock | `NoChildLeftBehind`, `ReportsFollowProgress`; the stored blast radius is never more than the graph has (`CountNeverOverstates`); a link over the links its trigger saw closes no cycle (`CheckedLinkKeepsAcyclic`); one unbroken chain (`ChainVerifies`) with one noise (`OneNoise`) whose changes verification notices (`TamperEvident`); duplicates come from overlap alone (`NoLoneDuplicate`); reports are filed aggregated unless overtaken (`FiledAggregated`); a far merge needs everything else to agree (`FarMergeNeedsEverything`) |
| `administration` | *governance*: 3 matrices, one on the edge of consistency, 1 category, 2 rubrics, 1 reader; *rates*: limit 3, 2 concurrent callers, 1 lost EXPIRE; *import*: 3 imports of 2 files with 4 rows each that overlap in a phone and a ward | a matrix replaces the one its request read (`ReplacesWhatItRead`); a stale answer is explained (`StaleOnlyIfExcused`) and passes (`CachesCatchUp`); a window admits exactly the limit (`WindowAdmitsTheLimit`) and ends unless an EXPIRE was lost (`WindowsEnd`); one profile per phone (`OneProfilePerPhone`), one seat per ward and corporator (`SeatsMatchCorporators`), imports whole and once (`ImportsAreWhole`), a dry run binds the import that reads the same (`ForecastBinds`) |

Runs in which a documented statement fails on what the code does:

| Run | Statement | What happens |
|---|---|---|
| `feedback_aggregation` | a report is strictly the aggregate of its children (`docs/specs/phase-3.md:31`) | confirm closes the citizen's report while another of its incidents is open, and leaves other reports of a shared incident as they were |
| `restart` | start only from its prerequisite (`docs/specs/phase-9.md:214`, and the REST handler's own refusal) | a start captured offline and synced late puts a completed order and its resolved incident back in progress |
| `late_cron` | a dispute always routes to `appealed` (`docs/specs/phase-8.md:59`) | the cron has read the incident, the dispute commits, the cron confirms it |
| `poison` | valid evidence is never discarded (`docs/specs/phase-9.md:37`) | the log row for an unknown order carries a random organisation, the foreign key refuses it, and the whole batch fails at every retry |
| `cycle` | "Causal links must form a Directed Acyclic Graph ... and cannot be persisted." (`docs/specs/phase-7.md:34`) | two links in opposite directions, each checked by its handler and its trigger before the other commits, are both there |
| `third_matrix` | an administrator can update the matrix (`docs/specs/phase-6.md:275`) | the unique key on (organisation, is_active) has room for one inactive matrix; the third is refused at every attempt, until someone removes the inactive row past the endpoint |

### Observed while reading

What the models or their reading brought up and no run of its own states:

- *Dispatch.* A resolution synced late sets the deadline 72 hours after its
  capture, possibly in the past, and a PATCH back to `resolved` keeps an old
  one, although `docs/specs/phase-8.md:57` promises 72 hours from the
  resolution. A repeated start that races a resolution leaves the order
  completed (the session omits the status column it believes unchanged) and puts
  its incident back in progress; no endpoint takes the order further. PATCH takes an incident from `reported` to
  `resolved` in one step if it ever had a proof. Accepting a review writes old
  evidence over newer (within `ProofCustody`, for the order is overwritten too).
  A dispute whose report was already
  `in_progress` when read leaves the column out of its UPDATE.
- *Order races.* What the exceptions in `ForeignProofNeedsOverlap` and
  `UndisturbedHandlersAreSerial` (`excused`, `stale`) stand for does happen; each
  of these is a behaviour of OrderRaces. (1) A resolution, by REST or by sync,
  checks the worker and the cancellation on the row it has read
  (`services.py:170, 595, 638`); the dispatcher's reassignment or cancellation, or
  an accepted review, commits; the UPDATE names neither the worker nor anything
  else that is unchanged. One worker's proof stands on the other's completed
  order, or the cancelled order is completed, and a sync opens no review, although
  `docs/specs/phase-9.md:39` says that such conflicts "require human supervisor
  adjudication". (2) Two supervisors read a review as pending (`:811-820`) and
  decide it by primary key (`:829`, `:865`): both are answered with success, past
  the check "Conflict review has already been adjudicated." (`:823`), and the
  second decision replaces the first, so that a review may end dismissed although
  its evidence completed the order. (3) `version += 1` (`:131, 219, 473, 688, 845`)
  writes a number computed from the row as read: two starts of one order store
  the same version, and a handler that two others have overtaken takes the
  version back, although `docs/specs/phase-9.md:19` calls it monotonic.
  Nothing compares revisions (`base_version` is accepted and
  ignored), so a lost increment is not noticed. An accepted review over a
  completed order leaves the status out of its UPDATE; when a late sync start
  commits in between, the order stays in progress with the review accepted. A
  resolution with the very photographs that the order has leaves them out, and
  the ones of a resolution committed in between stay. A start that races a
  cancellation puts the cancelled order in progress, as a serial one does too
  (REST start refuses completed orders only).
- *Delta pull.* It selects rows whose `updated_at` is not older than the cursor
  (`services.py:748`) and answers with the time of the pull as the new one;
  `updated_at` is the start of the writing transaction, so a row that commits
  after the pull with an earlier `updated_at` is not sent.
- *Intake.* The candidate query names no ward, though its docstrings
  (`domain/intake/services.py:120, 252`) and `docs/specs/phase-3.md:156` do; a
  probable match (0.50) links as an exact one (0.85) does.
- *Causal graph.* A new link updates its own root only: the counts of roots
  further up stay behind. The base priority the downstream endpoint shows is the
  score less the last boost, which after a second link is not the base.
- *Ledger.* Nothing but tests calls `record_ledger_checkpoint`. An incident
  resolved a second time gets no second checkpoint. The columns for SLA, appeal,
  media count and ETA are not hashed; the last row can be removed, or replaced
  with a hash computed anew, and the chain still verifies, although
  `docs/specs/phase-11.md:25` speaks of any tampering. A `milestone_time` that is
  not in UTC is hashed as given and read back in UTC.
- *Prioritisation.* A ratio between 0.0999995 and 0.10 passes the endpoint and is
  refused by the table, which compares the rounded one. Evaluation reads the
  matrix from the database, not from the cache. For a ward never seen the equity
  endpoint shows a boost of 0.25 while evaluation uses 0.
- *Bulk import.* Only the form of an email is checked (`hierarchy.py:472`),
  although `docs/specs/admin-bulk-import.md:55` says that a dry run "Verifies phone
  and email uniqueness": a dry run announces two rows with one email (file `f1` of
  the `administration` run has them), and the provider then refuses the second
  account, which rolls the import back whole. `ForecastBinds` is about imports
  that commit, and of a file that the provider refuses it says nothing. A failure after the
  first rows leaves accounts at the provider without profiles, and the provider then refuses their phones at the next
  attempt, though `docs/specs/admin-bulk-import.md:47` excludes partial
  accounts. A dry run writes a log row (`:56` says it writes nothing). A phone
  written with `+91` is first quoted against formula injection and then refused.
  A file whose rows were all skipped counts as imported. `create_staff_member`
  uses an id the provider does not know, which the foreign key refuses.

### Bounds

- `ConfirmWindow` = 1 stands for the 72 hours: only *before* and *at or after*
  the deadline matter. `MaxTime` = 1 or 2 lets a capture be older than the
  window. `InHorizon` keeps a new deadline within the clock, so that the end of
  the clock does not stop a confirmation.
- `PatchTargets`: the statuses a run lets PATCH write; any target is like any
  other but for `resolved` (the constraint), `rejected` (left out of the
  aggregate) and `reopened`/`triaged` (open, before or after a resolution).
- `Requests`, `Calls`, `StartStatuses` (HandlerRaces): three transactions are
  two that race and one that comes before, between or after; the calls are one
  of each handler, placed so that they meet on an incident, on a report through
  different incidents, and on the order. Requests are interchangeable
  (symmetry); no property of that module is a liveness property.
- `Handlers` = 3 (OrderRaces): two that race and one before, between or after
  them, or three at once; one order, as transactions over different orders share
  only the log key and the review, and these belong to a mutation of one order;
  two workers with a proof each tell own from foreign; an offline resolution
  can be applied, too late or in conflict, an offline start is never too late. The
  dispatcher is unbounded. Symmetry in requests; no liveness property. The version is at
  most one more than the number of requests.
- `Connections` = 2, `MaxFaults` = 2, three mutations (FieldSync): the original
  and a retry of a batch of which one was extended meanwhile, each of which can
  fail once.
- Intake: two submissions, one that may overlap the other, with forms of two
  items, an unknown department and a place outside every ward, photos declared,
  detected and unclassified, places at 20, 30 and 500 metres: each branch of
  routing and each band of distance and time. `MoveTargets` are the statuses
  that keep an incident a candidate and that end it; `MaxEra` = 1 is 72 hours
  later.
- Causal graph: three incidents and three requests are the shortest indirect
  cycle and two that race with one before them; scores 90, 80 and 60 reach the
  cap of 100.
- Ledger: three callers are a first row, a race for the first, and a race for a
  later one; two of everything the noise may give tells one draw from two.
- Governance: three matrices are the number at which the inactive row is taken.
  One reader that may read again is two reads in sequence, and its fill races
  every writer.
- Rate limiter: `MaxCount` = twice the limit; the counter only has to pass it.
- Import: three imports are two that overlap and one that tries again. The files
  have two corporators of one ward, a phone twice, an email twice, an
  administrator, malformed cells, and share a phone and the ward.
- `CHECK_DEADLOCK FALSE`: a city may come to rest with its incidents confirmed,
  the clock at its bound, the device answered, every bounded request used. Two
  transactions that wait for each other can always roll back.

### Fairness

- Dispatch: weak fairness of `Tick` (time passes) and of `AutoConfirmCron`. The
  workflow calls it every hour and does not retry a failed call, but the next
  hour comes. No person is fair: citizens, workers, dispatchers and supervisors
  may never act.
- FieldSync: weak fairness of sending, of the server's steps and of receiving,
  per connection; faults are finite (`MaxFaults`). That is a device which comes
  back to a signal for long enough. Neither the worker nor the dispatcher is
  fair. A transaction that waits for a lock is not helped by fairness: the run
  shows that retries of one device never wait for each other in a circle.

- Governance: weak fairness of the steps of a request that has begun, and of the
  expiry of a cached key (`ex=` in `infra/cache.py:29`). That a delete succeeds
  is not assumed. RateLimiter: weak fairness of EXPIRE by the request that owes
  it (it may fail, `MaxFaults` times) and of the end of a window that has a time
  to live. No request is ever forced to arrive. The other modules state no
  liveness.

### Assumed

`captured_at` is not in the future of the server's clock. In Dispatch,
HandlerRaces and FieldSync the incidents and the links of reports are fixed
during a behaviour; their creation is IntakeRouting's. A report with no incident
yet is covered as one without children. Dispatchers do not touch completed
orders directly (`docs/PROJECT_REFERENCE_FOR_FRONTEND.md:312`: cancelled "prior to
completion"); the row policy would let them. SHA-256 has no collisions. Of the 24
possible weights of a linkage decision none is nearer to a threshold than an
eighth of a bit and no two are equal, so neither floating-point rounding nor the
model's hundredths decide anything. Scores are whole points, rounded
down, in CausalGraph. At most 50 incidents are linked, as far as the trigger
looks. The tables are those of the migrations, foreign key on the provider's
users included.

## 4. What is proved

For every number of incidents, reports, links, orders, workers, mutations and
photographs, from `ConstantsAssumption` (links relate reports to incidents,
every mutation has an author among the workers, bounds are naturals, mutations
are finite), `NoneAssumption` (NULL is not a value of the columns that may be
NULL) and `LinksAssumption`, and the constants' assumptions of the other modules
(named `...Constants`): files of staff have finitely many rows of the columns that
the code reads (`ImportConstants`), an approved category belongs to a department
of the taxonomy (`IntakeConstants`; `propose_category` looks the department up),
at most 50 incidents are linked (`CausalConstants`). Every property of a passing
run is proved except the four about liveness:

- **Dispatch.** `DispatchProofs` proves, of handlers that run one at a time, the
  inductive invariant `IInv`, the conjunction of `TypeOK`, `EvidenceGate`,
  `ResolvedHasDeadline`, `ProofCustody` and `ReviewMatchesLog`, and each of
  them as a theorem of `Spec`; and the action property `OutcomesAreFinal`.
  The conjuncts need each other. `TypeOK` needs `ReviewMatchesLog`:
  accepting a review updates `workOrder[review[m].order]`, which must exist.
  `ResolvedHasDeadline` needs its second half (a proof comes
  with a deadline) and `EvidenceGate`, because PATCH writes RESOLVED under the
  table constraint only. `ProofCustody` needs that an order holding the proof
  of an incident keeps it through restarts, cancellations and reassignments.
  The proofs go over *kinds of step* rather than over the actions again and
  again: `StepKinds` shows once, action by action, that a step either brings no
  new evidence (proofs stay, and nothing becomes completed or resolved without
  one) or resolves one order and its incident with valid evidence of the
  order's worker; `LogKinds` that it leaves log and queue alone, logs one
  mutation, or decides one review. Each conjunct then has one case per kind.
- **Refinement.** `StaffAggregates`: `StaffSpec => AggregationSpec`. Every
  staff, field, cron and adjudication step either leaves incidents and reports
  alone or recomputes the parents of a set of incidents that contains all those
  that moved (`Recomputed`); such a step is a `MoveIncidents` step of
  ReportAggregation, since recomputing the parent of an incident that did not
  move changes nothing in an aggregated table. The citizen's two handlers are
  not in `StaffSpec`; the run `feedback_aggregation` shows why.
- **ReportAggregation.** That recomputing only the parents of the incidents that
  moved keeps every report aggregated (`AlwaysAggregated`), that the aggregate
  is always a report status (`ReportTypes`), `NobodyIsLeftBehind` and
  `ProgressIsMonotone`, from the order properties of the ranks
  (`LifecycleProofs`).

- **OrderRaces** (`OrderRacesProofs`), for any orders, mutations and number of
  requests at a time. `IInv` adds to the types and the two invariants of the
  run: how far a transaction is tells what it has read and which checks the row
  it read has passed (`ShapesOK`); what a request that is not stale has read is
  still so (`FreshReads`); a key inserted and not committed is free in the log
  and nobody else's (`KeysAreOwn`); a review that somebody decides is there
  (`InQueue`). `FreshReads` with the checks gives `ForeignProofsOverlap`,
  `KeysAreOwn` gives `QueueAndLogAgree`, and over the row it was computed from an
  UPDATE leaves what was meant (`UndisturbedUpdate`), which gives
  `UndisturbedAreSerial`.
- **HandlerRaces** (`HandlerRacesProofs`), for any handlers at a time.
  `SingleChildAggregated` is about committed states, and so is not inductive by
  itself: between two statements a handler holds a report that it is about to
  recompute. `RacesInv` adds the locks (a row that is written and not committed
  has one writer), what a transaction may write and has still to do, and, for
  each report *guarded* by a transaction (it holds the lock of one of its
  incidents and nothing can move the others), that the report has what follows
  from its incidents as the transaction sees them, or that the recomputation is
  in line (`ReportsFollow`). A report with one incident is guarded by whoever
  writes that incident; all reports are guarded by a transaction that runs
  alone, which gives `LoneHandlerRepairs`. `ResolutionsComplete` needs that a
  resolution has the completion of its order ahead or has written it.
- **FieldSync** (`FieldSyncProofs`), for any mutations, connections, faults and
  cancellations. `SyncInv` says of each transaction where it stands in its batch
  (rows decided form a prefix), that the keys of its uncommitted rows are locked
  against the others, that one transaction writes the order at a time, and that
  the order it would leave is what the log would then say (`WorkMatchesRows`),
  unless the row it waits to insert is there already and will be refused.
  `EffectsAreLogged` follows, and the refinement of ExactlyOnce: a commit maps to
  deciding the mutations of its rows, an answer to answering with the decision
  that the log holds, and everything else to a stutter.
- **CausalGraph** (`RecordsProofs`), for any finite set of at most 50
  incidents and any number of requests: the inductive invariant `CausalInv` says
  of every transaction what it has read (a subset of the committed links), what
  it checked, and that the row it will write follows from that. As links are
  only added, a count computed from older links is at most the present one
  (`DownstreamGrows`): `NeverOverstated`. `CheckedLinksAreSafe` is the argument
  that the trigger is right as far as it sees: if the link closed a cycle, its
  root would already have been downstream of its symptom
  (`NewLinkKeepsAcyclic`), in the very set the trigger searched. `CausalTypes`
  bounds every score and boost by 100. It needs that the sum of the symptoms'
  scores, which the library folds with a recursive function, is a natural
  number: the provers have no induction over data, so `SumsExist` and
  `TotalIsNatural` take a counterexample with the least number of elements
  (`LeastExists`, from the library's theorem that `<` is well-founded) and
  contradict it.
- **Ledger** (`RecordsProofs`), for any callers, statuses, positions and times:
  `LedgerInv` says that every row, and every draft not yet inserted, is linked to
  a row that is there and carries the noise of row 0, and that no number occurs
  twice; rows are only added, so a draft stays sound while others publish, and
  the unique key on the number keeps all but one of those that race out.
  `ChainsVerify` and `NoiseIsDrawnOnce`. `TamperingShows` needs more: below every
  row there is one of each smaller number (`Gapless`), so that a row which is
  not the last has a successor whose `prev` is its hash.
- **IntakeRouting** (`RecordsProofs`), for any payloads, places and number of
  submissions. `IntakeInv` says that the incidents of an open transaction are
  its own and have names that no committed one has, that the status it has
  loaded is still the committed one unless the incident moved since, and that
  what it opened matches nothing it knew. From the second part
  `FiledReportsAggregate`, from the third `DuplicatesNeedOverlap`;
  `FarMergesAgree` is a fact about the weights of a linkage decision, in hundredths
  of a bit, shown for every step that links an observation.
- **Governance and RateLimiter** (`AdministrationProofs`): `MatrixInv` (a
  request's row is absent until it commits, and the row it is to replace was
  inserted by another) gives `NoMatrixIsLost` with the unique key;
  `StaleIsExplained` and `LimitIsExact` are inductive with the types.
- **StaffImport** (`AdministrationProofs`), for any files and any number of
  imports at a time. `ImportInv` ties each transaction's uncommitted profiles to
  the rows of its plan that precede the current one and each profile to an
  account at the provider, where a phone is once: two profiles of one phone
  would need two accounts of it (`PhonesAreOnce`). No ward of an uncommitted
  seat is in the table or in another transaction (the unique key makes the
  second one wait or fail): `SeatsMatch`. `WholeOrNothing` needs that at COMMIT
  every row of the plan has its profile, which is what the counts say
  (`CountInserted`, `NextRowExists`). `ForecastsHold` joins that to the
  judgement: the rows with an account are those judged good on what the import
  had read (`AnswersOK`), and for one reading the two judgements differ only in
  corporators of a ward that an earlier row takes (`ForecastHolds`). An import
  that is refused as a whole (an email twice, an account left over) creates none
  of the rows and is outside of the property.
- **Side by side.** `EachKeepsRaces`, `EachKeepsRecords` and `EachAdministers`: in
  the compositions that the runs `races`, `records` and `administration` check,
  each module behaves as its own specification says, so that the theorems above
  are about those runs; `RacesTypes`, `RecordsTypes` and `AdministrationTypes`
  state it of the types.

Only model-checked: the liveness properties `ResolutionIsAnswered`,
`EveryMutationIsAnswered`, `CachesCatchUp` and `WindowsEnd`, which are out of the
prover's reach (fairness and ENABLED), and the six runs that show a violation.

## 5. What is not modelled

- The text of notes, reasons and messages; a PATCH also overwrites the
  incident's notes. File upload, EXIF and hashing of the photographs.
- Who may call an endpoint (roles, wards, the cron's secret).
- Listing endpoints: pure reads.
- The delta pull of field sync: the server keeps nothing for it, and what a
  device does with the cursor is not in the repository; see the observation
  above.
- Of intake: media, tracking tokens and the tracking read, the audit rows of
  deduplication (written, never read), text similarity, refusals before
  anything is written. Of the import: setup tokens, limits on size and rows,
  role scopes other than department, zone and ward. `create_staff_member`.
- The generation of the ledger's noise, Nagar Pragati, AHP eigenvectors, equity
  blending and the confidence gate, geometry, NLP scoring, analytics, public
  exports with noise: floating-point or textual functions without a protocol.
- Token verification, which is a library's.
- Tests, the offline source scanner, configuration and deployment.

## 6. What is left

1. The links of reports, fixed in Dispatch, refined by what IntakeRouting files.
2. The delta pull, once the repository says how a device uses its cursor.
