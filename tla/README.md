# Verification of the eBay research and listing system

This directory holds TLA+ models of the parts of the program that keep state and
act on it concurrently, the TLC configurations that check them on small
instances, and proofs of their main safety properties, checked by TLAPS. Paths
below are relative to the repository's `src/src/`; `PROJECT.json` gives, for
every definition that models code, the file and the lines it stands for.

## Contents

1. [The system](#1-the-system)
2. [The modules](#2-the-modules)
3. [The runs](#3-the-runs)
4. [The proofs](#4-the-proofs)
5. [What was found](#5-what-was-found)
6. [What is not modelled](#6-what-is-not-modelled)
7. [The plan](#7-the-plan)

To repeat the checks:

    tlc -workers 2 -config Marketplace.cfg MCMarketplace
    tlapm MarketplaceProofs.tla

## 1. The system

A Python program, one process with SQLite below it, researches products, lists
them at eBay and watches what is listed. An orchestrator starts its jobs;
operators use a CLI and a web console, which reach the same tables from
processes and database sessions of their own. There is no message queue: parts
meet in tables, in a few shared in-memory objects, and at eBay. Hard are
therefore the interleavings of threads and processes between a read and the
write that rests on it, sequences of commits that stop in the middle, and calls
to eBay that may have happened.

| Component (source) | State | Operations | What makes it correct |
|---|---|---|---|
| **Escalation and reminders** (`escalation/`, `repositories/persistent_escalation_state_repository.py`) | one row of `escalation_states` per dedupe key: status, counts, level, six times | a batch ingests failures, closes what recovered, reads a snapshot, then suppresses, escalates, reminds or touches each row; operators acknowledge, silence, clear, resolve, reopen | the columns of a row agree; alerts are spaced, capped and due; a late write of a stale snapshot takes nothing back; every failure is tracked and an untouched alert is reminded of |
| **Scheduled orchestrator** (`orchestrator/`) | last run times, held lock keys, job definitions, the loop's thread (all in memory) | polling loop, `run_once`, `run_cycle` with dependencies and locks, manual triggers with overrides | same-key jobs exclude each other; no key is left behind; dependencies first; overrides are put back; due jobs run |
| **Listing execution** (`listing_execution/services`, `executors`, its repositories) | attempt rows, history events, a listing state and a monitor in memory, a mock executor's cache, the session itself | `execute_listing`, `execute_with_live_gateway`, `rollback_execution`; readiness, state machine, guard, executor, retry decision | at most one publication per attempt id; executed means published; every call settles its row; the history is ahead of the row |
| **Listing sync and recovery** (`listing_sync/`) | candidate and listing rows, eBay's offer and item | reads both sides, decides by rules on the drifts, repairs ids, row, candidate or eBay, or asks for review | lost links are rebuilt; sold-out products stay so; prices meet |
| **Monitoring and revision** (`monitoring/`) | the same rows and eBay | refreshes the source, decides on dead link, stock, profit; zeroes or withdraws; writes the candidate and the row back | does not undo what a sync repaired meanwhile, or a sync what it did |
| **Authentication and API client** (`auth/`, `ebay/base_client.py`) | token cache, limiter buckets behind one lock | `execute_with_auth`: limiter, token, request, retry | the configured rate; a refusal that could be read is final for its token; every call returns |
| **eBay endpoints** (`ebay/`) | none | one request per method through the client; the shipping pipeline asks the detail of an item or does without | what is spared would have changed nothing |
| **Handoff to execution** (`handoff/`, `admin_cli/services/handoff_ops_service.py`) | handoff rows | read the decision and recent rows, guard, dispatch, write | two acceptances are a suppression window apart, unless runs overlap or a row is lost |
| **Notification** (`notification/`) | cooldown times in memory, rows of history | match rules, cool down, deliver by channel, send again | what was not delivered is not taken for delivered |
| **Incident management** (`incident/`) | incidents, their due hours and service levels | detect, acknowledge, mitigate, resolve, close, reopen | a breach stays a breach; what is late is shown as late |
| **Operations policies** (`ops_policy/`, `admin_web/routes/policy_routes.py`) | policies in the memory of the server | propose, approve, activate, release, reject, cancel, in threads | only approved policies take effect, strong ones with a date of review |
| **Change management** (`change_mgmt/`) | proposals and configuration versions in memory | propose, approve, reject, activate, supersede, expire | what is done to a wider scope does not reach one with a value of its own |
| **Learning** (`learning/`) | records and recommendations in memory | record, recommend, approve, reject, close | — |
| **Research pipeline and cost resolvers** (`research_pipeline/`, `shipping/`, `import_cost/`, `selling_fee/`, `payout_cost/`, `total_cost/`) | the rules chosen so far, the answers of the resolvers; the product's row | resolve shipping, import charges, fees, payout, total; score, decide, insert | the specific rule wins; strict totals rest on no guess |
| **Listing readiness** (`listing_readiness/`, `listing_execution/guard.py`) | the product's row | judge, write the whole row back; the guard | what the guard lets through was worth buying and is complete |
| **Discovery and review queue** (`discovery/`) | source items, canonical candidates, a review flag on each | match, flag, refine in a batch, approve, reopen | a flag that is up is taken down by somebody who saw it |
| **Market evaluation, profitability, ranking** (`market_eval/`, `profitability/`, `ranking/`) | rows of evaluations, scores, decisions | three commands, each reading the newest rows of the others | no launch without a safe and recent reason |
| **Seller environments** (`seller_env/`, `auth/credentials.py`) | seller and environment profiles, bindings | resolve a context, bind, activate, enable; the doctor; credentials | keys, URL and token are each of a type in which the seller was active during the request |
| **Listing execution gateway** (`listing_execution/gateway.py`) | listing and candidate rows, eBay | inventory item, offer, publication | one offer per candidate |
| **Persistence, admin console and web, dashboards and exports** | tables, sessions | reads, presentation | — |

How they interact. The orchestrator's jobs call the batch entry points of
escalation, sync, monitoring and the pipeline in one thread of one process,
guarded by a lock per job key; a manual trigger runs in another thread and shares
the locks, the definitions and the last run times. The CLI and the web console
call the same services without those locks. Sync and monitoring share the
candidate and the listing rows and eBay, and have different keys
(`orchestrator/job_definitions.py:95-117`), so they may overlap. Everything that
reaches eBay shares one client, one limiter and one token cache. Escalation hands
alerts to the notification layer by a call whose answer it writes back.

Not everything is connected at this commit. The web application (`admin_web/app.py`, a
FastAPI one) mounts neither the policy nor the incident blueprint, and
`IncidentRepositoryDB` has no `get_incident` and no `save_incident`, which the incident
service calls. The modules of these two components say what their code does once it is
reached: routes in threads over one repository, and the service over a repository that
keeps what it is given.

The hazards that follow from this are listed one by one, each at its line, in
`PROJECT.json` under `hazards`, with the properties that cover them.

## 2. The modules

Each component is one module whose constants are its parameters; an `MC` module
beside it gives them small values, and a `Proofs` module holds its theorems. One
action is one commit, one call to eBay, or one step that another thread can see:
what runs between two of these cannot be told apart from running at once. A
definition whose comment begins with "Mutated form" is not part of a
specification: it is the next definition with a plausible bug, and is there to
show that a property can fail.

### `Escalation` — the alerts' rows

`rows` is the table, one row per key of `Keys`, `untracked` before its first
insert. `run[r]` is what a batch holds: its clock, the snapshot it read, the
keys it has not worked on and an alert it has handed on and not yet written
back. `lastFailure` and `lastRecovery` stand for the event and job-run logs,
`covered` for the maintenance windows.

| Code | Actions |
|---|---|
| `runner.py` `run_batch`, up to the recovery | `StartRun`, `Ingest`, `ListForRecovery`, `AutoResolve` |
| the loop over the snapshot | `LoadSnapshot`, `Suppress`, `DispatchEscalation`, `DispatchReminder`, `Touch` and `TouchLastSeen` (two commits), `Persist`, `FinishRun` |
| the two decision engines | `EligibleSteps`/`StepDue`, `ReminderDue` |
| the repository's methods | `UpsertOpen`, `Reopened`, `Resolved`, `Unresolved`, `Persisted` |
| the operators' services | `Acknowledge`, `Silence`, `ClearSilence`, `Resolve`, `Reopen`, `MaintenanceChanges` |
| an exception caught per row; a process that ends, or a failed flush, after which the shared session is of no use for the rest of the batch | `StepFails`, `RunnerCrashes` |

A reminder is dispatched in one step and counted in another (`Persist`), which
is where a crash repeats it and an operator's write comes in between.

`AlertPolicies` has no state of its own: it is the table of policies as bootstrap
seeds it (`Seeded`), the search for the policy of a seller, an environment and a type
of event (`Resolve`), and the keys of the three kinds of event (`HistoryKey`,
`JobRunKey`, and that of a health check). `MCEscalation` instantiates it; its
assumptions, which TLC evaluates with every run of `Escalation`, say that the policy
found is the heaviest that applies, that the `Policy` of the instance is the one the
seeded table yields, that a failed job makes one alert whether its log or its run is
read first, and that bootstrap enables again what was disabled.

### `Scheduler` — the orchestrator of one process

`cycle[t]` is the `run_cycle` that thread `t` is in, with the jobs still to look at in
the order `ExecutionOrder` computed; a cycle whose due jobs contain a circle raises
before it begins (`Starts`), and the loop logs it and polls on. The polling loop
(`Start`, `Stop`, `LoopEnds`, `Poll`) and the operators (`RunOnce`, `Trigger`) start
cycles; `Skip`, `Acquire`, `Completes`, `Fails`, `Release`, `EndCycle` are the steps of
a job; `Raises` is an exception that leaves `run_cycle` through its `finally`, and
`Restart` loses everything. `params` are the definitions' `default_limit` and
`default_kwargs`, which a trigger overrides in place. `StandardJobs` is the registry
that the program is started with, and the assumption `StandardJobsOrdered` says that its
dependencies point backwards: no circle, and no job that is not there.

`DependencyResolver` has no variables: `Resolution` is the depth-first search of
`resolve_execution_order` over the due jobs, with its two kinds of marks and its
exception. `Scheduler` extends it, with the registry as constants. `MCScheduler`
instantiates it once more for every registry of three jobs that `register` accepts
(`Registries`: a dependency may be unknown, and circles of more than one job pass): its
assumption `ResolverSound` is that the due jobs come in order, or the search raises, and
that of a circle only.

### `ListingExecution` — an attempt to list an item

`call[s]` is the call that service object `s` is in, its `pc` named for the
step that follows; `session[s]` says whether its SQLAlchemy session still works,
as no handler rolls it back; `rows` and `history` are the tables; `published` is
eBay. `Readiness`, `Initiate`, `Create`, `Guard`, `Execute`, `Complete`, `Sync`,
`Finish` are the way of a success; `Caught`, `Fail`, `Schedule`, `Record`, `Alert` that
of a failure; `Rollback` is the operator's call and `Restart` the process's end. Any
commit may raise (`Raises`), and then the except clause runs with whatever the
state machine says, once: what raises in it escapes to the caller. The outcome of a
failure is what the retry manager reads in its text, and the text of an exception may be
any (`Failure`). An attempt has two listing ids: its payload's (`ListingOf`), which a
successful sync makes active, and eBay's (`EbayIdOf`, `lst_<sku>`), which a failed sync
and a rollback write to (`FailedListing`).

`ListingIntake` has no state: `Load` reads the rows of a CSV file one by one, `Resolve`
takes a SKU's images from its directory, and `Build` makes the payload of an attempt.
The assumptions in `MCListingExecution` hold for every file of three rows and every
directory of three files: a SKU is loaded once, from its first valid row if no row is
short, every row is accounted for, and a payload has one to `MaxImages` readable images
in the order of their names; payloads of one SKU made more than a second apart are two
attempts.

### `ApiClient` — the way to eBay

`Pass`, `Sleep` and `Wake` are `acquire` of the limiter, whose sleep keeps the one lock;
`UseCached`, `Mint`, `MintFails`, `Store` are a token from the cache, which has no lock,
or a new one; `Returns`, `Transient`, `Unauthorized`, `Unreadable`, `Invalidate`,
`Retry` sort an answer: a 401 that is JSON costs the token its place in the cache, one
that is not is retried like a broken connection. `Tick` and `Revoke` are the world:
tokens expire, and eBay may revoke them before. The limiter's time is counted in the
refill of one unit, so that its rational arithmetic becomes one of integers.

### `Marketplace` — the product at eBay and in the database

`offer` and `item` are eBay, `candidate` and `listing` the two rows; `sync[s]`
and `monitor[m]` are what a pass read at its beginning and later writes back.

| Code | Actions |
|---|---|
| `listing_sync/gateway.py` `sync_and_recover_listing` | `SyncBegin`, `ReadOffer`, `ReadItem` |
| `recovery_decision_engine.py`, `state_comparator.py` | `Decision` and the five predicates before it |
| the branches of the gateway | `RepairIds`, `RepairRow`, `RepairCandidate`, `Reconcile`, `Review`, `Keep` |
| `monitoring/pipeline.py`, `revise_decision_engine.py` | `MonitorBegin`, `MonitorDecide`, `MonitorAct`, `MonitorRefused`, `MonitorSaveCandidate`, `MonitorSaveRow` |
| the two repositories | `Protected`, the upsert's look at the stored status, and `SaveCandidate` or `MonitorSaveCandidate`, the commit; `UpsertListing` |
| seller, buyers, eBay's failures | `Edit`, `Refused` |

A listing's row is taken to be visible when a repository has written it. The code commits
when the session ends; every interleaving with a later commit is one in which the
write happens later, and the model lets any step happen arbitrarily late. A candidate's
upsert is two steps, since its protection of `listed` rests on a read: nothing claims
that a listed product stays listed when the sessions of two passes overlap (see 5). An
initial state is a listed product whose row may lack the listing id, or one whose
execution was interrupted at any point before its row.

### `Handoff` and `DispatchOnce` — a candidate on its way to execution

`handoffs` is the table, `run[o]` what operator `o`'s command holds between its
reads and its insert; `dispatched` is what the execution layer knows. `Begin` is
every read and guard of `process_handoff`, `Dispatch` and `DispatchRaises` the mock
and the live gateway, `Save` the insert, `Die` a process that ends, or an insert that
fails, before the dispatch or before the row. `Rank` is the ranking layer changing its
mind. Two history variables say what excuses a second acceptance: `overlapped`, that runs
have overlapped since nobody was running, and `lost`, that the row of the last acceptance
never came to be. `DispatchOnce` is the promise without the table: the clock, the last
acceptance, and whether another one inside the window is `excused`. `AcceptedApart` says
that `Handoff` implements it under `last <- dispatched, excused <- overlapped \/ lost`; a
rejected run, a deferred one and an insert are stutters.

At this commit the command raises before it gets anywhere: `run_handoff` calls a method
that the ranking repository does not have (`admin_cli/services/handoff_ops_service.py:17`),
and the validator asks a text for its `.value` (`handoff/eligibility_validator.py:17`).
`Begin` takes the lookup for what its caller expects of it.

### `Discovery`, `Selection`, `Readiness` — the way of a candidate

Three components that should feed each other and then `Handoff`, and do not: they meet
in rows, and where one would read another's, the call is missing. `MCCandidates`
instantiates them beside `Handoff`; the first state chooses which one moves.

| Module | State | Code and actions |
|---|---|---|
| `Discovery` | `candidates` and `items` with their review flags; `pass`, what the refinement job has read through each of its two sessions | `Intake` (`Matches`, `Confidence`, `Flagged`), `StartPass`, `Refine`, `Assign`, `Commit`, `Rollback`; the front ends `Cli`, `Console` of the review queue (`Approve`, `Reopen`) |
| `Selection` | `evaluations`, `scores`, the one `decision`, the clock | `Evaluate` (which listings are comparable, the median, the confidence), `RunScoring` (costs, multipliers, penalties, `Verdict`), `RunRanking` (eligibility, staleness, `Class`), `Review` |
| `Readiness` | the `product` row; `task`, what each worker has read and not yet written | `Build` and `Insert` of the research pipeline, `Check` and `Upsert` of the readiness pipeline, `Enrich`, `Fail`; the guard is `Allowed` |

Amounts are integers in a unit in which each computation is exact. A title is a set of
words: how titles and identifiers are read from text is left out, what they decide is
not. `Enrich` is external: nothing in the source gives a product a brand, the tests do.

### `Incident`, `OpsPolicy`, `Change`, `Notification`, `Costing`, `SellerEnv` — the small components

Six components that do not call one another. `MCOperations` instantiates all of
them beside each other; the first state chooses which one moves.

| Module | State | Code and actions |
|---|---|---|
| `Incident` | `incidents`, in whole hours | detection and deduplication: `Create`; the state machine: `Acknowledge`, `Investigate`, `Mitigate`, `Resolve`, `Close`, `Cancel`, `Reopen`; the service level: `Late`, `Sla`; dashboard: `Overdue` |
| `OpsPolicy` | `policies`, and where each thread of the server is | `Create`; `Ask` (the checks), `Enter` (the status), `Stamp` (approver and dates), the three steps of a route without a lock |
| `Change` | one record and recommendation, one proposal, the `versions` of a configuration | `OpenRecord` to `Judge`; `Propose`, `Update`, `Approve`, `Reject`; `Create`, `Activate`, `Expire`, `Supersede`; `Effective` overlays global, environment, seller, and `Source` is the version that gives a key its value |
| `Notification` | `last_dispatched` of each process, `history`, what a channel `accepted` | `Dispatch`, with rules, cooldown, routing and failing channels; `Notify`, `Resend`, `Restart` |
| `SellerEnv` | `type` of each environment, `enabled` sellers, the rows of `bindings`, the last `call` | `Bind`, `Activate`, `Enable`; `Resolve` and `WebContext`; `Post` (a change from the console, with its guards); `GetToken`, `GetRefreshToken`, `GetClientCredentials`, `GetOauthUrl`, each of which resolves the context anew, with or without a type, while `held` collects the types in which the seller was active meanwhile; the token cache in front is left out; `Diagnose` |
| `Costing` | the stage of one item's costs, what was asked and answered | `Fetch` (whether the detail is asked), `Land` (shipping, import charges), `Collect`, `Read` (one rule after the other), `ResolveSelling`, `ResolvePayout`, `ResolveTotal` |

Three modules without state stand beside these. `PolicyEffect` is what policies come
to: the candidates made of incidents and alerts, the policies made of them, which of
several active ones counts in each scope, and what they allow together. `PolicyMachine`
is the state machine of the policies, whose transitions the console checks and then
carries out with code of its own, and the two jobs that look for policies whose time is
over. `PayoutFees` is the payout fee with its amounts. The assumptions of `MCOperations`
state what holds of them, for all small tables: a seller is only stopped by a policy that
covers it, and a policy that stops is only lifted by one of its scope with no less
priority; the two ways of ordering policies agree; a request of the console that nothing
interrupts does what the state machine does, unless its date cannot be read; the expiry
job expires what is over and nothing else, all of it if the active policies fit on a
page; the payout rule chosen for a category is a most specific one, and a payout is never
free. They also state what does not: see 5.

`Costing` has no amounts. It keeps what decides: which snapshot, carrier and rule,
and the status each resolver gives its answer. After `Collect` it forgets the
snapshots, and after `ResolveSelling` the rules, as the resolvers do. The resolvers
know two values of strictness that any caller passes, `strict` and `balanced`.

## 3. The runs

| Run | Instance | What it shows |
|---|---|---|
| `escalation_safety` | 1 key, 1 batch runner, clock to 3, 2 operators' writes, 1 fault | rows stay consistent; alerts are capped, due and spaced; what the system closes had recovered; levels and `last_seen_at` do not fall |
| `escalation_liveness` | the same with a batch in every tick, 1 write, 1 fault | each failure gets its row in spite of a crash, and an untouched alert is reminded of |
| `escalation_resolve_sticks` | without faults | a documented promise that the code does not keep |
| `scheduler` | 3 jobs in a chain, registered last one first; the loop and 1 operator; 1 trigger, 1 fault | mutual exclusion, locks, dependencies, the limit's restoration, and that due jobs run |
| `scheduler_overrides` | the same without faults | the arguments of a trigger outlive it |
| `listing_execution` | 2 services, 2 attempts for one listing with an id of its own at eBay, 2 calls, 1 fault | one publication per attempt, honest rows, settled calls, the history ahead |
| `listing_execution_retry` | 1 service, 1 attempt | a documented promise that the code does not keep |
| `api_client` | 2 threads, 1 operation, 3 calls, 1 retry, 1 revocation, a burst of 1 | the rate, that a refused token comes back only where the refusal could not be read, and that calls return |
| `marketplace` | 1 sync, 1 monitoring, 2 prices, 1 edit, 1 failed answer | stays sold out, recovers the link, and the prices meet |
| `marketplace_ended` | the same | an ended offer is not noticed |
| `candidates` | 5 items; 3 kinds of listings, none or 3 of each, 2 evaluations and scores, 3 half days; 9 items to research, 2 workers; 2 operators, deaths before the dispatch and before the row, a window of 2, 2 recent rows, clock to 4, 4 rows | the review flags survive the refinement job, launches and the guard's verdicts are earned, and the table of handoffs implements `DispatchOnce` |
| `operations` | 2 detectors, 1 incident, 6 hours; 2 threads, 1 policy of 2 kinds; 1 key, 2 versions; 2 processes, 1 event type, 6 minutes; 2 fee components, 3 rules, 2 shipping options; 2 sellers, 2 environments, 2 bindings | the properties of the six small components |

**Why the bounds are enough.** One *key* is enough in `Escalation`: a row is only ever
read and written with its own key, and the one place where two keys meet, the recovery
by job name, is `RecoveredSince`. One *batch runner* is what the scheduler's lock gives;
the properties about spacing rest on it, and the three safety invariants that do not are
proved for any number. A clock to 3 with intervals of 1 and 2 lets both escalation steps
come due, one after the other or at once. Two operators' writes allow acknowledge–reopen
and resolve–reopen within one batch. Three *jobs* are the smallest chain in which the
order of the search differs from that of registration at two depths, and in which there
are two ways to one dependency and circles of two and three. Two *attempts* for one
listing are an attempt and its retry. Three *calls* of two threads let one call be
refused while the other stores a new token and a third waits for the limiter. One *edit*
on top of the sync's and the monitoring's own writes to eBay lets each of the two rows
and eBay be the one that is out of date. One *fault* each is enough to break any single
step; repeated faults are covered by the proofs where there are any. In `Handoff` a
table of 4 rows with 2 in sight lets two rejected runs hide the row of the dispatch,
which the window must then cover, with a row left for the next run; a window of 2 fits
twice into the clock; and two operators overlap, or one dies with the row of the
dispatch and the other runs. Five *items* are two that share a part number and differ in
identifier and capacity, one without identifiers, one that is a lot, and one that
nothing matches safely: every rule of the matcher decides between some two of them. Two
*evaluations* and two *scores* let each be older or newer than the other, and three half
days pass the limit of one day. Two *workers* of readiness overlap a research run and a
check, or two checks; the nine items are a good one and others that each fail in one
way. One *incident* reaches every state twice within 6 hours, as the shortest policy
allows 1 and 4; incidents meet in the search for duplicates only. Two *threads* at one
policy are the smallest race; two *versions* in three scopes let each scope hide each
other, and both be active in one; a key's value is looked up by itself. Six *minutes*
pass the cooldown of 5 of the event type. Three *rules* for two components contain every
order of two competitors and one bystander. Two *bindings* of two sellers in two
environments are the smallest table in which a seller has two environments of one type,
or another seller's binding comes first. All runs are without a deadlock check, since
the bounds end every behaviour; and a closed incident, a policy that ended and a total
stay as they are in the code too.

`listing_execution` leaves out dry runs of the mock entry point, whose cached answer
would be given to a real call of the same attempt (see 5). Its `Numbers` are {1}, the
default of `current_attempt_number`, since no caller gives it.

`TypeOK` of `Escalation`, `Scheduler`, `ListingExecution`, `ApiClient`, `Marketplace` and
`Handoff` is a theorem and no invariant of a run.

**Fairness.** `Escalation`: time passes and a batch that began goes on; that one
begins in every `Period` is the job's interval and is part of `Tick`.
`Scheduler`: the loop polls, a thread goes on, and a runner returns (the code has
no timeout, see the hazards). `ListingExecution` and `ApiClient`: a call goes on,
and time passes; nobody has to make a call, the lock need not be fair.
`Marketplace`: the scheduler runs both jobs again and again and a pass goes on;
nothing is assumed about which runs when, nor that monitoring ever finds
anything in particular. `Handoff`, the
other parts of `MCCandidates` and the small components state none: nothing in
the code takes a deferred handoff, a waiting policy or an open incident further.
Fairness is weak throughout: no action is assumed to happen because it was possible
now and then.

## 4. The proofs

Thirty-nine theorems, each for every value of the constants and any number of processes.
They assume the named assumptions of the modules (bounds are natural numbers, `None` is
no value, the items of `Readiness` are items, and those of `Selection` a finite set of
listings). Some also assume what their statements say: `NoDryMock` (`ExecutedIsListed`,
`RowsSettle`), one operator (`LimitPutBack`), one batch runner (the last five of
`Escalation`), and a resolver that answers in order (`TypeCorrect` and
`DependenciesRunFirst` of `Scheduler`). Each of these is true of the instance in which a
run checks the same property.

**`EscalationProofs`** — `TypeCorrect`, `StatusAlwaysAgrees`, `RemindersCapped`,
`EscalationsEarned`. None of the three invariants is inductive: `Persist` writes a
count and a level that were computed from a snapshot into whatever the row is by
then. The invariant that is, `IInv`, adds to each row what the invariants say of
it (`RowInv`) and to each batch (`RunInv`) that its snapshot is of rows that still
exist with the same `firstSeen`, and that an alert not yet written back was due
when it was decided. `firstSeen` never changes once a row exists, so that due at
the snapshot is due at the write. Nothing is said of locks: any number of batches
may overlap.

The other five compare a row with what it was, and two overlapping batches would break
them: `SystemClosesJustly`, `LevelsOnlyRise`, `EscalationsStaySpaced`,
`RemindersStaySpaced` and `LastSeenOnlyAdvances`. They assume `OneRunner`, which the
scheduler's lock on the job's key gives within a process (`NeverTogether`). The
invariant `SInv` adds that a row which the batch has still to write is what it read, up
to what operators wrote meanwhile: the same times, and a level and a count no higher
(`OnlyEased`), so that an alert that was due when it was decided is due when it is
written (`StillDue`). The five then follow from a single lemma about a step
(`StepProper`).

**`SchedulerProofs`** — `NeverTogether` (`MutualExclusion`) and `NoKeyLeftBehind`
(`LocksHeld`). Each needs the other: a key may be taken because no running job has
it, which is to say that the lock manager's set is exact; and freeing a key leaves
the set exact only if no other running job has it. `IInv` is both with a weak
typing of cycles (`Shape`); the order of execution and the clock play no part, so
that they hold for any registry, with circular dependencies too. `LimitPutBack`
(`LimitRestored`) assumes a single operator: a limit is overridden only while no
other override is in force, so that the limit a cycle puts back is none (`LimitInv`).

`DependenciesRunFirst` (`DependenciesFirst`) and `TypeCorrect` take from the resolver
what the assumption `ResolverSound` checks of it over all registries of three jobs: it
answers in order (`ResolvesInOrder`), and it raises of circles only (`RaisesOfCircles`),
so that the trigger of one job always starts. `OrderInv` is what the engine makes of
that answer: what is left of an order is still one (`TailOrderly`), the job at its head
does not depend on itself or on one behind it (`HeadFirst`), and so its own end cannot
change what `_can_run` found before it took the lock.

**`MarketplaceProofs`** — `TypeCorrect` and `SoldOutStays` (`SoldOutKept`), which is
about a decision taken earlier than the write it forbids: `Holds` says what a
pass holds at each step (an offer was seen wherever one is written back, a row was
read wherever one is changed), and that no pass on its way to `reconcile` has seen
a listed product with an item of quantity 0.

**`ListingExecutionProofs`** — `TypeCorrect`, `ListedOnce` (`PublishedOnce`),
`ActiveIsListed` (`ActiveIsPublished`), `ExecutedIsListed` (`ExecutedIsPublished`) and
`AuditIsAhead` (`AuditedFirst`). The argument is the primary key of the attempts: a
call that has inserted its row and not asked eBay yet is the only one of its attempt
(`Alone`), and without a row nothing is published (`Once`); what comes later only
carries the executor's answer to the row (`CallHolds`). `ExecutedIsListed` needs the
hypothesis `NoDryMock`: after a dry run of the mock entry point the executor's cache
answers a real call of the same attempt.

`RowsSettle` (`Settled`) is about runs without faults, and its invariant is about who owes
a row its last write. A call owns the row from the insert to that write (`Owner`); no two
own the same (`Sole`), and a row without an owner is final (`Rest`). The owner's session
works, since nothing but the duplicate of a primary key breaks a session without a fault,
and whoever met one has no row (`CallSound`); what eBay answered is what the owner will
write (`OwnerHolds`). A call that met a duplicate fails in its own failure handling before
it writes anything, for a live call because its session is broken, for the mock's because
its state machine is still executing and cannot be rolled back.

**`ApiClientProofs`** — `TypeCorrect`, `ReadRefusalsHeeded` (`ReadRefusalIsFinal`) and
`RateKept` (`AdmissionsLimited`). For the first, a token that is minted and not yet
stored is known to its minter alone, so that storing it brings back nothing that was
refused (`Unshown`), and what the cache holds is never a token whose refusal a call past
its invalidation has read (`Forgotten`, `Heeded`). For the second, what is left in a
bucket pays for the calls since any earlier one, out of a burst and the time in between
(`Paid`), and a sleeper holds the lock, so that the bucket it computed its sleep from is
the one it wakes up to (`Asleep`).

**`HandoffProofs`** — `TypeCorrect` and `Suppressed` (`AcceptedApart`), the refinement,
for any number of operators, any of which may die: initial states map to initial states
and every step to a step of `DispatchOnce` or a stutter. The invariant says that runs
which have not overlapped are one (`Solo`); where the last acceptance is written down
unless its row was lost (`Recorded`): its operator is about to insert the row, or the last
row of the table is no older than it; and that an operator who is about to dispatch, with
neither excuse, has the last acceptance a window behind (`Clear`). `GuardsSee` is the
step that matters: rows are appended in the order of time, so that the newest alone keeps
the window closed, however many the limit hides.

The same module, which extends `MCCandidates` for its instances, proves `FlagsKept`
(`FlagsSurvive`) of `Discovery` and `EarnedAlways` (`AllowedEarned`) of `Readiness`. For the
first, what a look assigns is never below what its matcher read (`Raised`), and that is
what the commit may write. For the second, `Told` is the set of the rows that say no more
than the item bears out and their own brand and character do: every decision and every
verdict is in it, it does not change since the item does not, and it therefore does not
matter which row a worker writes over which.

`LaunchesEarned` (`AutoLaunchEarned`) is about `Selection`. Rows are only ever added, so that
the number a score or a decision keeps goes on meaning the same row (`SelectionInv`): what
an evaluation without doubts says of its count and confidence (`EvaluationInv`), and what a
score that launches says of its own evaluation (`Earns`), hold of them for good, whatever the
newest rows are by the time of a ranking. That the launch leaves a profit at full price is
`Discounted`, since a multiplier is at most 1 and penalties only take away. The evaluation's
price must be a number for that, and therefore the sets in `Median` not empty: at the
dearest kind that was found all copies are counted (`AllUpToDearest`).

**`OperationsProofs`** — `StrongPolicies` (`StrongReviewed`), `BreachesKept`
(`BreachKept`), `LateIncidentsListed` (`LateListed`, which the run leaves to the proof)
and `AlertsSeen` (`AlertSeen`). They are about the instances of `MCOperations`, which
this module and `CostingProofs` therefore extend, each from its own component's
specification. `ReviewInv`: what a thread has checked stays true until it writes,
because only approval leads to activation and nothing takes an approver or a date away;
a thread that has entered `approved` still owes the stamp. `IncidentInv` and `Follows`:
a step never makes the time of an acknowledgement or a resolution earlier than now, nor
changes a due time, and reopening takes the resolution back. `AlertInv`: a time in a
process's table is never later than the type's last acceptance, and neither is later
than the clock. They assume that the detectors are among those with a threshold and that
`None` is not a number. `CredentialsGoTogether` (`CredentialsTrue`): what each of the
three lookups of a token request finds is of a type that the seller is active in at that
moment, or of the one asked for (`AskedFor`); and the set of these types only grows
while the request is under way (`KeysInv`, `HoldKeeps`). `OverridesStand`
(`OverridesHold`): the source of a key is the version that the narrowest scope that
gives the key puts forward (`Gives`, `SourcesGiven`); a scope none of whose versions is
switched puts the same one forward after any step, since a version's scope and keys
never change and a new one is inactive (`Unswitched`); so that a change of source is the
doing of the old one's scope or of a narrower. Both look for the first or the last of a
set of rows; that there is one (`Smallest`) follows from the library's theorem that
inclusion of finite sets is well-founded.

**`CostingProofs`** — `StrictTotals` (`StrictHonest`), `SparedDetails` (`SparedIsExact`)
and `SpecificRules` (`SpecificRuleWins`). `HonestInv` carries, from stage to stage, what
each status can rest on: a selling fee that is exact or estimated has its rule, shipping
that is has its carrier. `SparedInv` is the argument that the two readings of the
shipping options agree. `ChosenInv` says of the rules read so far which one each
component has; it needs that conditions are numbers and `None` is not a rule
(`CostingAssumption`), and not the order in which the lists are read.

**Only model-checked.** Liveness (`FailureTracked`, `OpenAlertReminded`,
`DueJobRuns`, `CallsEnd`, `CallsReturn`, `LinkRecovered`, `PricesMeet`), which
the prover does not reach under fairness; `ResolvesInOrder` and `RaisesOfCircles`, what the
recursive search computes, which is induction; and
the assumptions of the `MC` modules about the modules
without state, which TLC evaluates over all inputs of the size they name.

## 5. What was found

Each of these is a run that finds a documented promise violated by what the code
does; `PROJECT.json` quotes the line of the promise.

* An alert that an operator resolved is reopened by a batch without a new failure
  (`escalation/runner.py:267`, `OperatorResolveSticks`).
* The arguments of a manual trigger stay in the shared job definition
  (`orchestrator/manual_trigger.py:32`, `OverridesTemporary`).
* A history event that cannot be written after the item went live makes the
  attempt one to be retried, under a new id (`RetryIsSafe`).
* A sync that finds the offer of a listed product ended cannot say so: the
  candidate's upsert keeps `listed` (`EndedIsNoticed`).

Met while reading, each at its line, and not (yet) the subject of a property:

* *Escalation.* `acked_at` survives a reopening, so that an alert acknowledged in an
  earlier life is never reminded of (`persistent_escalation_state_repository.py:29`);
  the recovery query matches the job name alone, of whatever seller
  (`unresolved_selector.py:30`); the policy repository drops the fields of the
  re-escalation and SLA branches, which are therefore never reached; a job that
  recovered before the batch began stays open, as the old failure is ingested again
  first, with the current time (`runner.py:79`); `bootstrap.py:59` passes a session
  where the history repository belongs; bootstrap writes the default policies again at
  every start, so that one an operator disabled is enabled (`SeededAgain`).
* *Orchestrator.* Two threads may list one due job and run it twice, one after the
  other (`engine.py:29`); followers of a failed job run in the next cycle, when it
  is not due (`engine.py:105`); `start()` right after `stop()` leaves no loop
  (`orchestrator.py:19`); `validate_all_dependencies` is never called
  (`job_registry.py:14`); `include_dependencies` forces the named job alone
  (`manual_trigger.py:43`); `run_job` of the console raises `TypeError`
  (`admin_cli/services/job_ops_service.py:38`).
* *Listing execution.* No caller passes `current_attempt_number`, so that `MAX_ATTEMPTS`
  is never reached, and `retry_execution` lacks arguments (`application_service.py:145`,
  `:395`); `readiness_passed` is written before the row it refers to (`:155`); in the
  gateway, a failed publication leaves an offer and the retry creates another
  (`gateway.py:80`); a real call after a dry run with the same `attempt_id` is answered
  from the mock executor's cache, and its row says executed (`mock_executor.py:52`); a
  process that ends between the publication and the row leaves it executing for ever
  (`application_service.py:237`); when the event of a sync cannot be written, the
  payload's listing stays active and `lst_<sku>`, which nobody reads, is rolled back and
  set to be retried (`application_service.py:246`, `:256`); in a CSV file, a row too
  short to have a brand is an error and still takes its SKU, so that a good row further
  down is skipped as a duplicate (`csv_loader.py:132`, `ShortRowHides`), and a price of
  `nan` is accepted.
* *API client.* A 401 whose body is not JSON raises before it is looked at
  (`ebay/base_client.py:111`), and the handler (`:137`) retries without invalidating: with
  the same refused token, as long as the cache has it, although
  `docs/auth-token-rate-limit-layer-design-v0.1.md:52` and `test_api_client_retry_on_401`
  say that a 401 invalidates. The limiter is asked once per call, not per attempt
  (`ebay/base_client.py:64`); an application token is stored without a seller and
  invalidated with one (`:83`); the cache key leaves the environment out
  (`auth/token_cache.py:22`).
* *Sync and monitoring.* The protection of `listed` is a read, a check and an update in
  one session (`repositories/persistent_product_candidate_repository.py:16-26`): two
  sessions that overlap can each pass the check, and the later commit takes back a `listed`
  that the earlier one wrote. A withdrawal whose answer has a body counts as failed,
  and since the status stays listed the next pass withdraws again
  (`monitoring/withdraw_executor.py:15`); a row rebuilt by `repair_db_ids_only` has
  quantity 0, which a later pass writes to eBay (`listing_sync/gateway.py:93`).
* *Handoff.* `run_handoff` always raises (`admin_cli/services/handoff_ops_service.py:17`,
  `handoff/eligibility_validator.py:17`). Were that mended, two operators at once, or a
  process that dies between the dispatch and the insert (`handoff_ops_service.py:36`,
  `:47`), would dispatch a candidate twice; these are the two excuses of `AcceptedApart`. A
  deferred handoff is never taken up (`handoff_service.py:146`).
* *Notification.* The rule for required reviews matches no severity that its events
  have; no email or webhook notifier is registered; a resent event has lost its seller
  and with it the sandbox's routing; every process cools down on its own; an event
  of a sandbox seller that only the console takes keeps back another seller's of its type.
* *Incidents.* The blueprint is not mounted and the repository lacks two methods (see 1).
  The search for duplicates compares a root cause that a fresh incident
  does not have, and never matches one; the dashboard leaves mitigated incidents out, the
  repository counts them in; the service level job raises on `_state_machine`; state and
  event are two writes (`incident_management_service.py:76`).
* *Policies.* The blueprint is not mounted (see 1). A review date that cannot be read
  raises after the status has been entered, so that a strong policy is approved without
  one (`admin_web/routes/policy_routes.py:131`, `ops_policy_state_machine.py:49`); a
  policy cancelled between the check and the write of its activation becomes active; all
  policies made by hand have one priority, so that of two in one scope the first decides
  and a later, stricter one is masked (`effective_policy_service.py:32`); a block made
  by hand is lifted by any policy made of a candidate, although the precedence service
  says that deny-first actions override everything (`HandBlockLifted`); the severity of
  an incident is compared with a text, so that a critical one only pauses the handoff
  (`CriticalOnlyPauses`); a wider concurrency limit forgets the seller's
  (`WiderLimitForgets`); the expiry job sees the hundred newest active policies, so that
  an older one that is over may stay (`OldestNeverExpires`); the scan for overdue
  reviews looks at approved policies and not at active ones (`ActiveNotReviewed`).
* *Changes.* `approved_by` is written before the guard (`change_proposal_service.py:132`);
  a version activated beside another leaves both active, and expiring the newest brings
  the older one back.
* *Costs.* `_finalize_result` rewrites a fee that strict mode has refused to partial or
  fallback (`selling_fee/resolver.py:255`, `payout_cost/resolver.py:270`), although
  `docs/selling-fee-resolver-design-v0.1.md:32` says that strict answers unresolved; a
  strict total passes over an unresolved payout (`total_cost/resolver.py:137`); a fee
  takes the name of its best list even if the final value fee came from the fallback; a
  detail without options hides a search result with an allowed carrier;
  `score/calculator.py:76` compares a text that never equals `unresolved`; the research
  pipeline passes neither rules nor snapshots, so that its strict totals are always
  unresolved.
* *Research and evaluation.* `force_rebuild` inserts the same SKU again, and the batch
  fails; `list_unprocessed` returns every item, so that a job with a limit researches the
  same ones each time (`persistent_source_item_repository.py:41`); the strict score is
  never blocked; `publish_readiness` stays true when strict mode blocks; the job row stays
  `running`, because it is read back in a session without autoflush; an empty field of a
  candidate ends its market evaluation (`market_eval/market_evaluation_service.py:46`); a
  ranking takes the newest score although that may rest on an older evaluation than the
  one it is ranked with; the guard also accepts a status `approved` that nothing gives.
* *Review queue.* A rejected or held candidate stays in the queue: the repository's
  `update_review_status` does nothing (`persistent_review_queue_repository.py:106`).
* *Sellers.* A token request without a type, which is what the API client makes
  (`ebay/base_client.py:81`), resolves the active binding three times
  (`auth/token_service.py:88`): when another binding is activated in between, the token is
  of one type of environment and the keys or the URL of the other. `KeysMatch` says how far
  they can differ. `ops sellers activate` flushes and never commits; a binding without a token
  reference uses the default token, whatever its environment; the console falls back to
  the active binding of any seller when the one asked for cannot be resolved; the form for
  maintenance windows and the console's doctor call what does not exist.

## 6. What is not modelled

* Within the modelled components: `dry_run` of escalation, sync and monitoring,
  which returns before the first write; metrics, timelines, evidence, notes and
  messages; the re-escalation and SLA branches, unreachable as said above;
  several sellers, scopes and token kinds in `ApiClient`; more than one offer per
  product.
* The source refresher of monitoring is a placeholder that tests replace: what it
  finds is an input of `MonitorDecide`.
* The listing execution gateway cannot be imported (`guard.py` and
  `result_mapper.py` take names from `.models` that it does not have), and nothing
  creates it; `Marketplace` starts from the states it would leave, and its guard is in
  `Readiness`.
* Within the small components: the amounts of the cost resolvers where rules are given,
  except the payout fee; events, links and assignment of
  incidents; the stubs of review, rollout, validation and learning; the deduper of
  notifications, which no rule uses; cool-down, limits per run and retries of
  handoffs, which their only caller does not reach; snapshots of sellers, and the
  thread-local context, which nobody sets.
* On the way of a candidate: how titles, identifiers and attributes are read from text;
  the components of the ranking score and its queues; synthetic demonstration scores;
  drafts, evidence and counters; the jobs that are placeholders.
* Jobs that count what a stub returns (learning, change management), and the retry
  planner, which nothing calls.
* Presentation, exports, dashboards and digests, endpoint wrappers, tables, migrations.

## 7. The plan

In the order in which the behaviour matters:

1. **Done**: `Escalation` with `AlertPolicies`, `Scheduler` with `DependencyResolver`,
   `ListingExecution` with `ListingIntake`, `ApiClient`, `Marketplace`; `Handoff` with
   `DispatchOnce`; `Discovery`, `Selection`, `Readiness`; `Incident`, `OpsPolicy` with
   `PolicyMachine` and `PolicyEffect`, `Change`, `Notification`, `Costing` with
   `PayoutFees`, `SellerEnv`; and the proofs above.
2. Compositions: the abstract lock of `Scheduler` refined by two cycles, and
   `Escalation`'s single batch as what `Scheduler` gives it.
3. The amounts of the selling fee and of shipping, as `PayoutFees` has those of the payout.

Every safety invariant and action property that a run checks is now stated by a theorem.
Still worth proving:

* that `Scheduler` implements the abstract lock: `NeverTogether` and `NoKeyLeftBehind` are
  the invariant it needs;
* the type invariants of the components of `MCCandidates`, `MCOperations` and `Costing`,
  whose theorems carry only the types they need;
* `ResolverSound` for registries of any size, if induction over the search comes within reach.
