# TLA+ models of the Team Brain

This directory holds a formal model of the parts of the Team Brain whose correctness
depends on the order in which concurrent requests, background workers, crashes and
timeouts meet. TLC checks every module on small instances; TLAPS proves the most
important invariants for every size.

- `ExecutorGateway` – the executor gateway: one-use delivery of a credential for a
  governed tool call (`lib/gateway/persistence.ts`, `admin-persistence.ts` and the two
  internal routes).
- `ExecutionTicket` – what the gateway promises, as an abstract specification.
- `JobQueue` – the durable job table `social_jobs` and its runner (`lib/jobs`).
- `SocialPublishing` – publishing of a content variant (`lib/social`), on the job queue.
- `GovernedActions` – actions executed once under an identity, held by policy for an
  administrator (`lib/actions/governed`).
- `GraphProjection` – the copies of an item in the graphs of its audiences, and how they
  leave again (`lib/graph/project.ts`, `reconcile.ts`, `lib/ingest/purge.ts`).
- `PmSync` – rows of tasks projected to issues of a Linear board, and status moves and
  issues taken back (`lib/pm-sync`).
- `SlackIngestion`, `GithubIngestion` – the passes of the poller over a Slack channel and a
  GitHub repository, with the deletions the one infers and the watermark the other skips by
  (`lib/ingest`). `Ingestion` – both as legs of one tick.
- `MC*` – constant values and symmetry for TLC. `*_proofs` – theorems.

Paths below are relative to `src/`.

## 1. The system

The Team Brain is a Next.js server over PostgreSQL. Requests (API routes, server
actions) and in-process pollers (ingest, graph, social jobs) share nothing but the
database; every deploy overlaps an old and a new process. The query builder
(`lib/db/pg/query-builder.ts`) runs one statement per call, each a transaction of its
own, and returns a failure as `{data: null, error}` instead of throwing; a few
components (gateway, governed actions) open real transactions.

| component | state | operations | talks to | what is hard |
|---|---|---|---|---|
| executor gateway | leases, executions, approvals, credentials, audit log | resolve, authorize-and-redeem, decide, resume-claim, outcome, sweep, rotate, revoke, policy edit | executor service, administrators | one-use delivery under races, advisory lock held past COMMIT, crash after COMMIT, deadlines, audit integrity |
| job queue | `social_jobs` | enqueue, claim, reclaim, settle | handlers (publish, collect_analytics) | overlapping processes, vanished workers, lost writes, exact attempts |
| social publishing | publications, variants, approvals, settings | generate, submit, decide, schedule, cancel, publish | job queue, Typefully, LLM | check-then-act over several statements, retries of an external post, brake and door at fire time |
| governed actions | identities, attempts, the shared approval queue | submit, resume, decide, execute | tasks and notes (consumers), administrators | two transactions per submit, try-lock and replays, callbacks that outlive a transaction, authority that changes meanwhile, a legacy resolver on the same queue |
| graph projection | `graph_episodes` (a ledger row per item and group), the groups in Graphiti | project, restrict, redact, fan out, reconcile, purge, arm | Graphiti, memberships, readers | pushes without acknowledgement, extracted late or never; best-effort deletes; a pass that acts on a snapshot; one slot per row for a debt |
| ingest and connectors | items with their versions, `connector_cursors`, contribution rows | poll, store, forget, infer and confirm deletions, purge, skip by watermark, unlink | GitHub, Slack, Linear, mail; the Python sidecar | a remote that changes between any two calls of a pass; deletion inferred from absence; a cursor that hides what it skips; failures swallowed by a call; overlapping processes |
| pm-sync | `tasks`, `task_pm_links`, the issues of the tracker | edit, project (after a write, a batch), adopt, apply inbound | Linear, Plane; ingestion (mirror rows, declared issues) | overlapping projections, stale listings, lost answers, an issue with two writers, echoes of its own writes |
| access, identity, auth, provisioning | members, memberships, sessions, keys | visibility, sign-in, key issue | all | every reader applies the same predicate |
| query, chat, llm, cache | conversations, caches | retrieve, answer | LLM providers | little of its own |
| meetings, metrics, costs, dashboard, attribution, work-events, codebases | derived rows | recompute | database | idempotent recomputation |
| secrets, member secrets | ciphertexts | seal, open | KMS key | – |
| admin, policy, onboarding, subscriptions, okf, library, brand, media, staging | settings, catalogues | single-statement writes | UI | – |
| UI, scripts, graph service patches | – | – | – | not modelled |

`PROJECT.json` lists every component with its status, and under `hazards` the places in
the modelled code where a test would hardly reach, each with the properties that watch it.

## 2. What is modelled, and how

### ExecutorGateway

An executor service authenticates with a credential, resolves a *lease*, and redeems it
for an *execution*. Policy decides at redemption: `block`, `allow` (claimed at once, the
credential is sealed into the reply) or `require_approval` (an administrator decides; a
*resume-claim* request later claims the execution and gets the sealed credential).

An execution is identified with the redemption request that creates it (`Requests`).
State: the columns the code tests and writes (`state`, `outcome`, `approval`, `row`,
`audit`, `consumed`, `issued`, `credential`, …), the advisory locks (`advisory`), and for
every request the point it has reached and the snapshot it holds.

- `AuthStart`, `AuthLookup`, `AuthCommit`, `AuthConflict`, `AuthRefused`, `AuthSeal`,
  `AuthSealThrows`, `AuthEnds`, `AuthFails`, `AuthCrash`: the authorize route. The
  look-up of the idempotency key and the locked insert are separate steps of one
  transaction, and the seal reads the credential in a second one.
- `ResumeStart`, `ResumeLock`, `ResumeBegin` (BEGIN fixes `now()` and the joined rows:
  deadline and scope are a snapshot), `ResumeNotFound`, `ResumeSettled`, `ResumeExpired`,
  `ResumeCancelled`, `ResumeClaim`, `ResumeSeal` (after COMMIT, still under the lock),
  `ResumeThrows`, `ResumeFails` (the catch of the route), `ResumeEnds`, `ResumeCrash`.
- `Decide`, `DecideLate`, `Sweep`, `Rotate`, `RevokeRequest`/`Revoke` (waits for the lock),
  `PolicyChange`, `FailSealing`, `RecordOutcome`; `LeaseExpires`, `ApprovalDue`,
  `PrincipalChange`, `ConnectionChange` are the clock and the rows other components write.

Abstractions: one service identity, team, member, binding; a principal is its
actor/role/tier triple; a rule set is its version and its verdict (`Effect`); request
fingerprints only decide which reply a retry gets; the classification `network` stands for
the four that lead to `failed`; encryption, rate limits and the expiry of credentials by
time are left out. A row-lock deadlock or any database error is `ResumeThrows`.
Three things are coarser than the code. `now()` is the time of BEGIN there; the resume requests keep
it so, while in `AuthCommit`, `Decide`, `DecideLate` and `Sweep` a deadline is tested at the
commit. `AuthCommit` evaluates the policy and inserts in one step, so a rule set published between the
two is not seen. And `Unlock` always releases: the code drops an error of the unlock, trusting
that the client it releases takes the lock along.
`issueResolutionLease`, `consumeLeaseAndCreateExecution`, `approveGatewayExecution` and
`claimApprovedExecution` are called by tests only and are not modelled.

`ExecutionTicket` is the abstract one-use ticket: it is issued waiting, open or closed, may
be admitted, is claimed by one holder, handed over at most once and settled once.
`ImplementsTicket` maps the gateway to it (`Phase`, `handed`).

### JobQueue

`status`, `attempts`, `waiting` (rows with `run_after` in the future) and `stale` (rows
locked longer than `STALE_JOB_MS`) are the table; `pc`, `picked`, `batch`, `current` what a
process holds in memory. One pass is `PassStart` (single-flight guard and the SELECT of the
reclaim), `Reclaim` per row, `SelectDue`, `Claim` per row, `BeginWork`, `HandlerStart`, one
of `HandlerReturns`/`HandlerThrows`/`NoHandler`, `PassEnd`: every statement is a step, and
each UPDATE uses what the SELECT read. `Crash`, `WriteFails`, `ClaimReplyLost` and
`SettleFails` are the failures. Clocks are abstract: `RunAfterPasses` and `LockGrowsStale`
may happen at any time, also while a handler is still at work (a handler may take longer
than five minutes, and the lock time of a batch is that of the start of its pass). The order by
`run_after` is abstracted: any `Limit` due rows.

### SocialPublishing

One variant and its publications; a publication is identified with its publish job, so the
module EXTENDS `JobQueue` and runs the handler inside its `current` job. Administrators'
requests (`adm`) and the handler (`run`) are program counters over the statements of
`generateVariantText`, `submitForApproval`, `decideApproval`, `scheduleVariant`,
`cancelScheduledPublication` and `runPublication`. A body is its number, the governance gate
is the set `Clean`; tier, evidence membership and brand are one flag `public` that may
change at any time. Consecutive reads with no write between them are one step (the reads
of the door; the look-ups of `scheduleVariant`). Typefully is external: it may post and
answer, refuse, or post and time out, and honours the idempotency key or not
(`HonoursKey`; the runs take the worse case). `StatementFails` lets any statement fail where the
handler stands, with the continuation the code has (`AfterFailure`). Two kinds of read do not end
the attempt when they fail: the dry-run setting counts as set, and the evidence of the door as not
public. Both settings may change and change back at any time (`ToggleDryRun`, `TogglePublic`), so these
continuations are among those of a read that succeeds. The analytics job is its dedup key.
`hurt` is history: publications whose enqueue failed, or an attempt of whose job was cut short.

### GovernedActions

`submit` is two transactions: the first accepts the request under its identity (member,
project, operation key) as a new attempt (`SubmitBegin`, `SubmitRefused`, `SubmitReplays`,
`SubmitUnavailable`, `SubmitAccepted`), the second runs it (`ResumeBegin`, `ResumeBusy`,
`ResumeStands`). An administrator's decision is one transaction (`DecideBegin`,
`DecideRefused`, `DecideInconsistent`, `DecideDenies`). Both end in `execute`:
`ExecuteUnavailable`, `ExecuteDenied`, `ExecuteHolds`, or `ExecuteRuns`, after which the
consumer's callback writes (`CallbackWrites`) and the effect commits (`EffectSucceeds`), is
rolled back to the savepoint (`EffectFails`) or with everything else (`EffectThrows`).
`Expires` is the deadline, a lost connection or a crash; `DiesBetween` a crash between the
two transactions of a submit.

State: `identity`, `tries`, `action` and `approval` are the rows; `holder` is the advisory
try-lock of each identity; `sharing` who holds the SHARE locks on the tables that grant
authority; `owner`, `writes`, `conn` and `detached` are the pooled client objects: a context
is bound to one, its guard compares the transaction it was made for with the one now active
there, and a callback nobody awaited keeps its context (`detached`). `landed` is history.

Abstractions: one member, one team; what a rule set decides is its verdict; a request is its
canonical bytes; previews, audit metadata and the two retention deletes are left out. The
stretch from the table locks to COMMIT or the callback reads only fenced rows and is one
step. Writers of the authority tables wait for the SHARE locks
(`StandingChanges`, `CredentialRevoked`, `RulesChange`). The resolver of `lib/actions/index.ts` refuses
governed approvals (line 156); an older release that overlaps a deploy does not know them and runs the
rest of it on the same queue row: it reads the row as pending and overwrites it by id later, in
two statements. The read changes nothing and every row is inserted pending, so `OldReleaseWrites`
may write any row that exists at any time, also over a governed decision; only the row lock of a
decision delays it (`overruled` is history). That a
consumer reports success only for what it wrote is its external contract.

### GraphProjection

One item. `item` and `members` are what other components write; `ledger` has the rows of the
item in `graph_episodes`; `landed` and `queued` are Graphiti: a push is accepted into `queued`
and extracted later (`Extract`) or never (`Lose`). `pc` and `job` are the pass that holds the
team's lease, with what it has read; `purge` is a purge beside it.

- A visit: `LoadItem`, `ResolveTargets`, `ReadLedger` read the item, its memberships and the
  page's snapshot of the ledger, in this order, each at its own time. A restricted item (no
  longer in General) takes `RestrictionArms`, then `MoveOut`, `HoldHome` or `KeepUntilCopied`;
  an item without text `RedactHome`, `RedactCopy`, `RedactEnds`; any other `SkipUnchanged`, or
  `MoveGroup` (a change of tier), `Prepare` (retract or purge, and reserve), `PushHome`,
  `RecordHome`. All end in the fan-out over the initiatives: `FanoutDefers`, `FanoutDrops`,
  `FanoutUntags`, `FanoutCompletes`, `FanoutSkips`, `FanoutThrottles`, `FanoutPushes`,
  `FanoutRecords`.
- Reconciliation: `ReconcileReads` and `RepairOrphans`; per row `JudgeConfirms`, `JudgePasses`,
  `JudgeSkips` or `JudgeParks`; per debt `CleanDeletes`, `CleanWaits` or `CleanClears`.
- The purge of `lib/ingest/purge.ts`: `PurgeStarts`, `RetiresDeferred`, `RetiresPushed`,
  `PurgeDeletes`, `PurgeFails`.
- Beside them `ReadArms` (a member's read arms an initiative), `ItemChanges`, `MembersChange`.
- Failures: a delete, one call per episode, removes any part of what it should and fails
  (`DeleteFails`), a group cannot be listed, a budget is spent, a pass aborts or its process dies (`Aborts`).

Every statement except the arming flip names one item, so one item is enough. The
inline delete of a group and the tombstone of its row are one step (`MoveOut`, `KeepUntilCopied`, `RedactHome`,
`RedactCopy`, `MoveGroup`, `FanoutUntags`, `RetiresPushed`), so a process that dies between them is left out: it
leaves the row as it was and a part of its episodes gone. The other abstractions: an item's chunks are one episode, so chunk configuration and delta pushes are
left out; so are the arming latch that decides when a partition may be read, the caches of
synthesised arcs (their purge only gates a flag: `gate` in `RecordHome`, `CleanWaits`), the
staging window, saturation and the watermark (a group that cannot be judged is a fault). Two
assumptions about time: `CLEANUP_GRACE_MS` exceeds a visit and Graphiti's queue
(`GraceElapses`), and `LANDED_GRACE_MS` exceeds that queue (`JudgeParks` counts a push it
outlives as a fault).

### PmSync

`task` is the row (status, and all other projected fields as one text, the body), `link` its
row of `task_pm_links` with the fingerprint, state and status last projected, `issue` the
Linear board. A row carries a key, its issue the same key in the `aios-ext` footer.

- `Edit` writes a row and schedules a callback (`due`). `Callback` and `ProjectBoard` begin an
  invocation of the projector over one row or a project's; `Prepare` lists the board once for
  a batch. Per row: `FindLink` (and the skip of an unchanged fingerprint), `InsertLink`,
  `ReadOwners`, `FetchBoot`, `Upsert` (the plan of `upsertWorkItem` over the listing: by
  resource id, by footer, by declaration, or create), `Seed`, `Persist`. Every statement and
  call is a step, and each works with what the earlier ones read.
- `StartPass`, `LoadLinks`, `LoadTasks`, `ApplyRow` are phase A of the inbound pass (a listing
  of states, the links, the tasks, then one guarded transaction per row); `FetchTeam`,
  `ReadOwned`, `ReadMirror`, `Adopt`, `StampFooter` are phase B, which adopts issues that
  ingestion imported as rows.
- `Move` is a person at the board. Failures: any statement or call fails, Linear's answer is
  lost after it has written, a process dies with its callbacks (`Crash`).

History variables say which guarantees a row has forfeited: `raced` (two activities over rows
that contend, with one key or with claims of their keys in common, ran over each other; `Contend`),
`lost` (Linear was written and the record of it lost), `unread` (the owners could not be read),
`kept` (adopted with a body of its own), `overtaken` (a seed or an adoption wrote over an edit made
since it read the row). `said` is the row as its member, or a move the pass took over, last left
it, which no write of the sync itself changes: it is what the row is compared with.
The board is one team; states are Linear's, with `Triage` for a state no status maps to.
Parents, labels, assignees, run records and display columns (`last_error`,
`provider_seen_status`) are left out: no decision of the modelled code tests them, apart from a
parent's resource id, which is one more field of the body.

### SlackIngestion

One channel. A thread is one item, its body the whole conversation: a root and a reply are its
messages, and a body, a version or a rendering is the set of messages it quotes. `posted`, `live`
and `privacy` are Slack; `stored` is the item with its version rows; `pass` what each process
holds. A pass is `StartPass` (`conversations.info`: a channel known to be private is purged, one
that cannot be verified is left alone), `History` (the newest `Window` top-level messages),
`FetchReplies` or `SkipThread` per thread, `StoreThread` per rendering (`ingestItem`, with
`forgetSupersededBodies`), `PlanDeletions`, `Confirm` or `Spare` per candidate, `PurgeItem` per
item. Every call is a step; `Post`, `Reply`, `Retract`, `MakePrivate`, `LosePermission` and
`RegainPermission` happen between any two. `Abandon` is a call that throws, or a restart.

Abstractions: message edits are left out (like a retraction, they give a body without the
old text); users' names, display names and attribution are left out; the graph's part of a purge is in
`GraphProjection`; a channel that became private stays private. `SlackProcesses` share nothing but the
rows, since `running` is a variable of the process.

### GithubIngestion

One repository. `tree` and `pushed` are GitHub: the version of each file and the pair
`pushed_at`, `updated_at` (pushes are seconds apart, GitHub's resolution). `config` is all that
`githubRepoConfigHash` hashes: globs, history window, identity map; a configuration names an
author for every file. `item` is the file's item (version, author, work-time), `commits` the
push and configuration of the contribution rows, `cursor` the row of `connector_cursors`, `run`
what each process holds. A pass is `StartRun`, `Probe` (scheduled or forced) or `ProbeFails`,
`Issues`, and, unless the cursor lets it skip, `ListTree`, `ReadFile` per file, `StoreFile` per
file (the contents and the last author are two calls of the code and one step here: a push between
them is repaired by the next pass); then `Scan` and `Finish`. `LoseFile` and `LoseAuthor` are failures the code passes over,
`LegFails` one it records, `Leave` a pass that ends where it stands. `Push`, `Reconfigure` and
`Relink` (unlink deletes the cursor) happen between any two calls.

Abstractions: one default branch (a switch is a push to the cursor); the issues leg keeps no state
that the watermark touches, so it can only fail; a repository that a real scan owns has no
commits leg; the tree is listed whole (`MAX_FILES_PER_REPO`, file size and the ten pages of
commits are limits of the reads, see section 4). `mark.missed` is a history variable: files that a
pass lost without recording an error.

`Ingestion` follows one of the two legs per behaviour, chosen at its start: they share no row,
flag or remote system, so the product of their states would show nothing more.

## 3. What the runs check

| run | bounds | question |
|---|---|---|
| `gateway_resume` | 1 execution, 2 resume requests, 1 credential, rule sets that hold and that allow, fairness | Delivery is unique and no resume seals after a revocation; tables and audit trail agree, nothing terminal moves; the gateway refines the ticket; a queued revocation commits. |
| `gateway_authorize` | 2 redemptions, 2 leases, 2 keys, 3 rule sets, 2 credentials (the second appears by rotation) | A lease and a key buy one execution, decided under the lease's rule set. |
| `gateway_false_seal_failure` | – | finding |
| `queue_overlap` | 2 processes, 2 jobs (one without handler), 1 fault, fairness | A settled job is never reopened; every job settles. |
| `social_publish` | 1 process, 1 publication, 3 attempts, 2 faults, provider ignores the key, fairness | Published is real, one failed write never costs the id, a process's rows are its own, attempts are exact, and every publication resolves. |
| `social_reschedule` | 1 process, 2 publications of one variant, 1 attempt each, 1 fault | A publication in the active index has a job or a request about to enqueue it, unless the fault hit itself (with any number of attempts: theorem `ActiveIsServed`). |
| `social_cancel_race`, `social_unapproved` | 1 publication; no fault | findings |
| `governed_actions` | 2 submits, 1 decision, a note with one retry or a task, 2 pooled connections, 1 callback left running, 1 decision of an older release, rule sets that hold and that allow | An identity has one effect at most, committed under valid authority and on the governed decision alone; what is settled stays; queue row and action agree where the older release has not written. |
| `graph_projection` | 1 item, 2 homes, 1 initiative, 2 texts, 3 row ids, 1 change (edit, membership or purge), 1 fault, fairness | Nothing in a group is without a pointer to it; purged, restricted, untagged and redacted text leaves; an item is found where it belongs, also after a lost push. |
| `pm_sync` | seven scenarios: a row with a pass; two rows of one key (undisturbed, or with a fault); an issue declared on two rows with a third that has the key of one; a declared issue and its mirror; a declared issue in a batch of two (twice); each with up to 2 edits, 1 move, 1 pass, 1 batch, 1 fault, 2 projections at once | An issue has one writer and a row one issue; an equal fingerprint may be skipped; a write-up survives adoption; an edit arrives unless a seed or adoption wrote over it; a pass applies no status over an unprojected edit and echoes nothing. |
| `ingestion` | a channel of 3 threads with a window of 2, 4 messages and retractions, 2 processes, 1 fault; or 2 files, 2 pushes, 2 configurations, 1 process, 2 faults; fairness | Only what Slack deleted, or a private channel, is purged; retracted text leaves every version; a cursor that lets a pass skip vouches for what it would have read; files arrive. |

Why the bounds are enough. A race over one execution needs the two requests that race, and
both may be in any of their steps while the administrator, the sweep and revocation act; a
third request can only repeat what the second did (the proofs confirm it for every number, and
for every number of credentials, which a rotation adds).
For governed actions two submits, a decision and the retry of a note meet on one identity,
and two connections let a left-over callback see its client object in another transaction's
hands; one decision of an older release may be read and written at any two points of this.
For the graph, one edit, change of membership or purge at any step of a visit, with
one failing call, lost push or crash, is where every rule of the code comes from; with three
row ids a copy that was dropped can come back under a new id while a snapshot still names the
old one.
For the board, the scenarios are the ways in which two rows can claim one issue (a shared key, a
declaration, a mirror), each with one disturbance of every kind it is open to; a third issue
may be written, so a duplicate is seen. The third row shows that a row may come to an issue through
another that has its key; the proof of `OneWriter` confirms that no further row adds a way.
For Slack, three threads and a window of two are the least with a thread out of the window, one
at its floor and one inside it; the second process is what makes a plan stale. For GitHub a push
and an edit of the globs fit before, into and behind one pass, and two faults let one pass be cut
short and the next lose a file; the proofs hold for every size.
Three attempts let a retry fail, be reclaimed and be exhausted; two faults let the second
one hit the recovery from the first. `Approvals`, `MaxDrafts`, `MaxAttempts`,
`MaxFaults`, `MaxTries`, `MaxDetached`, `MaxLegacy`, `MaxChanges`, the `bound` of a PmSync scenario,
`MessageBound`, `SlackFaultBound`, `PushBound` and `GithubFaultBound` are the only bounds on
counters. Symmetry is used only in runs without liveness properties. CHECK_DEADLOCK is off in `pm_sync` only, where nothing is left
to do once a scenario's edits, moves and passes are used up; elsewhere events such as policy
edits, passes of the poller and ticks of settings are always possible.

Fairness. Gateway: a started resume request goes on (every statement has a timeout and every
path ends in the `finally` that unlocks; an unlock that itself fails is left out) and a revocation that finds the lock free takes it.
Queue: the interval timer starts passes, statements and handlers end (the provider call
has a timeout of 30 s), and time passes. Nothing is assumed of administrators,
of producers or of the provider's answers, and faults are never fair. Graph: the scheduler
starts pass after pass and the holder of the lease goes on (the lease dies with its
connection), a purge that began goes on, Graphiti extracts what it did not lose, and the
cleanup grace elapses; nobody has to read, edit or purge. Pm-sync: none, since nothing retries
a projection that failed. Ingestion: the poller starts pass after pass and every call
returns or times out; nobody has to press a sync button. Changes are bounded, so the
liveness properties say what holds for good once the item is left alone (`<>[]`).

Every property has a mutant in `PROJECT.json`: a plausible bug in one action that TLC must
find with that property under the run's own configuration.

## 4. Disagreements between code and text

Runs with `expect: violation` state what a comment or contract says and show the trace that
breaks it:

- `gateway_false_seal_failure`: a database error in a *retry* of resume-claim settles, as a
  sealing failure, an execution whose credential was delivered.
- `social_cancel_race`: a cancellation confirmed between the handler's read and its
  unconditional write of `publishing` does not stop the post.
- `social_unapproved`: a failed attempt makes the variant regeneratable while its retry is
  queued; the retry posts a body nobody approved.

The models reach further disagreements that have no run of their own; each is a formula to
add to the module and check with the run's configuration:

- gateway: a resume request after the deadline writes `approval_expired` for a denied or
  cancelled approval (`lib/gateway/persistence.ts:686`; `<<"approval_expired", x>> \in audit =>
  approval[x] = "expired"`).
- gateway: a resume request before the decision cancels the pending approval
  (`persistence.ts:736`), which the contract leaves to a denial.
- gateway: the allow path seals without the credential's lock (`persistence.ts:1156`), so
  after a revocation has committed.
- gateway: an `approval_required` outcome recorded before the approval makes the later
  claim unsettleable (`persistence.ts:1258`).
- queue: a worker that returns after its job was reclaimed and claimed by another process
  settles that other claim (`lib/jobs/store.ts:183`: `status='running'` does not name the
  claim), although the comment at line 173 says that it cannot clobber it
  (`claimant[r.job] = w` whenever `w` settles `r`).
- queue: with two processes a reclaim returns a row another process has just claimed
  (`lib/jobs/store.ts:165`), and lost increments let a job start more often than
  `max_attempts` (`starts[j] <= MaxAttempts`).
- social: a failed publication with the id of a live post can be cancelled and posted again
  (`lib/social/publications.ts:106`).
- social: an enqueue that fails leaves a scheduled publication without a job
  (`lib/social/publish.ts:180`), which occupies the active index until an administrator cancels it; a
  publication left `publishing` by a job that died cannot even be cancelled. `ActiveHasJob` without
  `hurt`.
- social: a publish job that runs before `scheduleVariant` writes `scheduled` is cancelled at
  the door and leaves the variant scheduled with nothing to fire (`lib/social/publish.ts:187`).

- governed: the older release's resolver reads the queue row and updates it by id only
  (`lib/actions/index.ts:161-184`), so it can write `denied` over the approval of an executed action, or decide a
  row whose action still waits. `ApprovalAgrees` without `overruled`.

- graph: one flag slot. A purge of an item whose row owes another group deletes there once
  and overwrites the debt (`lib/graph/project.ts:632`). The comment says that reconciliation
  re-points the flag, which it does only for a debt to *another* group; here the row now owes
  its own. Likewise `retractFailed` overwrites a debt (`project.ts:1630`). `HomeLedgered`
  without its two conditions.
- graph: an untagged row on the sentinel without a flag is dropped as "purge CONFIRMED"
  (`project.ts:1020`), though the redaction branch says that such a row may hold a push that
  was never recorded (`project.ts:1285`). `CopiesLedgered` with `faults > 0`.
- graph: `landedCopy` is to be "CONFIRMED, not merely 202'd" (`project.ts:1165`), but
  `episode_uuid` outlives an edit, so an edited copy that is only accepted lets the home go.
- graph: an episode is judged by its item's name, so a lost re-push of an *edit* is taken for
  landed and never repeated (`reconcile.ts:598`). `HomeConverges` (a part of
  `GroupsConverge`) with the body in place of the group.
- graph: the home row of a restricted item that crashed between push and record stays parked
  on the sentinel, and the late extraction stays in General (`project.ts:1197`).
  `RestrictionLeaves` with `faults > 0`.
- graph: a flag past its grace stays so over a re-push whose inline purge failed, and can be
  cleared while that push is still queued (`reconcile.ts:790`).

- pm-sync: the owners' query drops its error (`const { data: owners }`, `owners ?? []`,
  `lib/pm-sync/project.ts:372`), so the adapter gets an empty set where its comments promise
  "FAIL CLOSED when the owner set is missing" (`linear.ts:354`, `:387`): the footer or the
  declaration then takes another row's issue. `OneWriter` without `unread`.
- pm-sync: when Linear has written an adoption and its answer is lost, the seed is never
  stored; the next projection finds the issue by its footer and sends the empty body, "the
  erasure this slice must not cause" (`test/pm-sync-declared-adoption.test.ts:156`).
  `WriteUpSurvives` without `lost`.
- pm-sync: a body that a member writes between the load of a projection and the seed of its
  adoption is overwritten with the issue's by an UPDATE on the id alone (`lib/pm-sync/project.ts:405`), although "once
  the brain HAS a body, the brain's body wins" (`linear.ts:407`). The edit is gone from the row, the link
  and the board at once, and nothing reports it. The same holds for an inbound adoption, which writes status and body as computed from the
  row it read before its transaction (`inbound.ts:490`; the transaction checks the link, not the
  row). `EditsArrive` without `overtaken`. `PmWinsIfUnchanged` is about phase A, whose transaction does
  check.
- pm-sync: two callbacks of one row may finish in the other order, and the board and the link
  keep the older status; an inbound pass then takes it back into the row.
  `EditsArrive` and `PmWinsIfUnchanged` without `raced`.
- pm-sync: a pass lists the board's states before it reads the links (`inbound.ts:590`); an edit
  projected in between makes the brain's own old state look like a person's move.
  `OnlyMovesApply` without `raced`.
- pm-sync: "the brain's status stands and gets re-projected outward instead"
  (`docs/ARCHITECTURE.md:1137`): `applyInbound` reports the conflict and writes nothing, and
  only a later edit projects the row.
- pm-sync: statuses of one group (`in_progress`, `in_review`, `blocked`) have one fingerprint
  (`project.ts`, `projectionFingerprint`), so a move between them is never projected. `EditsArrive`
  with the status in place of its group.
- pm-sync: `provider.ts:143` warns that `in_review` decays to `in_progress` on a board without
  that state. It does not: the link records the name of the state that was resolved
  (`last_projected_status`), so nothing diverges.
- pm-sync: two invocations that insert one link race, and the loser throws (`ensureLink`): its
  edit is not projected, and a batch ends there. `EditsArrive` without `raced`.
- pm-sync: an inbound adoption records the fingerprint of a body the issue lacks when the row
  has one of its own. `SkipIsSafe` without `kept`.
- pm-sync: an edit of a mirror row before its adoption projects it as a new issue; two rows that
  share a key get a duplicate after a lost create, since the footer names the key alone.
  `OneIssuePerRow` without its conditions.

- ingest: a file whose contents request fails is passed over (`if (!res.ok) continue`,
  `lib/ingest/sources/github-files.ts:123`), no error is recorded and the cursor advances over it,
  although "a failed pass must not orphan the delta behind an advanced cursor"
  (`lib/ingest/run.ts:722`). The file arrives at the next push. `CursorVouches` without
  `Swallowed`.
- ingest: when the last author of an unchanged file cannot be read, the heal of the frontmatter
  keeps the author's keys and drops `committed_at` (`lib/ingest/index.ts:305`), so the item falls
  back to the day it was first seen; the cursor hides it until the next push. The same holds for
  "a first-ingest API flake — a HEAL" (`index.ts:251`): no tick re-reads the file. `Swallowed`
  reduced to `f \in cursor.missed`.
- ingest: `githubRunning` is a variable of the process. While a deploy overlaps two, a pass that
  read push 1 stores it after the other has written the cursor of push 2. `CursorVouches` with two
  `GithubProcesses`.
- ingest: the comment spares a thread after "a network blip" (`lib/ingest/slack-cleanup.ts:78`);
  only a `SlackError` does, anything else ends the clean-up of the channel until the next pass
  (`Abandon`), which deletes nothing either.
- ingest: the oldest stored thread of a channel, when deleted, is never judged: its `ts` is not
  newer than the oldest message that is left (`ts <= floor`, `sources/slack-deletions.ts:78`).
  So are threads beyond the window, and a retraction in one of them. `ChannelConverges` without
  its conditions on `Read`.
- ingest: a channel made private between `conversations.info` and the reads is still read in that
  pass; the next one purges it (`ChannelConverges` says so).
- ingest, outside the model: a file deleted from the branch stays an item; the thousand-file cap
  and the ten pages of commits are silent, so the cursor vouches for what lies beyond them.

## 5. What is proved

TLAPS checks every proof to the last leaf; the theorems hold for every value of the
constants that satisfies the named assumptions (`ConstantsAssumption`, `QueueAssumption`,
`PublishingAssumption`, `GovernedAssumption`, `GraphAssumption`, `PmAssumption`,
`NullsAssumption`, `TasksAreFinite`, `SlackAssumption`, `GithubAssumption`); `NullsAssumption` says that the null of a
column is none of its values.

`ExecutorGateway_proofs` (any number of requests, leases, keys, credentials, rule sets):

- `TypeCorrect`: the type invariant, one lemma per action.
- `TablesCorrect`: `ApprovalMatchesExecution`. It is not inductive alone: that a fresh
  execution has no rows and a redemption has none until it commits must be carried along
  (`TablesAgree`).
- `OneCustodian`: `SoleCustodian`: who may still seal. This is the heart: a redemption about to
  seal was allowed and nothing is sealed for it; a resume request about to seal is the only
  winner. Its step needs that a claim finds the execution `approved`, which
  `TablesAgree` gives.
- `DeliveredOnce`: `OneDelivery` follows, since only a custodian seals.
- `LockHeld`: `WinnerHoldsLock`, and with it `RevocationRespected`: a seal of a resume request
  finds its credential active.

Of the records, on top of these: `OnlyWritesWrite` lists the steps that touch the
records at all and `OnlyCommitInserts` says that only the locked half of a redemption inserts
one; the rest follows statement by statement:

- `LeaseSpentOnce`: `LeaseBuysOneExecution`, and `DecisionFrozen`: `DecisionIsOfLeasePolicy`.
  They need that an execution names a lease that was issued (`LeaseOfRow`), and that a lease once
  issued keeps its rule set (`LeasesMove`); a redemption re-checks under the lock that lease and
  key are unspent.
- `AuditIntegrity`: `ClaimAuditIsClean`. It says something of executions that were held and are
  claimed or settled after a claim: their approval and claim are audited and no refusal is. It does not
  say what the log has of refused ones (section 4). `AuditTrail` adds what holds before: while an execution is open no refusal is audited of it, and
  once `approved` its approval is.
- `OutcomeIsFinal`: `SettledOnce`, an action property from `TablesAgree`: a sweep or a decision
  that closes an approval closes an execution that was waiting.
- `IsATicket`: `ImplementsTicket`, the refinement. A write of one state is a move of one
  ticket's phase, a sweep closes several (`WriteMaps`), and a seal hands out a ticket that is not
  handed out yet because the request sealing it is its only custodian (`SealMaps`).

`JobQueue_proofs` (any number of processes, jobs, attempts, faults):

- `QueueTypeCorrect`, and `SettledForGood`: `SettledIsFinal`, since every UPDATE names the
  status it starts from.
- `RowsAreOwn` and `AttemptsExact`, together `PassExact`, for one process (`OneProcess`): the
  inductive invariant `OwnInv` adds to the two properties that what a pass has selected and not yet written is
  still as the SELECT saw it, that the phases of a pass exclude each other (`PassPhases`,
  the single-flight guard), and that an absent row was never tried. With two processes
  both fail, as section 4 says.

`SocialPublishing_proofs` (any number of variants, publications, processes, administrators,
lost answers and crashes) proves about the composition with what was proved of the queue alone.
`OnQueue` is the bridge: every step of publishing is a step of `JobQueue`, or leaves the queue
alone, or is a fault counted elsewhere (`FaultElsewhere`).

- `SocialTypeCorrect`: `SocialTypeOK`. It needs that a job is enqueued for the publication its
  administrator works on and that a handler that runs has a row in hand (`SocialTypes`).
- `PassExactInside`: `PassIsExact` again, now with the handlers of publishing between claim and
  settlement, by the same `OwnInv` (one process).
- `PublishedForReal`: `PublishedIsReal`, for any number of processes, although two may run one
  job. `Carries` says what a handler in the middle of its statements vouches for: the post it was
  told of exists, and one that finalizes has its id in the table. Posts and ids are never taken back
  (`PostsStay`).
- `SecondPostNeedsLoss`: `DoublePostNeedsLostId`, for one process. A post that is not lost is
  the only one and its id is in the table or in the hands of the handler that made it
  (`KnownPost`); so a handler on its way to the provider has none (`Unposted`).
- `ActiveIsServed`: `ActiveHasJob`, for one process and through any number of faults. What was proved
  of the queue says that a handler's row is running; so a request cannot insert its publication
  behind its back. `IndexInv` adds that at most one publication is active (`OneActive`), that a
  publication is inserted before its job (`CreatedFirst`) and by a request that goes on to enqueue it
  (`EnqueuesOnce`), that no handler has touched one without a job (`NotEnqueued`), that what runs is in the
  hands of the process, so that a reclaim finds nothing (`RunningIsHeld`), and that a handler past its last
  write of the publication has moved it out of the index (`HandlersLetGo`); the last two except
  what is `hurt`.

`GovernedActions_proofs` (any number of submits, decisions, operations, attempts,
credentials, rule sets and connections): the five properties of the run and the two facts about
history and the callback on which they rest.
`GovernedInv` is the inductive invariant. `Typed` and `Exclusive` (a process in a transaction
owns the connection its context is bound to, a connection belongs to one process, the
uncommitted writes of a connection are its owner's) give `GovernedTypeCorrect`. `RowsAgree`
(attempts in order, queue row and action agree), `Placed` (what a process works on is an
attempt that exists) and `Fenced` (while a callback runs its authority is fenced and valid, and its
attempt undecided) give `HistoryIsClosed`, `QueueRowAgrees` and `CallbackFenced`.
`EffectsAgree` (a committed effect is that of the one succeeded attempt) gives
`EffectIsUnique`: an execution finds its attempt undecided, so no effect of it has landed, and
an earlier one has failed. `CommitsAuthorised` and `SettledForever` are action properties from the
same invariant: authority cannot change while a callback runs, since `Fenced` puts the
process into `sharing`, and the queue row of an attempt that is executed after a hold is found pending
under its row lock, which also holds the older release up (`OldReleaseWrites`).

`PmSync_proofs` (any rows, keys, boards, projections, edits and failures):

- `UnprojectedEditsWin`: `PmWinsIfUnchanged`, of the applies of phase A. An inbound pass decides over links it read
  earlier. The invariant `PmInv` says that a row of which a pass and a projection are at work
  at the same time is in `raced` (`MetIsRaced`), so the links the pass holds of all other rows
  are still those of the table (`LinksAreFresh`); the guard of `applyStatusTx` does the same for the
  status. It needs that a projection writes the link of a row it still has to do (`AtWork`).
- `PmTypeCorrect`: `PmTypeOK`, with the unique index on `provider_resource_id`. Its strengthening
  `TypeInv` types what an invocation holds at each statement (`TypeInv` and the lemmas `...Types`).
- `WritersStandApart`: `OneWriter`. An issue a link holds was last written for its row, unless
  activities of rows that contend overlapped or a reading of the owners failed. The inductive
  invariant is `TypeInv /\ WriterInv`:
  - `OverlapsAreRaced`: rows that contend and are at work in two activities are in `raced`;
  - `IssuesAreKin`: whatever a link, a listing or a plan leads a row to, its key claims it or is in
    its footer (`Kin`), so two rows that come to one issue contend (`KinContend`). This is why
    `Contend` compares what the *keys* of two rows claim: a row that claims nothing may follow
    the footer another row of its key has written;
  - `NoOtherHolder`: what an invocation goes for is held by no other row that nothing ran over,
    since it read the owners before it planned and an overlap would have been noticed;
  - `KeylessIsUntouched`, `LinksStand` and `AdoptionInv`: an issue without a footer still is as a
    person wrote it, so the inbound pass, which judges its candidates by a listing it made before
    it reads the mirrors, adopts only issues that nobody wrote since.
- `EditsReach`: `EditsArrive`, in two halves. That the row is as its member last left it is `SaidInv`,
  which nothing but `overtaken` is needed for: an invocation that is about to seed
  has read the row blank (`SeedFits`), a body the seed finds changed makes the row overtaken, and an adoption keeps
  the body it read. That the link records the row assumes more. The property assumes that nothing failed and nobody moved an issue
  (`Calm`), which once false stays false (`CalmBefore`), so the invariant is
  `TypeInv /\ WriterInv /\ (Calm => EditInv)`. `EditInv` says of every row that
  - its last edit is recorded, or a callback of it is due, or an invocation is at work on it alone
    (`Arrived`);
  - what an invocation has read of it is still the row, or a callback of the later edit is due
    (`Shown`): this is where the callback that follows every edit is needed, and where an activity
    that overlaps another would spoil it (`Fresh` excepts the rows of `raced`);
  - the issue of its link is on the board and on every listing an invocation holds
    (`StillThere`, `Fresh`), so a projection finds by the id of the link the issue it already wrote,
    and stops short of writing only when the board has no state for the row.

`PmSyncBoard_proofs`, on top of it, what the board shows:

- `WriteUpsSurvive`: `WriteUpSurvives`. `WriteUpInv` says of an issue a person wrote, as long as
  no claimant met another activity, a failed write or a failed reading of the owners (`Watched`):
  - it has a body, and is as it was written or held by a claimant, or about to be recorded for
    one (`Taken`): a seed that was sent and not recorded would be forgotten, and the next
    projection would send the row's empty body;
  - the row whose link holds it has a body (`HeldWithBody`), and a row that had a body when it
    was read still has one (`Bodied`): no member writes an empty body over it;
  - an invocation that goes for it does so for a claimant and sends a body (`Spares`): that is
    where the seed comes from, the body of a fetched listing, so listings have to have it too.
  `PlanSpares` is the heart. Of the ways to find the issue, the declaration comes with the seed
  or a row that has a body, the link leads the row there that has one, and the footer leads no
  other row there: whoever stamped it holds the issue, and is among the owners that were read
  (`NoOtherHolder` of `WriterInv`), or is still at work on it, and would have been noticed.
- `OneIssueEach`: `OneIssuePerRow`, for finitely many rows (`TasksAreFinite`). The induction is
  over `IssueInv`, beside `TypeInv` and `WriterInv`:
  - an issue with a footer is kept by a row with the key, in its link or as the target of an
    invocation that has its answer (`Keeps`, `IssuesKept`), unless such an answer or record was
    lost; and a row keeps one issue on the board at a time (`KeepsOne`), so the keepers count the
    issues. A row that has its key alone finds the one issue there is even after a
    loss (`OnlyOne`), by its footer;
  - until it does, that issue is a `Stray`, which no link holds and no other row's invocation
    knows of or is about to take (`StraysApart`, `Unsought`), and which a pass does not adopt (`PassSeesStrays`);
  - what an invocation holds is good enough to plan with (`Orderly`): its link and owners
    are those of the tables (`KnowsLink`, `SeesOwners`) while nothing ran over its row, what its
    row holds is what it goes for (`KnowsHolding`, `KnowsTarget`), and a batch has on its listing the issues of
    the rows it still has to do, each led to its own (`BootKnows`, `BootLeads`). The listing is
    old, and only the batch itself may have written since: the caches refreshed by an answer are
    what keeps it true, and a lost answer leaves a stray of a row that is done.

  Every step is a step on behalf of one row or of none (`BoardStep`); `IssueStep` says what it
  owes for the invariant to hold after it, and `PlannedIssues` and `WriteFacts` carry it through the ladder
  of `upsertWorkItem`.
- `SkippingIsSafe`: `SkipIsSafe`, and `OnlyMovesAreApplied`: `OnlyMovesApply`. Both say that what a
  link records is so, the one to the projector, which skips a row by its fingerprint, the other to the pass,
  which takes a state the link does not record for a person's. `TruthInv` has of every row that met nothing
  and of which no write was lost:
  - its issue has the body and the group of the link's fingerprint and the state of its record, unless a
    person gave it another state, or the body was kept at the adoption (`LinkTrue`); or a write of the row
    has been answered and is not recorded yet (`Busy`), and then the issue is what was sent
    (`AnswerTrue`). A row that rests is not busy, and of one a pass has in hand nobody has an
    unrecorded answer, or they would have been noticed (`PassedIsTrue`);
  - an issue found to match the row still does (`MatchTrue`), which needs that a batch's old
    listing is true (`ListsTruly`): each issue on it is as listed, or the row will not come to it since
    the batch has given it to another row of the key already (`Shunned`). That row's write
    may be one whose answer was lost, so the issue differs from the listing while the footer still
    leads there; what saves the later row is the reading of the owners, and that the earlier row's
    link had the issue before (`KnowsRivals`);
  - a state a pass has seen is the recorded one or a person's, and a person's it stays until the row is
    applied (`PassTrue`): the board is listed before the links are read, so the record could be
    newer than the listing only if a projection had run over the pass;
  - an issue without a footer is as a person left it, on the pass's listing too, and its body waits for
    the footer that is written over it (`AdoptionTrue`).

  `TruthStep` is the common lemma of all steps; `UnmovedApart` says why a write for one row disturbs no
  other: whoever holds or is led to the issue contends with the writer. `SyncInductive` joins the
  five invariants of the two modules.

`Ingestion_proofs` (any number of threads, files, configurations, messages, pushes and faults):

- `PurgesOnlyDeleted`: `OnlyDeletedIsPurged`, for any number of processes. The invariant
  `SlackInv` says that every thread a process stores, holds or asks about was once posted
  (`Traced`) and that a thread it is about to purge is gone or its channel private
  (`DoomIsFinal`). A thread posted once and now without a message stays so, since a reply needs
  something to reply to; that is why a confirmation stays true until the purge, however late.
- `WatermarkVouches`: `CursorVouches`, for one process (`OneGithubProcess`); with two it fails, as
  section 4 says. `GithubInv` adds to the property what a pass holds (`RunOK`):
  a pass that could still write a cursor equal to the present push and configuration (`Current`) has
  for every wanted file either something left to do, or an item that is up to date, or has
  swallowed it (`Covered`); and what it read and has not stored yet is the branch's, unless a push
  came after its probe and after the one the cursor stands for (`Fresh`). Another process
  would store under the pass's feet.
- `IngestTypeCorrect`: the type invariants, from the same induction.

`GraphProjection_proofs` (any number of initiatives, versions of the item, edits, purges and
failed calls), under `IdsNeverRunOut`: the ids of rows are uuids, so there are always more of
them, while the initiatives are finitely many. Without it the model's `FreshId` would have to
reuse an id that a snapshot still holds.

- `GraphTypeCorrect`: `GraphTypeOK`, with the two keys of the table. `LedgerInv` adds what a
  statement by a stale key rests on: the groups of a snapshot are distinct, a visit knows which home the
  item's row stands for until it writes it (`HomeSeen`), and from the move on there is one for its home.
- `HomesNeverForgotten`: `HomeLedgered`. The row of the homes owes what it left (`Owes`), a visit and a
  reconcile know that debt when they write it (`DebtSeen`, `DebtJudged`), a debt that is old enough
  to be judged has nothing on its way (`Drained`), and only the purge of what was owed can have
  failed when a push is recorded (`FailedFirst`). Each of the five steps that write the row is a
  lemma (`MoveOwes`, `PrepareOwes`, `PushOwes`, `RecordOwes`, `ClearOwes`).
- `NothingForgotten`: `EpisodesLedgered`, hence also the copies. Every step does one of eight things to
  each row (`RowStep`: held, set aside, flagged, sent, aged, emptied, dropped, born), and these keep
  `CopyInv` (`RowsKeepCovered`): an initiative with an episode has a served row
  (`CopiesCovered`), one on the sentinel that owes nothing has none (`BlanksEmpty`). The push of a copy is
  the exception, and rests on its row being served although it was read long before (`CopyStands`):
  readers only arm, and a purge and a reconcile flag a row before they drop it.

Only model-checked: liveness (`RevocationCommits`, `JobsSettle`, `PublicationsResolve`, `PurgedIsForgotten`,
`GroupsConverge`, `ChannelConverges`, `FilesConverge`), which is out of the prover's reach. The statements the code does not keep
(`SealFailureMeansUnsealed`, `CancelledNeverPosts`, `OnlyApprovedGoesLive`) are
refuted by TLC.

## 6. Not modelled

Besides the components of the table: administration of gateway connections and bindings as
requests of their own (their effects are events), the contents of requests and audit
metadata, rate limits, cryptography; `getJob` and other reads; media and prompt
building; `draft_only` autonomy (nothing moves under it) and `auto_publish_low_risk` (the same
routing as one of the two modelled, given that a generated body passed the gate); more than
one variant, since variants share only the queue. Of ingestion: Plane, ClickUp, mail and
the sidecar, Linear's import, the diff-sync of GitHub issues, access tiers and contexts of items.
Of pm-sync: the Plane adapter, the parent
relation, a missing integration, `statusOnly` (no caller in `app` or `lib` reaches it), and the
reports and run records.

## 7. Plan

1. *Done*: `ExecutorGateway`, its refinement of the ticket and the proofs of both, `JobQueue`
   and `SocialPublishing` with their proofs, `GovernedActions` with its proofs,
   `GraphProjection` and `Ingestion` with their proofs, `PmSync` with the proofs that
   one issue has one writer, that a pass overwrites no edit and takes only moves of people over, that
   edits arrive, that write-ups survive, that rows have one issue each and that skipping one is
   safe. Every safety property of a passing run is a theorem.
2. The arming latch of `lib/graph/arming.ts` (when a partition may be read) on top of
   `GraphProjection`, and chunks as a set of episodes with the delta push.
3. Ingestion: the diff-sync of GitHub issues and Linear's import, whose mirror rows `PmSync` takes as
   given; the durable resume cursor of the context backfill.
