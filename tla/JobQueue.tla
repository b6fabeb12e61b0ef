------------------------------ MODULE JobQueue ------------------------------
(***************************************************************************)
(* The durable job queue: the table social_jobs, its single writer         *)
(* lib/jobs/store.ts and the runner lib/jobs/run.ts.                       *)
(*                                                                         *)
(* A worker is one server process.  Its single-flight guard makes it run   *)
(* one pass at a time: reclaim the abandoned rows, claim the due ones,     *)
(* then run their handlers one after the other.  Every statement is a      *)
(* transaction of its own, so a pass is many steps; two processes overlap  *)
(* during a redeploy, and either may die between any two statements.       *)
(***************************************************************************)
EXTENDS Integers, FiniteSets

CONSTANTS
  Workers,      \* server processes that poll the table
  Jobs,         \* rows that may be enqueued
  Unhandled,    \* jobs of a kind no handler is registered for
  MaxAttempts,  \* max_attempts of every row (five by default)
  Limit,        \* how many due rows a pass claims (ten by default)
  MaxFaults,    \* bound on crashes and failed statements
  Nobody        \* null: no job, no worker

ASSUME QueueAssumption ==
  /\ Unhandled \subseteq Jobs
  /\ MaxAttempts \in Nat \ {0}
  /\ Limit \in Nat \ {0}
  /\ MaxFaults \in Nat
  /\ Nobody \notin Jobs \cup Workers

VARIABLES
  status,    \* social_jobs.status, "absent" when there is no row
  attempts,  \* social_jobs.attempts
  waiting,   \* jobs whose run_after is in the future
  stale,     \* jobs whose locked_at is older than STALE_JOB_MS
  pc,        \* what each worker is doing
  picked,    \* rows its last SELECT returned and it has not written yet
  batch,     \* rows it claimed and has not started
  current,   \* the row whose handler runs
  claimant,  \* history: the worker that claimed a job last
  starts,    \* history: how often a job was claimed
  faults     \* crashes and failed statements so far

rowVars == <<status, attempts, waiting, stale>>
workVars == <<pc, picked, batch, current>>
queueVars == <<rowVars, workVars, claimant, starts, faults>>

\* What a SELECT or a claim returns of a row.
Row == [job : Jobs, attempts : Nat]
NoRow == [job |-> Nobody, attempts |-> 0]
RowOf(j) == [job |-> j, attempts |-> attempts[j]]
NextTry(r) == [job |-> r.job, attempts |-> r.attempts + 1]

Statuses == {"absent", "queued", "running", "done", "dead"}

\* The columns of the table and what the workers hold in memory keep their types.
QueueTypeOK ==
  /\ status \in [Jobs -> Statuses]
  /\ attempts \in [Jobs -> Nat]
  /\ waiting \in SUBSET Jobs
  /\ stale \in SUBSET Jobs
  /\ pc \in [Workers -> {"idle", "reclaiming", "claiming", "working"}]
  /\ picked \in [Workers -> SUBSET Row]
  /\ batch \in [Workers -> SUBSET Row]
  /\ current \in [Workers -> Row \cup {NoRow}]
  /\ claimant \in [Jobs -> Workers \cup {Nobody}]
  /\ starts \in [Jobs -> Nat]
  /\ faults \in 0 .. MaxFaults

QueueInit ==
  /\ status = [j \in Jobs |-> "absent"]
  /\ attempts = [j \in Jobs |-> 0]
  /\ waiting = {}
  /\ stale = {}
  /\ pc = [w \in Workers |-> "idle"]
  /\ picked = [w \in Workers |-> {}]
  /\ batch = [w \in Workers |-> {}]
  /\ current = [w \in Workers |-> NoRow]
  /\ claimant = [j \in Jobs |-> Nobody]
  /\ starts = [j \in Jobs |-> 0]
  /\ faults = 0

-----------------------------------------------------------------------------
(* Producers and time. *)

\* enqueueJob: a second call for the same dedup key returns the row it finds.
Enqueue(j, later) ==
  /\ status[j] = "absent"
  /\ status' = [status EXCEPT ![j] = "queued"]
  /\ waiting' = IF later THEN waiting \cup {j} ELSE waiting
  /\ UNCHANGED <<attempts, stale, workVars, claimant, starts, faults>>

\* The scheduled time comes, or the backoff is over.
RunAfterPasses(j) ==
  /\ j \in waiting
  /\ waiting' = waiting \ {j}
  /\ UNCHANGED <<status, attempts, stale, workVars, claimant, starts, faults>>

\* STALE_JOB_MS pass since a row was locked, whether or not its worker is alive.
LockGrowsStale(j) ==
  /\ status[j] = "running" /\ j \notin stale
  /\ stale' = stale \cup {j}
  /\ UNCHANGED <<status, attempts, waiting, workVars, claimant, starts, faults>>

-----------------------------------------------------------------------------
(* A pass: reclaim, claim, work. *)

\* Mutant: abandoned rows are not looked for.
PassStartForgetsStale(w) ==
  /\ pc[w] = "idle"
  /\ pc' = [pc EXCEPT ![w] = "reclaiming"]
  /\ UNCHANGED <<rowVars, picked, batch, current, claimant, starts, faults>>

\* Mutant: no single-flight guard; a tick starts a pass while another one works.
PassStartReentrant(w) ==
  /\ pc[w] \in {"idle", "working"}
  /\ pc' = [pc EXCEPT ![w] = "reclaiming"]
  /\ picked' = [picked EXCEPT ![w] = {RowOf(j) : j \in {k \in stale : status[k] = "running"}}]
  /\ UNCHANGED <<rowVars, batch, current, claimant, starts, faults>>

\* The single-flight guard and the SELECT of reclaimStaleJobs.
PassStart(w) ==
  /\ pc[w] = "idle"
  /\ pc' = [pc EXCEPT ![w] = "reclaiming"]
  /\ picked' = [picked EXCEPT ![w] = {RowOf(j) : j \in {k \in stale : status[k] = "running"}}]
  /\ UNCHANGED <<rowVars, batch, current, claimant, starts, faults>>

Drop(w, r) == picked' = [picked EXCEPT ![w] = @ \ {r}]

\* Mutant: the UPDATE is not conditional on status = 'running'.
ReclaimUnguarded(w, r) ==
  /\ pc[w] = "reclaiming" /\ r \in picked[w]
  /\ status' = [status EXCEPT ![r.job] = IF r.attempts >= MaxAttempts THEN "dead" ELSE "queued"]
  /\ waiting' = waiting \ {r.job}
  /\ stale' = stale \ {r.job}
  /\ Drop(w, r)
  /\ UNCHANGED <<attempts, pc, batch, current, claimant, starts, faults>>

\* The UPDATE of reclaimStaleJobs for one row: attempts are those of the SELECT, and
\* only the status is looked at again.
Reclaim(w, r) ==
  /\ pc[w] = "reclaiming" /\ r \in picked[w]
  /\ IF status[r.job] = "running"
     THEN /\ status' = [status EXCEPT ![r.job] =
                          IF r.attempts >= MaxAttempts THEN "dead" ELSE "queued"]
          /\ waiting' = waiting \ {r.job}
          /\ stale' = stale \ {r.job}
     ELSE UNCHANGED <<status, waiting, stale>>
  /\ Drop(w, r)
  /\ UNCHANGED <<attempts, pc, batch, current, claimant, starts, faults>>

Due == {j \in Jobs : status[j] = "queued" /\ j \notin waiting}

\* The SELECT of claimDueJobs: every due row, or Limit of them.
SelectDue(w) ==
  /\ pc[w] = "reclaiming" /\ picked[w] = {}
  /\ pc' = [pc EXCEPT ![w] = "claiming"]
  /\ \E due \in SUBSET Due :
       /\ due = Due \/ Cardinality(due) = Limit
       /\ Cardinality(due) <= Limit
       /\ picked' = [picked EXCEPT ![w] = {RowOf(j) : j \in due}]
  /\ UNCHANGED <<rowVars, batch, current, claimant, starts, faults>>

\* The conditional UPDATE of claimDueJobs: attempts are written from the SELECT, and
\* neither run_after nor attempts are looked at again.
MarkRunning(w, r) ==
  /\ status' = [status EXCEPT ![r.job] = "running"]
  /\ attempts' = [attempts EXCEPT ![r.job] = r.attempts + 1]
  /\ stale' = stale \ {r.job}
  /\ claimant' = [claimant EXCEPT ![r.job] = w]
  /\ starts' = [starts EXCEPT ![r.job] = @ + 1]

\* One row of claimDueJobs: ours only if the UPDATE still found it queued.
Claim(w, r) ==
  /\ pc[w] = "claiming" /\ r \in picked[w]
  /\ Drop(w, r)
  /\ IF status[r.job] = "queued"
     THEN /\ MarkRunning(w, r)
          /\ batch' = [batch EXCEPT ![w] = @ \cup {NextTry(r)}]
     ELSE UNCHANGED <<status, attempts, stale, claimant, starts, batch>>
  /\ UNCHANGED <<waiting, pc, current, faults>>

\* runDueJobsInner: the loop over the claimed rows begins, each handler in its turn.
BeginWork(w) ==
  /\ pc[w] = "claiming" /\ picked[w] = {}
  /\ pc' = [pc EXCEPT ![w] = "working"]
  /\ UNCHANGED <<rowVars, picked, batch, current, claimant, starts, faults>>

HandlerStart(w, r) ==
  /\ pc[w] = "working" /\ current[w] = NoRow /\ r \in batch[w]
  /\ current' = [current EXCEPT ![w] = r]
  /\ batch' = [batch EXCEPT ![w] = @ \ {r}]
  /\ UNCHANGED <<rowVars, pc, picked, claimant, starts, faults>>

\* markJobDone, markJobDead and requeueJob: terminal only for a row still running.
Settle(w, to) ==
  LET j == current[w].job IN
  /\ IF status[j] = "running"
     THEN /\ status' = [status EXCEPT ![j] = to]
          /\ stale' = stale \ {j}
          /\ waiting' = IF to = "queued" THEN waiting \cup {j} ELSE waiting
     ELSE UNCHANGED <<status, stale, waiting>>
  /\ current' = [current EXCEPT ![w] = NoRow]
  /\ UNCHANGED <<attempts, pc, picked, batch, claimant, starts, faults>>

Handling(w) == current[w] # NoRow /\ current[w].job \notin Unhandled

\* The handler returned.
HandlerReturns(w) == Handling(w) /\ Settle(w, "done")

\* Mutant: one retry too many.
ThrowsOffByOne(w) ==
  /\ Handling(w)
  /\ Settle(w, IF current[w].attempts > MaxAttempts THEN "dead" ELSE "queued")

\* The handler threw: the attempts of the claimed row decide between dead and backoff.
HandlerThrows(w) ==
  /\ Handling(w)
  /\ Settle(w, IF current[w].attempts >= MaxAttempts THEN "dead" ELSE "queued")

\* No handler is registered for the kind: dead at once.
NoHandler(w) ==
  /\ current[w] # NoRow /\ current[w].job \in Unhandled
  /\ Settle(w, "dead")

PassEnd(w) ==
  /\ pc[w] = "working" /\ batch[w] = {} /\ current[w] = NoRow
  /\ pc' = [pc EXCEPT ![w] = "idle"]
  /\ UNCHANGED <<rowVars, picked, batch, current, claimant, starts, faults>>

-----------------------------------------------------------------------------
(* Faults.  The store drops the error of every statement, so a failed one looks *)
(* to the runner like one that matched no row.                                  *)

Fault == faults < MaxFaults /\ faults' = faults + 1

\* The process dies; its rows stay running.
Crash(w) ==
  /\ Fault
  /\ pc[w] # "idle"
  /\ pc' = [pc EXCEPT ![w] = "idle"]
  /\ picked' = [picked EXCEPT ![w] = {}]
  /\ batch' = [batch EXCEPT ![w] = {}]
  /\ current' = [current EXCEPT ![w] = NoRow]
  /\ UNCHANGED <<rowVars, claimant, starts>>

\* The UPDATE of a reclaim or a claim fails.
WriteFails(w, r) ==
  /\ Fault
  /\ r \in picked[w]
  /\ Drop(w, r)
  /\ UNCHANGED <<rowVars, pc, batch, current, claimant, starts>>

\* The UPDATE of a claim commits, its reply is lost: the row runs in nobody's hands.
ClaimReplyLost(w, r) ==
  /\ Fault
  /\ pc[w] = "claiming" /\ r \in picked[w] /\ status[r.job] = "queued"
  /\ Drop(w, r)
  /\ MarkRunning(w, r)
  /\ UNCHANGED <<waiting, pc, batch, current>>

\* The UPDATE that settles a job fails; the runner counts the job as settled.
SettleFails(w) ==
  /\ Fault
  /\ current[w] # NoRow
  /\ current' = [current EXCEPT ![w] = NoRow]
  /\ UNCHANGED <<rowVars, pc, picked, batch, claimant, starts>>

-----------------------------------------------------------------------------

PassStep(w) ==
  \/ PassStart(w) \/ SelectDue(w) \/ BeginWork(w) \/ PassEnd(w)
  \/ \E r \in picked[w] : Reclaim(w, r) \/ Claim(w, r)
  \/ \E r \in batch[w] : HandlerStart(w, r)
SettleStep(w) == HandlerReturns(w) \/ HandlerThrows(w) \/ NoHandler(w)
FaultStep(w) ==
  \/ Crash(w) \/ SettleFails(w)
  \/ \E r \in picked[w] : WriteFails(w, r) \/ ClaimReplyLost(w, r)
TableStep ==
  \/ \E j \in Jobs, later \in BOOLEAN : Enqueue(j, later)
  \/ \E j \in Jobs : RunAfterPasses(j) \/ LockGrowsStale(j)

QueueNext ==
  \/ \E w \in Workers : PassStep(w) \/ SettleStep(w) \/ FaultStep(w)
  \/ TableStep

\* The interval timer starts passes, every statement and every handler ends (both
\* have timeouts), and time passes.  Nobody has to enqueue, nothing has to fail.
QueueFairness ==
  /\ \A w \in Workers : WF_queueVars(PassStep(w) \/ SettleStep(w))
  /\ \A j \in Jobs : WF_queueVars(RunAfterPasses(j)) /\ WF_queueVars(LockGrowsStale(j))

QueueSpec == QueueInit /\ [][QueueNext]_queueVars
FairQueueSpec == QueueSpec /\ QueueFairness

-----------------------------------------------------------------------------
(* Safety. *)

\* The rows a worker has claimed and not settled.
Held(w) == batch[w] \cup ({current[w]} \ {NoRow})

\* With one process, a row it claimed stays its own until it settles it: still running,
\* with the attempts it was handed, and in its memory once, although it settles late
\* and every statement before that could have moved the row (the single-flight guard).
HeldRowsAreOwn ==
  \A w \in Workers :
    /\ current[w] \notin batch[w]
    /\ \A r \in Held(w) :
         /\ status[r.job] = "running" /\ attempts[r.job] = r.attempts
         /\ claimant[r.job] = w
         /\ \A q \in Held(w) : q.job = r.job => q = r

\* With one process, attempts is the number of times a worker has started the job, a
\* queued job has a try left and a dead one used them all: crashes, lost replies and
\* reclaims neither give a try away nor take one.
AttemptsAreExact ==
  \A j \in Jobs :
    /\ attempts[j] = starts[j] /\ starts[j] <= MaxAttempts
    /\ status[j] = "queued" => attempts[j] < MaxAttempts
    /\ status[j] = "dead" => attempts[j] = MaxAttempts \/ j \in Unhandled

\* With one process, a pass works on rows that are its own and the count of tries is exact:
\* the two sides, memory and table, of what a claim promises.
PassIsExact == HeldRowsAreOwn /\ AttemptsAreExact

\* Whatever processes overlap, a job that is done or dead stays so: neither the
\* reclaim nor a worker that comes back late reopens it.
SettledIsFinal ==
  [][\A j \in Jobs : status[j] \in {"done", "dead"} => status'[j] = status[j]]_queueVars

\* Every enqueued job ends done or dead; none is stranded in running by a worker
\* that vanished (the reason reclaimStaleJobs exists).
JobsSettle == \A j \in Jobs : status[j] = "queued" ~> status[j] \in {"done", "dead"}

=============================================================================
