--------------------------- MODULE JobQueue_proofs ---------------------------
(***************************************************************************)
(* Proofs about the job queue for every number of workers, jobs, attempts  *)
(* and faults: its types, that a settled job is settled for good whatever  *)
(* processes overlap, and, with one process, that the rows it holds stay   *)
(* its own and that attempts counts exactly the starts of a job.           *)
(***************************************************************************)
EXTENDS JobQueue, TLAPS

USE DEF rowVars, workVars

-----------------------------------------------------------------------------
(* Types. *)

\* The empty table and idle workers are well typed.
LEMMA QueueTypeInit == QueueInit => QueueTypeOK
  BY QueueAssumption DEF QueueInit, QueueTypeOK, Statuses

\* Settling the current job keeps the types.
LEMMA SettleType ==
  ASSUME QueueTypeOK, NEW w \in Workers, NEW to \in Statuses, Settle(w, to),
         current[w] # NoRow
  PROVE  QueueTypeOK'
  BY DEF QueueTypeOK, Settle, Row, Statuses

\* Every step of a pass keeps the types.
LEMMA PassType ==
  ASSUME QueueTypeOK, NEW w \in Workers, PassStep(w)
  PROVE  QueueTypeOK'
<1> USE QueueAssumption DEF QueueTypeOK
<1>1. CASE PassStart(w)
  BY <1>1 DEF PassStart, RowOf, Row
<1>2. CASE SelectDue(w)
  BY <1>2 DEF SelectDue, Due, RowOf, Row
<1>3. CASE BeginWork(w)
  BY <1>3 DEF BeginWork
<1>4. CASE PassEnd(w)
  BY <1>4 DEF PassEnd
<1>5. ASSUME NEW r \in picked[w], Reclaim(w, r) PROVE QueueTypeOK'
  BY <1>5 DEF Reclaim, Drop, Statuses, Row
<1>6. ASSUME NEW r \in picked[w], Claim(w, r) PROVE QueueTypeOK'
  <2>1. r \in Row /\ NextTry(r) \in Row
    BY DEF Row, NextTry
  <2> QED
    BY <1>6, <2>1 DEF Claim, Drop, MarkRunning, Statuses, Row
<1>7. ASSUME NEW r \in batch[w], HandlerStart(w, r) PROVE QueueTypeOK'
  BY <1>7 DEF HandlerStart
<1> QED
  BY <1>1, <1>2, <1>3, <1>4, <1>5, <1>6, <1>7 DEF PassStep

\* Every fault keeps the types.
LEMMA FaultType ==
  ASSUME QueueTypeOK, NEW w \in Workers, FaultStep(w)
  PROVE  QueueTypeOK'
<1> USE QueueAssumption DEF QueueTypeOK, Fault
<1>1. CASE Crash(w)
  BY <1>1 DEF Crash
<1>2. CASE SettleFails(w)
  BY <1>2 DEF SettleFails
<1>3. ASSUME NEW r \in picked[w], WriteFails(w, r) PROVE QueueTypeOK'
  BY <1>3 DEF WriteFails, Drop
<1>4. ASSUME NEW r \in picked[w], ClaimReplyLost(w, r) PROVE QueueTypeOK'
  BY <1>4 DEF ClaimReplyLost, Drop, MarkRunning, Statuses, Row
<1> QED
  BY <1>1, <1>2, <1>3, <1>4 DEF FaultStep

\* Every step keeps every column in its type.
LEMMA QueueTypeStep == QueueTypeOK /\ [QueueNext]_queueVars => QueueTypeOK'
<1> SUFFICES ASSUME QueueTypeOK, [QueueNext]_queueVars PROVE QueueTypeOK'
  OBVIOUS
<1>1. ASSUME NEW w \in Workers, SettleStep(w) PROVE QueueTypeOK'
  <2>1. CASE HandlerReturns(w)
    BY <2>1, SettleType DEF HandlerReturns, Handling, Statuses
  <2>2. CASE HandlerThrows(w)
    BY <2>2, SettleType DEF HandlerThrows, Handling, Statuses
  <2>3. CASE NoHandler(w)
    BY <2>3, SettleType DEF NoHandler, Statuses
  <2> QED
    BY <1>1, <2>1, <2>2, <2>3 DEF SettleStep
<1>2. ASSUME TableStep PROVE QueueTypeOK'
  BY <1>2 DEF TableStep, Enqueue, RunAfterPasses, LockGrowsStale, QueueTypeOK, Statuses
<1>3. ASSUME UNCHANGED queueVars PROVE QueueTypeOK'
  BY <1>3 DEF queueVars, QueueTypeOK
<1> QED
  BY <1>1, <1>2, <1>3, PassType, FaultType DEF QueueNext

\* The table and the memory of the workers are well typed, however many there are.
THEOREM QueueTypeCorrect == QueueSpec => []QueueTypeOK
  BY QueueTypeInit, QueueTypeStep, PTL DEF QueueSpec

-----------------------------------------------------------------------------
(* Settled jobs. *)

\* No statement of any worker moves a job that is done or dead: the claim finds it no
\* longer queued, the reclaim and the settling writes no longer running.
LEMMA SettledStep ==
  QueueTypeOK /\ [QueueNext]_queueVars =>
    \A j \in Jobs : status[j] \in {"done", "dead"} => status'[j] = status[j]
<1> SUFFICES ASSUME QueueTypeOK, [QueueNext]_queueVars,
                    NEW j \in Jobs, status[j] \in {"done", "dead"}
             PROVE  status'[j] = status[j]
  OBVIOUS
<1> USE DEF QueueTypeOK
<1>1. ASSUME NEW w \in Workers, PassStep(w) PROVE status'[j] = status[j]
  BY <1>1 DEF PassStep, PassStart, SelectDue, BeginWork, PassEnd, Reclaim, Claim,
      MarkRunning, HandlerStart
<1>2. ASSUME NEW w \in Workers, SettleStep(w) PROVE status'[j] = status[j]
  BY <1>2 DEF SettleStep, HandlerReturns, HandlerThrows, NoHandler, Settle
<1>3. ASSUME NEW w \in Workers, FaultStep(w) PROVE status'[j] = status[j]
  BY <1>3 DEF FaultStep, Crash, SettleFails, WriteFails, ClaimReplyLost, MarkRunning
<1>4. ASSUME TableStep PROVE status'[j] = status[j]
  BY <1>4 DEF TableStep, Enqueue, RunAfterPasses, LockGrowsStale
<1>5. ASSUME UNCHANGED queueVars PROVE status'[j] = status[j]
  BY <1>5 DEF queueVars
<1> QED
  BY <1>1, <1>2, <1>3, <1>4, <1>5 DEF QueueNext

\* Whatever processes overlap, a job that is done or dead stays so.
THEOREM SettledForGood == QueueSpec => SettledIsFinal
<1>1. QueueTypeOK /\ [QueueNext]_queueVars
      => [\A j \in Jobs : status[j] \in {"done", "dead"} => status'[j] = status[j]]_queueVars
  BY SettledStep
<1> QED
  BY <1>1, QueueTypeCorrect, PTL DEF QueueSpec, SettledIsFinal

-----------------------------------------------------------------------------
(* One process: the single-flight guard makes the passes follow each other. *)

OneProcess == \A v, w \in Workers : v = w

\* Where a pass stands tells what the worker can hold, and the rows it has selected
\* and not written yet are still as the SELECT saw them: nobody else writes.
PassPhases ==
  \A w \in Workers :
    /\ pc[w] \in {"idle", "working"} => picked[w] = {}
    /\ pc[w] \in {"idle", "reclaiming"} => batch[w] = {}
    /\ pc[w] # "working" => current[w] = NoRow
    /\ \A r \in picked[w] :
         /\ attempts[r.job] = r.attempts
         /\ pc[w] = "reclaiming" => status[r.job] = "running"
         /\ pc[w] = "claiming" => status[r.job] = "queued"

\* A row that does not exist was never tried.
AbsentUntried == \A j \in Jobs : status[j] = "absent" => attempts[j] = 0

OwnInv == HeldRowsAreOwn /\ AttemptsAreExact /\ PassPhases /\ AbsentUntried

\* A row is its job and its attempts, and no row is the absent one.
LEMMA RowIdentity ==
  /\ \A r, q \in Row : r.job = q.job /\ r.attempts = q.attempts => r = q
  /\ NoRow \notin Row
  /\ \A r \in Row : r.job \in Jobs /\ r.attempts \in Nat
  BY QueueAssumption DEF Row, NoRow

\* An empty table and idle workers satisfy the invariant.
LEMMA OwnInit == QueueInit => OwnInv
  BY QueueAssumption DEF QueueInit, OwnInv, HeldRowsAreOwn, AttemptsAreExact, PassPhases,
     AbsentUntried, Held

\* A pass begins with empty hands and selects rows that are running.
LEMMA OwnPassStart ==
  ASSUME OneProcess, QueueTypeOK, OwnInv, NEW w \in Workers, PassStart(w)
  PROVE  OwnInv'
<1> USE RowIdentity, QueueAssumption DEF OwnInv, QueueTypeOK, PassStart, RowOf, Row
<1>0. \A v \in Workers : v = w
  BY DEF OneProcess
<1>1. HeldRowsAreOwn'
  BY <1>0 DEF HeldRowsAreOwn, PassPhases, Held
<1>2. AttemptsAreExact'
  BY <1>0 DEF AttemptsAreExact, HeldRowsAreOwn, PassPhases, AbsentUntried, Held
<1>3. PassPhases'
  BY <1>0 DEF PassPhases, HeldRowsAreOwn, Held
<1>4. AbsentUntried'
  BY <1>0 DEF AbsentUntried, HeldRowsAreOwn, PassPhases, Held
<1> QED
  BY <1>1, <1>2, <1>3, <1>4

\* The SELECT of the claim returns queued rows.
LEMMA OwnSelectDue ==
  ASSUME OneProcess, QueueTypeOK, OwnInv, NEW w \in Workers, SelectDue(w)
  PROVE  OwnInv'
<1> USE RowIdentity, QueueAssumption DEF OwnInv, QueueTypeOK, SelectDue, Due, RowOf, Row
<1>0. \A v \in Workers : v = w
  BY DEF OneProcess
<1>1. HeldRowsAreOwn'
  BY <1>0 DEF HeldRowsAreOwn, PassPhases, Held
<1>2. AttemptsAreExact'
  BY <1>0 DEF AttemptsAreExact, HeldRowsAreOwn, PassPhases, AbsentUntried, Held
<1>3. PassPhases'
  BY <1>0 DEF PassPhases, HeldRowsAreOwn, Held
<1>4. AbsentUntried'
  BY <1>0 DEF AbsentUntried, HeldRowsAreOwn, PassPhases, Held
<1> QED
  BY <1>1, <1>2, <1>3, <1>4

\* Nothing selected is left when the work begins.
LEMMA OwnBeginWork ==
  ASSUME OneProcess, QueueTypeOK, OwnInv, NEW w \in Workers, BeginWork(w)
  PROVE  OwnInv'
<1> USE RowIdentity, QueueAssumption DEF OwnInv, QueueTypeOK, BeginWork
<1>0. \A v \in Workers : v = w
  BY DEF OneProcess
<1>1. HeldRowsAreOwn'
  BY <1>0 DEF HeldRowsAreOwn, PassPhases, Held
<1>2. AttemptsAreExact'
  BY <1>0 DEF AttemptsAreExact, HeldRowsAreOwn, PassPhases, AbsentUntried, Held
<1>3. PassPhases'
  BY <1>0 DEF PassPhases, HeldRowsAreOwn, Held
<1>4. AbsentUntried'
  BY <1>0 DEF AbsentUntried, HeldRowsAreOwn, PassPhases, Held
<1> QED
  BY <1>1, <1>2, <1>3, <1>4

\* Nothing claimed is left when a pass ends.
LEMMA OwnPassEnd ==
  ASSUME OneProcess, QueueTypeOK, OwnInv, NEW w \in Workers, PassEnd(w)
  PROVE  OwnInv'
<1> USE RowIdentity, QueueAssumption DEF OwnInv, QueueTypeOK, PassEnd
<1>0. \A v \in Workers : v = w
  BY DEF OneProcess
<1>1. HeldRowsAreOwn'
  BY <1>0 DEF HeldRowsAreOwn, PassPhases, Held
<1>2. AttemptsAreExact'
  BY <1>0 DEF AttemptsAreExact, HeldRowsAreOwn, PassPhases, AbsentUntried, Held
<1>3. PassPhases'
  BY <1>0 DEF PassPhases, HeldRowsAreOwn, Held
<1>4. AbsentUntried'
  BY <1>0 DEF AbsentUntried, HeldRowsAreOwn, PassPhases, Held
<1> QED
  BY <1>1, <1>2, <1>3, <1>4

\* A reclaim finds its row running with the attempts it read.
LEMMA OwnReclaim ==
  ASSUME OneProcess, QueueTypeOK, OwnInv, NEW w \in Workers, NEW r \in picked[w], Reclaim(w, r)
  PROVE  OwnInv'
<1> USE RowIdentity, QueueAssumption DEF OwnInv, QueueTypeOK, Reclaim, Drop, Statuses
<1>0. \A v \in Workers : v = w
  BY DEF OneProcess
<1>1. HeldRowsAreOwn'
  BY <1>0 DEF HeldRowsAreOwn, PassPhases, Held
<1>2. AttemptsAreExact'
  BY <1>0 DEF AttemptsAreExact, HeldRowsAreOwn, PassPhases, AbsentUntried, Held
<1>3. PassPhases'
  BY <1>0 DEF PassPhases, HeldRowsAreOwn, Held
<1>4. AbsentUntried'
  BY <1>0 DEF AbsentUntried, HeldRowsAreOwn, PassPhases, Held
<1> QED
  BY <1>1, <1>2, <1>3, <1>4

\* A claim finds its row queued with the attempts it read, and nobody holds it.
LEMMA OwnClaim ==
  ASSUME OneProcess, QueueTypeOK, OwnInv, NEW w \in Workers, NEW r \in picked[w], Claim(w, r)
  PROVE  OwnInv'
<1> USE RowIdentity, QueueAssumption DEF OwnInv, QueueTypeOK, Claim, Drop, MarkRunning, Statuses
<1>0. \A v \in Workers : v = w
  BY DEF OneProcess
<1>1. HeldRowsAreOwn'
  <2>1. current[w] = NoRow /\ current'[w] = NoRow
    BY DEF PassPhases
  <2>2. NextTry(r) \in Row /\ NextTry(r).job = r.job /\ NextTry(r).attempts = r.attempts + 1
    BY DEF NextTry, Row
  <2>3. Held(w)' = batch'[w]
    BY <2>1 DEF Held
  <2>4. CASE status[r.job] = "queued"
    <3>1. \A q \in batch[w] : q.job # r.job
      BY <2>1, <2>4 DEF HeldRowsAreOwn, Held
    <3>2. \A q \in batch'[w] : q \in batch[w] \/ q = NextTry(r)
      BY <2>4
    <3>3. \A q \in batch[w] : /\ status[q.job] = "running" /\ attempts[q.job] = q.attempts
                              /\ claimant[q.job] = w
                              /\ \A p \in batch[w] : p.job = q.job => p = q
      BY <2>1 DEF HeldRowsAreOwn, Held
    <3>4. \A q \in batch'[w] : /\ status'[q.job] = "running" /\ attempts'[q.job] = q.attempts
                              /\ claimant'[q.job] = w
                              /\ \A p \in batch'[w] : p.job = q.job => p = q
      BY <2>2, <2>4, <3>1, <3>2, <3>3
    <3>5. current'[w] \notin batch'[w]
      BY <2>1, <2>2, <3>2
    <3> QED
      BY <1>0, <2>3, <3>4, <3>5 DEF HeldRowsAreOwn
  <2>5. CASE status[r.job] # "queued"
    BY <1>0, <2>5 DEF HeldRowsAreOwn, Held
  <2> QED
    BY <2>4, <2>5
<1>2. AttemptsAreExact'
  BY <1>0 DEF AttemptsAreExact, HeldRowsAreOwn, PassPhases, AbsentUntried, Held
<1>3. PassPhases'
  BY <1>0 DEF PassPhases, HeldRowsAreOwn, Held
<1>4. AbsentUntried'
  BY <1>0 DEF AbsentUntried, HeldRowsAreOwn, PassPhases, Held
<1> QED
  BY <1>1, <1>2, <1>3, <1>4

\* A handler starts: the row moves from the batch to the current one.
LEMMA OwnHandlerStart ==
  ASSUME OneProcess, QueueTypeOK, OwnInv, NEW w \in Workers, NEW r \in batch[w], HandlerStart(w, r)
  PROVE  OwnInv'
<1> USE RowIdentity, QueueAssumption DEF OwnInv, QueueTypeOK, HandlerStart
<1>0. \A v \in Workers : v = w
  BY DEF OneProcess
<1>1. HeldRowsAreOwn'
  BY <1>0 DEF HeldRowsAreOwn, PassPhases, Held
<1>2. AttemptsAreExact'
  BY <1>0 DEF AttemptsAreExact, HeldRowsAreOwn, PassPhases, AbsentUntried, Held
<1>3. PassPhases'
  BY <1>0 DEF PassPhases, HeldRowsAreOwn, Held
<1>4. AbsentUntried'
  BY <1>0 DEF AbsentUntried, HeldRowsAreOwn, PassPhases, Held
<1> QED
  BY <1>1, <1>2, <1>3, <1>4

\* A job is settled by the process that holds it, while it is still running.
LEMMA OwnSettle ==
  ASSUME OneProcess, QueueTypeOK, OwnInv, NEW w \in Workers, NEW to \in Statuses,
         Settle(w, to), current[w] # NoRow, pc[w] = "working",
         to \in {"queued", "done", "dead"},
         to = "queued" => current[w].attempts < MaxAttempts,
         to = "dead" => current[w].attempts >= MaxAttempts \/ current[w].job \in Unhandled
  PROVE  OwnInv'
<1> USE RowIdentity, QueueAssumption DEF OwnInv, QueueTypeOK, Settle, Statuses
<1>0. \A v \in Workers : v = w
  BY DEF OneProcess
<1>1. HeldRowsAreOwn'
  BY <1>0 DEF HeldRowsAreOwn, PassPhases, Held
<1>2. AttemptsAreExact'
  BY <1>0 DEF AttemptsAreExact, HeldRowsAreOwn, PassPhases, AbsentUntried, Held
<1>3. PassPhases'
  BY <1>0 DEF PassPhases, HeldRowsAreOwn, Held
<1>4. AbsentUntried'
  BY <1>0 DEF AbsentUntried, HeldRowsAreOwn, PassPhases, Held
<1> QED
  BY <1>1, <1>2, <1>3, <1>4

\* A process that dies holds nothing any more.
LEMMA OwnCrash ==
  ASSUME OneProcess, QueueTypeOK, OwnInv, NEW w \in Workers, Crash(w)
  PROVE  OwnInv'
<1> USE RowIdentity, QueueAssumption DEF OwnInv, QueueTypeOK, Crash, Fault
<1>0. \A v \in Workers : v = w
  BY DEF OneProcess
<1>1. HeldRowsAreOwn'
  BY <1>0 DEF HeldRowsAreOwn, PassPhases, Held
<1>2. AttemptsAreExact'
  BY <1>0 DEF AttemptsAreExact, HeldRowsAreOwn, PassPhases, AbsentUntried, Held
<1>3. PassPhases'
  BY <1>0 DEF PassPhases, HeldRowsAreOwn, Held
<1>4. AbsentUntried'
  BY <1>0 DEF AbsentUntried, HeldRowsAreOwn, PassPhases, Held
<1> QED
  BY <1>1, <1>2, <1>3, <1>4

\* A failed write leaves the row as it was selected.
LEMMA OwnWriteFails ==
  ASSUME OneProcess, QueueTypeOK, OwnInv, NEW w \in Workers, NEW r \in picked[w], WriteFails(w, r)
  PROVE  OwnInv'
<1> USE RowIdentity, QueueAssumption DEF OwnInv, QueueTypeOK, WriteFails, Fault, Drop
<1>0. \A v \in Workers : v = w
  BY DEF OneProcess
<1>1. HeldRowsAreOwn'
  BY <1>0 DEF HeldRowsAreOwn, PassPhases, Held
<1>2. AttemptsAreExact'
  BY <1>0 DEF AttemptsAreExact, HeldRowsAreOwn, PassPhases, AbsentUntried, Held
<1>3. PassPhases'
  BY <1>0 DEF PassPhases, HeldRowsAreOwn, Held
<1>4. AbsentUntried'
  BY <1>0 DEF AbsentUntried, HeldRowsAreOwn, PassPhases, Held
<1> QED
  BY <1>1, <1>2, <1>3, <1>4

\* A claim whose reply is lost counts as a start and is in nobody's hands.
LEMMA OwnClaimReplyLost ==
  ASSUME OneProcess, QueueTypeOK, OwnInv, NEW w \in Workers,
         NEW r \in picked[w], ClaimReplyLost(w, r)
  PROVE  OwnInv'
<1> USE RowIdentity, QueueAssumption DEF OwnInv, QueueTypeOK, ClaimReplyLost, Fault, Drop,
        MarkRunning, Statuses
<1>0. \A v \in Workers : v = w
  BY DEF OneProcess
<1>1. HeldRowsAreOwn'
  BY <1>0 DEF HeldRowsAreOwn, PassPhases, Held
<1>2. AttemptsAreExact'
  BY <1>0 DEF AttemptsAreExact, HeldRowsAreOwn, PassPhases, AbsentUntried, Held
<1>3. PassPhases'
  BY <1>0 DEF PassPhases, HeldRowsAreOwn, Held
<1>4. AbsentUntried'
  BY <1>0 DEF AbsentUntried, HeldRowsAreOwn, PassPhases, Held
<1> QED
  BY <1>1, <1>2, <1>3, <1>4

\* A job whose settling fails stays running in nobody's hands.
LEMMA OwnSettleFails ==
  ASSUME OneProcess, QueueTypeOK, OwnInv, NEW w \in Workers, SettleFails(w)
  PROVE  OwnInv'
<1> USE RowIdentity, QueueAssumption DEF OwnInv, QueueTypeOK, SettleFails, Fault
<1>0. \A v \in Workers : v = w
  BY DEF OneProcess
<1>1. HeldRowsAreOwn'
  BY <1>0 DEF HeldRowsAreOwn, PassPhases, Held
<1>2. AttemptsAreExact'
  BY <1>0 DEF AttemptsAreExact, HeldRowsAreOwn, PassPhases, AbsentUntried, Held
<1>3. PassPhases'
  BY <1>0 DEF PassPhases, HeldRowsAreOwn, Held
<1>4. AbsentUntried'
  BY <1>0 DEF AbsentUntried, HeldRowsAreOwn, PassPhases, Held
<1> QED
  BY <1>1, <1>2, <1>3, <1>4

\* Producers and time touch no row a process holds or has selected.
LEMMA OwnTable ==
  ASSUME QueueTypeOK, OwnInv, TableStep
  PROVE  OwnInv'
<1> USE RowIdentity, QueueAssumption DEF OwnInv, QueueTypeOK, TableStep, Enqueue, RunAfterPasses,
        LockGrowsStale, Statuses
<1>1. HeldRowsAreOwn'
  BY DEF HeldRowsAreOwn, Held
<1>2. AttemptsAreExact'
  BY DEF AttemptsAreExact, AbsentUntried
<1>3. PassPhases'
  BY DEF PassPhases
<1>4. AbsentUntried'
  BY DEF AbsentUntried
<1> QED
  BY <1>1, <1>2, <1>3, <1>4

\* Every step of the only process, of its faults and of the table keeps the invariant.
LEMMA OwnStep ==
  ASSUME OneProcess, QueueTypeOK, OwnInv, [QueueNext]_queueVars
  PROVE  OwnInv'
<1>1. ASSUME NEW w \in Workers, PassStep(w) PROVE OwnInv'
  BY <1>1, OwnPassStart, OwnSelectDue, OwnBeginWork, OwnPassEnd, OwnReclaim, OwnClaim,
     OwnHandlerStart DEF PassStep
<1>2. ASSUME NEW w \in Workers, SettleStep(w) PROVE OwnInv'
  <2>1. current[w] # NoRow /\ pc[w] = "working"
    BY <1>2 DEF SettleStep, HandlerReturns, HandlerThrows, NoHandler, Handling, OwnInv, PassPhases
  <2>2. current[w].attempts \in Nat
    BY <2>1, RowIdentity DEF QueueTypeOK
  <2>3. CASE HandlerReturns(w)
    BY <2>1, <2>3, OwnSettle DEF HandlerReturns, Statuses
  <2>4. CASE HandlerThrows(w)
    <3>1. CASE current[w].attempts >= MaxAttempts
      BY <2>1, <2>4, <3>1, OwnSettle DEF HandlerThrows, Statuses
    <3>2. CASE current[w].attempts < MaxAttempts
      BY <2>1, <2>2, <2>4, <3>2, OwnSettle, QueueAssumption DEF HandlerThrows, Statuses
    <3> QED
      BY <2>2, <3>1, <3>2, QueueAssumption
  <2>5. CASE NoHandler(w)
    BY <2>1, <2>5, OwnSettle DEF NoHandler, Statuses
  <2> QED
    BY <1>2, <2>3, <2>4, <2>5 DEF SettleStep
<1>3. ASSUME NEW w \in Workers, FaultStep(w) PROVE OwnInv'
  BY <1>3, OwnCrash, OwnSettleFails, OwnWriteFails, OwnClaimReplyLost DEF FaultStep
<1>4. ASSUME TableStep PROVE OwnInv'
  BY <1>4, OwnTable
<1>5. ASSUME UNCHANGED queueVars PROVE OwnInv'
  BY <1>5 DEF queueVars, OwnInv, HeldRowsAreOwn, AttemptsAreExact, PassPhases, AbsentUntried, Held
<1> QED
  BY <1>1, <1>2, <1>3, <1>4, <1>5 DEF QueueNext

\* With one process the invariant always holds.
LEMMA OwnAlways == ASSUME OneProcess PROVE QueueSpec => []OwnInv
<1>1. OwnInv /\ QueueTypeOK /\ [QueueNext]_queueVars => OwnInv'
  BY OwnStep
<1> QED
  BY <1>1, OwnInit, QueueTypeCorrect, PTL DEF QueueSpec

\* With one process, what it claimed is its own until it settles it.
THEOREM RowsAreOwn == ASSUME OneProcess PROVE QueueSpec => []HeldRowsAreOwn
<1>1. OwnInv => HeldRowsAreOwn
  BY DEF OwnInv
<1> QED
  BY <1>1, OwnAlways, PTL

\* With one process, attempts counts the starts of a job, whatever fails and wherever
\* the process dies, and no job starts more often than max_attempts.
THEOREM AttemptsExact == ASSUME OneProcess PROVE QueueSpec => []AttemptsAreExact
<1>1. OwnInv => AttemptsAreExact
  BY DEF OwnInv
<1> QED
  BY <1>1, OwnAlways, PTL

\* Both at once: with one process, a pass is exact.
THEOREM PassExact == ASSUME OneProcess PROVE QueueSpec => []PassIsExact
<1>1. HeldRowsAreOwn /\ AttemptsAreExact => PassIsExact
  BY DEF PassIsExact
<1> QED
  BY <1>1, RowsAreOwn, AttemptsExact, PTL
=============================================================================
