----------------------- MODULE SocialPublishing_proofs -----------------------
(***************************************************************************)
(* Proofs about publishing for every number of publications, processes,    *)
(* administrators, approvals, drafts and faults: the composition with the  *)
(* job queue keeps the queue's own promises, the types hold, and a live    *)
(* publication is recorded as published only with the id of a post that    *)
(* exists.  With one process, a publication is posted twice only after an  *)
(* id was lost, and none occupies the active index without a job unless a  *)
(* fault has hit its own job.                                              *)
(***************************************************************************)
EXTENDS SocialPublishing, JobQueue_proofs

USE DEF rowVars, workVars, variantVars, pubVars, settingVars, externalVars, historyVars

-----------------------------------------------------------------------------
(* The queue inside.  Publishing drives the rows of the queue by its own steps   *)
(* only, except that a fault of publishing counts as one.                        *)

FaultElsewhere == Fault /\ UNCHANGED <<rowVars, workVars, claimant, starts>>

\* A request enqueues the job of a publication it created.
EnqueuesOwn == \A a \in Admins : adm[a].at = "enqueue" => adm[a].on \in Publications

\* Every step of publishing is a step of the queue, a fault elsewhere, or leaves it.
LEMMA OnQueue ==
  ASSUME EnqueuesOwn, [Next]_vars
  PROVE  [QueueNext]_queueVars \/ FaultElsewhere
<1> DEFINE Drives == [QueueNext]_queueVars \/ FaultElsewhere
<1> USE DEF queueVars
<1>1. ASSUME NEW w \in Workers, RunnerStep(w) PROVE Drives
  <2>1. PassStep(w)
    BY <1>1 DEF RunnerStep, PassStep
  <2> QED
    BY <2>1 DEF QueueNext
<1>2. ASSUME NEW w \in Workers, RunnerFault(w) PROVE Drives
  <2>1. FaultStep(w)
    BY <1>2 DEF RunnerFault, FaultStep
  <2> QED
    BY <2>1 DEF QueueNext
<1>3. ASSUME NEW w \in Workers, HandlerBegins(w) PROVE Drives
  <2>1. PassStep(w)
    BY <1>3 DEF HandlerBegins, PassStep
  <2> QED
    BY <2>1 DEF QueueNext
<1>4. ASSUME NEW w \in Workers, HandlerEnds(w) PROVE Drives
  <2>1. SettleStep(w) \/ FaultStep(w)
    BY <1>4 DEF HandlerEnds, SettleStep, FaultStep
  <2> QED
    BY <2>1 DEF QueueNext
<1>5. ASSUME NEW w \in Workers, WorkerDies(w) PROVE Drives
  <2>1. FaultStep(w)
    BY <1>5 DEF WorkerDies, FaultStep
  <2> QED
    BY <2>1 DEF QueueNext
<1>6. ASSUME NEW w \in Workers, HandlerStep(w) PROVE UNCHANGED queueVars
  BY <1>6 DEF HandlerStep, InHandler, Read, FinalPub, FinalVariant, Door, AbortPub,
     AbortVariant, SetPublishing, SetVariantPublishing, ProviderAccepts, ProviderRefuses,
     PersistId, MarkPublished, PublishVariant, CollectLater, CatchPub, CatchVariant
<1>7. ASSUME NEW w \in Workers, StatementFails(w) \/ ProviderReplyLost(w) PROVE FaultElsewhere
  BY <1>7 DEF StatementFails, ProviderReplyLost, FaultElsewhere
<1>8. ASSUME NEW a \in Admins, AdminStep(a) PROVE Drives
  <2>1. ASSUME NEW later \in BOOLEAN, EnqueuePublish(a, later) PROVE Drives
    <3>1. adm[a].on \in Jobs
      BY <2>1 DEF EnqueuePublish, EnqueuesOwn, Publications
    <3>2. TableStep
      BY <2>1, <3>1 DEF EnqueuePublish, TableStep
    <3> QED
      BY <3>2 DEF QueueNext
  <2>2. CASE AdminFails(a)
    BY <2>2 DEF AdminFails, FaultElsewhere
  <2> QED
    BY <1>8, <2>1, <2>2 DEF AdminStep, Quiet, Generate, MarkGenerating, LlmAnswers, Submit,
       SubmitVariant, DecideRow, DecideVariant, InsertApproval, Decide, Schedule,
       ScheduleVariant, RereadVariant, RewindVariant, CreatePublication, Cancel
<1>9. TimeStep => Drives
  <2>1. TimeStep => TableStep
    BY DEF TimeStep, TableStep
  <2> QED
    BY <2>1 DEF QueueNext
<1>10. ToggleDryRun \/ TogglePublic \/ UNCHANGED vars => UNCHANGED queueVars
  BY DEF ToggleDryRun, TogglePublic, vars
<1> QED
  BY <1>1, <1>2, <1>3, <1>4, <1>5, <1>6, <1>7, <1>8, <1>9, <1>10
  DEF Next, WorkerStep, WorkerFault

\* The types of the queue hold in the composition.
LEMMA QueueInside ==
  ASSUME EnqueuesOwn, QueueTypeOK, [Next]_vars
  PROVE  QueueTypeOK'
<1>1. FaultElsewhere => QueueTypeOK'
  BY QueueAssumption DEF FaultElsewhere, Fault, QueueTypeOK
<1> QED
  BY <1>1, OnQueue, QueueTypeStep


-----------------------------------------------------------------------------
(* Types. *)

VariantTypes ==
  /\ variant \in VariantStatuses /\ body \in Bodies /\ drafts \in Bodies
  /\ approval \in [Approvals -> {"none", "pending", "approved", "denied"}]
  /\ approved \in SUBSET Bodies
PublicationTypes ==
  /\ pub \in [Publications -> PubStatuses]
  /\ dry \in SUBSET Publications /\ extId \in SUBSET Publications
  /\ analytics \in SUBSET Publications
  /\ dryRun \in BOOLEAN /\ public \in BOOLEAN
  /\ posts \in [Publications -> Nat]
  /\ posted \in SUBSET Bodies
  /\ withdrawn \in SUBSET Publications /\ lost \in SUBSET Publications
  /\ hurt \in SUBSET Publications
RequestTypes == adm \in [Admins -> Admin] /\ EnqueuesOwn
RunTypes ==
  /\ run \in [Workers -> Run]
  /\ \A w \in Workers : IF run[w].at = "none" THEN ~run[w].accepted ELSE current[w] # NoRow

SocialTypes == QueueTypeOK /\ VariantTypes /\ PublicationTypes /\ RequestTypes /\ RunTypes

\* The types and the facts about requests and handlers they rest on.
LEMMA SocialTypesInit == Init => SocialTypes
<1>1. Init => QueueTypeOK
  BY QueueTypeInit DEF Init
<1>2. Init => VariantTypes /\ PublicationTypes
  BY PublishingAssumption
  DEF Init, VariantTypes, PublicationTypes, VariantStatuses, PubStatuses, Bodies
<1>3. Init => RequestTypes
  BY DEF Init, RequestTypes, EnqueuesOwn, Admin, NoAdmin, AdmSteps
<1>4. Init => RunTypes
  BY PublishingAssumption DEF Init, RunTypes, Run, NoRun, RunSteps, Bodies
<1> QED
  BY <1>1, <1>2, <1>3, <1>4 DEF SocialTypes

\* A running handler has a row of the table.
LEMMA JobInHand ==
  ASSUME SocialTypes, NEW w \in Workers, run[w].at # "none"
  PROVE  Job(w) \in Publications
  BY QueueAssumption DEF SocialTypes, RunTypes, QueueTypeOK, Row, Job, Publications

\* A step of the queue leaves the handler its row unless it ends the handler.
LEMMA RowKept ==
  ASSUME SocialTypes, NEW w \in Workers, RunnerStep(w) \/ RunnerFault(w)
  PROVE  current' = current /\ run' = run /\ lost' = lost
  BY DEF RunnerStep, RunnerFault, PassStart, SelectDue, BeginWork, PassEnd, Reclaim, Claim,
     WriteFails, ClaimReplyLost


\* Requests of administrators keep the types.
LEMMA AdminTypes ==
  ASSUME SocialTypes, NEW a \in Admins, AdminStep(a)
  PROVE  VariantTypes' /\ PublicationTypes' /\ RequestTypes' /\ RunTypes'
<1> USE PublishingAssumption DEF SocialTypes, VariantTypes, PublicationTypes, RequestTypes,
        RunTypes, EnqueuesOwn, Admin, AdmSteps, NoAdmin, Goes, Ends, Quiet, queueVars

<1>1. CASE Generate(a)
  BY <1>1 DEF Generate
<1>2. CASE MarkGenerating(a)
  BY <1>2 DEF MarkGenerating, VariantStatuses
<1>3. CASE LlmAnswers(a)
  BY <1>3 DEF LlmAnswers, VariantStatuses, Bodies
<1>4. CASE Submit(a)
  BY <1>4 DEF Submit
<1>5. CASE SubmitVariant(a)
  BY <1>5 DEF SubmitVariant, VariantStatuses
<1>6. CASE DecideRow(a)
  BY <1>6 DEF DecideRow
<1>7. CASE DecideVariant(a)
  BY <1>7 DEF DecideVariant, VariantStatuses
<1>8. ASSUME NEW i \in Approvals, InsertApproval(a, i)
      PROVE  VariantTypes' /\ PublicationTypes' /\ RequestTypes' /\ RunTypes'
  BY <1>8 DEF InsertApproval
<1>9. ASSUME NEW i \in Approvals, NEW yes \in BOOLEAN, Decide(a, i, yes)
      PROVE  VariantTypes' /\ PublicationTypes' /\ RequestTypes' /\ RunTypes'
  BY <1>9 DEF Decide
<1>10. CASE Schedule(a)
  BY <1>10 DEF Schedule
<1>11. CASE ScheduleVariant(a)
  BY <1>11 DEF ScheduleVariant, VariantStatuses
<1>12. CASE RereadVariant(a)
  <2>1. VariantTypes' /\ PublicationTypes' /\ RunTypes'
    BY <1>12 DEF RereadVariant
  <2>2. CASE variant \in PUBLISHABLE
    <3>1. [at |-> "rewind", on |-> adm[a].on, flag |-> FALSE] \in Admin
      OBVIOUS
    <3>2. adm' = [adm EXCEPT ![a] = [at |-> "rewind", on |-> adm[a].on, flag |-> FALSE]]
      BY <1>12, <2>2 DEF RereadVariant
    <3> QED
      BY <2>1, <3>1, <3>2
  <2>3. CASE variant \notin PUBLISHABLE
    <3>1. adm' = [adm EXCEPT ![a] = NoAdmin]
      BY <1>12, <2>3 DEF RereadVariant
    <3> QED
      BY <2>1, <3>1
  <2> QED
    BY <2>2, <2>3
<1>13. CASE RewindVariant(a)
  BY <1>13 DEF RewindVariant, VariantStatuses
<1>14. ASSUME NEW p \in Publications, CreatePublication(a, p)
      PROVE  VariantTypes' /\ PublicationTypes' /\ RequestTypes' /\ RunTypes'
  <2>1. VariantTypes' /\ PublicationTypes' /\ RunTypes'
    BY <1>14 DEF CreatePublication, PubStatuses
  <2>2. CASE ActiveExists(p)
    <3>1. adm' = [adm EXCEPT ![a] = NoAdmin]
      BY <1>14, <2>2 DEF CreatePublication
    <3> QED
      BY <2>1, <3>1
  <2>3. CASE ~ActiveExists(p)
    <3>1. adm' = [adm EXCEPT ![a] = [at |-> "enqueue", on |-> p, flag |-> FALSE]]
      BY <1>14, <2>3 DEF CreatePublication
    <3> QED
      BY <2>1, <3>1
  <2> QED
    BY <2>2, <2>3
<1>15. ASSUME NEW p \in Publications, Cancel(a, p)
      PROVE  VariantTypes' /\ PublicationTypes' /\ RequestTypes' /\ RunTypes'
  BY <1>15 DEF Cancel, PubStatuses
<1>16. ASSUME NEW later \in BOOLEAN, EnqueuePublish(a, later)
      PROVE  VariantTypes' /\ PublicationTypes' /\ RequestTypes' /\ RunTypes'
  BY <1>16 DEF EnqueuePublish, Enqueue
<1>17. CASE AdminFails(a)
  BY <1>17 DEF AdminFails
<1> QED
  BY <1>1, <1>2, <1>3, <1>4, <1>5, <1>6, <1>7, <1>8, <1>9, <1>10, <1>11, <1>12, <1>13, <1>14, <1>15, <1>16, <1>17 DEF AdminStep

\* Where a handler can be after a statement.
LEMMA StepType ==
  ASSUME SocialTypes, NEW w \in Workers, run[w].at # "none", current' = current,
         NEW to \in RunSteps \ {"none"}, Step(w, to)
  PROVE  RunTypes'
  BY DEF SocialTypes, RunTypes, Run, Step

\* A write of the locals of one handler.
LEMMA RunWrite ==
  ASSUME SocialTypes, NEW w \in Workers, run[w].at # "none", current' = current,
         NEW v \in Run, v.at # "none", run' = [run EXCEPT ![w] = v]
  PROVE  RunTypes'
  BY DEF SocialTypes, RunTypes

\* The locals stay locals when a statement moves the handler on.
LEMMA RunMoves ==
  ASSUME NEW l \in Run, NEW to \in RunSteps \ {"none"}, NEW r \in {"approved", "rejected"}
  PROVE  /\ [l EXCEPT !.at = to] \in Run /\ [l EXCEPT !.at = to].at # "none"
         /\ [l EXCEPT !.at = to, !.rewind = r] \in Run
         /\ [l EXCEPT !.at = to, !.rewind = r].at # "none"
         /\ [l EXCEPT !.at = to, !.accepted = TRUE] \in Run
         /\ [l EXCEPT !.at = to, !.accepted = TRUE].at # "none"
  BY DEF Run

\* The statements of the handler keep the types.
LEMMA HandlerTypes ==
  ASSUME SocialTypes, NEW w \in Workers, HandlerStep(w)
  PROVE  VariantTypes' /\ PublicationTypes' /\ RequestTypes' /\ RunTypes'
<1>0. run[w].at # "none" => Job(w) \in Publications
  BY JobInHand
<1> USE <1>0, StepType, PublishingAssumption DEF SocialTypes, VariantTypes, PublicationTypes,
        RequestTypes, EnqueuesOwn, InHandler, queueVars, At, RunSteps
<1>1. CASE Read(w)
  <2>1. VariantTypes' /\ PublicationTypes' /\ RequestTypes'
    BY <1>1 DEF Read
  <2>2. RunTypes'
    <3> DEFINE t == IF pub[Job(w)] \in {"published", "cancelled"} THEN "returned"
                    ELSE IF Job(w) \in extId \ dry THEN "finalPub" ELSE "door"
               b == variant \in PUBLISHABLE
               v == [NoRun EXCEPT !.mid = b, !.text = body, !.at = t]
    <3>1. run' = [run EXCEPT ![w] = v]
      BY <1>1 DEF Read
    <3>2. t \in RunSteps \ {"none"} /\ b \in BOOLEAN
      OBVIOUS
    <3> HIDE DEF t, b
    <3>3. NoRun \in Run
      BY DEF NoRun, Run, Bodies
    <3>4. v \in Run
      BY <3>2, <3>3 DEF Run
    <3>5. v.at # "none"
      BY <3>2, <3>3 DEF Run
    <3> QED
      BY <1>1, <3>1, <3>4, <3>5, RunWrite DEF Read
  <2> QED
    BY <2>1, <2>2
<1>2. CASE FinalPub(w)
  BY <1>2 DEF FinalPub, PubStatuses
<1>3. CASE FinalVariant(w)
  BY <1>3 DEF FinalVariant, VariantStatuses
<1>4. CASE Door(w)
  <2>1. VariantTypes' /\ PublicationTypes' /\ RequestTypes'
    BY <1>4 DEF Door
  <2>2. RunTypes'
    <3> DEFINE v == IF Refused(w) THEN [run[w] EXCEPT !.at = "abortPub", !.rewind = "rejected"]
                    ELSE IF Job(w) \notin dry /\ dryRun
                         THEN [run[w] EXCEPT !.at = "abortPub", !.rewind = "approved"]
                         ELSE [run[w] EXCEPT !.at = "setPub"]
    <3>1. v \in Run /\ v.at # "none"
      <4>1. run[w] \in Run
        BY DEF RunTypes
      <4>2. {"abortPub", "setPub"} \subseteq RunSteps \ {"none"}
        BY DEF RunSteps
      <4> QED
        BY <4>1, <4>2, RunMoves
    <3> QED
      BY <1>4, <3>1, RunWrite DEF Door
  <2> QED
    BY <2>1, <2>2
<1>5. CASE AbortPub(w)
  BY <1>5 DEF AbortPub, PubStatuses
<1>6. CASE AbortVariant(w)
  <2>1. run[w].rewind \in VariantStatuses
    BY DEF RunTypes, Run, VariantStatuses
  <2> QED
    BY <1>6, <2>1 DEF AbortVariant
<1>7. CASE SetPublishing(w)
  BY <1>7 DEF SetPublishing, PubStatuses
<1>8. CASE SetVariantPublishing(w)
  BY <1>8 DEF SetVariantPublishing, VariantStatuses
<1>9. CASE ProviderAccepts(w)
  <2>0. run[w].text \in Bodies /\ run[w].at # "none"
    BY <1>9 DEF ProviderAccepts, RunTypes, Run
  <2>1. VariantTypes' /\ PublicationTypes' /\ RequestTypes'
    <3>1. VariantTypes' /\ RequestTypes'
      BY <1>9 DEF ProviderAccepts
    <3>2. posts' \in [Publications -> Nat] /\ posted' \in SUBSET Bodies
      BY <1>9, <2>0 DEF ProviderAccepts, Post
    <3> QED
      BY <1>9, <3>1, <3>2 DEF ProviderAccepts
  <2>2. RunTypes'
    <3> DEFINE v == [run[w] EXCEPT !.at = "persist", !.accepted = TRUE]
    <3>1. v \in Run /\ v.at # "none"
      <4>1. run[w] \in Run
        BY DEF RunTypes
      <4> QED
        BY <4>1, RunMoves
    <3>2. run' = [run EXCEPT ![w] = v]
      BY <1>9 DEF ProviderAccepts, RunTypes, Run
    <3> QED
      BY <1>9, <3>1, <3>2, RunWrite DEF ProviderAccepts
  <2> QED
    BY <2>1, <2>2
<1>10. CASE ProviderRefuses(w)
  BY <1>10 DEF ProviderRefuses
<1>11. CASE PersistId(w)
  BY <1>11 DEF PersistId
<1>12. CASE MarkPublished(w)
  BY <1>12 DEF MarkPublished, PubStatuses
<1>13. CASE PublishVariant(w)
  BY <1>13 DEF PublishVariant, VariantStatuses
<1>14. CASE CollectLater(w)
  BY <1>14 DEF CollectLater
<1>15. CASE CatchPub(w)
  BY <1>15 DEF CatchPub, PubStatuses
<1>16. CASE CatchVariant(w)
  BY <1>16 DEF CatchVariant, VariantStatuses
<1> QED
  BY <1>1, <1>2, <1>3, <1>4, <1>5, <1>6, <1>7, <1>8, <1>9, <1>10, <1>11, <1>12, <1>13, <1>14, <1>15, <1>16 DEF HandlerStep

\* The runner around the handler and the faults keep the types.
LEMMA RunnerTypes ==
  ASSUME SocialTypes, NEW w \in Workers,
         RunnerStep(w) \/ HandlerBegins(w) \/ HandlerEnds(w) \/ WorkerFault(w)
  PROVE  VariantTypes' /\ PublicationTypes' /\ RequestTypes' /\ RunTypes'
<1>0. run[w].at # "none" => Job(w) \in Publications
  BY JobInHand
<1> USE DEF SocialTypes, VariantTypes, PublicationTypes, RequestTypes, EnqueuesOwn, KeepsSocial,
        RunSteps
<1>1. CASE RunnerStep(w) \/ RunnerFault(w)
  <2>1. \A r \in picked[w] : r.job \in Publications
    BY DEF QueueTypeOK, Row, Publications
  <2> QED
    BY <1>1, <2>1, RowKept DEF RunnerStep, RunnerFault, RunTypes
<1>2. CASE HandlerBegins(w)
  <2>1. PICK r \in batch[w] : HandlerStart(w, r)
    BY <1>2 DEF HandlerBegins
  <2>2. r # NoRow
    BY <2>1, RowIdentity DEF QueueTypeOK
  <2> QED
    <3>1. VariantTypes' /\ PublicationTypes' /\ RequestTypes'
      BY <1>2 DEF HandlerBegins
    <3>2. current' = [current EXCEPT ![w] = r] /\ run' = [run EXCEPT ![w].at = "read"]
      BY <1>2, <2>1 DEF HandlerBegins, HandlerStart, Step
    <3>3. RunTypes'
      <4>1. [run[w] EXCEPT !.at = "read"] \in Run
        BY DEF RunTypes, Run
      <4>2. run' = [run EXCEPT ![w] = [run[w] EXCEPT !.at = "read"]]
        BY <3>2 DEF RunTypes
      <4>3. run'[w].at = "read" /\ current'[w] # NoRow
        BY <2>2, <3>2, <4>2 DEF RunTypes, Run, QueueTypeOK
      <4>4. \A v \in Workers \ {w} : run'[v] = run[v] /\ current'[v] = current[v]
        BY <3>2 DEF RunTypes, QueueTypeOK
      <4> QED
        BY <4>1, <4>2, <4>3, <4>4 DEF RunTypes
    <3> QED
      BY <3>1, <3>3
<1>3. CASE HandlerEnds(w)
  BY <1>3, PublishingAssumption
  DEF HandlerEnds, HandlerReturns, HandlerThrows, Settle, SettleFails, RunTypes, Run, NoRun,
      Bodies, QueueTypeOK
<1>4. CASE WorkerDies(w)
  <2>1. IdDies(w) => run[w].at # "none"
    BY DEF IdDies, RunTypes
  <2>2. \A r \in Held(w) : r.job \in Publications
    BY DEF Held, QueueTypeOK, Row, Publications
  <2> QED
    BY <1>0, <1>4, <2>1, <2>2, PublishingAssumption DEF WorkerDies, Crash, RunTypes, Run, NoRun, Bodies, QueueTypeOK
<1>5. CASE StatementFails(w)
  <2>1. VariantTypes' /\ PublicationTypes' /\ RequestTypes'
    BY <1>0, <1>5 DEF StatementFails
  <2>2. AfterFailure(run[w].at) \in RunSteps \ {"none"}
    BY DEF AfterFailure
  <2>3. PICK to \in {"approved", "rejected"} :
          run' = [run EXCEPT ![w].at = AfterFailure(@), ![w].rewind = to]
    BY <1>5 DEF StatementFails
  <2>4. RunTypes'
    <3> DEFINE v == [run[w] EXCEPT !.at = AfterFailure(run[w].at), !.rewind = to]
    <3>1. v \in Run /\ v.at # "none"
      <4>1. run[w] \in Run
        BY DEF RunTypes
      <4> QED
        BY <2>2, <4>1, RunMoves
    <3>2. run' = [run EXCEPT ![w] = v]
      BY <2>3 DEF RunTypes, Run
    <3> QED
      BY <1>5, <3>1, <3>2, RunWrite DEF StatementFails
  <2> QED
    BY <2>1, <2>4
<1>6. CASE ProviderReplyLost(w)
  BY <1>0, <1>6 DEF ProviderReplyLost, Post, Step, RunTypes, Run, At
<1> QED
  BY <1>1, <1>2, <1>3, <1>4, <1>5, <1>6 DEF WorkerFault

\* Every step of publishing keeps the types.
LEMMA SocialTypesStep == SocialTypes /\ [Next]_vars => SocialTypes'
<1> SUFFICES ASSUME SocialTypes, [Next]_vars PROVE SocialTypes'
  OBVIOUS
<1>0. QueueTypeOK'
  BY QueueInside DEF SocialTypes, RequestTypes
<1>1. CASE \E w \in Workers : WorkerStep(w) \/ WorkerFault(w)
  BY <1>0, <1>1, HandlerTypes, RunnerTypes DEF WorkerStep, SocialTypes
<1>2. CASE \E a \in Admins : AdminStep(a)
  BY <1>0, <1>2, AdminTypes DEF SocialTypes
<1>3. CASE TimeStep
  BY <1>0, <1>3 DEF TimeStep, RunAfterPasses, LockGrowsStale, socialVars, SocialTypes,
     VariantTypes, PublicationTypes, RequestTypes, EnqueuesOwn, RunTypes
<1>4. CASE ToggleDryRun \/ TogglePublic \/ UNCHANGED vars
  BY <1>0, <1>4 DEF ToggleDryRun, TogglePublic, vars, queueVars, socialVars, SocialTypes,
     VariantTypes, PublicationTypes, RequestTypes, EnqueuesOwn, RunTypes
<1> QED
  BY <1>1, <1>2, <1>3, <1>4 DEF Next

LEMMA SocialTypesAlways == Spec => []SocialTypes
  BY SocialTypesInit, SocialTypesStep, PTL DEF Spec

\* The columns, the locals of the handlers and of the requests keep their types.
THEOREM SocialTypeCorrect == Spec => []SocialTypeOK
<1>1. SocialTypes => SocialTypeOK
  BY DEF SocialTypes, VariantTypes, PublicationTypes, RequestTypes, RunTypes, SocialTypeOK
<1> QED
  BY <1>1, SocialTypesAlways, PTL

\* With one process the invariant of the queue holds in the composition.
LEMMA OwnInside == OwnInv /\ SocialTypes /\ OneProcess /\ [Next]_vars => OwnInv'
<1> SUFFICES ASSUME OwnInv, SocialTypes, OneProcess, [Next]_vars PROVE OwnInv'
  OBVIOUS
<1>1. CASE FaultElsewhere
  BY <1>1 DEF FaultElsewhere, OwnInv, HeldRowsAreOwn, AttemptsAreExact, PassPhases,
     AbsentUntried, Held
<1>2. CASE [QueueNext]_queueVars
  BY <1>2, OwnStep DEF SocialTypes
<1> QED
  BY <1>1, <1>2, OnQueue DEF SocialTypes, RequestTypes

\* With one process, the promise of the queue, that a pass works on its own rows and
\* counts tries exactly, holds whatever handlers and administrators do.
THEOREM PassExactInside == ASSUME OneProcess PROVE Spec => []PassIsExact
<1>1. OwnInv /\ SocialTypes /\ [Next]_vars => OwnInv'
  BY OwnInside
<1>2. Init => OwnInv
  BY OwnInit DEF Init
<1>3. OwnInv => PassIsExact
  BY DEF OwnInv, PassIsExact
<1> QED
  BY <1>1, <1>2, <1>3, SocialTypesAlways, PTL DEF Spec

-----------------------------------------------------------------------------
(* Posts and their ids.  What a handler carries of a live post vouches for what  *)
(* it is about to write.                                                         *)

\* Between the answer of the provider and the end of the handler the post exists; a
\* handler that finalizes has its id in the table; one that marks published carries
\* the id or publishes dry.
Carries(w) ==
  /\ run[w].accepted => run[w].at \notin {"none", "read"} /\ posts[Job(w)] > 0
  /\ run[w].at = "persist" => run[w].accepted
  /\ run[w].at = "publish" => run[w].accepted \/ Job(w) \in dry
  /\ run[w].at = "finalPub" => Job(w) \in extId

RealInv == PublishedIsReal /\ \A w \in Workers : Carries(w)

\* Nothing takes back a post, its id, or the dry-run mark.
LEMMA PostsStay ==
  ASSUME SocialTypes, [Next]_vars
  PROVE  /\ extId \subseteq extId' /\ dry \subseteq dry'
         /\ \A p \in Publications : posts'[p] >= posts[p] /\ posts[p] \in Nat
<1> DEFINE Stay == /\ extId \subseteq extId' /\ dry \subseteq dry'
                   /\ \A p \in Publications : posts'[p] >= posts[p]
<1>0. \A p \in Publications : posts[p] \in Nat
  BY DEF SocialTypes, PublicationTypes
<1>1. ASSUME NEW w \in Workers, HandlerStep(w) PROVE Stay
  BY <1>0, <1>1 DEF SocialTypes, PublicationTypes, HandlerStep, Read, FinalPub, FinalVariant,
     Door, AbortPub, AbortVariant, SetPublishing, SetVariantPublishing, ProviderAccepts, Post,
     ProviderRefuses, PersistId, MarkPublished, PublishVariant, CollectLater, CatchPub,
     CatchVariant
<1>2. ASSUME NEW w \in Workers, RunnerStep(w) \/ HandlerBegins(w) \/ HandlerEnds(w)
                                \/ RunnerFault(w) \/ WorkerDies(w) \/ StatementFails(w)
      PROVE  Stay
  BY <1>0, <1>2 DEF RunnerStep, HandlerBegins, HandlerEnds, RunnerFault, WorkerDies,
     StatementFails, KeepsSocial
<1>3. ASSUME NEW w \in Workers, ProviderReplyLost(w) PROVE Stay
  BY <1>0, <1>3 DEF SocialTypes, PublicationTypes, ProviderReplyLost, Post
<1>4. ASSUME NEW a \in Admins, AdminStep(a) PROVE Stay
  <2>1. UNCHANGED <<extId, posts>>
    BY <1>4 DEF AdminStep, Quiet, Generate, MarkGenerating, LlmAnswers, Submit, SubmitVariant,
       DecideRow, DecideVariant, InsertApproval, Decide, Schedule, ScheduleVariant,
       RereadVariant, RewindVariant, CreatePublication, Cancel, EnqueuePublish, AdminFails
  <2>2. ASSUME NEW p \in Publications, CreatePublication(a, p) PROVE dry \subseteq dry'
    BY <2>2 DEF CreatePublication
  <2>3. dry \subseteq dry'
    BY <1>4, <2>2 DEF AdminStep, Quiet, Generate, MarkGenerating, LlmAnswers, Submit,
       SubmitVariant, DecideRow, DecideVariant, InsertApproval, Decide, Schedule,
       ScheduleVariant, RereadVariant, RewindVariant, Cancel, EnqueuePublish, AdminFails
  <2> QED
    BY <1>0, <2>1, <2>3
<1>5. TimeStep \/ ToggleDryRun \/ TogglePublic \/ UNCHANGED vars => Stay
  BY <1>0 DEF TimeStep, ToggleDryRun, TogglePublic, vars, socialVars
<1> QED
  BY <1>0, <1>1, <1>2, <1>3, <1>4, <1>5 DEF Next, WorkerStep, WorkerFault

\* A worker writes its own locals and takes its own rows.
LEMMA OthersKept ==
  ASSUME SocialTypes, NEW w \in Workers, WorkerStep(w) \/ WorkerFault(w),
         NEW u \in Workers, u # w
  PROVE  run'[u] = run[u] /\ current'[u] = current[u]
<1> USE DEF SocialTypes, RunTypes, QueueTypeOK
<1>1. CASE HandlerStep(w)
  BY <1>1 DEF HandlerStep, InHandler, queueVars, Read, FinalPub, FinalVariant, Door, AbortPub,
     AbortVariant, SetPublishing, SetVariantPublishing, ProviderAccepts, ProviderRefuses,
     PersistId, MarkPublished, PublishVariant, CollectLater, CatchPub, CatchVariant, Step
<1>2. CASE RunnerStep(w) \/ RunnerFault(w)
  BY <1>2, RowKept
<1>3. CASE HandlerBegins(w)
  BY <1>3 DEF HandlerBegins, HandlerStart, Step
<1>4. CASE HandlerEnds(w)
  BY <1>4 DEF HandlerEnds, HandlerReturns, HandlerThrows, Settle, SettleFails
<1>5. CASE WorkerDies(w)
  BY <1>5 DEF WorkerDies, Crash
<1>6. CASE StatementFails(w) \/ ProviderReplyLost(w)
  BY <1>6 DEF StatementFails, ProviderReplyLost, Step
<1> QED
  BY <1>1, <1>2, <1>3, <1>4, <1>5, <1>6 DEF WorkerStep, WorkerFault

\* Steps of others leave a handler what it carries.
LEMMA CarriesKept ==
  ASSUME SocialTypes, [Next]_vars, NEW u \in Workers, Carries(u),
         run'[u] = run[u], current'[u] = current[u]
  PROVE  Carries(u)'
<1>1. run[u].at # "none" => Job(u) \in Publications
  BY JobInHand
<1>2. run[u].at # "none" => posts'[Job(u)] >= posts[Job(u)] /\ posts[Job(u)] \in Nat
                            /\ posts'[Job(u)] \in Nat
  BY <1>1, PostsStay, SocialTypesStep DEF SocialTypes, PublicationTypes
<1>3. Job(u)' = Job(u)
  BY DEF Job
<1> QED
  BY <1>2, <1>3, PostsStay DEF Carries

\* The statements of a handler and its end.
LEMMA CarriesOwn ==
  ASSUME SocialTypes, [Next]_vars, NEW w \in Workers, Carries(w),
         WorkerStep(w) \/ WorkerFault(w)
  PROVE  Carries(w)'
<1> USE DEF SocialTypes, RunTypes, Run, At, Step, InHandler, queueVars, RunSteps
<1>0. run[w].at # "none" =>
        /\ Job(w) \in Publications
        /\ posts[Job(w)] \in Nat /\ posts'[Job(w)] \in Nat /\ posts'[Job(w)] >= posts[Job(w)]
  BY JobInHand, PostsStay, SocialTypesStep DEF PublicationTypes
<1>1. CASE RunnerStep(w) \/ RunnerFault(w)
  BY <1>1, RowKept, CarriesKept
<1>2. CASE HandlerBegins(w)
  <2>1. current[w] = NoRow
    BY <1>2 DEF HandlerBegins, HandlerStart
  <2>2. ~run[w].accepted
    BY <2>1
  <2>3. run'[w].at = "read" /\ run'[w].accepted = run[w].accepted
    BY <1>2 DEF HandlerBegins
  <2> QED
    BY <2>2, <2>3 DEF Carries
<1>3. CASE HandlerEnds(w) \/ WorkerDies(w)
  BY <1>3 DEF HandlerEnds, WorkerDies, NoRun, Carries
<1>4. CASE StatementFails(w)
  <2>1. Job(w)' = Job(w) /\ UNCHANGED <<posts, extId, dry>>
    BY <1>4 DEF StatementFails, Job
  <2>2. run[w].at # "none" /\ run'[w].accepted = run[w].accepted
        /\ run'[w].at = AfterFailure(run[w].at)
    BY <1>4 DEF StatementFails
  <2>3. run[w].at = "read" => run'[w].at = "thrown"
    BY <2>2 DEF AfterFailure
  <2> QED
    BY <2>1, <2>2 DEF Carries, AfterFailure
<1>5. CASE ProviderReplyLost(w)
  BY <1>0, <1>5 DEF ProviderReplyLost, Carries, Job
<1>6. CASE HandlerStep(w)
  <2>0. Job(w)' = Job(w)
    BY <1>6 DEF HandlerStep, Read, FinalPub, FinalVariant, Door, AbortPub, AbortVariant,
       SetPublishing, SetVariantPublishing, ProviderAccepts, ProviderRefuses, PersistId,
       MarkPublished, PublishVariant, CollectLater, CatchPub, CatchVariant, Job
  <2> USE <1>0, <2>0 DEF Carries
  <2>1. CASE Read(w)
    BY <2>1 DEF Read, NoRun
  <2>2. CASE FinalPub(w) \/ FinalVariant(w)
    BY <2>2 DEF FinalPub, FinalVariant
  <2>3. CASE Door(w)
    BY <2>3 DEF Door
  <2>4. CASE AbortPub(w) \/ AbortVariant(w)
    BY <2>4 DEF AbortPub, AbortVariant
  <2>5. CASE SetPublishing(w) \/ SetVariantPublishing(w)
    BY <2>5 DEF SetPublishing, SetVariantPublishing
  <2>6. CASE ProviderAccepts(w)
    <3>1. run'[w].at = "persist" /\ run'[w].accepted
      BY <2>6 DEF ProviderAccepts
    <3>2. posts'[Job(w)] > 0
      BY <2>6 DEF ProviderAccepts, Post, PublicationTypes
    <3> QED
      BY <3>1, <3>2
  <2>7. CASE ProviderRefuses(w)
    BY <2>7 DEF ProviderRefuses
  <2>8. CASE PersistId(w)
    BY <2>8 DEF PersistId
  <2>9. CASE MarkPublished(w) \/ PublishVariant(w) \/ CollectLater(w)
    BY <2>9 DEF MarkPublished, PublishVariant, CollectLater
  <2>10. CASE CatchPub(w) \/ CatchVariant(w)
    BY <2>10 DEF CatchPub, CatchVariant
  <2> QED
    BY <1>6, <2>1, <2>2, <2>3, <2>4, <2>5, <2>6, <2>7, <2>8, <2>9, <2>10 DEF HandlerStep
<1> QED
  BY <1>1, <1>2, <1>3, <1>4, <1>5, <1>6 DEF WorkerStep, WorkerFault

\* Every handler keeps what it carries.
LEMMA CarriesStep ==
  ASSUME SocialTypes, [Next]_vars, \A w \in Workers : Carries(w)
  PROVE  \A w \in Workers : Carries(w)'
<1> SUFFICES ASSUME NEW u \in Workers PROVE Carries(u)'
  OBVIOUS
<1>1. ASSUME NEW w \in Workers, WorkerStep(w) \/ WorkerFault(w) PROVE Carries(u)'
  <2>1. CASE u = w
    BY <1>1, <2>1, CarriesOwn
  <2>2. CASE u # w
    BY <1>1, <2>2, OthersKept, CarriesKept
  <2> QED
    BY <2>1, <2>2
<1>2. ASSUME NEW a \in Admins, AdminStep(a) PROVE run' = run /\ current' = current
  BY <1>2 DEF AdminStep, Quiet, queueVars, Generate, MarkGenerating, LlmAnswers, Submit,
     SubmitVariant, DecideRow, DecideVariant, InsertApproval, Decide, Schedule,
     ScheduleVariant, RereadVariant, RewindVariant, CreatePublication, Cancel, EnqueuePublish,
     Enqueue, AdminFails
<1>3. TimeStep \/ ToggleDryRun \/ TogglePublic \/ UNCHANGED vars
      => run' = run /\ current' = current
  BY DEF TimeStep, RunAfterPasses, LockGrowsStale, ToggleDryRun, TogglePublic, vars,
     queueVars, socialVars
<1> QED
  BY <1>1, <1>2, <1>3, CarriesKept DEF Next

\* What a handler records of a live publication, it has carried from the provider.
LEMMA RealStep ==
  ASSUME SocialTypes, RealInv, [Next]_vars
  PROVE  RealInv'
<1>1. \A w \in Workers : Carries(w)'
  BY CarriesStep DEF RealInv
<1>0. /\ pub \in [Publications -> PubStatuses]
      /\ posts \in [Publications -> Nat] /\ posts' \in [Publications -> Nat]
  BY SocialTypesStep DEF SocialTypes, PublicationTypes
<1>2. ASSUME \A p \in Publications \ dry' :
               /\ pub'[p] = "published" => pub[p] = "published" \/ p \in extId'
               /\ p \in extId' => p \in extId \/ posts'[p] > 0
      PROVE  PublishedIsReal'
  <2> SUFFICES ASSUME NEW p \in Publications \ dry'
               PROVE  (pub'[p] = "published" => p \in extId') /\ (p \in extId' => posts'[p] > 0)
    BY DEF PublishedIsReal
  <2>1. p \in Publications \ dry /\ extId \subseteq extId' /\ posts'[p] >= posts[p]
    BY PostsStay
  <2>2. (pub[p] = "published" => p \in extId) /\ (p \in extId => posts[p] > 0)
    BY <2>1 DEF RealInv, PublishedIsReal
  <2> QED
    BY <1>0, <1>2, <2>1, <2>2
<1>3. ASSUME pub' = pub \/ \E p \in Publications, t \in PubStatuses \ {"published"} :
                             pub' = [pub EXCEPT ![p] = t],
             extId' = extId
      PROVE  PublishedIsReal'
  BY <1>0, <1>2, <1>3
<1>4. ASSUME NEW w \in Workers, HandlerStep(w) PROVE PublishedIsReal'
  <2>0. run[w].at # "none" => Job(w) \in Publications
    BY JobInHand
  <2> USE DEF At, PubStatuses
  <2>1. CASE \/ Read(w) \/ FinalVariant(w) \/ Door(w) \/ AbortPub(w) \/ AbortVariant(w)
             \/ SetPublishing(w) \/ SetVariantPublishing(w) \/ ProviderAccepts(w)
             \/ ProviderRefuses(w) \/ PublishVariant(w) \/ CollectLater(w) \/ CatchVariant(w)
    BY <1>3, <2>0, <2>1 DEF Read, FinalVariant, Door, AbortPub, AbortVariant, SetPublishing,
       SetVariantPublishing, ProviderAccepts, ProviderRefuses, PublishVariant, CollectLater,
       CatchVariant
  <2>2. CASE FinalPub(w)
    BY <1>0, <1>2, <2>0, <2>2 DEF FinalPub, RealInv, Carries
  <2>3. CASE PersistId(w)
    BY <1>0, <1>2, <2>0, <2>3 DEF PersistId, InHandler, RealInv, Carries
  <2>4. CASE MarkPublished(w)
    BY <1>0, <1>2, <2>0, <2>4 DEF MarkPublished, RealInv, Carries
  <2>5. CASE CatchPub(w)
    BY <1>0, <1>2, <2>0, <2>5 DEF CatchPub, RealInv, Carries
  <2> QED
    BY <1>4, <2>1, <2>2, <2>3, <2>4, <2>5 DEF HandlerStep
<1>5. ASSUME NEW w \in Workers, RunnerStep(w) \/ HandlerBegins(w) \/ HandlerEnds(w)
                                \/ WorkerFault(w)
      PROVE  PublishedIsReal'
  BY <1>3, <1>5 DEF RunnerStep, HandlerBegins, HandlerEnds, WorkerFault, RunnerFault,
     StatementFails, ProviderReplyLost, WorkerDies, KeepsSocial
<1>6. ASSUME NEW a \in Admins, AdminStep(a) PROVE PublishedIsReal'
  <2>1. ASSUME NEW p \in Publications, CreatePublication(a, p) \/ Cancel(a, p)
        PROVE  PublishedIsReal'
    BY <1>3, <2>1 DEF CreatePublication, Cancel, PubStatuses
  <2> QED
    BY <1>3, <1>6, <2>1 DEF AdminStep, Quiet, Generate, MarkGenerating, LlmAnswers, Submit,
       SubmitVariant, DecideRow, DecideVariant, InsertApproval, Decide, Schedule,
       ScheduleVariant, RereadVariant, RewindVariant, EnqueuePublish, AdminFails
<1>7. TimeStep \/ ToggleDryRun \/ TogglePublic \/ UNCHANGED vars => PublishedIsReal'
  BY <1>3 DEF TimeStep, ToggleDryRun, TogglePublic, vars, socialVars
<1> QED
  BY <1>1, <1>4, <1>5, <1>6, <1>7 DEF RealInv, Next, WorkerStep

\* A live publication is recorded as published only with the id of a post that exists,
\* for any number of processes, although two of them may run the same job.
THEOREM PublishedForReal == Spec => []PublishedIsReal
<1>1. Init => RealInv
  BY DEF Init, RealInv, PublishedIsReal, Carries, NoRun
<1>2. RealInv => PublishedIsReal
  BY DEF RealInv
<1>3. SocialTypes /\ RealInv /\ [Next]_vars => RealInv'
  BY RealStep
<1> QED
  BY <1>1, <1>2, <1>3, SocialTypesAlways, PTL DEF Spec

-----------------------------------------------------------------------------
(* Second posts, with one process.  A post whose id is not lost is in the table  *)
(* or in the hands of the handler that made it, so the handler that is about to  *)
(* post has none.                                                                *)

InHands(w, p) == run[w].accepted /\ Job(w) = p /\ run[w].at \in {"persist", "catchPub"}

\* A post that is not lost is the only one, and somebody knows its id.
KnownPost(p) ==
  p \notin lost => /\ posts[p] <= 1
                   /\ posts[p] > 0 => p \in extId \/ \E w \in Workers : InHands(w, p)

\* On its way to the provider a handler carries nothing and its publication, if live,
\* has no id.
Unposted(w) ==
  /\ run[w].at \in {"door", "setPub", "setVariant", "call"} =>
       ~run[w].accepted /\ (Job(w) \notin extId \/ Job(w) \in dry)
  /\ run[w].at = "call" => Job(w) \notin extId

PostInv == (\A p \in Publications : KnownPost(p)) /\ \A w \in Workers : Unposted(w)

\* Whoever does not work for the queue leaves posts, ids and handlers alone.
LEMMA OutsideKeepsPosts ==
  ASSUME SocialTypes, [Next]_vars, ~ \E w \in Workers : WorkerStep(w) \/ WorkerFault(w)
  PROVE  UNCHANGED <<posts, extId, lost, run, current>>
<1>1. ASSUME NEW a \in Admins, AdminStep(a) PROVE UNCHANGED <<posts, extId, lost, run, current>>
  BY <1>1 DEF AdminStep, Quiet, queueVars, Generate, MarkGenerating, LlmAnswers, Submit,
     SubmitVariant, DecideRow, DecideVariant, InsertApproval, Decide, Schedule,
     ScheduleVariant, RereadVariant, RewindVariant, CreatePublication, Cancel, EnqueuePublish,
     Enqueue, AdminFails
<1>2. TimeStep \/ ToggleDryRun \/ TogglePublic \/ UNCHANGED vars
      => UNCHANGED <<posts, extId, lost, run, current>>
  BY DEF TimeStep, RunAfterPasses, LockGrowsStale, ToggleDryRun, TogglePublic, vars,
     queueVars, socialVars
<1> QED
  BY <1>1, <1>2 DEF Next

\* A step that posts nothing and keeps or writes down the id in hand.
LEMMA KnownKept ==
  ASSUME NEW w \in Workers, \A u \in Workers : u = w, PostInv, posts' = posts,
         extId \subseteq extId', lost \subseteq lost',
         \A p \in Publications : InHands(w, p) => InHands(w, p)' \/ p \in extId' \/ p \in lost'
  PROVE  \A p \in Publications : KnownPost(p)'
  BY DEF PostInv, KnownPost, InHands, Job

\* The only process knows the id of every post that is not lost.
LEMMA PostOwn ==
  ASSUME OneProcess, SocialTypes, RealInv, PostInv, [Next]_vars,
         NEW w \in Workers, WorkerStep(w) \/ WorkerFault(w)
  PROVE  PostInv'
<1> USE DEF SocialTypes, RunTypes, Run, At, Step, RunSteps, InHandler, queueVars
<1>a. \A u \in Workers : u = w
  BY DEF OneProcess
<1>b. extId \subseteq extId' /\ dry \subseteq dry'
  BY PostsStay
<1>c. run[w].at # "none" => Job(w) \in Publications
  BY JobInHand
<1>1. CASE RunnerStep(w) \/ RunnerFault(w)
  <2>1. UNCHANGED <<posts, extId, lost, run, current>>
    BY <1>1, RowKept DEF RunnerStep, RunnerFault, KeepsSocial
  <2> QED
    BY <1>b, <2>1 DEF PostInv, KnownPost, InHands, Unposted, Job
<1>2. CASE HandlerBegins(w)
  <2>1. current[w] = NoRow /\ UNCHANGED <<posts, extId, lost>> /\ run'[w].at = "read"
    BY <1>2 DEF HandlerBegins, HandlerStart, KeepsSocial
  <2>2. \A p \in Publications : ~InHands(w, p)
    BY <2>1 DEF InHands
  <2> QED
    BY <1>a, <2>1, <2>2, KnownKept DEF PostInv, Unposted
<1>3. CASE HandlerEnds(w)
  <2>1. /\ UNCHANGED <<posts, extId, lost>> /\ run'[w].at = "none"
        /\ run[w].at \in {"returned", "thrown"}
    BY <1>3 DEF HandlerEnds, KeepsSocial, NoRun
  <2>2. \A p \in Publications : ~InHands(w, p)
    BY <2>1 DEF InHands
  <2> QED
    BY <1>a, <2>1, <2>2, KnownKept DEF PostInv, Unposted
<1>4. CASE WorkerDies(w)
  <2>1. /\ UNCHANGED <<posts, extId>> /\ run'[w].at = "none" /\ lost \subseteq lost'
        /\ \A p \in Publications : InHands(w, p) => p \in extId \/ p \in lost'
    BY <1>4 DEF WorkerDies, KeepsSocial, NoRun, InHands, IdDies
  <2> QED
    BY <1>a, <2>1, KnownKept DEF PostInv, Unposted
<1>5. CASE StatementFails(w)
  <2>1. /\ UNCHANGED <<posts, extId, dry, current>> /\ lost \subseteq lost'
        /\ run'[w].at = AfterFailure(run[w].at) /\ run'[w].accepted = run[w].accepted
        /\ run[w].at # "none"
    BY <1>5 DEF StatementFails
  <2>2. ASSUME NEW p \in Publications, InHands(w, p)
        PROVE  InHands(w, p)' \/ p \in extId' \/ p \in lost'
    <3>1. CASE run[w].at = "persist"
      BY <2>1, <2>2, <3>1 DEF InHands, AfterFailure, Job
    <3>2. CASE run[w].at = "catchPub"
      BY <1>5, <2>1, <2>2, <3>2 DEF StatementFails, InHands, IdDies
    <3> QED
      BY <2>2, <3>1, <3>2 DEF InHands
  <2>3. run'[w].at \notin {"door", "setPub", "setVariant", "call"}
    BY <2>1 DEF AfterFailure
  <2> QED
    BY <1>a, <2>1, <2>2, <2>3, KnownKept DEF PostInv, Unposted
<1>6. ASSUME run[w].at = "call", Post(w), current' = current, extId' = extId,
             \/ lost' = lost /\ run'[w].at = "persist" /\ run'[w].accepted = TRUE
             \/ lost' = lost \cup {Job(w)} /\ run'[w].at = "catchPub"
      PROVE  PostInv'
  <2>1. Job(w) \in Publications /\ Job(w)' = Job(w)
    BY <1>6, <1>c DEF Job
  <2>2. ~run[w].accepted /\ Job(w) \notin extId
    BY <1>6 DEF PostInv, Unposted
  <2>3. \A p \in Publications : ~InHands(w, p)
    BY <2>2 DEF InHands
  <2>4. Job(w) \in lost \/ posts[Job(w)] = 0
    BY <1>a, <2>1, <2>2, <2>3 DEF PostInv, KnownPost, PublicationTypes
  <2>5. ASSUME NEW p \in Publications PROVE KnownPost(p)'
    <3>1. CASE p # Job(w)
      <4>1. posts'[p] = posts[p] /\ extId' = extId /\ lost \subseteq lost'
        BY <1>6, <3>1 DEF Post, PublicationTypes
      <4> QED
        BY <1>a, <2>3, <4>1 DEF PostInv, KnownPost
    <3>2. CASE p = Job(w) /\ p \notin lost'
      <4>1. posts[p] = 0 /\ posts'[p] = 1 /\ run'[w].at = "persist" /\ run'[w].accepted
        BY <1>6, <2>1, <2>4, <3>2 DEF Post, PublicationTypes
      <4> QED
        BY <2>1, <3>2, <4>1 DEF KnownPost, InHands
    <3> QED
      BY <3>1, <3>2 DEF KnownPost
  <2> QED
    BY <1>6, <1>a, <2>5 DEF PostInv, Unposted
<1>7. CASE ProviderReplyLost(w)
  BY <1>6, <1>7 DEF ProviderReplyLost
<1>8. CASE ProviderAccepts(w)
  <2>1. run'[w].at = "persist" /\ run'[w].accepted = TRUE
    BY <1>8 DEF ProviderAccepts
  <2>2. run[w].at = "call" /\ Post(w)
    BY <1>8 DEF ProviderAccepts
  <2>3. current' = current /\ extId' = extId /\ lost' = lost
    BY <1>8 DEF ProviderAccepts
  <2> QED
    BY <1>6, <2>1, <2>2, <2>3
<1>9. CASE HandlerStep(w) /\ ~ProviderAccepts(w)
  <2>1. UNCHANGED <<posts, lost, current, dry>>
    BY <1>9 DEF HandlerStep, Read, FinalPub, FinalVariant, Door, AbortPub, AbortVariant,
       SetPublishing, SetVariantPublishing, ProviderRefuses, PersistId, MarkPublished,
       PublishVariant, CollectLater, CatchPub, CatchVariant
  <2>2. Job(w)' = Job(w)
    BY <2>1 DEF Job
  <2>3. ASSUME NEW p \in Publications, InHands(w, p)
        PROVE  InHands(w, p)' \/ p \in extId' \/ p \in lost'
    <3>1. PersistId(w) \/ CatchPub(w)
      BY <1>9, <2>3 DEF HandlerStep, InHands, Read, FinalPub, FinalVariant, Door, AbortPub,
         AbortVariant, SetPublishing, SetVariantPublishing, ProviderRefuses, MarkPublished,
         PublishVariant, CollectLater, CatchVariant
    <3> QED
      BY <2>3, <3>1 DEF PersistId, CatchPub, InHands
  <2>4. \A p \in Publications : KnownPost(p)'
    BY <1>a, <1>b, <2>1, <2>3, KnownKept
  <2>5. Unposted(w)'
    <3> USE <2>1, <2>2 DEF PostInv, Unposted
    <3>1. CASE Read(w)
      BY <3>1 DEF Read, NoRun
    <3>2. CASE Door(w)
      BY <3>2 DEF Door
    <3>3. CASE SetPublishing(w)
      BY <3>3 DEF SetPublishing
    <3>4. CASE SetVariantPublishing(w)
      BY <3>4 DEF SetVariantPublishing
    <3>5. CASE run'[w].at \notin {"door", "setPub", "setVariant", "call"}
      BY <3>5
    <3>6. \/ Read(w) \/ Door(w) \/ SetPublishing(w) \/ SetVariantPublishing(w)
          \/ run'[w].at \notin {"door", "setPub", "setVariant", "call"}
      BY <1>9 DEF HandlerStep, FinalPub, FinalVariant, AbortPub, AbortVariant,
         ProviderRefuses, PersistId, MarkPublished, PublishVariant, CollectLater, CatchPub,
         CatchVariant
    <3> QED
      BY <3>1, <3>2, <3>3, <3>4, <3>5, <3>6
  <2> QED
    BY <1>a, <2>4, <2>5 DEF PostInv
<1> QED
  BY <1>1, <1>2, <1>3, <1>4, <1>5, <1>7, <1>8, <1>9 DEF WorkerStep, WorkerFault

\* With one process and a provider that ignores the key, a second post follows only on
\* an id lost to a crash, a lost answer or two failed writes in a row.
THEOREM SecondPostNeedsLoss == ASSUME OneProcess PROVE Spec => []DoublePostNeedsLostId
<1>1. Init => RealInv /\ PostInv
  BY DEF Init, RealInv, PublishedIsReal, Carries, NoRun, PostInv, KnownPost, Unposted
<1>2. SocialTypes /\ RealInv /\ PostInv /\ [Next]_vars => RealInv' /\ PostInv'
  <2> SUFFICES ASSUME SocialTypes, RealInv, PostInv, [Next]_vars PROVE PostInv'
    BY RealStep
  <2>1. CASE \E w \in Workers : WorkerStep(w) \/ WorkerFault(w)
    BY <2>1, PostOwn
  <2>2. CASE ~ \E w \in Workers : WorkerStep(w) \/ WorkerFault(w)
    <3>1. UNCHANGED <<posts, extId, lost, run, current>> /\ dry \subseteq dry'
      BY <2>2, OutsideKeepsPosts, PostsStay
    <3> QED
      BY <3>1 DEF PostInv, KnownPost, Unposted, InHands, Job
  <2> QED
    BY <2>1, <2>2
<1>3. SocialTypes /\ PostInv => DoublePostNeedsLostId
  BY DEF PostInv, KnownPost, DoublePostNeedsLostId, SocialTypes, PublicationTypes
<1> QED
  BY <1>1, <1>2, <1>3, SocialTypesAlways, PTL DEF Spec

-----------------------------------------------------------------------------
(* The active index, with one process.  A job that runs for an active publication *)
(* is in the hands of the process, and a handler lets go of a publication that    *)
(* no longer occupies the index, unless a fault has hit that very publication.    *)

\* The partial unique index on the active publications of a variant.
OneActive == \A p, q \in Publications : pub[p] \in Active /\ pub[q] \in Active => p = q

\* A publication is inserted before its job.
CreatedFirst ==
  /\ \A p \in Publications : pub[p] = "absent" => status[p] = "absent"
  /\ \A a \in Admins : adm[a].at = "enqueue" => pub[adm[a].on] # "absent"

\* One request enqueues a publication, which until then no handler has moved.
EnqueuesOnce ==
  /\ \A a, b \in Admins :
       adm[a].at = "enqueue" /\ adm[b].at = "enqueue" /\ adm[a].on = adm[b].on => a = b
  /\ \A a \in Admins : adm[a].at = "enqueue" => status[adm[a].on] = "absent"
NotEnqueued == \A p \in Publications : status[p] = "absent" => pub[p] # "publishing"

IsHeld(j) == \E w \in Workers : \E r \in Held(w) : r.job = j
RunningIsHeld ==
  \A p \in Publications : status[p] = "running" => IsHeld(p) \/ pub[p] \notin Active \/ p \in hurt

\* Past these statements a handler has moved its publication out of the index; on the
\* way of a thrown error it has, or a statement of this attempt has failed.
Leaving == {"finalVariant", "abortVariant", "publishVariant", "analytics", "returned"}
Failing == {"catchVariant", "thrown"}
LetGo(w) ==
  /\ run[w].at \in Leaving => pub[Job(w)] \notin Active
  /\ run[w].at \in Failing => pub[Job(w)] \notin Active \/ Job(w) \in hurt
HandlersLetGo == \A w \in Workers : LetGo(w)

Untroubled == RunningIsHeld /\ HandlersLetGo /\ ActiveHasJob

IndexInv == OneActive /\ CreatedFirst /\ EnqueuesOnce /\ NotEnqueued /\ Untroubled

\* A publication enters the index only while no other one occupies it, and a row is
\* never deleted.
LEMMA PubMoves ==
  ASSUME SocialTypes, [Next]_vars, NEW p \in Publications
  PROVE  /\ pub'[p] = "absent" => pub[p] = "absent"
         /\ pub'[p] \in Active => \/ pub[p] \in Active
                                  \/ ~ActiveExists(p) /\ \A q \in Publications \ {p} : pub'[q] = pub[q]
<1> DEFINE Moves == /\ pub'[p] = "absent" => pub[p] = "absent"
                    /\ pub'[p] \in Active =>
                         \/ pub[p] \in Active
                         \/ ~ActiveExists(p) /\ \A q \in Publications \ {p} : pub'[q] = pub[q]
<1>0. pub \in [Publications -> PubStatuses]
  BY DEF SocialTypes, PublicationTypes
<1>1. ASSUME pub' = pub \/ \E q \in Publications, t \in PubStatuses \ (Active \cup {"absent"}) :
                             pub' = [pub EXCEPT ![q] = t]
      PROVE  Moves
  BY <1>0, <1>1 DEF Active
<1>2. ASSUME NEW q \in Publications, ~ActiveExists(q), NEW t \in Active,
             pub' = [pub EXCEPT ![q] = t]
      PROVE  Moves
  BY <1>0, <1>2 DEF Active
<1>3. ASSUME NEW w \in Workers, HandlerStep(w) PROVE Moves
  <2>0. run[w].at # "none" => Job(w) \in Publications
    BY JobInHand
  <2>1. CASE SetPublishing(w)
    <3>1. CASE ActiveExists(Job(w))
      BY <1>1, <2>1, <3>1 DEF SetPublishing
    <3>2. CASE ~ActiveExists(Job(w))
      BY <1>2, <2>0, <2>1, <3>2 DEF SetPublishing, At, Active
    <3> QED
      BY <3>1, <3>2
  <2>2. CASE FinalPub(w) \/ AbortPub(w) \/ MarkPublished(w) \/ CatchPub(w)
    BY <1>1, <2>0, <2>2 DEF FinalPub, AbortPub, MarkPublished, CatchPub, At, PubStatuses, Active
  <2>3. CASE \/ Read(w) \/ FinalVariant(w) \/ Door(w) \/ AbortVariant(w)
             \/ SetVariantPublishing(w) \/ ProviderAccepts(w) \/ ProviderRefuses(w)
             \/ PersistId(w) \/ PublishVariant(w) \/ CollectLater(w) \/ CatchVariant(w)
    BY <1>1, <2>3 DEF Read, FinalVariant, Door, AbortVariant, SetVariantPublishing,
       ProviderAccepts, ProviderRefuses, PersistId, PublishVariant, CollectLater, CatchVariant
  <2> QED
    BY <1>3, <2>1, <2>2, <2>3 DEF HandlerStep
<1>4. ASSUME NEW w \in Workers, RunnerStep(w) \/ HandlerBegins(w) \/ HandlerEnds(w)
                                \/ WorkerFault(w)
      PROVE  Moves
  BY <1>1, <1>4 DEF RunnerStep, HandlerBegins, HandlerEnds, WorkerFault, RunnerFault,
     StatementFails, ProviderReplyLost, WorkerDies, KeepsSocial
<1>5. ASSUME NEW a \in Admins, AdminStep(a) PROVE Moves
  <2>1. ASSUME NEW q \in Publications, CreatePublication(a, q) PROVE Moves
    <3>1. CASE ActiveExists(q)
      BY <1>1, <2>1, <3>1 DEF CreatePublication
    <3>2. CASE ~ActiveExists(q)
      BY <1>2, <2>1, <3>2 DEF CreatePublication, Active
    <3> QED
      BY <3>1, <3>2
  <2>2. ASSUME NEW q \in Publications, Cancel(a, q) PROVE Moves
    BY <1>1, <2>2 DEF Cancel, PubStatuses, Active
  <2> QED
    BY <1>1, <1>5, <2>1, <2>2 DEF AdminStep, Quiet, Generate, MarkGenerating, LlmAnswers, Submit,
       SubmitVariant, DecideRow, DecideVariant, InsertApproval, Decide, Schedule,
       ScheduleVariant, RereadVariant, RewindVariant, EnqueuePublish, AdminFails
<1>6. TimeStep \/ ToggleDryRun \/ TogglePublic \/ UNCHANGED vars => Moves
  BY <1>1 DEF TimeStep, ToggleDryRun, TogglePublic, vars, socialVars
<1> QED
  BY <1>3, <1>4, <1>5, <1>6 DEF Next, WorkerStep

\* Only a producer inserts a row.
LEMMA OnlyEnqueueInserts ==
  ASSUME SocialTypes, [Next]_vars, NEW p \in Publications, status[p] = "absent",
         ~ \E a \in Admins, later \in BOOLEAN : EnqueuePublish(a, later) /\ adm[a].on = p
  PROVE  status'[p] = "absent"
<1> USE DEF SocialTypes, QueueTypeOK, Publications
<1>1. ASSUME NEW w \in Workers, WorkerStep(w) \/ WorkerFault(w) PROVE status'[p] = status[p]
  <2>1. CASE RunnerStep(w) \/ RunnerFault(w)
    BY <2>1 DEF RunnerStep, RunnerFault, PassStart, SelectDue, BeginWork, PassEnd, Reclaim,
       Claim, MarkRunning, WriteFails, ClaimReplyLost
  <2>2. CASE HandlerBegins(w)
    BY <2>2 DEF HandlerBegins, HandlerStart
  <2>3. CASE HandlerEnds(w)
    BY <2>3 DEF HandlerEnds, HandlerReturns, HandlerThrows, Settle, SettleFails
  <2>4. CASE HandlerStep(w)
    BY <2>4 DEF HandlerStep, InHandler, queueVars, Read, FinalPub, FinalVariant, Door, AbortPub,
       AbortVariant, SetPublishing, SetVariantPublishing, ProviderAccepts, ProviderRefuses,
       PersistId, MarkPublished, PublishVariant, CollectLater, CatchPub, CatchVariant
  <2>5. CASE WorkerDies(w) \/ StatementFails(w) \/ ProviderReplyLost(w)
    BY <2>5 DEF WorkerDies, Crash, StatementFails, ProviderReplyLost
  <2> QED
    BY <1>1, <2>1, <2>2, <2>3, <2>4, <2>5 DEF WorkerStep, WorkerFault
<1>2. ASSUME NEW a \in Admins, AdminStep(a) PROVE status'[p] = status[p]
  <2>1. ASSUME NEW later \in BOOLEAN, EnqueuePublish(a, later) PROVE status'[p] = status[p]
    BY <2>1 DEF EnqueuePublish, Enqueue
  <2> QED
    BY <1>2, <2>1 DEF AdminStep, Quiet, queueVars, Generate, MarkGenerating, LlmAnswers, Submit,
       SubmitVariant, DecideRow, DecideVariant, InsertApproval, Decide, Schedule,
       ScheduleVariant, RereadVariant, RewindVariant, CreatePublication, Cancel, AdminFails
<1>3. TimeStep \/ ToggleDryRun \/ TogglePublic \/ UNCHANGED vars => status' = status
  BY DEF TimeStep, RunAfterPasses, LockGrowsStale, ToggleDryRun, TogglePublic, vars, queueVars
<1> QED
  BY <1>1, <1>2, <1>3 DEF Next

\* A request that is about to enqueue came there by inserting its publication.
Creates(a) ==
  /\ adm'[a].on \in Publications
  /\ pub[adm'[a].on] = "absent" /\ pub'[adm'[a].on] # "absent"
  /\ \A b \in Admins \ {a} : adm'[b] = adm[b]

LEMMA EnqueuesCreated ==
  ASSUME SocialTypes, [Next]_vars, NEW a \in Admins, adm'[a].at = "enqueue"
  PROVE  adm'[a] = adm[a] \/ Creates(a)
<1> USE DEF SocialTypes, RequestTypes
<1>1. ASSUME NEW b \in Admins, AdminStep(b)
      PROVE  adm'[a] = adm[a] \/ Creates(a)
  <2>1. ASSUME NEW p \in Publications, CreatePublication(b, p)
        PROVE  adm'[a] = adm[a] \/ Creates(a)
    <3>1. CASE ActiveExists(p)
      BY <2>1, <3>1 DEF CreatePublication, Ends, NoAdmin
    <3>2. CASE ~ActiveExists(p)
      BY <2>1, <3>2 DEF CreatePublication, Goes, PublicationTypes, Creates
    <3> QED
      BY <3>1, <3>2
  <2>2. ASSUME NEW p \in Publications, Cancel(b, p) PROVE adm'[a] = adm[a]
    BY <2>2 DEF Cancel, Goes
  <2> QED
    BY <1>1, <2>1, <2>2 DEF AdminStep, Goes, Ends, NoAdmin, Generate, MarkGenerating, LlmAnswers, Submit,
       SubmitVariant, DecideRow, DecideVariant, InsertApproval, Decide, Schedule,
       ScheduleVariant, RereadVariant, RewindVariant, EnqueuePublish, AdminFails
<1>2. ASSUME NEW w \in Workers, WorkerStep(w) \/ WorkerFault(w) PROVE adm' = adm
  BY <1>2 DEF WorkerStep, WorkerFault, HandlerStep, InHandler, KeepsSocial, RunnerStep,
     RunnerFault, HandlerBegins, HandlerEnds, WorkerDies, StatementFails, ProviderReplyLost,
     Read, FinalPub, FinalVariant, Door, AbortPub, AbortVariant, SetPublishing,
     SetVariantPublishing, ProviderAccepts, ProviderRefuses, PersistId, MarkPublished,
     PublishVariant, CollectLater, CatchPub, CatchVariant
<1>3. TimeStep \/ ToggleDryRun \/ TogglePublic \/ UNCHANGED vars => adm' = adm
  BY DEF TimeStep, ToggleDryRun, TogglePublic, vars, socialVars
<1> QED
  BY <1>1, <1>2, <1>3 DEF Next

LEMMA IndexStep ==
  ASSUME SocialTypes, OneActive, CreatedFirst, [Next]_vars
  PROVE  OneActive' /\ CreatedFirst'
<1>1. OneActive'
  <2> SUFFICES ASSUME NEW p \in Publications, NEW q \in Publications, p # q,
                      pub'[p] \in Active, pub'[q] \in Active
               PROVE  FALSE
    BY DEF OneActive
  <2>1. CASE pub[p] \in Active /\ pub[q] \in Active
    BY <2>1 DEF OneActive
  <2>2. CASE pub[p] \notin Active
    <3>1. pub'[q] = pub[q] /\ ~ActiveExists(p)
      BY <2>2, PubMoves
    <3> QED
      BY <3>1 DEF ActiveExists
  <2>3. CASE pub[q] \notin Active
    <3>1. pub'[p] = pub[p] /\ ~ActiveExists(q)
      BY <2>3, PubMoves
    <3> QED
      BY <3>1 DEF ActiveExists
  <2> QED
    BY <2>1, <2>2, <2>3
<1>2. ASSUME NEW p \in Publications, pub'[p] = "absent" PROVE status'[p] = "absent"
  <2>1. pub[p] = "absent" /\ status[p] = "absent"
    BY <1>2, PubMoves DEF CreatedFirst
  <2>2. ASSUME NEW a \in Admins, NEW later \in BOOLEAN, EnqueuePublish(a, later) PROVE adm[a].on # p
    BY <2>1, <2>2 DEF EnqueuePublish, CreatedFirst
  <2> QED
    BY <2>1, <2>2, OnlyEnqueueInserts
<1>3. ASSUME NEW a \in Admins, adm'[a].at = "enqueue" PROVE pub'[adm'[a].on] # "absent"
  <2>1. CASE adm'[a] = adm[a]
    <3>1. adm[a].on \in Publications
      BY <1>3, <2>1 DEF SocialTypes, RequestTypes, EnqueuesOwn
    <3> QED
      BY <1>3, <2>1, <3>1, PubMoves DEF CreatedFirst
  <2> QED
    BY <1>3, <2>1, EnqueuesCreated DEF Creates
<1> QED
  BY <1>1, <1>2, <1>3 DEF CreatedFirst

\* A row of the queue is never deleted.
LEMMA RowsStay ==
  ASSUME SocialTypes, [Next]_vars, NEW p \in Publications, status'[p] = "absent"
  PROVE  status[p] = "absent"
<1> USE DEF SocialTypes, QueueTypeOK, Publications
<1>1. ASSUME NEW w \in Workers, FaultStep(w) PROVE status[p] = "absent"
  BY <1>1 DEF FaultStep, Crash, SettleFails, WriteFails, ClaimReplyLost, MarkRunning
<1>2. ASSUME NEW w \in Workers, PassStep(w) PROVE status[p] = "absent"
  BY <1>2 DEF PassStep, PassStart, SelectDue, BeginWork, PassEnd, Reclaim, Claim, MarkRunning,
     HandlerStart
<1>3. ASSUME NEW w \in Workers, SettleStep(w) PROVE status[p] = "absent"
  <2>1. PICK to \in {"queued", "done", "dead"} : Settle(w, to)
    BY <1>3 DEF SettleStep, HandlerReturns, HandlerThrows, NoHandler
  <2> QED
    BY <2>1 DEF Settle
<1>4. TableStep => status[p] = "absent"
  BY DEF TableStep, Enqueue, RunAfterPasses, LockGrowsStale
<1>5. FaultElsewhere \/ UNCHANGED queueVars => status[p] = "absent"
  BY DEF FaultElsewhere, queueVars
<1> QED
  BY <1>1, <1>2, <1>3, <1>4, <1>5, OnQueue DEF QueueNext, RequestTypes

\* A handler works on a row that is running.
LEMMA JobRuns ==
  ASSUME SocialTypes, OwnInv, NEW w \in Workers, current[w] # NoRow
  PROVE  Job(w) \in Publications /\ status[Job(w)] = "running" /\ current[w] \in Held(w)
<1>1. current[w] \in Held(w)
  BY DEF Held
<1>2. current[w] \in Row
  BY DEF SocialTypes, QueueTypeOK
<1> QED
  BY <1>1, <1>2, RowIdentity DEF OwnInv, HeldRowsAreOwn, Job, Publications

\* Only its own handler marks a publication as being published.
LEMMA PublishingMoves ==
  ASSUME SocialTypes, [Next]_vars, NEW p \in Publications, pub[p] # "publishing",
         \A w \in Workers : SetPublishing(w) => Job(w) # p
  PROVE  pub'[p] # "publishing"
<1> USE DEF SocialTypes, PublicationTypes
<1>1. ASSUME NEW w \in Workers, HandlerStep(w) PROVE pub'[p] # "publishing"
  <2>1. CASE SetPublishing(w)
    BY <2>1 DEF SetPublishing
  <2>2. CASE FinalPub(w) \/ AbortPub(w) \/ MarkPublished(w) \/ CatchPub(w)
    BY <2>2 DEF FinalPub, AbortPub, MarkPublished, CatchPub
  <2>3. CASE \/ Read(w) \/ FinalVariant(w) \/ Door(w) \/ AbortVariant(w)
             \/ SetVariantPublishing(w) \/ ProviderAccepts(w) \/ ProviderRefuses(w)
             \/ PersistId(w) \/ PublishVariant(w) \/ CollectLater(w) \/ CatchVariant(w)
    BY <2>3 DEF Read, FinalVariant, Door, AbortVariant, SetVariantPublishing,
       ProviderAccepts, ProviderRefuses, PersistId, PublishVariant, CollectLater, CatchVariant
  <2> QED
    BY <1>1, <2>1, <2>2, <2>3 DEF HandlerStep
<1>2. ASSUME NEW w \in Workers, RunnerStep(w) \/ HandlerBegins(w) \/ HandlerEnds(w)
                                \/ WorkerFault(w)
      PROVE  pub'[p] # "publishing"
  BY <1>2 DEF RunnerStep, HandlerBegins, HandlerEnds, WorkerFault, RunnerFault,
     StatementFails, ProviderReplyLost, WorkerDies, KeepsSocial
<1>3. ASSUME NEW a \in Admins, AdminStep(a) PROVE pub'[p] # "publishing"
  <2>1. ASSUME NEW q \in Publications, CreatePublication(a, q) PROVE pub'[p] # "publishing"
    BY <2>1 DEF CreatePublication
  <2>2. ASSUME NEW q \in Publications, Cancel(a, q) PROVE pub'[p] # "publishing"
    BY <2>2 DEF Cancel
  <2> QED
    BY <1>3, <2>1, <2>2 DEF AdminStep, Quiet, Generate, MarkGenerating, LlmAnswers, Submit,
       SubmitVariant, DecideRow, DecideVariant, InsertApproval, Decide, Schedule,
       ScheduleVariant, RereadVariant, RewindVariant, EnqueuePublish, AdminFails
<1>4. TimeStep \/ ToggleDryRun \/ TogglePublic \/ UNCHANGED vars => pub' = pub
  BY DEF TimeStep, ToggleDryRun, TogglePublic, vars, socialVars
<1> QED
  BY <1>1, <1>2, <1>3, <1>4 DEF Next, WorkerStep

\* A publication has one request that enqueues it, and no handler before that.
LEMMA EnqueuesStep ==
  ASSUME SocialTypes, OwnInv, CreatedFirst, EnqueuesOnce, NotEnqueued, [Next]_vars
  PROVE  EnqueuesOnce' /\ NotEnqueued'
<1>1. ASSUME NEW a \in Admins, NEW b \in Admins, adm'[a].at = "enqueue", adm'[b].at = "enqueue",
             adm'[a].on = adm'[b].on, a # b
      PROVE  FALSE
  <2>1. (adm'[a] = adm[a] \/ Creates(a)) /\ (adm'[b] = adm[b] \/ Creates(b))
    BY <1>1, EnqueuesCreated
  <2> QED
    BY <1>1, <2>1 DEF Creates, EnqueuesOnce, CreatedFirst
<1>2. ASSUME NEW a \in Admins, adm'[a].at = "enqueue" PROVE status'[adm'[a].on] = "absent"
  <2>0. adm'[a] = adm[a] \/ Creates(a)
    BY <1>2, EnqueuesCreated
  <2>1. adm'[a].on \in Publications
    BY <1>2, <2>0 DEF Creates, SocialTypes, RequestTypes, EnqueuesOwn
  <2>2. status[adm'[a].on] = "absent"
    BY <1>2, <2>0 DEF Creates, CreatedFirst, EnqueuesOnce
  <2>3. ASSUME NEW b \in Admins, NEW later \in BOOLEAN, EnqueuePublish(b, later)
        PROVE  adm[b].on # adm'[a].on
    <3>1. adm[b].at = "enqueue" /\ adm'[b].at = "scheduled"
      BY <2>3 DEF EnqueuePublish, Goes, SocialTypes, RequestTypes
    <3> QED
      BY <1>2, <2>0, <3>1 DEF Creates, CreatedFirst, EnqueuesOnce
  <2> QED
    BY <2>1, <2>2, <2>3, OnlyEnqueueInserts
<1>3. ASSUME NEW p \in Publications, status'[p] = "absent" PROVE pub'[p] # "publishing"
  <2>1. status[p] = "absent" /\ pub[p] # "publishing"
    BY <1>3, RowsStay DEF NotEnqueued
  <2>2. ASSUME NEW w \in Workers, SetPublishing(w) PROVE Job(w) # p
    <3>1. current[w] # NoRow
      BY <2>2 DEF SetPublishing, At, SocialTypes, RunTypes
    <3> QED
      BY <2>1, <3>1, JobRuns
  <2> QED
    BY <2>1, <2>2, PublishingMoves
<1> QED
  BY <1>1, <1>2, <1>3 DEF EnqueuesOnce, NotEnqueued

\* A handler that has let go of its publication is not disturbed by a step that activates
\* no publication in its hands.
LEMMA LetGoKept ==
  ASSUME SocialTypes, NEW w \in Workers, LetGo(w), run' = run, current' = current,
         hurt \subseteq hurt',
         \A p \in Publications : pub'[p] \in Active => pub'[p] = pub[p]
  PROVE  LetGo(w)'
<1>1. run[w].at \in Leaving \cup Failing => Job(w) \in Publications
  BY JobInHand DEF Leaving, Failing
<1> QED
  BY <1>1 DEF LetGo, Job

\* Requests move no job but the one they enqueue, and a failed one leaves a publication
\* nobody has moved.
LEMMA UntroubledAdmin ==
  ASSUME SocialTypes, OwnInv, IndexInv, NEW a \in Admins, AdminStep(a)
  PROVE  Untroubled'
<1> USE DEF SocialTypes, RequestTypes, IndexInv
<1>0. UNCHANGED <<batch, current, run>> /\ hurt \subseteq hurt'
  BY DEF AdminStep, Quiet, queueVars, Generate, MarkGenerating, LlmAnswers, Submit,
     SubmitVariant, DecideRow, DecideVariant, InsertApproval, Decide, Schedule,
     ScheduleVariant, RereadVariant, RewindVariant, CreatePublication, Cancel, EnqueuePublish,
     Enqueue, AdminFails
<1>h. \A j : IsHeld(j)' <=> IsHeld(j)
  BY <1>0 DEF IsHeld, Held
<1>1. CASE \E later \in BOOLEAN : EnqueuePublish(a, later)
  <2>1. PICK later \in BOOLEAN : EnqueuePublish(a, later)
    BY <1>1
  <2>2. /\ status' = [status EXCEPT ![adm[a].on] = "queued"] /\ pub' = pub
        /\ \A b \in Admins \ {a} : adm'[b] = adm[b]
        /\ adm[a].at = "enqueue" /\ adm[a].on \in Publications
    BY <2>1 DEF EnqueuePublish, Enqueue, Goes, EnqueuesOwn
  <2>3. /\ status'[adm[a].on] = "queued"
        /\ \A p \in Publications \ {adm[a].on} : status'[p] = status[p]
    BY <2>2 DEF QueueTypeOK, Publications
  <2>4. RunningIsHeld'
    BY <1>0, <1>h, <2>2, <2>3 DEF Untroubled, RunningIsHeld
  <2>5. HandlersLetGo'
    BY <1>0, <2>2, LetGoKept DEF Untroubled, HandlersLetGo
  <2>6. ActiveHasJob'
    BY <1>0, <2>2, <2>3 DEF Untroubled, ActiveHasJob
  <2> QED
    BY <2>4, <2>5, <2>6 DEF Untroubled
<1>2. ASSUME NEW p \in Publications, CreatePublication(a, p), ~ActiveExists(p) PROVE Untroubled'
  <2>1. /\ UNCHANGED status /\ pub[p] = "absent" /\ pub' = [pub EXCEPT ![p] = "scheduled"]
        /\ adm[a].at = "create" /\ UNCHANGED hurt
        /\ adm' = [adm EXCEPT ![a] = [at |-> "enqueue", on |-> p, flag |-> FALSE]]
    BY <1>2 DEF CreatePublication, Quiet, queueVars, Goes
  <2>2. status[p] = "absent" /\ \A q \in Publications \ {p} : pub'[q] = pub[q]
    BY <2>1 DEF CreatedFirst, PublicationTypes
  <2>3. RunningIsHeld'
    BY <1>h, <2>1, <2>2 DEF Untroubled, RunningIsHeld
  <2>4. ASSUME NEW w \in Workers PROVE LetGo(w)'
    <3>1. CASE run[w].at \notin Leaving \cup Failing
      BY <1>0, <3>1 DEF LetGo
    <3>2. CASE run[w].at \in Leaving \cup Failing
      <4>1. current[w] # NoRow
        BY <3>2 DEF RunTypes, Leaving, Failing
      <4>2. Job(w) \in Publications /\ Job(w) # p
        BY <2>2, <4>1, JobRuns
      <4> QED
        BY <1>0, <2>1, <2>2, <4>2 DEF Untroubled, HandlersLetGo, LetGo, Job
    <3> QED
      BY <3>1, <3>2
  <2>5. ASSUME NEW q \in Publications, pub'[q] \in Active
        PROVE  \/ status'[q] \in {"queued", "running"}
               \/ \E b \in Admins : adm'[b].at = "enqueue" /\ adm'[b].on = q
               \/ /\ q \in hurt'
                  /\ \/ status'[q] = "absent" /\ pub'[q] = "scheduled"
                     \/ status'[q] = "dead"
    <3>1. CASE q = p
      <4>1. adm'[a].at = "enqueue" /\ adm'[a].on = p
        BY <2>1
      <4> QED
        BY <3>1, <4>1
    <3>2. CASE q # p
      <4>1. pub'[q] = pub[q]
        BY <2>2, <3>2
      <4>2. \A b \in Admins : adm[b].at = "enqueue" => adm'[b] = adm[b]
        BY <2>1
      <4> QED
        BY <2>1, <2>5, <4>1, <4>2 DEF Untroubled, ActiveHasJob
    <3> QED
      BY <3>1, <3>2
  <2> QED
    BY <2>3, <2>4, <2>5 DEF Untroubled, ActiveHasJob, HandlersLetGo
<1>3. CASE AdminFails(a) /\ adm[a].at = "enqueue"
  <2>1. /\ UNCHANGED <<status, pub>> /\ hurt' = hurt \cup {adm[a].on}
        /\ \A b \in Admins \ {a} : adm'[b] = adm[b]
    BY <1>3 DEF AdminFails, Ends
  <2>2. status[adm[a].on] = "absent" /\ pub[adm[a].on] # "publishing"
    BY <1>3 DEF EnqueuesOnce, NotEnqueued, EnqueuesOwn
  <2>3. RunningIsHeld' /\ HandlersLetGo'
    BY <1>0, <1>h, <2>1, LetGoKept DEF Untroubled, RunningIsHeld, HandlersLetGo
  <2>4. ASSUME NEW q \in Publications, pub'[q] \in Active
        PROVE  \/ status'[q] \in {"queued", "running"}
               \/ \E b \in Admins : adm'[b].at = "enqueue" /\ adm'[b].on = q
               \/ /\ q \in hurt'
                  /\ \/ status'[q] = "absent" /\ pub'[q] = "scheduled"
                     \/ status'[q] = "dead"
    <3>1. CASE q = adm[a].on
      BY <2>1, <2>2, <2>4, <3>1 DEF Active
    <3>2. CASE q # adm[a].on
      BY <2>1, <2>4, <3>2 DEF Untroubled, ActiveHasJob
    <3> QED
      BY <3>1, <3>2
  <2> QED
    BY <2>3, <2>4 DEF Untroubled, ActiveHasJob
<1>4. ASSUME ~ \E later \in BOOLEAN : EnqueuePublish(a, later),
             ~ \E p \in Publications : CreatePublication(a, p) /\ ~ActiveExists(p),
             ~ (AdminFails(a) /\ adm[a].at = "enqueue")
      PROVE  Untroubled'
  <2>1. status' = status
    BY <1>4 DEF AdminStep, Quiet, queueVars, Generate, MarkGenerating, LlmAnswers, Submit,
       SubmitVariant, DecideRow, DecideVariant, InsertApproval, Decide, Schedule,
       ScheduleVariant, RereadVariant, RewindVariant, CreatePublication, Cancel, AdminFails
  <2>2. \A q \in Publications : pub'[q] \in Active => pub'[q] = pub[q]
    BY <1>4 DEF AdminStep, Quiet, Generate, MarkGenerating, LlmAnswers, Submit, PublicationTypes,
       SubmitVariant, DecideRow, DecideVariant, InsertApproval, Decide, Schedule,
       ScheduleVariant, RereadVariant, RewindVariant, CreatePublication, Cancel, AdminFails, Active
  <2>3. \A b \in Admins : adm[b].at = "enqueue" => adm'[b] = adm[b]
    BY <1>4 DEF AdminStep, Goes, Ends, Generate, MarkGenerating, LlmAnswers, Submit,
       SubmitVariant, DecideRow, DecideVariant, InsertApproval, Decide, Schedule,
       ScheduleVariant, RereadVariant, RewindVariant, CreatePublication, Cancel, AdminFails
  <2>4. RunningIsHeld'
    BY <1>0, <1>h, <2>1, <2>2 DEF Untroubled, RunningIsHeld
  <2>5. HandlersLetGo'
    BY <1>0, <2>2, LetGoKept DEF Untroubled, HandlersLetGo
  <2>6. ActiveHasJob'
    BY <1>0, <2>1, <2>2, <2>3 DEF Untroubled, ActiveHasJob
  <2> QED
    BY <2>4, <2>5, <2>6 DEF Untroubled
<1> QED
  BY <1>1, <1>2, <1>3, <1>4

\* The runner takes queued jobs into its hands; a job a reclaim finds running is one whose
\* publication is out of the index, or one a fault has hit.
LEMMA UntroubledRunner ==
  ASSUME OneProcess, SocialTypes, OwnInv, Untroubled,
         NEW w \in Workers, RunnerStep(w) \/ HandlerBegins(w)
  PROVE  Untroubled'
<1> USE DEF SocialTypes, QueueTypeOK, Publications
<1>0. \A v \in Workers : v = w
  BY DEF OneProcess
<1>1. UNCHANGED <<pub, adm, hurt>>
  BY DEF RunnerStep, HandlerBegins, KeepsSocial
<1>2. ASSUME NEW r \in picked[w], Reclaim(w, r), status[r.job] = "running"
      PROVE  /\ r.job \in Publications /\ (pub[r.job] \notin Active \/ r.job \in hurt)
             /\ \E to \in {"queued", "dead"} : status' = [status EXCEPT ![r.job] = to]
             /\ UNCHANGED <<batch, current>>
  <2>1. Held(w) = {}
    BY <1>2 DEF Reclaim, OwnInv, PassPhases, Held
  <2>2. r.job \in Jobs
    BY RowIdentity
  <2>3. ~IsHeld(r.job)
    BY <1>0, <2>1 DEF IsHeld
  <2> QED
    BY <1>2, <2>2, <2>3 DEF Reclaim, Untroubled, RunningIsHeld
<1>3. RunningIsHeld'
  <2>1. ASSUME NEW r \in picked[w], Claim(w, r), status[r.job] = "queued" PROVE RunningIsHeld'
    <3>1. /\ status' = [status EXCEPT ![r.job] = "running"] /\ current' = current
          /\ batch' = [batch EXCEPT ![w] = @ \cup {NextTry(r)}]
      BY <2>1 DEF Claim, MarkRunning
    <3>2. NextTry(r).job = r.job /\ NextTry(r) \in Held(w)' /\ Held(w) \subseteq Held(w)'
      BY <3>1 DEF NextTry, Held
    <3> QED
      BY <1>0, <1>1, <3>1, <3>2 DEF Untroubled, RunningIsHeld, IsHeld
  <2>2. ASSUME status' = status, \A r \in Held(w) : r \in Held(w)' PROVE RunningIsHeld'
    BY <1>0, <1>1, <2>2 DEF Untroubled, RunningIsHeld, IsHeld
  <2>3. CASE HandlerBegins(w)
    <3>1. PICK r \in batch[w] : HandlerStart(w, r)
      BY <2>3 DEF HandlerBegins
    <3>2. r # NoRow
      BY <3>1, RowIdentity
    <3> QED
      BY <2>2, <3>1, <3>2 DEF HandlerStart, Held
  <2>4. CASE PassStart(w) \/ SelectDue(w) \/ BeginWork(w) \/ PassEnd(w)
    BY <2>2, <2>4 DEF PassStart, SelectDue, BeginWork, PassEnd, Held
  <2>5. ASSUME NEW r \in picked[w], Reclaim(w, r) PROVE RunningIsHeld'
    <3>1. CASE status[r.job] = "running"
      <4>1. \A j : IsHeld(j)' <=> IsHeld(j)
        BY <1>2, <2>5, <3>1 DEF IsHeld, Held
      <4>2. \A p \in Publications : status'[p] = "running" => status[p] = "running"
        BY <1>2, <2>5, <3>1
      <4> QED
        BY <1>1, <4>1, <4>2 DEF Untroubled, RunningIsHeld
    <3>2. CASE status[r.job] # "running"
      BY <2>2, <2>5, <3>2 DEF Reclaim, Held
    <3> QED
      BY <3>1, <3>2
  <2>6. ASSUME NEW r \in picked[w], Claim(w, r), status[r.job] # "queued" PROVE RunningIsHeld'
    BY <2>2, <2>6 DEF Claim, Held
  <2> QED
    BY <2>1, <2>3, <2>4, <2>5, <2>6 DEF RunnerStep
<1>4. HandlersLetGo'
  <2>1. CASE RunnerStep(w)
    BY <1>1, <2>1, RowKept, LetGoKept DEF Untroubled, HandlersLetGo
  <2>2. CASE HandlerBegins(w)
    BY <1>0, <2>2 DEF HandlerBegins, Step, HandlersLetGo, LetGo, Leaving, Failing, RunTypes
  <2> QED
    BY <2>1, <2>2
<1>5. ActiveHasJob'
  <2>1. ASSUME NEW p \in Publications, status[p] \in {"queued", "running"}
        PROVE  \/ status'[p] \in {"queued", "running"}
               \/ status'[p] = "dead" /\ (pub[p] \notin Active \/ p \in hurt)
    BY <1>2, <2>1 DEF RunnerStep, HandlerBegins, HandlerStart, PassStart, SelectDue, BeginWork,
       PassEnd, Reclaim, Claim, MarkRunning
  <2>2. ASSUME NEW p \in Publications, status[p] \in {"absent", "dead"} PROVE status'[p] = status[p]
    BY <2>2 DEF RunnerStep, HandlerBegins, HandlerStart, PassStart, SelectDue, BeginWork,
       PassEnd, Reclaim, Claim, MarkRunning
  <2> QED
    BY <1>1, <2>1, <2>2 DEF Untroubled, ActiveHasJob
<1> QED
  BY <1>3, <1>4, <1>5 DEF Untroubled

\* A statement of the handler moves its publication while the job runs, and takes it
\* out of the index before the handler is done with it.
LEMMA UntroubledHandler ==
  ASSUME OneProcess, SocialTypes, OwnInv, OneActive, Untroubled, NEW w \in Workers, HandlerStep(w)
  PROVE  Untroubled'
<1> USE DEF SocialTypes, QueueTypeOK, PublicationTypes, At, Step, RunTypes
<1>0. \A v \in Workers : v = w
  BY DEF OneProcess
<1>1. UNCHANGED queueVars /\ adm' = adm /\ hurt' = hurt
  BY DEF HandlerStep, InHandler, Read, FinalPub, FinalVariant, Door, AbortPub,
     AbortVariant, SetPublishing, SetVariantPublishing, ProviderAccepts, ProviderRefuses,
     PersistId, MarkPublished, PublishVariant, CollectLater, CatchPub, CatchVariant
<1>2. UNCHANGED <<status, batch, current>> /\ Job(w)' = Job(w)
  BY <1>1 DEF queueVars, Job
<1>3. current[w] # NoRow
  BY DEF HandlerStep, Read, FinalPub, FinalVariant, Door, AbortPub,
     AbortVariant, SetPublishing, SetVariantPublishing, ProviderAccepts, ProviderRefuses,
     PersistId, MarkPublished, PublishVariant, CollectLater, CatchPub, CatchVariant
<1>4. Job(w) \in Publications /\ status[Job(w)] = "running" /\ IsHeld(Job(w))
  BY <1>3, JobRuns DEF IsHeld, Job
<1>m. \A p \in Publications : pub'[p] \in Active /\ p # Job(w) => pub'[p] = pub[p]
  BY <1>4 DEF HandlerStep, Read, FinalPub, FinalVariant, Door, AbortPub,
     AbortVariant, SetPublishing, SetVariantPublishing, ProviderAccepts, ProviderRefuses,
     PersistId, MarkPublished, PublishVariant, CollectLater, CatchPub, CatchVariant
<1>5. RunningIsHeld'
  <2>1. \A j : IsHeld(j)' <=> IsHeld(j)
    BY <1>2 DEF IsHeld, Held
  <2> QED
    BY <1>1, <1>2, <1>4, <1>m, <2>1 DEF Untroubled, RunningIsHeld
<1>6. HandlersLetGo'
  <2> SUFFICES LetGo(w)'
    BY <1>0 DEF HandlersLetGo
  <2> USE <1>1, <1>2 DEF LetGo, Leaving, Failing
  <2>1. CASE Read(w)
    BY <1>4, <2>1 DEF Read, Active, NoRun
  <2>2. CASE FinalPub(w) \/ AbortPub(w) \/ MarkPublished(w) \/ CatchPub(w)
    BY <1>4, <2>2 DEF FinalPub, AbortPub, MarkPublished, CatchPub, Active
  <2>3. CASE FinalVariant(w) \/ AbortVariant(w) \/ PublishVariant(w) \/ CollectLater(w) \/ CatchVariant(w)
    BY <2>3 DEF FinalVariant, AbortVariant, PublishVariant, CollectLater, CatchVariant, Run,
       Untroubled, HandlersLetGo
  <2>4. CASE Door(w)
    BY <2>4 DEF Door
  <2>5. CASE SetPublishing(w)
    <3>1. CASE ActiveExists(Job(w))
      <4>1. PICK q \in Publications \ {Job(w)} : pub[q] \in Active
        BY <3>1 DEF ActiveExists
      <4>2. pub[Job(w)] \notin Active /\ pub' = pub
        BY <1>4, <2>5, <3>1, <4>1 DEF SetPublishing, OneActive
      <4> QED
        BY <4>2
    <3>2. CASE ~ActiveExists(Job(w))
      <4>1. run'[w].at = "setVariant"
        BY <2>5, <3>2 DEF SetPublishing, Run
      <4> QED
        BY <4>1
    <3> QED
      BY <3>1, <3>2
  <2>6. CASE SetVariantPublishing(w) \/ ProviderRefuses(w) \/ PersistId(w)
    <3>1. run'[w].at \in {"publish", "call", "catchPub"}
      BY <2>6 DEF SetVariantPublishing, ProviderRefuses, PersistId, Run
    <3> QED
      BY <3>1
  <2>7. CASE ProviderAccepts(w)
    BY <2>7 DEF ProviderAccepts, Run
  <2> QED
    BY <2>1, <2>2, <2>3, <2>4, <2>5, <2>6, <2>7 DEF HandlerStep
<1>7. ActiveHasJob'
  BY <1>1, <1>2, <1>4, <1>m DEF Untroubled, ActiveHasJob
<1> QED
  BY <1>5, <1>6, <1>7 DEF Untroubled

\* A handler ends on a publication that has left the index or that a fault has hit.
LEMMA UntroubledEnd ==
  ASSUME OneProcess, SocialTypes, OwnInv, Untroubled, NEW w \in Workers, HandlerEnds(w)
  PROVE  Untroubled'
<1> USE DEF SocialTypes, QueueTypeOK
<1>0. \A v \in Workers : v = w
  BY DEF OneProcess
<1>2. run[w].at \in {"returned", "thrown"} /\ current[w] # NoRow
  BY DEF HandlerEnds, HandlerReturns, HandlerThrows, SettleFails, Handling, At
<1>3. /\ Job(w) \in Publications /\ status[Job(w)] = "running"
      /\ pub[Job(w)] \notin Active \/ (run[w].at = "thrown" /\ Job(w) \in hurt)
  BY <1>2, JobRuns DEF Untroubled, HandlersLetGo, LetGo, Leaving, Failing
<1>4. /\ batch' = batch /\ current' = [current EXCEPT ![w] = NoRow]
      /\ \/ \E to \in {"queued", "dead"} : status' = [status EXCEPT ![Job(w)] = to]
         \/ run[w].at = "returned" /\ status' = [status EXCEPT ![Job(w)] = "done"]
         \/ status' = status
  BY <1>3 DEF HandlerEnds, HandlerReturns, HandlerThrows, SettleFails, Settle, Job, At
<1>5. run' = [run EXCEPT ![w] = NoRun] /\ UNCHANGED <<pub, adm, hurt>>
  BY DEF HandlerEnds, KeepsSocial
<1>6. RunningIsHeld'
  <2> SUFFICES ASSUME NEW j \in Publications, status'[j] = "running", pub[j] \in Active, j \notin hurt
               PROVE  IsHeld(j)'
    BY <1>5 DEF RunningIsHeld
  <2>1. j # Job(w) /\ status[j] = "running"
    BY <1>3, <1>4 DEF Publications
  <2>2. PICK r \in Held(w) : r.job = j
    BY <1>0, <2>1 DEF Untroubled, RunningIsHeld, IsHeld
  <2>3. r # current[w]
    BY <2>1, <2>2 DEF Job
  <2>4. r \in Held(w)'
    BY <1>4, <2>2, <2>3 DEF Held
  <2> QED
    BY <2>2, <2>4 DEF IsHeld
<1>7. HandlersLetGo'
  BY <1>0, <1>5 DEF HandlersLetGo, LetGo, RunTypes, NoRun, Leaving, Failing
<1>8. ActiveHasJob'
  BY <1>3, <1>4, <1>5 DEF Untroubled, ActiveHasJob, Publications
<1> QED
  BY <1>6, <1>7, <1>8 DEF Untroubled

\* A fault that leaves a job running in nobody's hands, or a handler on its way out, has
\* hit the publication.
LEMMA UntroubledFault ==
  ASSUME OneProcess, SocialTypes, OwnInv, Untroubled, NEW w \in Workers, WorkerFault(w)
  PROVE  Untroubled'
<1> USE DEF SocialTypes, QueueTypeOK, Publications
<1>0. \A v \in Workers : v = w
  BY DEF OneProcess
<1>1. UNCHANGED <<pub, adm>> /\ hurt \subseteq hurt'
  BY DEF WorkerFault, RunnerFault, StatementFails, ProviderReplyLost, WorkerDies, KeepsSocial
<1>2. CASE StatementFails(w) \/ ProviderReplyLost(w)
  <2>1. UNCHANGED <<status, batch, current>> /\ Job(w)' = Job(w)
    BY <1>2 DEF StatementFails, ProviderReplyLost, Job
  <2>2. \A j : IsHeld(j)' <=> IsHeld(j)
    BY <2>1 DEF IsHeld, Held
  <2>3. RunningIsHeld' /\ ActiveHasJob'
    BY <1>1, <2>1, <2>2 DEF Untroubled, RunningIsHeld, ActiveHasJob
  <2>4. LetGo(w)'
    <3>1. CASE ProviderReplyLost(w)
      <4>1. run'[w].at = "catchPub"
        BY <3>1 DEF ProviderReplyLost, Step, RunTypes, Run
      <4> QED
        BY <4>1 DEF LetGo, Leaving, Failing
    <3>2. CASE StatementFails(w)
      <4>1. run'[w].at = AfterFailure(run[w].at) /\ Job(w) \in hurt'
        BY <3>2 DEF StatementFails, RunTypes, Run
      <4>2. run'[w].at \in Leaving => run[w].at = "analytics"
        BY <4>1 DEF AfterFailure, Leaving
      <4> QED
        BY <1>1, <2>1, <4>1, <4>2 DEF LetGo, Leaving, Untroubled, HandlersLetGo
    <3> QED
      BY <1>2, <3>1, <3>2
  <2> QED
    BY <1>0, <2>3, <2>4 DEF Untroubled, HandlersLetGo
<1>3. CASE WorkerDies(w)
  <2>1. status' = status /\ run' = [run EXCEPT ![w] = NoRun]
    BY <1>3 DEF WorkerDies, Crash
  <2>2. \A p \in Publications : IsHeld(p) => p \in hurt'
    BY <1>0, <1>3 DEF WorkerDies, IsHeld
  <2>3. RunningIsHeld' /\ ActiveHasJob'
    BY <1>1, <2>1, <2>2 DEF Untroubled, RunningIsHeld, ActiveHasJob
  <2>4. HandlersLetGo'
    BY <1>0, <2>1 DEF HandlersLetGo, LetGo, RunTypes, NoRun, Leaving, Failing
  <2> QED
    BY <2>3, <2>4 DEF Untroubled
<1>4. CASE RunnerFault(w)
  <2>1. current' = current /\ run' = run
    BY <1>4, RowKept
  <2>2. HandlersLetGo'
    BY <1>1, <2>1, LetGoKept DEF Untroubled, HandlersLetGo
  <2>3. batch' = batch
    BY <1>4 DEF RunnerFault, WriteFails, ClaimReplyLost
  <2>4. \A j : IsHeld(j)' <=> IsHeld(j)
    BY <2>1, <2>3 DEF IsHeld, Held
  <2>5. PICK r \in picked[w] : WriteFails(w, r) \/ (ClaimReplyLost(w, r) /\ hurt' = hurt \cup {r.job})
    BY <1>4 DEF RunnerFault
  <2>6. \/ status' = status
        \/ status' = [status EXCEPT ![r.job] = "running"] /\ r.job \in hurt' /\ r.job \in Jobs
    BY <2>5, RowIdentity DEF WriteFails, ClaimReplyLost, MarkRunning
  <2>7. RunningIsHeld' /\ ActiveHasJob'
    BY <1>1, <2>4, <2>6 DEF Untroubled, RunningIsHeld, ActiveHasJob
  <2> QED
    BY <2>2, <2>7 DEF Untroubled
<1> QED
  BY <1>2, <1>3, <1>4 DEF WorkerFault

\* Time, and what people edit elsewhere, move no job.
LEMMA UntroubledElse ==
  ASSUME SocialTypes, Untroubled, TimeStep \/ ToggleDryRun \/ TogglePublic \/ UNCHANGED vars
  PROVE  Untroubled'
<1>1. UNCHANGED <<status, batch, current, pub, adm, run, hurt>>
  BY DEF TimeStep, RunAfterPasses, LockGrowsStale, ToggleDryRun, TogglePublic, vars, queueVars,
     socialVars
<1>2. RunningIsHeld'
  BY <1>1 DEF Untroubled, RunningIsHeld, IsHeld, Held
<1>3. HandlersLetGo'
  BY <1>1, LetGoKept DEF Untroubled, HandlersLetGo
<1>4. ActiveHasJob'
  BY <1>1 DEF Untroubled, ActiveHasJob
<1> QED
  BY <1>2, <1>3, <1>4 DEF Untroubled

LEMMA IndexInvStep ==
  ASSUME OneProcess, SocialTypes, OwnInv, IndexInv, [Next]_vars
  PROVE  IndexInv'
<1>1. OneActive' /\ CreatedFirst'
  BY IndexStep DEF IndexInv
<1>2. EnqueuesOnce' /\ NotEnqueued'
  BY EnqueuesStep DEF IndexInv
<1>3. Untroubled'
  <2>1. ASSUME NEW w \in Workers, WorkerStep(w) \/ WorkerFault(w) PROVE Untroubled'
    BY <2>1, UntroubledRunner, UntroubledHandler, UntroubledEnd, UntroubledFault
    DEF WorkerStep, IndexInv
  <2>2. ASSUME NEW a \in Admins, AdminStep(a) PROVE Untroubled'
    BY <2>2, UntroubledAdmin
  <2> QED
    BY <2>1, <2>2, UntroubledElse DEF Next, IndexInv
<1> QED
  BY <1>1, <1>2, <1>3 DEF IndexInv

\* With one process, a publication that occupies the active index has a job that will move
\* it on, or the request that is about to enqueue it, unless a fault has hit it: its
\* enqueue failed while it was scheduled, or attempts of its job were cut short and it is
\* dead.  Retries, the brake, cancellation, rivals for the index, and faults that hit other
\* publications leave none behind.
THEOREM ActiveIsServed == ASSUME OneProcess PROVE Spec => []ActiveHasJob
<1>1. Init => OwnInv /\ IndexInv
  BY OwnInit DEF Init, QueueInit, NoRun, IndexInv, OneActive, CreatedFirst, EnqueuesOnce,
     NotEnqueued, Untroubled, RunningIsHeld, HandlersLetGo, LetGo, ActiveHasJob, Active,
     Leaving, Failing, NoAdmin, Publications
<1>2. SocialTypes /\ OwnInv /\ IndexInv /\ [Next]_vars => OwnInv' /\ IndexInv'
  BY OwnInside, IndexInvStep
<1>3. IndexInv => ActiveHasJob
  BY DEF IndexInv, Untroubled
<1> QED
  BY <1>1, <1>2, <1>3, SocialTypesAlways, PTL DEF Spec
=============================================================================
