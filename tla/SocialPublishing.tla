--------------------------- MODULE SocialPublishing ---------------------------
(***************************************************************************)
(* Publishing of one content variant: lib/social/publish.ts,               *)
(* publications.ts, generate.ts, approvals.ts and store.ts, on top of the  *)
(* job queue.                                                              *)
(*                                                                         *)
(* An administrator generates a draft, submits it, decides, schedules and  *)
(* cancels; a worker of the queue runs the publish job of a publication.   *)
(* Each of these is a sequence of statements that are transactions of      *)
(* their own, most of them unconditional UPDATEs, and what one of them     *)
(* read is used after others have written.                                 *)
(*                                                                         *)
(* A publication is identified with its publish job (dedup key             *)
(* publish:<id>), so Jobs of the queue are publication ids.                *)
(***************************************************************************)
EXTENDS JobQueue

CONSTANTS
  Admins,       \* concurrent requests of administrators
  Approvals,    \* approval rows that may be inserted
  MaxDrafts,    \* bound on generated bodies; a body is its number, 0 the empty one
  Clean,        \* bodies the governance gate lets through
  AutoApprove,  \* autonomy is fully_autonomous (else approval_required)
  HonoursKey    \* the provider honours the Idempotency-Key header

ASSUME PublishingAssumption ==
  /\ MaxDrafts \in Nat
  /\ Clean \subseteq 1 .. MaxDrafts
  /\ AutoApprove \in BOOLEAN /\ HonoursKey \in BOOLEAN
  /\ Nobody \notin Approvals

VARIABLES
  variant,    \* content_variants.status
  body,       \* content_variants.body
  drafts,     \* bodies generated so far
  approval,   \* content_approvals.status, "none" when there is no row
  pub,        \* social_publications.status, "absent" when there is no row
  dry,        \* publications with dry_run set
  extId,      \* publications with an external_id
  analytics,  \* publications whose collect_analytics job is enqueued
  dryRun,     \* the live setting publish_dry_run
  public,     \* tier, evidence membership and brand let the variant out
  run,        \* what each worker is doing inside runPublication
  adm,        \* what each administrator's request is doing
  posts,      \* external: live posts the provider created for a publication
  posted,     \* history: bodies that went live
  approved,   \* history: bodies that were approved
  withdrawn,  \* history: publications cancelled by an administrator
  lost,       \* history: publications with a live post whose id was lost
  hurt        \* history: publications whose enqueue failed, or an attempt of whose job
              \* was cut short

variantVars == <<variant, body, drafts>>
pubVars == <<pub, dry, extId, analytics>>
settingVars == <<dryRun, public>>
externalVars == <<posts, posted>>
historyVars == <<approved, withdrawn, lost, hurt>>
socialVars == <<variantVars, approval, pubVars, settingVars, run, adm, externalVars,
                historyVars>>
vars == <<queueVars, socialVars>>

Publications == Jobs
Bodies == 0 .. MaxDrafts
VariantStatuses == {"planned", "generating", "generated", "awaiting_approval", "approved",
                    "scheduled", "publishing", "published", "rejected", "failed"}
PubStatuses == {"absent", "scheduled", "publishing", "published", "failed", "cancelled"}
PUBLISHABLE == {"scheduled", "publishing", "failed"}
REGENERATABLE == {"planned", "failed", "rejected"}
Active == {"scheduled", "publishing"}   \* social_publications_active_variant_idx

RunSteps == {"none", "read", "finalPub", "finalVariant", "door", "abortPub", "abortVariant",
             "setPub", "setVariant", "call", "persist", "publish", "publishVariant",
             "analytics", "catchPub", "catchVariant", "returned", "thrown"}
\* Locals of runPublication: the variant it read was mid-publish, the text it read,
\* an id of the provider at hand, where an abort rewinds the variant to.
Run == [at : RunSteps, mid : BOOLEAN, text : Bodies, accepted : BOOLEAN,
        rewind : {"approved", "rejected"}]
NoRun == [at |-> "none", mid |-> FALSE, text |-> 0, accepted |-> FALSE,
          rewind |-> "rejected"]

AdmSteps == {"idle", "create", "enqueue", "scheduled", "reread", "rewind", "mark", "llm",
             "insert", "submitted", "decide", "decided"}
Admin == [at : AdmSteps, on : Publications \cup Approvals \cup {Nobody}, flag : BOOLEAN]
NoAdmin == [at |-> "idle", on |-> Nobody, flag |-> FALSE]

\* The columns, the locals of the handlers and of the requests keep their types.
SocialTypeOK ==
  /\ QueueTypeOK
  /\ variant \in VariantStatuses /\ body \in Bodies /\ drafts \in Bodies
  /\ approval \in [Approvals -> {"none", "pending", "approved", "denied"}]
  /\ pub \in [Publications -> PubStatuses]
  /\ dry \in SUBSET Publications /\ extId \in SUBSET Publications
  /\ analytics \in SUBSET Publications
  /\ dryRun \in BOOLEAN /\ public \in BOOLEAN
  /\ run \in [Workers -> Run] /\ adm \in [Admins -> Admin]
  /\ posts \in [Publications -> Nat]
  /\ posted \in SUBSET Bodies /\ approved \in SUBSET Bodies
  /\ withdrawn \in SUBSET Publications /\ lost \in SUBSET Publications
  /\ hurt \in SUBSET Publications

Init ==
  /\ QueueInit
  /\ variant = "planned" /\ body = 0 /\ drafts = 0
  /\ approval = [i \in Approvals |-> "none"]
  /\ pub = [p \in Publications |-> "absent"]
  /\ dry = {} /\ extId = {} /\ analytics = {}
  /\ dryRun \in BOOLEAN /\ public = TRUE
  /\ run = [w \in Workers |-> NoRun]
  /\ adm = [a \in Admins |-> NoAdmin]
  /\ posts = [p \in Publications |-> 0]
  /\ posted = {} /\ approved = {} /\ withdrawn = {} /\ lost = {} /\ hurt = {}

-----------------------------------------------------------------------------
(* Requests of administrators. *)

Goes(a, step, on, flag) == adm' = [adm EXCEPT ![a] = [at |-> step, on |-> on, flag |-> flag]]
Ends(a) == adm' = [adm EXCEPT ![a] = NoAdmin]
Quiet == UNCHANGED <<queueVars, settingVars, run, externalVars>>

\* generateVariantText reads the variant and refuses one that has advanced ...
Generate(a) ==
  /\ adm[a].at = "idle"
  /\ variant \in REGENERATABLE /\ drafts < MaxDrafts
  /\ Goes(a, "mark", Nobody, FALSE)
  /\ Quiet /\ UNCHANGED <<variantVars, approval, pubVars, historyVars>>

\* ... then marks whatever the variant is by now as generating ...
MarkGenerating(a) ==
  /\ adm[a].at = "mark"
  /\ variant' = "generating"
  /\ Goes(a, "llm", Nobody, FALSE)
  /\ Quiet /\ UNCHANGED <<body, drafts, approval, pubVars, historyVars>>

\* ... and stores the model's answer and the verdict of the gate, or the failure.
LlmAnswers(a) ==
  /\ adm[a].at = "llm"
  /\ \/ /\ drafts < MaxDrafts
        /\ drafts' = drafts + 1 /\ body' = drafts + 1
        /\ variant' = IF body' \in Clean THEN "generated" ELSE "rejected"
     \/ variant' = "failed" /\ UNCHANGED <<drafts, body>>
  /\ Ends(a)
  /\ Quiet /\ UNCHANGED <<approval, pubVars, historyVars>>

\* submitForApproval: an open request is returned as it is; else the variant must be
\* generated.
Submit(a) ==
  /\ adm[a].at = "idle"
  /\ \A i \in Approvals : approval[i] # "pending"
  /\ variant = "generated"
  /\ Goes(a, "insert", Nobody, FALSE)
  /\ Quiet /\ UNCHANGED <<variantVars, approval, pubVars, historyVars>>

InsertApproval(a, i) ==
  /\ adm[a].at = "insert" /\ approval[i] = "none"
  /\ approval' = [approval EXCEPT ![i] = IF AutoApprove THEN "approved" ELSE "pending"]
  /\ approved' = IF AutoApprove THEN approved \cup {body} ELSE approved
  /\ Goes(a, "submitted", Nobody, FALSE)
  /\ Quiet /\ UNCHANGED <<variantVars, pubVars, withdrawn, lost, hurt>>

\* Mutant: the outcome of the routing is written where its status belongs.
SubmitVariantWritesOutcome(a) ==
  /\ adm[a].at = "submitted"
  /\ variant' = IF AutoApprove THEN "auto_approved" ELSE "pending"
  /\ Ends(a)
  /\ Quiet /\ UNCHANGED <<body, drafts, approval, pubVars, historyVars>>

\* The variant follows its approval row.
SubmitVariant(a) ==
  /\ adm[a].at = "submitted"
  /\ variant' = IF AutoApprove THEN "approved" ELSE "awaiting_approval"
  /\ Ends(a)
  /\ Quiet /\ UNCHANGED <<body, drafts, approval, pubVars, historyVars>>

\* decideApproval: read pending, write the row by id, write the variant.
Decide(a, i, yes) ==
  /\ adm[a].at = "idle" /\ approval[i] = "pending"
  /\ Goes(a, "decide", i, yes)
  /\ Quiet /\ UNCHANGED <<variantVars, approval, pubVars, historyVars>>

DecideRow(a) ==
  LET r == adm[a] IN
  /\ r.at = "decide"
  /\ approval' = [approval EXCEPT ![r.on] = IF r.flag THEN "approved" ELSE "denied"]
  /\ approved' = IF r.flag THEN approved \cup {body} ELSE approved
  /\ Goes(a, "decided", r.on, r.flag)
  /\ Quiet /\ UNCHANGED <<variantVars, pubVars, withdrawn, lost, hurt>>

DecideVariant(a) ==
  /\ adm[a].at = "decided"
  /\ variant' = IF adm[a].flag THEN "approved" ELSE "rejected"
  /\ Ends(a)
  /\ Quiet /\ UNCHANGED <<body, drafts, approval, pubVars, historyVars>>

\* scheduleVariant reads the variant, the door and the live dry-run setting ...
Schedule(a) ==
  /\ adm[a].at = "idle"
  /\ variant = "approved" /\ public /\ body \in Clean
  /\ Goes(a, "create", Nobody, dryRun)
  /\ Quiet /\ UNCHANGED <<variantVars, approval, pubVars, historyVars>>

ActiveExists(p) == \E q \in Publications \ {p} : pub[q] \in Active

\* ... inserts the publication unless the partial unique index refuses it ...
CreatePublication(a, p) ==
  /\ adm[a].at = "create" /\ pub[p] = "absent"
  /\ IF ActiveExists(p)
     THEN Ends(a) /\ UNCHANGED <<pub, dry>>
     ELSE /\ pub' = [pub EXCEPT ![p] = "scheduled"]
          /\ dry' = IF adm[a].flag THEN dry \cup {p} ELSE dry
          /\ Goes(a, "enqueue", p, FALSE)
  /\ Quiet /\ UNCHANGED <<variantVars, approval, extId, analytics, historyVars>>

\* ... enqueues its publish job, now or at the requested time ...
EnqueuePublish(a, later) ==
  /\ adm[a].at = "enqueue"
  /\ Enqueue(adm[a].on, later)
  /\ Goes(a, "scheduled", adm[a].on, FALSE)
  /\ UNCHANGED <<variantVars, approval, pubVars, settingVars, run, externalVars, historyVars>>

\* ... and marks the variant.
ScheduleVariant(a) ==
  /\ adm[a].at = "scheduled"
  /\ variant' = "scheduled"
  /\ Ends(a)
  /\ Quiet /\ UNCHANGED <<body, drafts, approval, pubVars, historyVars>>

\* cancelPublication: one conditional UPDATE; anything else answers cancelled: false.
Cancel(a, p) ==
  /\ adm[a].at = "idle" /\ pub[p] \in {"scheduled", "failed"}
  /\ pub' = [pub EXCEPT ![p] = "cancelled"]
  /\ withdrawn' = withdrawn \cup {p}
  /\ Goes(a, "reread", p, FALSE)
  /\ Quiet /\ UNCHANGED <<variantVars, approval, dry, extId, analytics, approved, lost, hurt>>

\* cancelScheduledPublication then reads the variant and rewinds it if mid-publish.
RereadVariant(a) ==
  /\ adm[a].at = "reread"
  /\ IF variant \in PUBLISHABLE THEN Goes(a, "rewind", adm[a].on, FALSE) ELSE Ends(a)
  /\ Quiet /\ UNCHANGED <<variantVars, approval, pubVars, historyVars>>

RewindVariant(a) ==
  /\ adm[a].at = "rewind"
  /\ variant' = "approved"
  /\ Ends(a)
  /\ Quiet /\ UNCHANGED <<body, drafts, approval, pubVars, historyVars>>

\* The statement a request is at fails, or the server dies: the rest is not done.
AdminFails(a) ==
  /\ adm[a].at # "idle" /\ Fault
  /\ hurt' = IF adm[a].at = "enqueue" THEN hurt \cup {adm[a].on} ELSE hurt
  /\ Ends(a)
  /\ UNCHANGED <<rowVars, workVars, claimant, starts, variantVars, approval, pubVars,
                 settingVars, run, externalVars, approved, withdrawn, lost>>

\* setPublishDryRun; evidence leaves or enters the external-shared project, the tier
\* is narrowed, the brand's governance is edited.
ToggleDryRun ==
  /\ dryRun' = ~dryRun
  /\ UNCHANGED <<queueVars, variantVars, approval, pubVars, public, run, adm, externalVars,
                 historyVars>>
TogglePublic ==
  /\ public' = ~public
  /\ UNCHANGED <<queueVars, variantVars, approval, pubVars, dryRun, run, adm, externalVars,
                 historyVars>>

-----------------------------------------------------------------------------
(* runPublication, the publish handler. *)

Step(w, to) == run' = [run EXCEPT ![w].at = to]
At(w, step) == run[w].at = step
Job(w) == current[w].job
InHandler == UNCHANGED <<queueVars, settingVars, adm, approval, body, drafts, approved,
                         withdrawn, hurt>>

\* Mutant: a failed publication counts as terminal.
ReadGivesUp(w) ==
  LET p == Job(w) IN
  /\ At(w, "read")
  /\ run' = [run EXCEPT ![w] =
       [NoRun EXCEPT !.mid = variant \in PUBLISHABLE, !.text = body,
                     !.at = IF pub[p] \in {"published", "cancelled", "failed"} THEN "returned"
                            ELSE IF p \in extId \ dry THEN "finalPub" ELSE "door"]]
  /\ InHandler /\ UNCHANGED <<variant, pubVars, externalVars, lost>>

\* getPublication and getVariant: a terminal publication returns, one with the id of a
\* live post is only finalized, the others go to the door.
Read(w) ==
  LET p == Job(w) IN
  /\ At(w, "read")
  /\ run' = [run EXCEPT ![w] =
       [NoRun EXCEPT !.mid = variant \in PUBLISHABLE, !.text = body,
                     !.at = IF pub[p] \in {"published", "cancelled"} THEN "returned"
                            ELSE IF p \in extId \ dry THEN "finalPub" ELSE "door"]]
  /\ InHandler /\ UNCHANGED <<variant, pubVars, externalVars, lost>>

\* finalizePublished.
FinalPub(w) ==
  /\ At(w, "finalPub")
  /\ pub' = [pub EXCEPT ![Job(w)] = "published"]
  /\ Step(w, "finalVariant")
  /\ InHandler /\ UNCHANGED <<variant, dry, extId, analytics, externalVars, lost>>

\* The variant is published only if it was mid-publish when it was read.
FinalVariant(w) ==
  /\ At(w, "finalVariant")
  /\ variant' = IF run[w].mid THEN "published" ELSE variant
  /\ Step(w, "analytics")
  /\ InHandler /\ UNCHANGED <<pubVars, externalVars, lost>>

Refused(w) == ~run[w].mid \/ ~public \/ run[w].text \notin Clean

\* Mutant: under the brake a live publication goes on as if it were a dry run.
DoorFakesDryRun(w) ==
  /\ At(w, "door")
  /\ Step(w, IF Refused(w) THEN "abortPub"
             ELSE IF dryRun THEN "publish" ELSE "setPub")
  /\ InHandler /\ UNCHANGED <<variant, pubVars, externalVars, lost>>

\* publishRefusalReason with requirePublishable, then the live dry-run setting.
Door(w) ==
  /\ At(w, "door")
  /\ run' = [run EXCEPT ![w] =
       IF Refused(w) THEN [@ EXCEPT !.at = "abortPub", !.rewind = "rejected"]
       ELSE IF Job(w) \notin dry /\ dryRun
            THEN [@ EXCEPT !.at = "abortPub", !.rewind = "approved"]
            ELSE [@ EXCEPT !.at = "setPub"]]
  /\ InHandler /\ UNCHANGED <<variant, pubVars, externalVars, lost>>

\* Mutant: only the variant is rewound.
AbortPubForgotten(w) ==
  /\ At(w, "abortPub")
  /\ Step(w, "abortVariant")
  /\ InHandler /\ UNCHANGED <<variant, pubVars, externalVars, lost>>

\* abortPublication: the publication first, then the variant if it was mid-publish.
AbortPub(w) ==
  /\ At(w, "abortPub")
  /\ pub' = [pub EXCEPT ![Job(w)] = "cancelled"]
  /\ Step(w, "abortVariant")
  /\ InHandler /\ UNCHANGED <<variant, dry, extId, analytics, externalVars, lost>>

AbortVariant(w) ==
  /\ At(w, "abortVariant")
  /\ variant' = IF run[w].mid THEN run[w].rewind ELSE variant
  /\ Step(w, "returned")
  /\ InHandler /\ UNCHANGED <<pubVars, externalVars, lost>>

\* Unconditional, but the index refuses it while another publication is active.
SetPublishing(w) ==
  /\ At(w, "setPub")
  /\ IF ActiveExists(Job(w))
     THEN Step(w, "thrown") /\ UNCHANGED pub
     ELSE Step(w, "setVariant") /\ pub' = [pub EXCEPT ![Job(w)] = "publishing"]
  /\ InHandler /\ UNCHANGED <<variant, dry, extId, analytics, externalVars, lost>>

SetVariantPublishing(w) ==
  /\ At(w, "setVariant")
  /\ variant' = "publishing"
  /\ Step(w, IF Job(w) \in dry THEN "publish" ELSE "call")
  /\ InHandler /\ UNCHANGED <<pubVars, externalVars, lost>>

\* The POST reaches the provider; the same key again answers with the same draft.
Post(w) ==
  LET p == Job(w) IN
  IF HonoursKey /\ posts[p] > 0
  THEN UNCHANGED externalVars
  ELSE /\ posts' = [posts EXCEPT ![p] = @ + 1]
       /\ posted' = posted \cup {run[w].text}

ProviderAccepts(w) ==
  /\ At(w, "call")
  /\ Post(w)
  /\ run' = [run EXCEPT ![w].at = "persist", ![w].accepted = TRUE]
  /\ InHandler /\ UNCHANGED <<variant, pubVars, lost>>

\* No credentials, a refusal, or a timeout before the request arrived.
ProviderRefuses(w) ==
  /\ At(w, "call")
  /\ Step(w, "catchPub")
  /\ InHandler /\ UNCHANGED <<variant, pubVars, externalVars, lost>>

\* The draft is created and the answer times out.
ProviderReplyLost(w) ==
  /\ At(w, "call") /\ Fault
  /\ Post(w)
  /\ lost' = lost \cup {Job(w)}
  /\ Step(w, "catchPub")
  /\ UNCHANGED <<rowVars, workVars, claimant, starts, variantVars, approval, pubVars,
                 settingVars, adm, approved, withdrawn, hurt>>

\* The external id first, in a write of its own.
PersistId(w) ==
  /\ At(w, "persist")
  /\ extId' = extId \cup {Job(w)}
  /\ Step(w, "publish")
  /\ InHandler /\ UNCHANGED <<variant, pub, dry, analytics, externalVars, lost>>

MarkPublished(w) ==
  /\ At(w, "publish")
  /\ pub' = [pub EXCEPT ![Job(w)] = "published"]
  /\ extId' = extId \cup {Job(w)}
  /\ Step(w, "publishVariant")
  /\ InHandler /\ UNCHANGED <<variant, dry, analytics, externalVars, lost>>

PublishVariant(w) ==
  /\ At(w, "publishVariant")
  /\ variant' = "published"
  /\ Step(w, "analytics")
  /\ InHandler /\ UNCHANGED <<pubVars, externalVars, lost>>

\* scheduleAnalyticsCollection: once per publication by its dedup key.
CollectLater(w) ==
  /\ At(w, "analytics")
  /\ analytics' = analytics \cup {Job(w)}
  /\ Step(w, "returned")
  /\ InHandler /\ UNCHANGED <<variant, pub, dry, extId, externalVars, lost>>

\* Mutant: the catch records the failure only.
CatchForgetsId(w) ==
  /\ At(w, "catchPub")
  /\ pub' = [pub EXCEPT ![Job(w)] = "failed"]
  /\ Step(w, "catchVariant")
  /\ InHandler /\ UNCHANGED <<variant, dry, extId, analytics, externalVars, lost>>

\* The catch: failed, with the id if the provider had answered; then the variant; then
\* the error goes to the runner.
CatchPub(w) ==
  /\ At(w, "catchPub")
  /\ pub' = [pub EXCEPT ![Job(w)] = "failed"]
  /\ extId' = IF run[w].accepted THEN extId \cup {Job(w)} ELSE extId
  /\ Step(w, "catchVariant")
  /\ InHandler /\ UNCHANGED <<variant, dry, analytics, externalVars, lost>>

CatchVariant(w) ==
  /\ At(w, "catchVariant")
  /\ variant' = "failed"
  /\ Step(w, "thrown")
  /\ InHandler /\ UNCHANGED <<pubVars, externalVars, lost>>

-----------------------------------------------------------------------------
(* A statement of the handler fails. *)

\* Where the handler goes on: a failing read of the door refuses, a failing write
\* throws, inside the try to the catch, whose own failures are swallowed.
AfterFailure(step) ==
  CASE step \in {"door"} -> "abortPub"
    [] step \in {"persist", "publish", "publishVariant"} -> "catchPub"
    [] step = "catchPub" -> "catchVariant"
    [] step = "analytics" -> "returned"
    [] OTHER -> "thrown"

\* The id of a live post dies with this attempt.
IdDies(w) == run[w].accepted /\ Job(w) \notin extId

StatementFails(w) ==
  /\ run[w].at \notin {"none", "call", "returned", "thrown"} /\ Fault
  /\ \E to \in {"approved", "rejected"} :
       /\ to = run[w].rewind \/ At(w, "door")
       /\ run' = [run EXCEPT ![w].at = AfterFailure(@), ![w].rewind = to]
  /\ lost' = IF At(w, "catchPub") /\ IdDies(w) THEN lost \cup {Job(w)} ELSE lost
  /\ hurt' = hurt \cup {Job(w)}
  /\ UNCHANGED <<rowVars, workVars, claimant, starts, variantVars, approval, pubVars,
                 settingVars, adm, externalVars, approved, withdrawn>>

-----------------------------------------------------------------------------
(* The runner around the handler. *)

KeepsSocial == UNCHANGED <<variantVars, approval, pubVars, settingVars, adm, externalVars,
                           approved, withdrawn>>

RunnerStep(w) ==
  /\ KeepsSocial /\ UNCHANGED <<run, lost, hurt>>
  /\ \/ PassStart(w) \/ SelectDue(w) \/ BeginWork(w) \/ PassEnd(w)
     \/ \E r \in picked[w] : Reclaim(w, r) \/ Claim(w, r)

RunnerFault(w) ==
  /\ KeepsSocial /\ UNCHANGED <<run, lost>>
  /\ \E r \in picked[w] :
       \/ WriteFails(w, r) /\ UNCHANGED hurt
       \/ ClaimReplyLost(w, r) /\ hurt' = hurt \cup {r.job}

HandlerBegins(w) ==
  /\ \E r \in batch[w] : HandlerStart(w, r)
  /\ Step(w, "read")
  /\ KeepsSocial /\ UNCHANGED <<lost, hurt>>

HandlerEnds(w) ==
  /\ \/ At(w, "returned") /\ (HandlerReturns(w) \/ SettleFails(w))
     \/ At(w, "thrown") /\ (HandlerThrows(w) \/ SettleFails(w))
  /\ run' = [run EXCEPT ![w] = NoRun]
  /\ KeepsSocial /\ UNCHANGED <<lost, hurt>>

WorkerDies(w) ==
  /\ Crash(w)
  /\ run' = [run EXCEPT ![w] = NoRun]
  /\ lost' = IF IdDies(w) THEN lost \cup {Job(w)} ELSE lost
  /\ hurt' = hurt \cup {r.job : r \in Held(w)}
  /\ KeepsSocial

-----------------------------------------------------------------------------

HandlerStep(w) ==
  \/ Read(w) \/ FinalPub(w) \/ FinalVariant(w) \/ Door(w) \/ AbortPub(w) \/ AbortVariant(w)
  \/ SetPublishing(w) \/ SetVariantPublishing(w) \/ ProviderAccepts(w) \/ ProviderRefuses(w)
  \/ PersistId(w) \/ MarkPublished(w) \/ PublishVariant(w) \/ CollectLater(w)
  \/ CatchPub(w) \/ CatchVariant(w)

WorkerStep(w) == RunnerStep(w) \/ HandlerBegins(w) \/ HandlerStep(w) \/ HandlerEnds(w)
WorkerFault(w) == RunnerFault(w) \/ StatementFails(w) \/ ProviderReplyLost(w) \/ WorkerDies(w)

AdminStep(a) ==
  \/ Generate(a) \/ MarkGenerating(a) \/ LlmAnswers(a)
  \/ Submit(a) \/ SubmitVariant(a) \/ DecideRow(a) \/ DecideVariant(a)
  \/ \E i \in Approvals : InsertApproval(a, i) \/ \E yes \in BOOLEAN : Decide(a, i, yes)
  \/ Schedule(a) \/ ScheduleVariant(a) \/ RereadVariant(a) \/ RewindVariant(a)
  \/ \E p \in Publications : CreatePublication(a, p) \/ Cancel(a, p)
  \/ \E later \in BOOLEAN : EnqueuePublish(a, later)
  \/ AdminFails(a)

TimeStep ==
  /\ \E j \in Jobs : RunAfterPasses(j) \/ LockGrowsStale(j)
  /\ UNCHANGED socialVars

Next ==
  \/ \E w \in Workers : WorkerStep(w) \/ WorkerFault(w)
  \/ \E a \in Admins : AdminStep(a)
  \/ TimeStep \/ ToggleDryRun \/ TogglePublic

Passes(j) == (RunAfterPasses(j) \/ LockGrowsStale(j)) /\ UNCHANGED socialVars
Fairness ==
  /\ \A w \in Workers : WF_vars(WorkerStep(w))
  /\ \A j \in Jobs : WF_vars(Passes(j))

Spec == Init /\ [][Next]_vars
FairSpec == Spec /\ Fairness

-----------------------------------------------------------------------------
(* Safety, with one worker process. *)

\* A live publication is recorded as published only with the id of a post that exists;
\* in particular the brake never turns one into a fake dry-run success.
PublishedIsReal ==
  \A p \in Publications \ dry :
    /\ pub[p] = "published" => p \in extId
    /\ p \in extId => posts[p] > 0

\* Even if the provider ignores the key, a publication is posted twice only after the
\* id of a post was lost to a crash, a timeout or two failed writes in a row: one
\* failed write alone never costs the id.
DoublePostNeedsLostId == \A p \in Publications : posts[p] > 1 => p \in lost

\* A publication that occupies the active index of its variant, and so keeps every
\* other from being scheduled, has a job that will move it on or a request that is about
\* to enqueue one.  The exceptions are those a fault has hit itself: its enqueue failed,
\* and it is still scheduled, so that an administrator can cancel it; or attempts of its
\* job were cut short and it is dead.  Retries, the brake, cancellation, a rival for the
\* index and faults of other publications never leave one behind, and no job is done
\* before its publication has left the index.
ActiveHasJob ==
  \A p \in Publications :
    pub[p] \in Active =>
      \/ status[p] \in {"queued", "running"}
      \/ \E a \in Admins : adm[a].at = "enqueue" /\ adm[a].on = p
      \/ /\ p \in hurt
         /\ \/ status[p] = "absent" /\ pub[p] = "scheduled"
            \/ status[p] = "dead"

\* A publication whose job was enqueued ends published or cancelled, or its job dead.
PublicationsResolve ==
  \A p \in Publications :
    status[p] = "queued" ~> pub[p] \in {"published", "cancelled"} \/ status[p] = "dead"

-----------------------------------------------------------------------------
(* Statements of the comments the code does not keep. *)

\* publish.ts: cancel a scheduled publication so it never posts.
CancelledNeverPosts ==
  [][\A p \in withdrawn : posts'[p] = posts[p]]_vars

\* generate.ts: a regenerated body must not replace one that can still fire, so what
\* goes live was approved.
OnlyApprovedGoesLive == posted \subseteq approved
=============================================================================
