-------------------------- MODULE ExecutorGateway --------------------------
(***************************************************************************)
(* The managed-execution gateway: lib/gateway/persistence.ts,              *)
(* lib/gateway/admin-persistence.ts, the two routes that release a         *)
(* credential, and the constraints of postgres/schema.sql they rely on.    *)
(*                                                                         *)
(* A service redeems a one-use lease.  Policy blocks the call, allows it   *)
(* (the execution is claimed at once) or holds it for an administrator;    *)
(* an approved execution is claimed by a later resume request.  The winner *)
(* of a claim, and nobody else, is handed the sealed credential.           *)
(*                                                                         *)
(* One authorize request or one resume request is a process: its database  *)
(* transactions are separate steps, it may fail between any two of them,   *)
(* and the server may crash under it.  A transaction whose row locks make  *)
(* it atomic is one action.                                                *)
(***************************************************************************)
EXTENDS Integers, FiniteSets

CONSTANTS
  Requests,     \* authorize-and-redeem requests; each draws its own execution id
  Resumes,      \* resume-claim requests
  Leases,       \* resolution leases that may be issued
  Keys,         \* idempotency keys chosen by the executor
  Credentials,  \* service credentials of the one service identity
  FirstCredential, \* the credential the identity was registered with
  Policies,     \* active rule sets; a rule set is its own policy version
  Effect,       \* what a rule set decides for the modelled call
  Principals,   \* actor/role/tier triples the member may have
  Nobody        \* null: no holder, no lease, no key, an ineligible member

ASSUME ConstantsAssumption ==
  /\ FirstCredential \in Credentials
  /\ Requests \cap Resumes = {}
  /\ Effect \in [Policies -> {"block", "allow", "require_approval"}]
  /\ Nobody \notin Requests \cup Resumes \cup Leases \cup Keys \cup Principals
  /\ Nobody \notin Policies

Processes == Requests \cup Resumes

ExecutionStates == {"none", "blocked", "approval_required", "approved", "claimed",
                    "succeeded", "failed", "cancelled", "expired"}
ApprovalStates == {"none", "pending", "approved", "denied", "expired", "cancelled"}
Classifications == {"success", "blocked", "approval_required", "credential", "network"}
FailureClasses == {"credential", "network"}   \* network stands for the four others
Events == {"decision_blocked", "decision_allowed", "decision_approval_required",
           "approval_approved", "approval_denied", "approval_expired",
           "approval_cancelled", "execution_claimed", "outcome_recorded"}

VARIABLES
  policy,      \* the enabled rule set of the team
  principal,   \* the member's current triple; Nobody when inactive or unbound
  connected,   \* the connection is enabled, unrevoked and its credential unexpired
  credential,  \* Credentials -> "absent" | "active" | "revoked"
  advisory,    \* Credentials -> holder of the session advisory lock (namespace 407)
  revoking,    \* credentials whose revocation waits for that lock
  issued,      \* Leases -> policy version stored in the lease; Nobody: not issued
  consumed,    \* leases with consumed_at set
  expired,     \* leases whose thirty seconds have passed
  state,       \* gateway_executions.state, "none" when there is no row
  row,         \* immutable columns of an execution
  outcome,     \* gateway_executions.outcome_classification
  approval,    \* gateway_approvals.status
  due,         \* database time has passed the approval's expires_at
  audit,       \* gateway_audit_log rows that concern an execution: <<event, id>>
  authPc,      \* where each authorize request is
  authReq,     \* its lease, idempotency key and authenticating credential
  resumePc,    \* where each resume request is
  resumeReq,   \* the execution it names, its credential, whether the request matches
  seen,        \* what its transaction read at BEGIN and did not lock
  sealed,      \* history: credentials sealed into a response
  sealFailed   \* history: executions settled by failGatewayCredentialSealing

scopeVars == <<policy, principal, connected>>
credVars  == <<credential, advisory, revoking>>
execVars  == <<state, row, outcome, approval, due, audit>>
leaseVars == <<issued, consumed, expired>>
authVars  == <<authPc, authReq>>
resumeVars == <<resumePc, resumeReq, seen>>
history   == <<sealed, sealFailed>>
vars == <<scopeVars, credVars, leaseVars, execVars, authVars, resumeVars, history>>

-----------------------------------------------------------------------------
(* Types and initial state. *)

NoRow == [lease |-> Nobody, key |-> Nobody, principal |-> Nobody, decision |-> "none"]
Row == [lease : Leases \cup {Nobody}, key : Keys \cup {Nobody},
        principal : Principals \cup {Nobody},
        decision : {"none", "block", "allow", "require_approval"}]
AuthPcs == {"idle", "started", "looked", "claimed", "failing", "done"}
AuthRequest == [lease : Leases \cup {Nobody}, key : Keys \cup {Nobody}, cred : Credentials]
NoAuth == [lease |-> Nobody, key |-> Nobody, cred |-> FirstCredential]
ResumePcs == {"idle", "started", "locked", "begun", "claimed", "failing", "done"}
ResumeRequest == [exec : Requests \cup {Nobody}, cred : Credentials,
                  same : BOOLEAN]   \* toolkit, tool and request hash are the row's
NoResume == [exec |-> Nobody, cred |-> FirstCredential, same |-> TRUE]
Snapshot == [due : BOOLEAN, principal : Principals \cup {Nobody}, connected : BOOLEAN]
NoSnapshot == [due |-> FALSE, principal |-> Nobody, connected |-> FALSE]
Seal == [by : Processes, exec : Requests, cred : Credentials]

ScopeTypes ==
  /\ policy \in Policies
  /\ principal \in Principals \cup {Nobody}
  /\ connected \in BOOLEAN
CredentialTypes ==
  /\ credential \in [Credentials -> {"absent", "active", "revoked"}]
  /\ advisory \in [Credentials -> Resumes \cup {Nobody}]
  /\ revoking \in SUBSET Credentials
LeaseTypes ==
  /\ issued \in [Leases -> Policies \cup {Nobody}]
  /\ consumed \in SUBSET Leases
  /\ expired \in SUBSET Leases
ExecutionTypes ==
  /\ state \in [Requests -> ExecutionStates]
  /\ row \in [Requests -> Row]
  /\ outcome \in [Requests -> Classifications \cup {"none"}]
  /\ approval \in [Requests -> ApprovalStates]
  /\ due \in [Requests -> BOOLEAN]
  /\ audit \in SUBSET (Events \X Requests)
AuthTypes ==
  /\ authPc \in [Requests -> AuthPcs]
  /\ authReq \in [Requests -> AuthRequest]
  /\ \A r \in Requests : authPc[r] \in {"started", "looked"} => authReq[r].lease \in Leases
ResumeTypes ==
  /\ resumePc \in [Resumes -> ResumePcs]
  /\ resumeReq \in [Resumes -> ResumeRequest]
  /\ seen \in [Resumes -> Snapshot]
  /\ \A s \in Resumes : resumePc[s] \notin {"idle", "done"} => resumeReq[s].exec \in Requests
HistoryTypes ==
  /\ sealed \in SUBSET Seal
  /\ sealFailed \in SUBSET Requests

\* The columns, locks and requests keep their types, and a running resume request
\* names an execution id, a running redemption a lease (the routes refuse less).
TypeOK ==
  /\ ScopeTypes /\ CredentialTypes /\ LeaseTypes /\ ExecutionTypes
  /\ AuthTypes /\ ResumeTypes /\ HistoryTypes

Init ==
  /\ policy \in Policies
  /\ principal \in Principals
  /\ connected = TRUE
  /\ credential = [c \in Credentials |-> IF c = FirstCredential THEN "active" ELSE "absent"]
  /\ advisory = [c \in Credentials |-> Nobody]
  /\ revoking = {}
  /\ issued = [l \in Leases |-> Nobody]
  /\ consumed = {}
  /\ expired = {}
  /\ state = [x \in Requests |-> "none"]
  /\ row = [x \in Requests |-> NoRow]
  /\ outcome = [x \in Requests |-> "none"]
  /\ approval = [x \in Requests |-> "none"]
  /\ due = [x \in Requests |-> FALSE]
  /\ audit = {}
  /\ authPc = [r \in Requests |-> "idle"]
  /\ authReq = [r \in Requests |-> NoAuth]
  /\ resumePc = [s \in Resumes |-> "idle"]
  /\ resumeReq = [s \in Resumes |-> NoResume]
  /\ seen = [s \in Resumes |-> NoSnapshot]
  /\ sealed = {}
  /\ sealFailed = {}

-----------------------------------------------------------------------------
(* Predicates the transactions evaluate. *)

Awaiting == {"approval_required", "approved"}   \* executions an expiry may close
Open == {"pending", "approved"}                 \* approvals an expiry may close
Claimed == {"claimed", "succeeded", "failed"}

Redeemable(l) == issued[l] # Nobody /\ l \notin consumed \cup expired
ScopeActive == principal # Nobody /\ connected
KeyTaken(k) == \E x \in Requests : state[x] # "none" /\ row[x].key = k

-----------------------------------------------------------------------------
(* resolve-lease and authorize-and-redeem. *)

\* resolveAndIssueLease: the lease remembers the policy version it was issued under.
IssueLease(l) ==
  /\ issued[l] = Nobody
  /\ ScopeActive
  /\ issued' = [issued EXCEPT ![l] = policy]
  /\ UNCHANGED <<scopeVars, credVars, consumed, expired, execVars, authVars,
                 resumeVars, history>>

\* Thirty seconds of database time pass.
LeaseExpires(l) ==
  /\ Redeemable(l)
  /\ expired' = expired \cup {l}
  /\ UNCHANGED <<scopeVars, credVars, issued, consumed, execVars, authVars, resumeVars,
                 history>>

\* The credential authenticates and the lease names a member (reboundMemberForLease).
AuthStart(r, l, k, c) ==
  /\ authPc[r] = "idle"
  /\ credential[c] = "active"
  /\ Redeemable(l)
  /\ authPc' = [authPc EXCEPT ![r] = "started"]
  /\ authReq' = [authReq EXCEPT ![r] = [lease |-> l, key |-> k, cred |-> c]]
  /\ UNCHANGED <<scopeVars, credVars, leaseVars, execVars, resumeVars, history>>

\* The unlocked reads that open authorizeLeaseAndCreateExecution: an execution
\* under this key, or a consumed lease, answers the request with a conflict.
AuthLookup(r) ==
  /\ authPc[r] = "started"
  /\ ~KeyTaken(authReq[r].key) /\ authReq[r].lease \notin consumed
  /\ authPc' = [authPc EXCEPT ![r] = "looked"]
  /\ UNCHANGED <<scopeVars, credVars, leaseVars, execVars, authReq, resumeVars, history>>

AuthEnds(r) ==
  /\ authPc' = [authPc EXCEPT ![r] = "done"]
  /\ authReq' = [authReq EXCEPT ![r] = NoAuth]

AuthConflict(r) ==
  /\ authPc[r] = "started"
  /\ KeyTaken(authReq[r].key) \/ authReq[r].lease \in consumed
  /\ AuthEnds(r)
  /\ UNCHANGED <<scopeVars, credVars, leaseVars, execVars, resumeVars, history>>

\* The locked half finds the lease gone, the scope inactive, the policy version
\* stale, or its insert hits unique (service_identity_id, idempotency_key).
AuthRefused(r) ==
  LET l == authReq[r].lease IN
  /\ authPc[r] = "looked"
  /\ ~Redeemable(l) \/ ~ScopeActive \/ issued[l] # policy \/ KeyTaken(authReq[r].key)
  /\ AuthEnds(r)
  /\ UNCHANGED <<scopeVars, credVars, leaseVars, execVars, resumeVars, history>>

\* Execution, lease consumption, approval and audit: the writes of one transaction.
CreateExecution(r) ==
  LET d == Effect[policy] IN
  /\ consumed' = consumed \cup {authReq[r].lease}
  /\ row' = [row EXCEPT ![r] = [lease |-> authReq[r].lease, key |-> authReq[r].key,
                                principal |-> principal, decision |-> d]]
  /\ \/ /\ d = "allow"
        /\ state' = [state EXCEPT ![r] = "claimed"]
        /\ audit' = audit \cup {<<"decision_allowed", r>>}
        /\ authPc' = [authPc EXCEPT ![r] = "claimed"]
        /\ UNCHANGED <<approval, authReq>>
     \/ /\ d = "block"
        /\ state' = [state EXCEPT ![r] = "blocked"]
        /\ audit' = audit \cup {<<"decision_blocked", r>>}
        /\ AuthEnds(r)
        /\ UNCHANGED approval
     \/ /\ d = "require_approval"
        /\ state' = [state EXCEPT ![r] = "approval_required"]
        /\ approval' = [approval EXCEPT ![r] = "pending"]
        /\ audit' = audit \cup {<<"decision_approval_required", r>>}
        /\ AuthEnds(r)
  /\ UNCHANGED <<scopeVars, credVars, issued, expired, outcome, due, resumeVars, history>>

\* Mutant: the locked half trusts the unlocked look-up.
AuthCommitTrustsLookup(r) ==
  /\ authPc[r] = "looked"
  /\ ScopeActive
  /\ issued[authReq[r].lease] = policy
  /\ CreateExecution(r)

\* Mutant: the policy version of the lease is not compared.
AuthCommitIgnoresStalePolicy(r) ==
  /\ authPc[r] = "looked"
  /\ Redeemable(authReq[r].lease) /\ ScopeActive
  /\ ~KeyTaken(authReq[r].key)
  /\ CreateExecution(r)

\* `for update of l` re-evaluates the lease, so of two redemptions of it one commits.
AuthCommit(r) ==
  /\ authPc[r] = "looked"
  /\ Redeemable(authReq[r].lease) /\ ScopeActive
  /\ issued[authReq[r].lease] = policy
  /\ ~KeyTaken(authReq[r].key)
  /\ CreateExecution(r)

\* getGatewayCredentialForClaimedExecution, decrypt and seal.  No lock is held and
\* the authenticating credential is not looked at again.
AuthSeal(r) ==
  /\ authPc[r] = "claimed"
  /\ state[r] = "claimed" /\ row[r].decision = "allow" /\ connected
  /\ sealed' = sealed \cup {[by |-> r, exec |-> r, cred |-> authReq[r].cred]}
  /\ AuthEnds(r)
  /\ UNCHANGED <<scopeVars, credVars, leaseVars, execVars, resumeVars, sealFailed>>

\* The credential read, the decryption or the sealing throws.
AuthSealThrows(r) ==
  /\ authPc[r] = "claimed"
  /\ authPc' = [authPc EXCEPT ![r] = "failing"]
  /\ UNCHANGED <<scopeVars, credVars, leaseVars, execVars, authReq, resumeVars, history>>

-----------------------------------------------------------------------------
(* resume-claim. *)

\* Mutant: no path gives the session lock back.
UnlockForgotten(s) == UNCHANGED advisory

\* `finally`: the session advisory lock is released whatever happened.
Unlock(s) == advisory' = [c \in Credentials |-> IF advisory[c] = s THEN Nobody ELSE advisory[c]]

ResumeEnds(s) ==
  /\ resumePc' = [resumePc EXCEPT ![s] = "done"]
  /\ resumeReq' = [resumeReq EXCEPT ![s] = NoResume]
  /\ seen' = [seen EXCEPT ![s] = NoSnapshot]
  /\ Unlock(s)

ResumeStart(s, x, c, same) ==
  /\ resumePc[s] = "idle"
  /\ credential[c] = "active"
  /\ resumePc' = [resumePc EXCEPT ![s] = "started"]
  /\ resumeReq' = [resumeReq EXCEPT ![s] = [exec |-> x, cred |-> c, same |-> same]]
  /\ UNCHANGED <<scopeVars, credVars, leaseVars, execVars, authVars, seen, history>>

\* pg_advisory_lock(hashtextextended(credentialId, 407)) on the session.
ResumeLock(s) ==
  /\ resumePc[s] = "started"
  /\ advisory[resumeReq[s].cred] = Nobody
  /\ advisory' = [advisory EXCEPT ![resumeReq[s].cred] = s]
  /\ resumePc' = [resumePc EXCEPT ![s] = "locked"]
  /\ UNCHANGED <<scopeVars, credential, revoking, leaseVars, execVars, authVars,
                 resumeReq, seen, history>>

\* BEGIN fixes now(); the statement snapshot fixes the joined rows it does not lock.
ResumeBegin(s) ==
  /\ resumePc[s] = "locked"
  /\ resumePc' = [resumePc EXCEPT ![s] = "begun"]
  /\ seen' = [seen EXCEPT ![s] = [due |-> due[resumeReq[s].exec], principal |-> principal,
                                  connected |-> connected]]
  /\ UNCHANGED <<scopeVars, credVars, leaseVars, execVars, authVars, resumeReq, history>>

\* The execution does not exist, or the inner join finds no approval of it.
ResumeNotFound(s) ==
  /\ resumePc[s] = "begun"
  /\ approval[resumeReq[s].exec] = "none"
  /\ ResumeEnds(s)
  /\ UNCHANGED <<scopeVars, credential, revoking, leaseVars, execVars, authVars, history>>

\* Mutant: a retry of a committed claim is handed the payload again.
ResumeSettledReseals(s) ==
  /\ resumePc[s] = "begun"
  /\ approval[resumeReq[s].exec] # "none"
  /\ state[resumeReq[s].exec] \in Claimed
  /\ resumePc' = [resumePc EXCEPT ![s] = "claimed"]
  /\ UNCHANGED <<scopeVars, credVars, leaseVars, execVars, authVars, resumeReq, seen,
                 history>>

\* Already claimed: the fingerprint and the claim key tell already_claimed from
\* gateway_idempotency_conflict; neither writes or decrypts anything.
ResumeSettled(s) ==
  /\ resumePc[s] = "begun"
  /\ approval[resumeReq[s].exec] # "none"
  /\ state[resumeReq[s].exec] \in Claimed
  /\ ResumeEnds(s)
  /\ UNCHANGED <<scopeVars, credential, revoking, leaseVars, execVars, authVars, history>>

\* Mutant: only a pending approval is closed.
CloseApprovalForgetsApproved(x, to, event) ==
  /\ approval' = [approval EXCEPT ![x] = IF @ = "pending" THEN to ELSE @]
  /\ state' = [state EXCEPT ![x] = IF @ \in Awaiting THEN to ELSE @]
  /\ audit' = audit \cup {<<event, x>>}

\* The approval and the execution move only from an open state, but the audit row
\* is written in any case (`on conflict do nothing` is the only guard on it).
CloseApproval(x, to, event) ==
  /\ approval' = [approval EXCEPT ![x] = IF @ \in Open THEN to ELSE @]
  /\ state' = [state EXCEPT ![x] = IF @ \in Awaiting THEN to ELSE @]
  /\ audit' = audit \cup {<<event, x>>}

ResumeExpired(s) ==
  LET x == resumeReq[s].exec IN
  /\ resumePc[s] = "begun"
  /\ approval[x] # "none" /\ state[x] \notin Claimed
  /\ seen[s].due
  /\ CloseApproval(x, "expired", "approval_expired")
  /\ ResumeEnds(s)
  /\ UNCHANGED <<scopeVars, credential, revoking, leaseVars, row, outcome, due,
                 authVars, history>>

\* Everything revalidated at claim time: the decision, the request, the frozen
\* principal, the scope, the authenticating credential and the current policy.
Eligible(s) ==
  LET x == resumeReq[s].exec IN
  /\ state[x] = "approved" /\ approval[x] = "approved"
  /\ resumeReq[s].same
  /\ seen[s].principal # Nobody /\ seen[s].principal = row[x].principal
  /\ seen[s].connected
  /\ credential[resumeReq[s].cred] = "active"
  /\ Effect[policy] # "block"

ResumeCancelled(s) ==
  LET x == resumeReq[s].exec IN
  /\ resumePc[s] = "begun"
  /\ approval[x] # "none" /\ state[x] \notin Claimed
  /\ ~seen[s].due
  /\ ~Eligible(s)
  /\ CloseApproval(x, "cancelled", "approval_cancelled")
  /\ ResumeEnds(s)
  /\ UNCHANGED <<scopeVars, credential, revoking, leaseVars, row, outcome, due,
                 authVars, history>>

\* The winning claim and its audit row commit; the advisory lock stays held.
ResumeClaim(s) ==
  LET x == resumeReq[s].exec IN
  /\ resumePc[s] = "begun"
  /\ ~seen[s].due
  /\ Eligible(s)
  /\ state' = [state EXCEPT ![x] = "claimed"]
  /\ audit' = audit \cup {<<"execution_claimed", x>>}
  /\ resumePc' = [resumePc EXCEPT ![s] = "claimed"]
  /\ UNCHANGED <<scopeVars, credVars, leaseVars, row, outcome, approval, due, authVars,
                 resumeReq, seen, history>>

\* useWinningPayload decrypts and seals, then the lock is released.
ResumeSeal(s) ==
  /\ resumePc[s] = "claimed"
  /\ sealed' = sealed \cup {[by |-> s, exec |-> resumeReq[s].exec, cred |-> resumeReq[s].cred]}
  /\ ResumeEnds(s)
  /\ UNCHANGED <<scopeVars, credential, revoking, leaseVars, execVars, authVars,
                 sealFailed>>

\* Any other error (pool, statement timeout, deadlock victim, decrypt, seal) rolls
\* back, unlocks and reaches the catch of the route.
ResumeThrows(s) ==
  /\ resumePc[s] \in {"started", "locked", "begun", "claimed"}
  /\ resumePc' = [resumePc EXCEPT ![s] = "failing"]
  /\ seen' = [seen EXCEPT ![s] = NoSnapshot]
  /\ Unlock(s)
  /\ UNCHANGED <<scopeVars, credential, revoking, leaseVars, execVars, authVars,
                 resumeReq, history>>

-----------------------------------------------------------------------------
(* What both routes do when sealing fails, and crashes. *)

\* failGatewayCredentialSealing settles a claimed execution that has no outcome.
FailSealing(x) ==
  IF state[x] = "claimed" /\ outcome[x] = "none"
  THEN /\ state' = [state EXCEPT ![x] = "failed"]
       /\ outcome' = [outcome EXCEPT ![x] = "credential"]
       /\ audit' = audit \cup {<<"outcome_recorded", x>>}
       /\ sealFailed' = sealFailed \cup {x}
  ELSE UNCHANGED <<state, outcome, audit, sealFailed>>

AuthFails(r) ==
  /\ authPc[r] = "failing"
  /\ FailSealing(r)
  /\ AuthEnds(r)
  /\ UNCHANGED <<scopeVars, credVars, leaseVars, row, approval, due, resumeVars, sealed>>

ResumeFails(s) ==
  /\ resumePc[s] = "failing"
  /\ FailSealing(resumeReq[s].exec)
  /\ ResumeEnds(s)
  /\ UNCHANGED <<scopeVars, credential, revoking, leaseVars, row, approval, due,
                 authVars, sealed>>

\* The server dies, or an error of the database ends the request (the failure
\* handling itself may throw): the open transaction is lost.
AuthCrash(r) ==
  /\ authPc[r] \in {"started", "looked", "claimed", "failing"}
  /\ AuthEnds(r)
  /\ UNCHANGED <<scopeVars, credVars, leaseVars, execVars, resumeVars, history>>

\* The session ends with the server, and the advisory lock with the session.
ResumeCrash(s) ==
  /\ resumePc[s] \in {"started", "locked", "begun", "claimed", "failing"}
  /\ ResumeEnds(s)
  /\ UNCHANGED <<scopeVars, credential, revoking, leaseVars, execVars, authVars, history>>

-----------------------------------------------------------------------------
(* Outcomes reported by the executor (record-outcome). *)

\* The moves recordGatewayOutcome accepts; anything else is gateway_outcome_conflict.
OutcomeMove(from, class, to) ==
  \/ from = "claimed" /\ class = "success" /\ to = "succeeded"
  \/ from = "claimed" /\ class \in FailureClasses /\ to = "failed"
  \/ from = class /\ class \in {"blocked", "approval_required"} /\ to = from

\* A second report is a replay or a conflict; neither writes.
RecordOutcome(x, class) ==
  /\ outcome[x] = "none"
  /\ \E to \in ExecutionStates :
       /\ OutcomeMove(state[x], class, to)
       /\ state' = [state EXCEPT ![x] = to]
  /\ outcome' = [outcome EXCEPT ![x] = class]
  /\ audit' = audit \cup {<<"outcome_recorded", x>>}
  /\ UNCHANGED <<scopeVars, credVars, leaseVars, row, approval, due, authVars, resumeVars,
                 history>>

-----------------------------------------------------------------------------
(* Administrators: decisions, the expiry sweep, credentials and policy. *)

\* Mutant: the approval's status is written into the execution's state.
DecideWritesStatus(x, verdict) ==
  LET status == IF verdict = "approve" THEN "approved" ELSE "denied" IN
  /\ approval[x] = "pending" /\ ~due[x]
  /\ approval' = [approval EXCEPT ![x] = status]
  /\ state' = [state EXCEPT ![x] = status]
  /\ audit' = audit \cup {<<IF verdict = "approve" THEN "approval_approved"
                                                 ELSE "approval_denied", x>>}
  /\ UNCHANGED <<scopeVars, credVars, leaseVars, row, outcome, due, authVars,
                 resumeVars, history>>

\* Mutant: a decision may be changed while the execution has not started.
DecideAgain(x, verdict) ==
  /\ approval[x] \in {"pending", "denied"} /\ ~due[x]
  /\ approval' = [approval EXCEPT ![x] = IF verdict = "approve" THEN "approved" ELSE "denied"]
  /\ state' = [state EXCEPT ![x] = IF verdict = "approve" THEN "approved" ELSE "cancelled"]
  /\ audit' = audit \cup {<<IF verdict = "approve" THEN "approval_approved"
                            ELSE "approval_denied", x>>}
  /\ UNCHANGED <<scopeVars, credVars, leaseVars, row, outcome, due, authVars,
                 resumeVars, history>>

\* decideGatewayApproval before the deadline; only a pending approval is decided.
Decide(x, verdict) ==
  /\ approval[x] = "pending" /\ ~due[x]
  /\ \/ /\ verdict = "approve"
        /\ approval' = [approval EXCEPT ![x] = "approved"]
        /\ state' = [state EXCEPT ![x] = "approved"]
        /\ audit' = audit \cup {<<"approval_approved", x>>}
     \/ /\ verdict = "deny"
        /\ approval' = [approval EXCEPT ![x] = "denied"]
        /\ state' = [state EXCEPT ![x] = "cancelled"]
        /\ audit' = audit \cup {<<"approval_denied", x>>}
  /\ UNCHANGED <<scopeVars, credVars, leaseVars, row, outcome, due, authVars,
                 resumeVars, history>>

\* Mutant: the expiry is audited whatever became of the execution.
DecideLateAlwaysAudits(x) ==
  /\ approval[x] \in Open /\ due[x]
  /\ approval' = [approval EXCEPT ![x] = "expired"]
  /\ state' = [state EXCEPT ![x] = IF @ \in Awaiting THEN "expired" ELSE @]
  /\ audit' = audit \cup {<<"approval_expired", x>>}
  /\ UNCHANGED <<scopeVars, credVars, leaseVars, row, outcome, due, authVars,
                 resumeVars, history>>

\* decideGatewayApproval after the deadline: the approval expires even when the
\* execution was claimed, the execution and the audit only while it is awaited.
DecideLate(x) ==
  /\ approval[x] # "none" /\ due[x]
  /\ approval' = [approval EXCEPT ![x] = IF @ \in Open THEN "expired" ELSE @]
  /\ IF state[x] \in Awaiting
     THEN /\ state' = [state EXCEPT ![x] = "expired"]
          /\ audit' = audit \cup {<<"approval_expired", x>>}
     ELSE UNCHANGED <<state, audit>>
  /\ UNCHANGED <<scopeVars, credVars, leaseVars, row, outcome, due, authVars,
                 resumeVars, history>>

\* Mutant: the sweep looks at approvals only.
SweepIgnoresExecution ==
  LET overdue == {x \in Requests : approval[x] \in Open /\ due[x]} IN
  /\ overdue # {}
  /\ approval' = [x \in Requests |-> IF x \in overdue THEN "expired" ELSE approval[x]]
  /\ state' = [x \in Requests |-> IF x \in overdue THEN "expired" ELSE state[x]]
  /\ audit' = audit \cup ({"approval_expired"} \X overdue)
  /\ UNCHANGED <<scopeVars, credVars, leaseVars, row, outcome, due, authVars,
                 resumeVars, history>>

\* expireGatewayApprovals, run by every listing of the approvals.
Sweep ==
  LET overdue == {x \in Requests : approval[x] \in Open /\ due[x] /\ state[x] \in Awaiting} IN
  /\ overdue # {}
  /\ approval' = [x \in Requests |-> IF x \in overdue THEN "expired" ELSE approval[x]]
  /\ state' = [x \in Requests |-> IF x \in overdue THEN "expired" ELSE state[x]]
  /\ audit' = audit \cup ({"approval_expired"} \X overdue)
  /\ UNCHANGED <<scopeVars, credVars, leaseVars, row, outcome, due, authVars,
                 resumeVars, history>>

\* An administrator asks for a revocation; it queues on the advisory lock.
RevokeRequest(c) ==
  /\ credential[c] = "active" /\ c \notin revoking
  /\ revoking' = revoking \cup {c}
  /\ UNCHANGED <<scopeVars, credential, advisory, leaseVars, execVars, authVars,
                 resumeVars, history>>

\* Mutant: revocation takes no lock.
RevokeWithoutLock(c) ==
  /\ c \in revoking
  /\ credential' = [credential EXCEPT ![c] = "revoked"]
  /\ revoking' = revoking \ {c}
  /\ UNCHANGED <<scopeVars, advisory, leaseVars, execVars, authVars, resumeVars, history>>

\* revokeGatewayCredential commits while it holds the lock.
Revoke(c) ==
  /\ c \in revoking
  /\ advisory[c] = Nobody
  /\ credential' = [credential EXCEPT ![c] = "revoked"]
  /\ revoking' = revoking \ {c}
  /\ UNCHANGED <<scopeVars, advisory, leaseVars, execVars, authVars, resumeVars, history>>

\* rotateGatewayCredential adds a version beside the one it names, which stays
\* whatever it was.
Rotate(prior, c) ==
  /\ credential[prior] # "absent" /\ credential[c] = "absent"
  /\ credential' = [credential EXCEPT ![c] = "active"]
  /\ UNCHANGED <<scopeVars, advisory, revoking, leaseVars, execVars, authVars,
                 resumeVars, history>>

\* create/update/deleteGatewayAdminPolicy.
PolicyChange(p) ==
  /\ p # policy
  /\ policy' = p
  /\ UNCHANGED <<principal, connected, credVars, leaseVars, execVars, authVars,
                 resumeVars, history>>

\* The member is renamed, promoted, demoted, deactivated, or the binding revoked.
PrincipalChange(p) ==
  /\ p # principal
  /\ principal' = p
  /\ UNCHANGED <<policy, connected, credVars, leaseVars, execVars, authVars,
                 resumeVars, history>>

\* The connection is disabled or enabled (by an operator: no code under src/ does it).
ConnectionChange ==
  /\ connected' = ~connected
  /\ UNCHANGED <<policy, principal, credVars, leaseVars, execVars, authVars,
                 resumeVars, history>>

\* Database time passes the approval's expires_at.
ApprovalDue(x) ==
  /\ approval[x] # "none" /\ ~due[x]
  /\ due' = [due EXCEPT ![x] = TRUE]
  /\ UNCHANGED <<scopeVars, credVars, leaseVars, state, row, outcome, approval, audit,
                 authVars, resumeVars, history>>

-----------------------------------------------------------------------------

AuthStep(r) ==
  \/ \E l \in Leases, k \in Keys, c \in Credentials : AuthStart(r, l, k, c)
  \/ AuthLookup(r) \/ AuthConflict(r) \/ AuthRefused(r) \/ AuthCommit(r)
  \/ AuthSeal(r) \/ AuthSealThrows(r) \/ AuthFails(r) \/ AuthCrash(r)

ResumeStep(s) ==
  \/ \E x \in Requests, c \in Credentials, same \in BOOLEAN : ResumeStart(s, x, c, same)
  \/ ResumeLock(s) \/ ResumeBegin(s) \/ ResumeNotFound(s) \/ ResumeSettled(s)
  \/ ResumeExpired(s) \/ ResumeCancelled(s) \/ ResumeClaim(s) \/ ResumeSeal(s)
  \/ ResumeThrows(s) \/ ResumeFails(s) \/ ResumeCrash(s)

AdminStep ==
  \/ \E x \in Requests, verdict \in {"approve", "deny"} : Decide(x, verdict)
  \/ \E x \in Requests : DecideLate(x)
  \/ Sweep
  \/ \E c \in Credentials : RevokeRequest(c) \/ Revoke(c)
  \/ \E prior, c \in Credentials : Rotate(prior, c)
  \/ \E p \in Policies : PolicyChange(p)

WorldStep ==
  \/ \E l \in Leases : IssueLease(l) \/ LeaseExpires(l)
  \/ \E x \in Requests, class \in Classifications : RecordOutcome(x, class)
  \/ \E p \in Principals \cup {Nobody} : PrincipalChange(p)
  \/ ConnectionChange
  \/ \E x \in Requests : ApprovalDue(x)

Next ==
  \/ \E r \in Requests : AuthStep(r)
  \/ \E s \in Resumes : ResumeStep(s)
  \/ AdminStep
  \/ WorldStep

\* A request that has been accepted keeps running: Node drives every pending
\* promise and PostgreSQL grants a free lock to a waiter.  Nothing obliges a
\* client to send a request or an administrator to act.
Running(s) == ResumeStep(s) /\ resumePc[s] # "idle"
Fairness ==
  /\ \A s \in Resumes : WF_vars(Running(s))
  /\ \A c \in Credentials : WF_vars(Revoke(c))

Spec == Init /\ [][Next]_vars
FairSpec == Spec /\ Fairness

-----------------------------------------------------------------------------
(* Safety. *)

\* At most one response ever carries the credential of an execution: neither a
\* retry, nor a second resume request, nor the authorize path re-seals it
\* (ResumeClaimPayload is exposed to the winning request only).
OneDelivery == \A d, e \in sealed : d.exec = e.exec => d = e

\* A lease buys one execution: it is consumed exactly when an execution names
\* it, no two executions share it, and none shares an idempotency key, whatever
\* requests race between the unlocked look-up and the locked insert.
LeaseBuysOneExecution ==
  /\ \A l \in Leases : l \in consumed
        <=> \E x \in Requests : state[x] # "none" /\ row[x].lease = l
  /\ \A x, y \in Requests :
        /\ state[x] # "none" /\ state[y] # "none"
        /\ row[x].lease = row[y].lease \/ row[x].key = row[y].key
        => x = y

\* What policy decided about an execution is what the rule set decides under which
\* its lease was resolved, however the rules were edited in between.
DecisionIsOfLeasePolicy ==
  \A x \in Requests : state[x] # "none" =>
    row[x].decision = Effect[issued[row[x].lease]]

\* The two tables agree although no constraint ties them: gateway_executions.state
\* and gateway_approvals.status are written by eight different statements.
ApprovalMatchesExecution ==
  \A x \in Requests :
    \/ row[x].decision = "none" /\ state[x] = "none" /\ approval[x] = "none"
    \/ row[x].decision = "block" /\ state[x] = "blocked" /\ approval[x] = "none"
    \/ row[x].decision = "allow" /\ state[x] \in Claimed /\ approval[x] = "none"
    \/ /\ row[x].decision = "require_approval"
       /\ \/ state[x] = "approval_required" /\ approval[x] = "pending"
          \/ state[x] = "approved" /\ approval[x] = "approved"
          \/ state[x] = "cancelled" /\ approval[x] \in {"denied", "cancelled"}
          \/ state[x] = "expired" /\ approval[x] = "expired"
          \/ state[x] \in Claimed /\ approval[x] \in {"approved", "expired"}

\* An execution that was held for approval is claimed only after an audited
\* approval, and its audit trail never also says denied, expired or cancelled
\* (the audit-integrity bug the comments of expireGatewayApprovals describe).
ClaimAuditIsClean ==
  \A x \in Requests :
    state[x] \in Claimed /\ row[x].decision = "require_approval" =>
      /\ <<"approval_approved", x>> \in audit
      /\ <<"execution_claimed", x>> \in audit
      /\ \A e \in {"approval_denied", "approval_expired", "approval_cancelled"} :
           <<e, x>> \notin audit

\* From the lock on, a resume request holds the advisory lock of the credential it
\* authenticated with; between its winning commit and its seal that credential is
\* not revoked.
WinnerHoldsLock ==
  \A s \in Resumes :
    /\ resumePc[s] \in {"locked", "begun", "claimed"} => advisory[resumeReq[s].cred] = s
    /\ resumePc[s] = "claimed" => credential[resumeReq[s].cred] = "active"

\* A redemption that has not committed has no execution yet.
FreshUntilCommit ==
  \A r \in Requests : authPc[r] \in {"idle", "started", "looked"} => state[r] = "none"

\* A redemption about to seal was allowed at once, and nothing is sealed for it.
RedeemerIsSole ==
  \A r \in Requests : authPc[r] = "claimed" =>
    row[r].decision = "allow" /\ \A d \in sealed : d.exec # r

\* A resume request about to seal is the only winner of a claim that committed.
WinnerIsSole ==
  \A s \in Resumes : resumePc[s] = "claimed" =>
    /\ state[resumeReq[s].exec] \in Claimed
    /\ row[resumeReq[s].exec].decision = "require_approval"
    /\ \A d \in sealed : d.exec # resumeReq[s].exec
    /\ \A t \in Resumes :
         resumePc[t] = "claimed" /\ resumeReq[t].exec = resumeReq[s].exec => t = s

\* Redemptions seal their own allowed execution, resume requests a held one.
SealsAreOwn ==
  \A d \in sealed :
    \/ d.by \in Requests /\ d.exec = d.by /\ row[d.exec].decision = "allow"
    \/ /\ d.by \in Resumes /\ row[d.exec].decision = "require_approval"
       /\ state[d.exec] \in Claimed

\* Who may still seal: of all the requests in flight one at most, and only while
\* nothing is sealed (the payload is exposed to the winner of a claim only).
SoleCustodian == FreshUntilCommit /\ RedeemerIsSole /\ WinnerIsSole /\ SealsAreOwn

-----------------------------------------------------------------------------
(* The ticket an execution is. *)

Phase(x) ==
  CASE state[x] = "none" -> "none"
    [] state[x] = "approval_required" -> "waiting"
    [] state[x] = "approved" -> "ready"
    [] state[x] = "claimed" -> "open"
    [] state[x] \in {"succeeded", "failed"} -> "settled"
    [] OTHER -> "closed"

Ticket == INSTANCE ExecutionTicket
            WITH Tickets <- Requests, Holders <- Processes,
                 phase <- [x \in Requests |-> Phase(x)],
                 handed <- {<<d.by, d.exec>> : d \in sealed}

\* The gateway implements the one-use ticket: the tables, locks, retries, failures
\* and clocks of the code never do more than ExecutionTicket allows.
ImplementsTicket == Ticket!Spec

-----------------------------------------------------------------------------
(* What a step may never do. *)

Terminal == {"blocked", "succeeded", "failed", "cancelled", "expired"}

\* Nothing leaves a terminal state, no outcome is rewritten, and a decided
\* approval is never decided again: concurrent decisions, sweeps, resumes, seal
\* failures and outcome reports settle an execution once.
SettledOnce ==
  [][\A x \in Requests :
       /\ state[x] \in Terminal => state'[x] = state[x]
       /\ outcome[x] # "none" => outcome'[x] = outcome[x]
       /\ approval[x] \in {"denied", "expired", "cancelled"} => approval'[x] = approval[x]]_vars

\* A resume request seals only under a credential whose revocation has not
\* committed: claim and revocation take the same advisory lock.
ResumeSealsBeforeRevocation ==
  [][\A d \in sealed' \ sealed :
       d.by \in Resumes => credential[d.cred] = "active" /\ credential'[d.cred] = "active"]_vars

-----------------------------------------------------------------------------
(* Liveness. *)

\* A revocation that waits for the lock is eventually committed: no resume
\* request, failed or crashed, keeps the session lock.
RevocationCommits == \A c \in Credentials : c \in revoking ~> credential[c] = "revoked"

-----------------------------------------------------------------------------
(* A statement of the documentation the code does not keep. *)

\* gateway-approval-v1.10.json: the `seal-failure` event is what takes a claimed
\* execution to failed/credential; so nothing was sealed for such an execution.
SealFailureMeansUnsealed == \A d \in sealed : d.exec \notin sealFailed
=============================================================================
