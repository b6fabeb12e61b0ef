----------------------- MODULE ExecutorGateway_proofs -----------------------
(***************************************************************************)
(* Proofs, for every number of requests, leases, keys, credentials, rule   *)
(* sets and principals, that the gateway is well typed, that it hands the  *)
(* credential of an execution to one request at most, that a resume        *)
(* request never seals under a revoked credential, and of what it writes   *)
(* down: a lease buys one execution, the decision is that of the rule set  *)
(* the lease was resolved under, the audit trail of a claim is clean, an   *)
(* execution is settled once, and the whole gateway is the one-use ticket  *)
(* of ExecutionTicket.                                                     *)
(***************************************************************************)
EXTENDS ExecutorGateway, TLAPS

USE DEF scopeVars, credVars, leaseVars, execVars, authVars, resumeVars, history

-----------------------------------------------------------------------------
(* Types. *)

\* One more row of the audit log.
LEMMA AuditRow ==
  ASSUME audit \in SUBSET (Events \X Requests), NEW x \in Requests,
         NEW e \in Events, audit' = audit \cup {<<e, x>>}
  PROVE  audit' \in SUBSET (Events \X Requests)
  OBVIOUS

\* The empty tables and idle requests are well typed.
LEMMA TypeInit == Init => TypeOK
  BY ConstantsAssumption
  DEF Init, TypeOK, ScopeTypes, CredentialTypes, LeaseTypes, ExecutionTypes, AuthTypes,
      ResumeTypes, HistoryTypes, NoRow, Row, AuthPcs, AuthRequest, NoAuth, ResumePcs,
      ResumeRequest, NoResume, Snapshot, NoSnapshot, ExecutionStates, ApprovalStates,
      Classifications

\* Every transaction keeps every column in its type.
LEMMA TypeStep == TypeOK /\ [Next]_vars => TypeOK'
<1> SUFFICES ASSUME TypeOK, [Next]_vars PROVE TypeOK'
  OBVIOUS
<1> USE ConstantsAssumption DEF TypeOK
<1>1. ASSUME NEW r \in Requests, AuthStep(r) PROVE TypeOK'
  <2>1. ASSUME NEW l \in Leases, NEW k \in Keys, NEW c \in Credentials, AuthStart(r, l, k, c) PROVE TypeOK'
    <3>1. ScopeTypes' /\ CredentialTypes' /\ LeaseTypes' /\ ExecutionTypes' /\ ResumeTypes' /\ HistoryTypes'
      BY <2>1 DEF AuthStart, ScopeTypes, CredentialTypes, LeaseTypes, ExecutionTypes,
          ResumeTypes, HistoryTypes
    <3>2. AuthTypes'
      BY <2>1 DEF AuthStart, AuthTypes, AuthPcs, AuthRequest
    <3> QED
      BY <3>1, <3>2 DEF TypeOK
  <2>2. CASE AuthLookup(r)
    <3>1. ScopeTypes' /\ CredentialTypes' /\ LeaseTypes' /\ ExecutionTypes' /\ ResumeTypes' /\ HistoryTypes'
      BY <2>2 DEF AuthLookup, ScopeTypes, CredentialTypes, LeaseTypes, ExecutionTypes,
          ResumeTypes, HistoryTypes
    <3>2. AuthTypes'
      BY <2>2 DEF AuthLookup, AuthTypes, AuthPcs
    <3> QED
      BY <3>1, <3>2 DEF TypeOK
  <2>3. CASE AuthConflict(r)
    <3>1. ScopeTypes' /\ CredentialTypes' /\ LeaseTypes' /\ ExecutionTypes' /\ ResumeTypes' /\ HistoryTypes'
      BY <2>3 DEF AuthConflict, ScopeTypes, CredentialTypes, LeaseTypes, ExecutionTypes,
          ResumeTypes, HistoryTypes
    <3>2. AuthTypes'
      BY <2>3 DEF AuthConflict, AuthTypes, AuthEnds, NoAuth, AuthPcs, AuthRequest
    <3> QED
      BY <3>1, <3>2 DEF TypeOK
  <2>4. CASE AuthRefused(r)
    <3>1. ScopeTypes' /\ CredentialTypes' /\ LeaseTypes' /\ ExecutionTypes' /\ ResumeTypes' /\ HistoryTypes'
      BY <2>4 DEF AuthRefused, ScopeTypes, CredentialTypes, LeaseTypes, ExecutionTypes,
          ResumeTypes, HistoryTypes
    <3>2. AuthTypes'
      BY <2>4 DEF AuthRefused, AuthTypes, AuthEnds, NoAuth, AuthPcs, AuthRequest
    <3> QED
      BY <3>1, <3>2 DEF TypeOK
  <2>5. CASE AuthCommit(r)
    <3>1. ScopeTypes' /\ CredentialTypes' /\ ResumeTypes' /\ HistoryTypes'
      BY <2>5 DEF AuthCommit, CreateExecution, ScopeTypes, CredentialTypes, ResumeTypes,
          HistoryTypes
    <3>2. LeaseTypes'
      BY <2>5 DEF AuthCommit, CreateExecution, LeaseTypes, AuthTypes, AuthRequest, Redeemable
    <3>3. ExecutionTypes'
      <4>1. state' \in [Requests -> ExecutionStates]
        BY <2>5 DEF AuthCommit, CreateExecution, ExecutionTypes, ExecutionStates
      <4>2. row' \in [Requests -> Row] /\ due' \in [Requests -> BOOLEAN]
        BY <2>5 DEF AuthCommit, CreateExecution, ExecutionTypes, Row, ScopeTypes,
            AuthTypes, AuthRequest
      <4>3. outcome' \in [Requests -> Classifications \cup {"none"}]
        BY <2>5 DEF AuthCommit, CreateExecution, ExecutionTypes, Classifications
      <4>4. approval' \in [Requests -> ApprovalStates]
        BY <2>5 DEF AuthCommit, CreateExecution, ExecutionTypes, ApprovalStates
      <4>5. audit' \in SUBSET (Events \X Requests)
        BY <2>5, AuditRow DEF AuthCommit, CreateExecution, ExecutionTypes, Events
      <4> QED
        BY <4>1, <4>2, <4>3, <4>4, <4>5 DEF ExecutionTypes
    <3>4. AuthTypes'
      <4>1. \/ authPc' = [authPc EXCEPT ![r] = "claimed"] /\ UNCHANGED authReq
            \/ authPc' = [authPc EXCEPT ![r] = "done"] /\ authReq' = [authReq EXCEPT ![r] = NoAuth]
        BY <2>5 DEF AuthCommit, CreateExecution, AuthEnds
      <4>2. NoAuth \in AuthRequest
        BY DEF NoAuth, AuthRequest
      <4> QED
        BY <4>1, <4>2 DEF AuthTypes, AuthPcs
    <3> QED
      BY <3>1, <3>2, <3>3, <3>4 DEF TypeOK
  <2>6. CASE AuthSeal(r)
    <3>1. ScopeTypes' /\ CredentialTypes' /\ LeaseTypes' /\ ExecutionTypes' /\ ResumeTypes'
      BY <2>6 DEF AuthSeal, ScopeTypes, CredentialTypes, LeaseTypes, ExecutionTypes, ResumeTypes
    <3>2. AuthTypes'
      BY <2>6 DEF AuthSeal, AuthTypes, AuthEnds, NoAuth, AuthPcs, AuthRequest
    <3>3. HistoryTypes'
      BY <2>6 DEF AuthSeal, HistoryTypes, Seal, Processes, AuthTypes, AuthRequest
    <3> QED
      BY <3>1, <3>2, <3>3 DEF TypeOK
  <2>7. CASE AuthSealThrows(r)
    <3>1. ScopeTypes' /\ CredentialTypes' /\ LeaseTypes' /\ ExecutionTypes' /\ ResumeTypes' /\ HistoryTypes'
      BY <2>7 DEF AuthSealThrows, ScopeTypes, CredentialTypes, LeaseTypes, ExecutionTypes,
          ResumeTypes, HistoryTypes
    <3>2. AuthTypes'
      BY <2>7 DEF AuthSealThrows, AuthTypes, AuthPcs
    <3> QED
      BY <3>1, <3>2 DEF TypeOK
  <2>8. CASE AuthFails(r)
    <3>1. ScopeTypes' /\ CredentialTypes' /\ LeaseTypes' /\ ResumeTypes'
      BY <2>8 DEF AuthFails, FailSealing, ScopeTypes, CredentialTypes, LeaseTypes, ResumeTypes
    <3>2. ExecutionTypes'
      <4>1. state' \in [Requests -> ExecutionStates]
        BY <2>8 DEF AuthFails, FailSealing, ExecutionTypes, ExecutionStates
      <4>2. row' \in [Requests -> Row] /\ due' \in [Requests -> BOOLEAN]
        BY <2>8 DEF AuthFails, FailSealing, ExecutionTypes
      <4>3. outcome' \in [Requests -> Classifications \cup {"none"}]
        BY <2>8 DEF AuthFails, FailSealing, ExecutionTypes, Classifications
      <4>4. approval' \in [Requests -> ApprovalStates]
        BY <2>8 DEF AuthFails, FailSealing, ExecutionTypes, ApprovalStates
      <4>5. audit' \in SUBSET (Events \X Requests)
        BY <2>8, AuditRow DEF AuthFails, FailSealing, ExecutionTypes, Events
      <4> QED
        BY <4>1, <4>2, <4>3, <4>4, <4>5 DEF ExecutionTypes
    <3>3. AuthTypes'
      BY <2>8 DEF AuthFails, FailSealing, AuthTypes, AuthEnds, NoAuth, AuthPcs, AuthRequest
    <3>4. HistoryTypes'
      BY <2>8 DEF AuthFails, FailSealing, HistoryTypes
    <3> QED
      BY <3>1, <3>2, <3>3, <3>4 DEF TypeOK
  <2>9. CASE AuthCrash(r)
    <3>1. ScopeTypes' /\ CredentialTypes' /\ LeaseTypes' /\ ExecutionTypes' /\ ResumeTypes' /\ HistoryTypes'
      BY <2>9 DEF AuthCrash, ScopeTypes, CredentialTypes, LeaseTypes, ExecutionTypes,
          ResumeTypes, HistoryTypes
    <3>2. AuthTypes'
      BY <2>9 DEF AuthCrash, AuthTypes, AuthEnds, NoAuth, AuthPcs, AuthRequest
    <3> QED
      BY <3>1, <3>2 DEF TypeOK
  <2> QED
    BY <1>1, <2>1, <2>2, <2>3, <2>4, <2>5, <2>6, <2>7, <2>8, <2>9 DEF AuthStep
<1>2. ASSUME NEW s \in Resumes, ResumeStep(s) PROVE TypeOK'
  <2>1. ASSUME NEW x \in Requests, NEW c \in Credentials, NEW same \in BOOLEAN, ResumeStart(s, x, c, same) PROVE TypeOK'
    <3>1. ScopeTypes' /\ CredentialTypes' /\ LeaseTypes' /\ ExecutionTypes' /\ AuthTypes' /\ HistoryTypes'
      BY <2>1 DEF ResumeStart, ScopeTypes, CredentialTypes, LeaseTypes, ExecutionTypes,
          AuthTypes, HistoryTypes
    <3>2. ResumeTypes'
      BY <2>1 DEF ResumeStart, ResumeTypes, ResumePcs, ResumeRequest
    <3> QED
      BY <3>1, <3>2 DEF TypeOK
  <2>2. CASE ResumeLock(s)
    <3>1. ScopeTypes' /\ LeaseTypes' /\ ExecutionTypes' /\ AuthTypes' /\ HistoryTypes'
      BY <2>2 DEF ResumeLock, ScopeTypes, LeaseTypes, ExecutionTypes, AuthTypes, HistoryTypes
    <3>2. CredentialTypes'
      BY <2>2 DEF ResumeLock, CredentialTypes, ResumeTypes, ResumeRequest
    <3>3. ResumeTypes'
      BY <2>2 DEF ResumeLock, ResumeTypes, ResumePcs
    <3> QED
      BY <3>1, <3>2, <3>3 DEF TypeOK
  <2>3. CASE ResumeBegin(s)
    <3>1. ScopeTypes' /\ CredentialTypes' /\ LeaseTypes' /\ ExecutionTypes' /\ AuthTypes' /\ HistoryTypes'
      BY <2>3 DEF ResumeBegin, ScopeTypes, CredentialTypes, LeaseTypes, ExecutionTypes,
          AuthTypes, HistoryTypes
    <3>2. ResumeTypes'
      BY <2>3 DEF ResumeBegin, ResumeTypes, ResumePcs, Snapshot, ScopeTypes, ExecutionTypes
    <3> QED
      BY <3>1, <3>2 DEF TypeOK
  <2>4. CASE ResumeNotFound(s)
    <3>1. ScopeTypes' /\ LeaseTypes' /\ ExecutionTypes' /\ AuthTypes' /\ HistoryTypes'
      BY <2>4 DEF ResumeNotFound, ScopeTypes, LeaseTypes, ExecutionTypes, AuthTypes,
          HistoryTypes
    <3>2. CredentialTypes'
      BY <2>4 DEF ResumeNotFound, CredentialTypes, ResumeEnds, Unlock
    <3>3. ResumeTypes'
      BY <2>4 DEF ResumeNotFound, ResumeTypes, ResumeEnds, NoResume, NoSnapshot,
          ResumePcs, ResumeRequest, Snapshot
    <3> QED
      BY <3>1, <3>2, <3>3 DEF TypeOK
  <2>5. CASE ResumeSettled(s)
    <3>1. ScopeTypes' /\ LeaseTypes' /\ ExecutionTypes' /\ AuthTypes' /\ HistoryTypes'
      BY <2>5 DEF ResumeSettled, ScopeTypes, LeaseTypes, ExecutionTypes, AuthTypes, HistoryTypes
    <3>2. CredentialTypes'
      BY <2>5 DEF ResumeSettled, CredentialTypes, ResumeEnds, Unlock
    <3>3. ResumeTypes'
      BY <2>5 DEF ResumeSettled, ResumeTypes, ResumeEnds, NoResume, NoSnapshot, ResumePcs,
          ResumeRequest, Snapshot
    <3> QED
      BY <3>1, <3>2, <3>3 DEF TypeOK
  <2>6. CASE ResumeExpired(s)
    <3>1. ScopeTypes' /\ LeaseTypes' /\ AuthTypes' /\ HistoryTypes'
      BY <2>6 DEF ResumeExpired, CloseApproval, ScopeTypes, LeaseTypes, AuthTypes, HistoryTypes
    <3>2. CredentialTypes'
      BY <2>6 DEF ResumeExpired, CloseApproval, CredentialTypes, ResumeEnds, Unlock
    <3>3. ResumeTypes'
      BY <2>6 DEF ResumeExpired, CloseApproval, ResumeTypes, ResumeEnds, NoResume,
          NoSnapshot, ResumePcs, ResumeRequest, Snapshot
    <3>4. ExecutionTypes'
      <4>1. state' \in [Requests -> ExecutionStates]
        BY <2>6 DEF ResumeExpired, CloseApproval, ExecutionTypes, ExecutionStates, ResumeTypes
      <4>2. row' \in [Requests -> Row] /\ due' \in [Requests -> BOOLEAN]
        BY <2>6 DEF ResumeExpired, CloseApproval, ExecutionTypes
      <4>3. outcome' \in [Requests -> Classifications \cup {"none"}]
        BY <2>6 DEF ResumeExpired, CloseApproval, ExecutionTypes, Classifications, ResumeTypes
      <4>4. approval' \in [Requests -> ApprovalStates]
        BY <2>6 DEF ResumeExpired, CloseApproval, ExecutionTypes, ApprovalStates, ResumeTypes
      <4>5. audit' \in SUBSET (Events \X Requests)
        BY <2>6, AuditRow DEF ResumeExpired, CloseApproval, ExecutionTypes, Events, ResumeTypes
      <4> QED
        BY <4>1, <4>2, <4>3, <4>4, <4>5 DEF ExecutionTypes
    <3> QED
      BY <3>1, <3>2, <3>3, <3>4 DEF TypeOK
  <2>7. CASE ResumeCancelled(s)
    <3>1. ScopeTypes' /\ LeaseTypes' /\ AuthTypes' /\ HistoryTypes'
      BY <2>7 DEF ResumeCancelled, CloseApproval, ScopeTypes, LeaseTypes, AuthTypes,
          HistoryTypes
    <3>2. CredentialTypes'
      BY <2>7 DEF ResumeCancelled, CloseApproval, CredentialTypes, ResumeEnds, Unlock
    <3>3. ResumeTypes'
      BY <2>7 DEF ResumeCancelled, CloseApproval, ResumeTypes, ResumeEnds, NoResume,
          NoSnapshot, ResumePcs, ResumeRequest, Snapshot
    <3>4. ExecutionTypes'
      <4>1. state' \in [Requests -> ExecutionStates]
        BY <2>7 DEF ResumeCancelled, CloseApproval, ExecutionTypes, ExecutionStates, ResumeTypes
      <4>2. row' \in [Requests -> Row] /\ due' \in [Requests -> BOOLEAN]
        BY <2>7 DEF ResumeCancelled, CloseApproval, ExecutionTypes
      <4>3. outcome' \in [Requests -> Classifications \cup {"none"}]
        BY <2>7 DEF ResumeCancelled, CloseApproval, ExecutionTypes, Classifications, ResumeTypes
      <4>4. approval' \in [Requests -> ApprovalStates]
        BY <2>7 DEF ResumeCancelled, CloseApproval, ExecutionTypes, ApprovalStates, ResumeTypes
      <4>5. audit' \in SUBSET (Events \X Requests)
        BY <2>7, AuditRow DEF ResumeCancelled, CloseApproval, ExecutionTypes, Events,
            ResumeTypes
      <4> QED
        BY <4>1, <4>2, <4>3, <4>4, <4>5 DEF ExecutionTypes
    <3> QED
      BY <3>1, <3>2, <3>3, <3>4 DEF TypeOK
  <2>8. CASE ResumeClaim(s)
    <3>1. ScopeTypes' /\ CredentialTypes' /\ LeaseTypes' /\ AuthTypes' /\ HistoryTypes'
      BY <2>8 DEF ResumeClaim, ScopeTypes, CredentialTypes, LeaseTypes, AuthTypes, HistoryTypes
    <3>2. ExecutionTypes'
      <4>1. state' \in [Requests -> ExecutionStates]
        BY <2>8 DEF ResumeClaim, ExecutionTypes, ExecutionStates, ResumeTypes
      <4>2. row' \in [Requests -> Row] /\ due' \in [Requests -> BOOLEAN]
        BY <2>8 DEF ResumeClaim, ExecutionTypes
      <4>3. outcome' \in [Requests -> Classifications \cup {"none"}]
        BY <2>8 DEF ResumeClaim, ExecutionTypes, Classifications, ResumeTypes
      <4>4. approval' \in [Requests -> ApprovalStates]
        BY <2>8 DEF ResumeClaim, ExecutionTypes, ApprovalStates, ResumeTypes
      <4>5. audit' \in SUBSET (Events \X Requests)
        BY <2>8, AuditRow DEF ResumeClaim, ExecutionTypes, Events, ResumeTypes
      <4> QED
        BY <4>1, <4>2, <4>3, <4>4, <4>5 DEF ExecutionTypes
    <3>3. ResumeTypes'
      BY <2>8 DEF ResumeClaim, ResumeTypes, ResumePcs
    <3> QED
      BY <3>1, <3>2, <3>3 DEF TypeOK
  <2>9. CASE ResumeSeal(s)
    <3>1. ScopeTypes' /\ LeaseTypes' /\ ExecutionTypes' /\ AuthTypes'
      BY <2>9 DEF ResumeSeal, ScopeTypes, LeaseTypes, ExecutionTypes, AuthTypes
    <3>2. CredentialTypes'
      BY <2>9 DEF ResumeSeal, CredentialTypes, ResumeEnds, Unlock
    <3>3. ResumeTypes'
      BY <2>9 DEF ResumeSeal, ResumeTypes, ResumeEnds, NoResume, NoSnapshot, ResumePcs,
          ResumeRequest, Snapshot
    <3>4. HistoryTypes'
      BY <2>9 DEF ResumeSeal, HistoryTypes, Seal, Processes, ResumeTypes, ResumeRequest
    <3> QED
      BY <3>1, <3>2, <3>3, <3>4 DEF TypeOK
  <2>10. CASE ResumeThrows(s)
    <3>1. ScopeTypes' /\ LeaseTypes' /\ ExecutionTypes' /\ AuthTypes' /\ HistoryTypes'
      BY <2>10 DEF ResumeThrows, ScopeTypes, LeaseTypes, ExecutionTypes, AuthTypes, HistoryTypes
    <3>2. CredentialTypes'
      BY <2>10 DEF ResumeThrows, CredentialTypes, Unlock
    <3>3. ResumeTypes'
      BY <2>10 DEF ResumeThrows, ResumeTypes, ResumePcs, NoSnapshot, Snapshot
    <3> QED
      BY <3>1, <3>2, <3>3 DEF TypeOK
  <2>11. CASE ResumeFails(s)
    <3>1. ScopeTypes' /\ LeaseTypes' /\ AuthTypes'
      BY <2>11 DEF ResumeFails, FailSealing, ScopeTypes, LeaseTypes, AuthTypes
    <3>2. CredentialTypes'
      BY <2>11 DEF ResumeFails, FailSealing, CredentialTypes, ResumeEnds, Unlock
    <3>3. ResumeTypes'
      BY <2>11 DEF ResumeFails, FailSealing, ResumeTypes, ResumeEnds, NoResume,
          NoSnapshot, ResumePcs, ResumeRequest, Snapshot
    <3>4. ExecutionTypes'
      <4>1. state' \in [Requests -> ExecutionStates]
        BY <2>11 DEF ResumeFails, FailSealing, ExecutionTypes, ExecutionStates, ResumeTypes
      <4>2. row' \in [Requests -> Row] /\ due' \in [Requests -> BOOLEAN]
        BY <2>11 DEF ResumeFails, FailSealing, ExecutionTypes
      <4>3. outcome' \in [Requests -> Classifications \cup {"none"}]
        BY <2>11 DEF ResumeFails, FailSealing, ExecutionTypes, Classifications, ResumeTypes
      <4>4. approval' \in [Requests -> ApprovalStates]
        BY <2>11 DEF ResumeFails, FailSealing, ExecutionTypes, ApprovalStates, ResumeTypes
      <4>5. audit' \in SUBSET (Events \X Requests)
        BY <2>11, AuditRow DEF ResumeFails, FailSealing, ExecutionTypes, Events, ResumeTypes
      <4> QED
        BY <4>1, <4>2, <4>3, <4>4, <4>5 DEF ExecutionTypes
    <3>5. HistoryTypes'
      BY <2>11 DEF ResumeFails, FailSealing, HistoryTypes, ResumeTypes
    <3> QED
      BY <3>1, <3>2, <3>3, <3>4, <3>5 DEF TypeOK
  <2>12. CASE ResumeCrash(s)
    <3>1. ScopeTypes' /\ LeaseTypes' /\ ExecutionTypes' /\ AuthTypes' /\ HistoryTypes'
      BY <2>12 DEF ResumeCrash, ScopeTypes, LeaseTypes, ExecutionTypes, AuthTypes, HistoryTypes
    <3>2. CredentialTypes'
      BY <2>12 DEF ResumeCrash, CredentialTypes, ResumeEnds, Unlock
    <3>3. ResumeTypes'
      BY <2>12 DEF ResumeCrash, ResumeTypes, ResumeEnds, NoResume, NoSnapshot, ResumePcs,
          ResumeRequest, Snapshot
    <3> QED
      BY <3>1, <3>2, <3>3 DEF TypeOK
  <2> QED
    BY <1>2, <2>1, <2>2, <2>3, <2>4, <2>5, <2>6, <2>7, <2>8, <2>9, <2>10, <2>11, <2>12
    DEF ResumeStep
<1>3. CASE AdminStep
  <2>1. ASSUME NEW x \in Requests, NEW v \in {"approve", "deny"}, Decide(x, v) PROVE TypeOK'
    <3>1. ScopeTypes' /\ CredentialTypes' /\ LeaseTypes' /\ AuthTypes' /\ ResumeTypes' /\ HistoryTypes'
      BY <2>1 DEF Decide, ScopeTypes, CredentialTypes, LeaseTypes, AuthTypes, ResumeTypes,
          HistoryTypes
    <3>2. ExecutionTypes'
      <4>1. state' \in [Requests -> ExecutionStates]
        BY <2>1 DEF Decide, ExecutionTypes, ExecutionStates
      <4>2. row' \in [Requests -> Row] /\ due' \in [Requests -> BOOLEAN]
        BY <2>1 DEF Decide, ExecutionTypes
      <4>3. outcome' \in [Requests -> Classifications \cup {"none"}]
        BY <2>1 DEF Decide, ExecutionTypes, Classifications
      <4>4. approval' \in [Requests -> ApprovalStates]
        BY <2>1 DEF Decide, ExecutionTypes, ApprovalStates
      <4>5. audit' \in SUBSET (Events \X Requests)
        BY <2>1, AuditRow DEF Decide, ExecutionTypes, Events
      <4> QED
        BY <4>1, <4>2, <4>3, <4>4, <4>5 DEF ExecutionTypes
    <3> QED
      BY <3>1, <3>2 DEF TypeOK
  <2>2. ASSUME NEW x \in Requests, DecideLate(x) PROVE TypeOK'
    <3>1. ScopeTypes' /\ CredentialTypes' /\ LeaseTypes' /\ AuthTypes' /\ ResumeTypes' /\ HistoryTypes'
      BY <2>2 DEF DecideLate, ScopeTypes, CredentialTypes, LeaseTypes, AuthTypes,
          ResumeTypes, HistoryTypes
    <3>2. ExecutionTypes'
      <4>1. state' \in [Requests -> ExecutionStates]
        BY <2>2 DEF DecideLate, ExecutionTypes, ExecutionStates
      <4>2. row' \in [Requests -> Row] /\ due' \in [Requests -> BOOLEAN]
        BY <2>2 DEF DecideLate, ExecutionTypes
      <4>3. outcome' \in [Requests -> Classifications \cup {"none"}]
        BY <2>2 DEF DecideLate, ExecutionTypes, Classifications
      <4>4. approval' \in [Requests -> ApprovalStates]
        BY <2>2 DEF DecideLate, ExecutionTypes, ApprovalStates
      <4>5. audit' \in SUBSET (Events \X Requests)
        BY <2>2, AuditRow DEF DecideLate, ExecutionTypes, Events
      <4> QED
        BY <4>1, <4>2, <4>3, <4>4, <4>5 DEF ExecutionTypes
    <3> QED
      BY <3>1, <3>2 DEF TypeOK
  <2>3. CASE Sweep
    <3>1. ScopeTypes' /\ CredentialTypes' /\ LeaseTypes' /\ AuthTypes' /\ ResumeTypes' /\ HistoryTypes'
      BY <2>3 DEF Sweep, ScopeTypes, CredentialTypes, LeaseTypes, AuthTypes, ResumeTypes,
          HistoryTypes
    <3>2. ExecutionTypes'
      <4>1. state' \in [Requests -> ExecutionStates]
        BY <2>3 DEF Sweep, ExecutionTypes, ExecutionStates
      <4>2. row' \in [Requests -> Row] /\ due' \in [Requests -> BOOLEAN]
        BY <2>3 DEF Sweep, ExecutionTypes
      <4>3. outcome' \in [Requests -> Classifications \cup {"none"}]
        BY <2>3 DEF Sweep, ExecutionTypes, Classifications
      <4>4. approval' \in [Requests -> ApprovalStates]
        BY <2>3 DEF Sweep, ExecutionTypes, ApprovalStates
      <4>5. audit' \in SUBSET (Events \X Requests)
        BY <2>3, AuditRow DEF Sweep, ExecutionTypes, Events
      <4> QED
        BY <4>1, <4>2, <4>3, <4>4, <4>5 DEF ExecutionTypes
    <3> QED
      BY <3>1, <3>2 DEF TypeOK
  <2>4. ASSUME NEW c \in Credentials, RevokeRequest(c) \/ Revoke(c) PROVE TypeOK'
    <3>1. ScopeTypes' /\ LeaseTypes' /\ ExecutionTypes' /\ AuthTypes' /\ ResumeTypes' /\ HistoryTypes'
      BY <2>4 DEF RevokeRequest, Revoke, ScopeTypes, LeaseTypes, ExecutionTypes,
          AuthTypes, ResumeTypes, HistoryTypes
    <3>2. CredentialTypes'
      BY <2>4 DEF RevokeRequest, Revoke, CredentialTypes
    <3> QED
      BY <3>1, <3>2 DEF TypeOK
  <2>5. ASSUME NEW b \in Credentials, NEW c \in Credentials, Rotate(b, c) PROVE TypeOK'
    <3>1. ScopeTypes' /\ LeaseTypes' /\ ExecutionTypes' /\ AuthTypes' /\ ResumeTypes' /\ HistoryTypes'
      BY <2>5 DEF Rotate, ScopeTypes, LeaseTypes, ExecutionTypes, AuthTypes, ResumeTypes,
          HistoryTypes
    <3>2. CredentialTypes'
      BY <2>5 DEF Rotate, CredentialTypes
    <3> QED
      BY <3>1, <3>2 DEF TypeOK
  <2>6. ASSUME NEW p \in Policies, PolicyChange(p) PROVE TypeOK'
    <3>1. CredentialTypes' /\ LeaseTypes' /\ ExecutionTypes' /\ AuthTypes' /\ ResumeTypes' /\ HistoryTypes'
      BY <2>6 DEF PolicyChange, CredentialTypes, LeaseTypes, ExecutionTypes, AuthTypes,
          ResumeTypes, HistoryTypes
    <3>2. ScopeTypes'
      BY <2>6 DEF PolicyChange, ScopeTypes
    <3> QED
      BY <3>1, <3>2 DEF TypeOK
  <2> QED
    BY <1>3, <2>1, <2>2, <2>3, <2>4, <2>5, <2>6 DEF AdminStep
<1>4. CASE WorldStep
  <2>1. ASSUME NEW l \in Leases, IssueLease(l) \/ LeaseExpires(l) PROVE TypeOK'
    <3>1. ScopeTypes' /\ CredentialTypes' /\ ExecutionTypes' /\ AuthTypes' /\ ResumeTypes' /\ HistoryTypes'
      BY <2>1 DEF IssueLease, LeaseExpires, ScopeTypes, CredentialTypes, ExecutionTypes,
          AuthTypes, ResumeTypes, HistoryTypes
    <3>2. LeaseTypes'
      BY <2>1 DEF IssueLease, LeaseExpires, LeaseTypes, ScopeTypes
    <3> QED
      BY <3>1, <3>2 DEF TypeOK
  <2>2. ASSUME NEW x \in Requests, NEW o \in Classifications, RecordOutcome(x, o) PROVE TypeOK'
    <3>1. ScopeTypes' /\ CredentialTypes' /\ LeaseTypes' /\ AuthTypes' /\ ResumeTypes' /\ HistoryTypes'
      BY <2>2 DEF RecordOutcome, ScopeTypes, CredentialTypes, LeaseTypes, AuthTypes,
          ResumeTypes, HistoryTypes
    <3>2. ExecutionTypes'
      <4>1. state' \in [Requests -> ExecutionStates]
        BY <2>2 DEF RecordOutcome, ExecutionTypes, ExecutionStates
      <4>2. row' \in [Requests -> Row] /\ due' \in [Requests -> BOOLEAN]
        BY <2>2 DEF RecordOutcome, ExecutionTypes
      <4>3. outcome' \in [Requests -> Classifications \cup {"none"}]
        BY <2>2 DEF RecordOutcome, ExecutionTypes, Classifications
      <4>4. approval' \in [Requests -> ApprovalStates]
        BY <2>2 DEF RecordOutcome, ExecutionTypes, ApprovalStates
      <4>5. audit' \in SUBSET (Events \X Requests)
        BY <2>2, AuditRow DEF RecordOutcome, ExecutionTypes, Events
      <4> QED
        BY <4>1, <4>2, <4>3, <4>4, <4>5 DEF ExecutionTypes
    <3> QED
      BY <3>1, <3>2 DEF TypeOK
  <2>3. ASSUME NEW p \in Principals \cup {Nobody}, PrincipalChange(p) PROVE TypeOK'
    <3>1. CredentialTypes' /\ LeaseTypes' /\ ExecutionTypes' /\ AuthTypes' /\ ResumeTypes' /\ HistoryTypes'
      BY <2>3 DEF PrincipalChange, CredentialTypes, LeaseTypes, ExecutionTypes, AuthTypes,
          ResumeTypes, HistoryTypes
    <3>2. ScopeTypes'
      BY <2>3 DEF PrincipalChange, ScopeTypes
    <3> QED
      BY <3>1, <3>2 DEF TypeOK
  <2>4. CASE ConnectionChange
    <3>1. CredentialTypes' /\ LeaseTypes' /\ ExecutionTypes' /\ AuthTypes' /\ ResumeTypes' /\ HistoryTypes'
      BY <2>4 DEF ConnectionChange, CredentialTypes, LeaseTypes, ExecutionTypes,
          AuthTypes, ResumeTypes, HistoryTypes
    <3>2. ScopeTypes'
      BY <2>4 DEF ConnectionChange, ScopeTypes
    <3> QED
      BY <3>1, <3>2 DEF TypeOK
  <2>5. ASSUME NEW x \in Requests, ApprovalDue(x) PROVE TypeOK'
    <3>1. ScopeTypes' /\ CredentialTypes' /\ LeaseTypes' /\ AuthTypes' /\ ResumeTypes' /\ HistoryTypes'
      BY <2>5 DEF ApprovalDue, ScopeTypes, CredentialTypes, LeaseTypes, AuthTypes,
          ResumeTypes, HistoryTypes
    <3>2. ExecutionTypes'
      BY <2>5 DEF ApprovalDue, ExecutionTypes
    <3> QED
      BY <3>1, <3>2 DEF TypeOK
  <2> QED
    BY <1>4, <2>1, <2>2, <2>3, <2>4, <2>5 DEF WorldStep
<1>5. CASE UNCHANGED vars
  BY <1>5 DEF vars, ScopeTypes, CredentialTypes, LeaseTypes, ExecutionTypes, AuthTypes,
             ResumeTypes, HistoryTypes
<1> QED
  BY <1>1, <1>2, <1>3, <1>4, <1>5 DEF Next

\* Every column, lock and request of the gateway keeps its type.
THEOREM TypeCorrect == Spec => []TypeOK
  BY TypeInit, TypeStep, PTL DEF Spec

-----------------------------------------------------------------------------
(* The two tables agree.  A redemption has no execution until it commits, so  *)
(* its insert finds no approval left over.                                    *)

TablesAgree == ApprovalMatchesExecution /\ FreshUntilCommit

\* No rows: the tables agree.
LEMMA TablesInit == Init => TablesAgree
  BY DEF Init, TablesAgree, ApprovalMatchesExecution, FreshUntilCommit, NoRow

\* Every statement that writes state or status keeps them in step.
LEMMA TablesStep == TypeOK /\ TablesAgree /\ [Next]_vars => TablesAgree'
<1> SUFFICES ASSUME TypeOK, TablesAgree, [Next]_vars PROVE TablesAgree'
  OBVIOUS
<1> USE DEF TablesAgree, ApprovalMatchesExecution, FreshUntilCommit, TypeOK,
    ExecutionTypes, AuthTypes,
           Claimed, Open, Awaiting
<1>1. ASSUME NEW r \in Requests, AuthStep(r) PROVE TablesAgree'
  <2>1. ASSUME NEW l \in Leases, NEW k \in Keys, NEW c \in Credentials, AuthStart(r, l, k, c) PROVE TablesAgree'
    BY <2>1 DEF AuthStart
  <2>2. CASE AuthLookup(r)
    BY <2>2 DEF AuthLookup
  <2>3. CASE AuthConflict(r)
    BY <2>3 DEF AuthConflict, AuthEnds
  <2>4. CASE AuthRefused(r)
    BY <2>4 DEF AuthRefused, AuthEnds
  <2>5. CASE AuthCommit(r)
    BY <2>5 DEF AuthCommit, CreateExecution, AuthEnds
  <2>6. CASE AuthSeal(r)
    BY <2>6 DEF AuthSeal, AuthEnds
  <2>7. CASE AuthSealThrows(r)
    BY <2>7 DEF AuthSealThrows
  <2>8. CASE AuthFails(r)
    BY <2>8 DEF AuthFails, FailSealing, AuthEnds
  <2>9. CASE AuthCrash(r)
    BY <2>9 DEF AuthCrash, AuthEnds
  <2> QED
    BY <1>1, <2>1, <2>2, <2>3, <2>4, <2>5, <2>6, <2>7, <2>8, <2>9 DEF AuthStep
<1>2. ASSUME NEW s \in Resumes, ResumeStep(s) PROVE TablesAgree'
  <2>1. ASSUME NEW x \in Requests, NEW c \in Credentials, NEW same \in BOOLEAN, ResumeStart(s, x, c, same) PROVE TablesAgree'
    BY <2>1 DEF ResumeStart
  <2>2. CASE ResumeLock(s)
    BY <2>2 DEF ResumeLock
  <2>3. CASE ResumeBegin(s)
    BY <2>3 DEF ResumeBegin
  <2>4. CASE ResumeNotFound(s)
    BY <2>4 DEF ResumeNotFound
  <2>5. CASE ResumeSettled(s)
    BY <2>5 DEF ResumeSettled
  <2>6. CASE ResumeExpired(s)
    BY <2>6 DEF ResumeExpired, CloseApproval, ResumeTypes
  <2>7. CASE ResumeCancelled(s)
    BY <2>7 DEF ResumeCancelled, CloseApproval, ResumeTypes
  <2>8. CASE ResumeClaim(s)
    BY <2>8 DEF ResumeClaim, Eligible, ResumeTypes
  <2>9. CASE ResumeSeal(s)
    BY <2>9 DEF ResumeSeal
  <2>10. CASE ResumeThrows(s)
    BY <2>10 DEF ResumeThrows
  <2>11. CASE ResumeFails(s)
    BY <2>11 DEF ResumeFails, FailSealing, ResumeTypes
  <2>12. CASE ResumeCrash(s)
    BY <2>12 DEF ResumeCrash
  <2> QED
    BY <1>2, <2>1, <2>2, <2>3, <2>4, <2>5, <2>6, <2>7, <2>8, <2>9, <2>10, <2>11, <2>12
    DEF ResumeStep
<1>3. CASE AdminStep
  <2>1. ASSUME NEW x \in Requests, NEW v \in {"approve", "deny"}, Decide(x, v) PROVE TablesAgree'
    BY <2>1 DEF Decide
  <2>2. ASSUME NEW x \in Requests, DecideLate(x) PROVE TablesAgree'
    BY <2>2 DEF DecideLate
  <2>3. CASE Sweep
    BY <2>3 DEF Sweep
  <2>4. ASSUME NEW c \in Credentials, RevokeRequest(c) \/ Revoke(c) PROVE TablesAgree'
    BY <2>4 DEF RevokeRequest, Revoke
  <2>5. ASSUME NEW b \in Credentials, NEW c \in Credentials, Rotate(b, c) PROVE TablesAgree'
    BY <2>5 DEF Rotate
  <2>6. ASSUME NEW p \in Policies, PolicyChange(p) PROVE TablesAgree'
    BY <2>6 DEF PolicyChange
  <2> QED
    BY <1>3, <2>1, <2>2, <2>3, <2>4, <2>5, <2>6 DEF AdminStep
<1>4. CASE WorldStep
  <2>1. ASSUME NEW l \in Leases, IssueLease(l) \/ LeaseExpires(l) PROVE TablesAgree'
    BY <2>1 DEF IssueLease, LeaseExpires
  <2>2. ASSUME NEW x \in Requests, NEW o \in Classifications, RecordOutcome(x, o) PROVE TablesAgree'
    BY <2>2 DEF RecordOutcome, OutcomeMove, FailureClasses
  <2>3. ASSUME NEW p \in Principals \cup {Nobody}, PrincipalChange(p) PROVE TablesAgree'
    BY <2>3 DEF PrincipalChange
  <2>4. CASE ConnectionChange
    BY <2>4 DEF ConnectionChange
  <2>5. ASSUME NEW x \in Requests, ApprovalDue(x) PROVE TablesAgree'
    BY <2>5 DEF ApprovalDue
  <2> QED
    BY <1>4, <2>1, <2>2, <2>3, <2>4, <2>5 DEF WorldStep
<1>5. CASE UNCHANGED vars
  BY <1>5 DEF vars
<1> QED
  BY <1>1, <1>2, <1>3, <1>4, <1>5 DEF Next

\* state and status never disagree: the tables are kept together by the statements.
THEOREM TablesCorrect == Spec => []ApprovalMatchesExecution
<1>1. TablesAgree => ApprovalMatchesExecution
  BY DEF TablesAgree
<1> QED
  BY <1>1, TypeInit, TypeStep, TablesInit, TablesStep, PTL DEF Spec

-----------------------------------------------------------------------------
(* The session lock.  Locks are taken one at a time and given up by their own   *)
(* holder only, so the credential of a winner is not revoked before it seals.   *)

\* No request runs, no lock is due.
LEMMA LockInit == Init => WinnerHoldsLock
  BY DEF Init, WinnerHoldsLock

\* A request that ends or fails gives up its own lock and disturbs no other.
LEMMA LeavingKeepsLocks ==
  ASSUME TypeOK, WinnerHoldsLock, NEW s \in Resumes, NEW p \in {"failing", "done"},
         resumePc' = [resumePc EXCEPT ![s] = p], Unlock(s), credential' = credential,
         \A t \in Resumes \ {s} : resumeReq'[t] = resumeReq[t]
  PROVE  WinnerHoldsLock'
<1>1. \A t \in Resumes : resumeReq[t].cred \in Credentials
  BY DEF TypeOK, ResumeTypes, ResumeRequest
<1>2. resumePc'[s] = p /\ \A t \in Resumes \ {s} : resumePc'[t] = resumePc[t]
  BY DEF TypeOK, ResumeTypes
<1>3. ASSUME NEW t \in Resumes, resumePc'[t] \in {"locked", "begun", "claimed"}
      PROVE  /\ advisory'[resumeReq'[t].cred] = t
             /\ resumePc'[t] = "claimed" => credential'[resumeReq'[t].cred] = "active"
  <2>1. t # s /\ resumePc[t] = resumePc'[t] /\ resumeReq'[t] = resumeReq[t]
    BY <1>2, <1>3
  <2>2. advisory[resumeReq[t].cred] = t
    BY <1>3, <2>1 DEF WinnerHoldsLock
  <2>3. advisory'[resumeReq[t].cred] = t
    BY <1>1, <2>1, <2>2 DEF Unlock
  <2> QED
    BY <1>3, <2>1, <2>3 DEF WinnerHoldsLock
<1> QED
  BY <1>3 DEF WinnerHoldsLock

\* Every step leaves each running resume request its lock.
LEMMA LockStep == TypeOK /\ WinnerHoldsLock /\ [Next]_vars => WinnerHoldsLock'
<1> SUFFICES ASSUME TypeOK, WinnerHoldsLock, [Next]_vars PROVE WinnerHoldsLock'
  OBVIOUS
<1> USE DEF TypeOK, WinnerHoldsLock, CredentialTypes, ResumeTypes
<1>1. ASSUME NEW r \in Requests, AuthStep(r) PROVE WinnerHoldsLock'
  <2>1. ASSUME NEW l \in Leases, NEW k \in Keys, NEW c \in Credentials, AuthStart(r, l, k, c) PROVE WinnerHoldsLock'
    BY <2>1 DEF AuthStart
  <2>2. CASE AuthLookup(r)
    BY <2>2 DEF AuthLookup
  <2>3. CASE AuthConflict(r)
    BY <2>3 DEF AuthConflict, AuthEnds
  <2>4. CASE AuthRefused(r)
    BY <2>4 DEF AuthRefused, AuthEnds
  <2>5. CASE AuthCommit(r)
    BY <2>5 DEF AuthCommit, CreateExecution, AuthEnds
  <2>6. CASE AuthSeal(r)
    BY <2>6 DEF AuthSeal, AuthEnds
  <2>7. CASE AuthSealThrows(r)
    BY <2>7 DEF AuthSealThrows
  <2>8. CASE AuthFails(r)
    BY <2>8 DEF AuthFails, FailSealing, AuthEnds
  <2>9. CASE AuthCrash(r)
    BY <2>9 DEF AuthCrash, AuthEnds
  <2> QED
    BY <1>1, <2>1, <2>2, <2>3, <2>4, <2>5, <2>6, <2>7, <2>8, <2>9 DEF AuthStep
<1>2. ASSUME NEW s \in Resumes, ResumeStep(s) PROVE WinnerHoldsLock'
  <2>1. ASSUME NEW x \in Requests, NEW c \in Credentials, NEW same \in BOOLEAN, ResumeStart(s, x, c, same) PROVE WinnerHoldsLock'
    BY <2>1 DEF ResumeStart
  <2>2. CASE ResumeLock(s)
    BY <2>2, ConstantsAssumption DEF ResumeLock, ResumeRequest
  <2>3. CASE ResumeBegin(s)
    BY <2>3 DEF ResumeBegin
  <2>4. CASE ResumeNotFound(s)
    BY <2>4, LeavingKeepsLocks DEF ResumeNotFound, ResumeEnds
  <2>5. CASE ResumeSettled(s)
    BY <2>5, LeavingKeepsLocks DEF ResumeSettled, ResumeEnds
  <2>6. CASE ResumeExpired(s)
    BY <2>6, LeavingKeepsLocks DEF ResumeExpired, CloseApproval, ResumeEnds
  <2>7. CASE ResumeCancelled(s)
    BY <2>7, LeavingKeepsLocks DEF ResumeCancelled, CloseApproval, ResumeEnds
  <2>8. CASE ResumeClaim(s)
    BY <2>8 DEF ResumeClaim, Eligible
  <2>9. CASE ResumeSeal(s)
    BY <2>9, LeavingKeepsLocks DEF ResumeSeal, ResumeEnds
  <2>10. CASE ResumeThrows(s)
    BY <2>10, LeavingKeepsLocks DEF ResumeThrows
  <2>11. CASE ResumeFails(s)
    BY <2>11, LeavingKeepsLocks DEF ResumeFails, FailSealing, ResumeEnds
  <2>12. CASE ResumeCrash(s)
    BY <2>12, LeavingKeepsLocks DEF ResumeCrash, ResumeEnds
  <2> QED
    BY <1>2, <2>1, <2>2, <2>3, <2>4, <2>5, <2>6, <2>7, <2>8, <2>9, <2>10, <2>11, <2>12
    DEF ResumeStep
<1>3. CASE AdminStep
  <2>1. ASSUME NEW x \in Requests, NEW v \in {"approve", "deny"}, Decide(x, v) PROVE WinnerHoldsLock'
    BY <2>1 DEF Decide
  <2>2. ASSUME NEW x \in Requests, DecideLate(x) PROVE WinnerHoldsLock'
    BY <2>2 DEF DecideLate
  <2>3. CASE Sweep
    BY <2>3 DEF Sweep
  <2>4. ASSUME NEW c \in Credentials, RevokeRequest(c) PROVE WinnerHoldsLock'
    BY <2>4 DEF RevokeRequest
  <2>5. ASSUME NEW c \in Credentials, Revoke(c) PROVE WinnerHoldsLock'
    BY <2>5, ConstantsAssumption DEF Revoke, ResumeRequest
  <2>6. ASSUME NEW b \in Credentials, NEW c \in Credentials, Rotate(b, c) PROVE WinnerHoldsLock'
    BY <2>6 DEF Rotate
  <2>7. ASSUME NEW p \in Policies, PolicyChange(p) PROVE WinnerHoldsLock'
    BY <2>7 DEF PolicyChange
  <2> QED
    BY <1>3, <2>1, <2>2, <2>3, <2>4, <2>5, <2>6, <2>7 DEF AdminStep
<1>4. CASE WorldStep
  <2>1. ASSUME NEW l \in Leases, IssueLease(l) \/ LeaseExpires(l) PROVE WinnerHoldsLock'
    BY <2>1 DEF IssueLease, LeaseExpires
  <2>2. ASSUME NEW x \in Requests, NEW o \in Classifications, RecordOutcome(x, o) PROVE WinnerHoldsLock'
    BY <2>2 DEF RecordOutcome, OutcomeMove, FailureClasses
  <2>3. ASSUME NEW p \in Principals \cup {Nobody}, PrincipalChange(p) PROVE WinnerHoldsLock'
    BY <2>3 DEF PrincipalChange
  <2>4. CASE ConnectionChange
    BY <2>4 DEF ConnectionChange
  <2>5. ASSUME NEW x \in Requests, ApprovalDue(x) PROVE WinnerHoldsLock'
    BY <2>5 DEF ApprovalDue
  <2> QED
    BY <1>4, <2>1, <2>2, <2>3, <2>4, <2>5 DEF WorldStep
<1>5. CASE UNCHANGED vars
  BY <1>5 DEF vars
<1> QED
  BY <1>1, <1>2, <1>3, <1>4, <1>5 DEF Next

-----------------------------------------------------------------------------
(* Custody.  The phases of the requests say who may still seal an execution.    *)

\* Nothing is claimed or sealed.
LEMMA CustodyInit == Init => SoleCustodian
  BY DEF Init, SoleCustodian, FreshUntilCommit, RedeemerIsSole, WinnerIsSole, SealsAreOwn

\* No step makes a second custodian of an execution.
LEMMA CustodyStep == TypeOK /\ TablesAgree /\ SoleCustodian /\ [Next]_vars => SoleCustodian'
<1> SUFFICES ASSUME TypeOK, TablesAgree, SoleCustodian, [Next]_vars PROVE SoleCustodian'
  OBVIOUS
<1> USE DEF TypeOK, TablesAgree, ApprovalMatchesExecution, SoleCustodian,
    FreshUntilCommit, RedeemerIsSole, WinnerIsSole, SealsAreOwn, ExecutionTypes, AuthTypes,
    ResumeTypes, Claimed, Awaiting, Open
<1>0. \A d \in sealed : d.exec \in Requests
  BY DEF TypeOK, HistoryTypes, Seal
<1>1. ASSUME NEW r \in Requests, AuthStep(r) PROVE SoleCustodian'
  <2>1. ASSUME NEW l \in Leases, NEW k \in Keys, NEW c \in Credentials, AuthStart(r, l, k, c) PROVE SoleCustodian'
    BY <2>1 DEF AuthStart
  <2>2. CASE AuthLookup(r)
    BY <2>2 DEF AuthLookup
  <2>3. CASE AuthConflict(r)
    BY <2>3 DEF AuthConflict, AuthEnds
  <2>4. CASE AuthRefused(r)
    BY <2>4 DEF AuthRefused, AuthEnds
  <2>5. CASE AuthCommit(r)
    <3>1. FreshUntilCommit'
      BY <2>5 DEF AuthCommit, CreateExecution, AuthEnds
    <3>2. RedeemerIsSole'
      BY <2>5 DEF AuthCommit, CreateExecution, AuthEnds
    <3>3. WinnerIsSole'
      BY <2>5 DEF AuthCommit, CreateExecution, AuthEnds
    <3>4. SealsAreOwn'
      BY <1>0, <2>5 DEF AuthCommit, CreateExecution, AuthEnds
    <3> QED
      BY <3>1, <3>2, <3>3, <3>4
  <2>6. CASE AuthSeal(r)
    BY <2>6, ConstantsAssumption DEF AuthSeal, AuthEnds
  <2>7. CASE AuthSealThrows(r)
    BY <2>7 DEF AuthSealThrows
  <2>8. CASE AuthFails(r)
    <3>1. FreshUntilCommit'
      BY <2>8 DEF AuthFails, FailSealing, AuthEnds
    <3>2. RedeemerIsSole'
      BY <2>8 DEF AuthFails, FailSealing, AuthEnds
    <3>3. WinnerIsSole'
      BY <2>8 DEF AuthFails, FailSealing, AuthEnds
    <3>4. SealsAreOwn'
      BY <1>0, <2>8 DEF AuthFails, FailSealing, AuthEnds
    <3> QED
      BY <3>1, <3>2, <3>3, <3>4
  <2>9. CASE AuthCrash(r)
    BY <2>9 DEF AuthCrash, AuthEnds
  <2> QED
    BY <1>1, <2>1, <2>2, <2>3, <2>4, <2>5, <2>6, <2>7, <2>8, <2>9 DEF AuthStep
<1>2. ASSUME NEW s \in Resumes, ResumeStep(s) PROVE SoleCustodian'
  <2>1. ASSUME NEW x \in Requests, NEW c \in Credentials, NEW same \in BOOLEAN, ResumeStart(s, x, c, same) PROVE SoleCustodian'
    BY <2>1 DEF ResumeStart
  <2>2. CASE ResumeLock(s)
    BY <2>2 DEF ResumeLock
  <2>3. CASE ResumeBegin(s)
    BY <2>3 DEF ResumeBegin
  <2>4. CASE ResumeNotFound(s)
    BY <2>4 DEF ResumeNotFound, ResumeEnds
  <2>5. CASE ResumeSettled(s)
    BY <2>5 DEF ResumeSettled, ResumeEnds
  <2>6. CASE ResumeExpired(s)
    BY <2>6 DEF ResumeExpired, CloseApproval, ResumeEnds
  <2>7. CASE ResumeCancelled(s)
    BY <2>7 DEF ResumeCancelled, CloseApproval, ResumeEnds
  <2>8. CASE ResumeClaim(s)
    BY <2>8 DEF ResumeClaim, Eligible
  <2>9. CASE ResumeSeal(s)
    BY <2>9, ConstantsAssumption DEF ResumeSeal, ResumeEnds
  <2>10. CASE ResumeThrows(s)
    BY <2>10 DEF ResumeThrows
  <2>11. CASE ResumeFails(s)
    <3>1. FreshUntilCommit'
      BY <2>11 DEF ResumeFails, FailSealing, ResumeEnds
    <3>2. RedeemerIsSole'
      BY <2>11 DEF ResumeFails, FailSealing, ResumeEnds
    <3>3. WinnerIsSole'
      BY <2>11 DEF ResumeFails, FailSealing, ResumeEnds
    <3>4. SealsAreOwn'
      BY <1>0, <2>11 DEF ResumeFails, FailSealing, ResumeEnds
    <3> QED
      BY <3>1, <3>2, <3>3, <3>4
  <2>12. CASE ResumeCrash(s)
    BY <2>12 DEF ResumeCrash, ResumeEnds
  <2> QED
    BY <1>2, <2>1, <2>2, <2>3, <2>4, <2>5, <2>6, <2>7, <2>8, <2>9, <2>10, <2>11, <2>12
    DEF ResumeStep
<1>3. CASE AdminStep
  <2>1. ASSUME NEW x \in Requests, NEW v \in {"approve", "deny"}, Decide(x, v) PROVE SoleCustodian'
    <3>1. FreshUntilCommit'
      BY <2>1 DEF Decide
    <3>2. RedeemerIsSole'
      BY <2>1 DEF Decide
    <3>3. WinnerIsSole'
      BY <2>1 DEF Decide
    <3>4. SealsAreOwn'
      BY <1>0, <2>1 DEF Decide
    <3> QED
      BY <3>1, <3>2, <3>3, <3>4
  <2>2. ASSUME NEW x \in Requests, DecideLate(x) PROVE SoleCustodian'
    <3>1. FreshUntilCommit'
      BY <2>2 DEF DecideLate
    <3>2. RedeemerIsSole'
      BY <2>2 DEF DecideLate
    <3>3. WinnerIsSole'
      BY <2>2 DEF DecideLate
    <3>4. SealsAreOwn'
      BY <1>0, <2>2 DEF DecideLate
    <3> QED
      BY <3>1, <3>2, <3>3, <3>4
  <2>3. CASE Sweep
    <3>1. FreshUntilCommit'
      BY <2>3 DEF Sweep
    <3>2. RedeemerIsSole'
      BY <2>3 DEF Sweep
    <3>3. WinnerIsSole'
      BY <2>3 DEF Sweep
    <3>4. SealsAreOwn'
      BY <1>0, <2>3 DEF Sweep
    <3> QED
      BY <3>1, <3>2, <3>3, <3>4
  <2>4. ASSUME NEW c \in Credentials, RevokeRequest(c) PROVE SoleCustodian'
    BY <2>4 DEF RevokeRequest
  <2>5. ASSUME NEW c \in Credentials, Revoke(c) PROVE SoleCustodian'
    BY <2>5 DEF Revoke
  <2>6. ASSUME NEW b \in Credentials, NEW c \in Credentials, Rotate(b, c) PROVE SoleCustodian'
    BY <2>6 DEF Rotate
  <2>7. ASSUME NEW p \in Policies, PolicyChange(p) PROVE SoleCustodian'
    BY <2>7 DEF PolicyChange
  <2> QED
    BY <1>3, <2>1, <2>2, <2>3, <2>4, <2>5, <2>6, <2>7 DEF AdminStep
<1>4. CASE WorldStep
  <2>1. ASSUME NEW l \in Leases, IssueLease(l) \/ LeaseExpires(l) PROVE SoleCustodian'
    BY <2>1 DEF IssueLease, LeaseExpires
  <2>2. ASSUME NEW x \in Requests, NEW o \in Classifications, RecordOutcome(x, o) PROVE SoleCustodian'
    BY <2>2 DEF RecordOutcome, OutcomeMove, FailureClasses
  <2>3. ASSUME NEW p \in Principals \cup {Nobody}, PrincipalChange(p) PROVE SoleCustodian'
    BY <2>3 DEF PrincipalChange
  <2>4. CASE ConnectionChange
    BY <2>4 DEF ConnectionChange
  <2>5. ASSUME NEW x \in Requests, ApprovalDue(x) PROVE SoleCustodian'
    BY <2>5 DEF ApprovalDue
  <2> QED
    BY <1>4, <2>1, <2>2, <2>3, <2>4, <2>5 DEF WorldStep
<1>5. CASE UNCHANGED vars
  BY <1>5 DEF vars
<1> QED
  BY <1>1, <1>2, <1>3, <1>4, <1>5 DEF Next

-----------------------------------------------------------------------------
(* What the locks and the custody give. *)

\* Only the two sealing actions hand anything out.
LEMMA OnlySealsHand ==
  [Next]_vars => \/ sealed' = sealed
                 \/ \E r \in Requests : AuthSeal(r)
                 \/ \E s \in Resumes : ResumeSeal(s)
<1> SUFFICES ASSUME [Next]_vars
             PROVE  \/ sealed' = sealed
                    \/ \E r \in Requests : AuthSeal(r)
                    \/ \E s \in Resumes : ResumeSeal(s)
  OBVIOUS
<1>1. ASSUME NEW r \in Requests, AuthStep(r) PROVE sealed' = sealed \/ AuthSeal(r)
  BY <1>1 DEF AuthStep, AuthStart, AuthLookup, AuthConflict, AuthRefused, AuthCommit,
              CreateExecution, AuthSealThrows, AuthFails, AuthCrash
<1>2. ASSUME NEW s \in Resumes, ResumeStep(s) PROVE sealed' = sealed \/ ResumeSeal(s)
  BY <1>2 DEF ResumeStep, ResumeStart, ResumeLock, ResumeBegin, ResumeNotFound,
              ResumeSettled, ResumeExpired, ResumeCancelled, ResumeClaim, ResumeThrows,
              ResumeFails, ResumeCrash
<1>3. AdminStep => sealed' = sealed
  BY DEF AdminStep, Decide, DecideLate, Sweep, RevokeRequest, Revoke, Rotate, PolicyChange
<1>4. WorldStep => sealed' = sealed
  BY DEF WorldStep, IssueLease, LeaseExpires, RecordOutcome, PrincipalChange,
         ConnectionChange, ApprovalDue
<1> QED
  BY <1>1, <1>2, <1>3, <1>4 DEF Next, vars

\* A sole custodian is the only one who can hand out the credential.
LEMMA DeliveryStep == SoleCustodian /\ OneDelivery /\ [Next]_vars => OneDelivery'
<1> SUFFICES ASSUME SoleCustodian, OneDelivery, [Next]_vars PROVE OneDelivery'
  OBVIOUS
<1>1. CASE sealed' = sealed
  BY <1>1 DEF OneDelivery
<1>2. ASSUME NEW r \in Requests, AuthSeal(r) PROVE OneDelivery'
  BY <1>2 DEF AuthSeal, OneDelivery, SoleCustodian, RedeemerIsSole
<1>3. ASSUME NEW s \in Resumes, ResumeSeal(s) PROVE OneDelivery'
  BY <1>3 DEF ResumeSeal, OneDelivery, SoleCustodian, WinnerIsSole
<1> QED
  BY <1>1, <1>2, <1>3, OnlySealsHand

\* No retry, no second resume request and no redemption is handed the credential of
\* an execution again, whatever fails or races.
THEOREM DeliveredOnce == Spec => []OneDelivery
<1>1. Init => OneDelivery
  BY DEF Init, OneDelivery
<1> QED
  BY <1>1, TypeInit, TypeStep, TablesInit, TablesStep, CustodyInit, CustodyStep,
     DeliveryStep, PTL DEF Spec

\* Of all the requests in flight one at most may still seal.
THEOREM OneCustodian == Spec => []SoleCustodian
  BY TypeInit, TypeStep, TablesInit, TablesStep, CustodyInit, CustodyStep, PTL DEF Spec

\* The session lock lasts from the claim to the seal, and the credential with it.
THEOREM LockHeld == Spec => []WinnerHoldsLock
  BY TypeInit, TypeStep, LockInit, LockStep, PTL DEF Spec

\* No resume request seals under a credential whose revocation has committed.
THEOREM RevocationRespected == Spec => ResumeSealsBeforeRevocation
<1>1. WinnerHoldsLock /\ [Next]_vars
      => [\A d \in sealed' \ sealed : d.by \in Resumes =>
            credential[d.cred] = "active" /\ credential'[d.cred] = "active"]_vars
  <2> SUFFICES ASSUME WinnerHoldsLock, [Next]_vars, NEW d \in sealed' \ sealed,
                      d.by \in Resumes
               PROVE  credential[d.cred] = "active" /\ credential'[d.cred] = "active"
    OBVIOUS
  <2>1. ASSUME NEW r \in Requests, AuthSeal(r) PROVE FALSE
    BY <2>1, ConstantsAssumption DEF AuthSeal
  <2>2. ASSUME NEW s \in Resumes, ResumeSeal(s)
        PROVE  credential[d.cred] = "active" /\ credential'[d.cred] = "active"
    BY <2>2 DEF ResumeSeal, WinnerHoldsLock
  <2> QED
    BY <2>1, <2>2, OnlySealsHand
<1> QED
  BY <1>1, TypeInit, TypeStep, LockInit, LockStep, PTL
  DEF Spec, ResumeSealsBeforeRevocation

-----------------------------------------------------------------------------
(* Which steps write the execution tables.                                     *)

\* Every statement that writes gateway_executions, gateway_approvals or their audit.
Writes ==
  \/ \E r \in Requests : AuthCommit(r) \/ AuthFails(r)
  \/ \E s \in Resumes : ResumeExpired(s) \/ ResumeCancelled(s) \/ ResumeClaim(s)
                        \/ ResumeFails(s)
  \/ \E x \in Requests, v \in {"approve", "deny"} : Decide(x, v)
  \/ \E x \in Requests : DecideLate(x)
  \/ Sweep
  \/ \E x \in Requests, o \in Classifications : RecordOutcome(x, o)

Written == <<state, row, outcome, approval, audit>>

\* Every other step leaves the tables as they are.
LEMMA OnlyWritesWrite == [Next]_vars => Writes \/ UNCHANGED Written
<1> SUFFICES ASSUME [Next]_vars PROVE Writes \/ UNCHANGED Written
  OBVIOUS
<1> USE DEF Written
<1>1. ASSUME NEW r \in Requests, AuthStep(r) PROVE Writes \/ UNCHANGED Written
  BY <1>1 DEF Writes, AuthStep, AuthStart, AuthLookup, AuthConflict, AuthRefused, AuthSeal,
              AuthSealThrows, AuthCrash
<1>2. ASSUME NEW s \in Resumes, ResumeStep(s) PROVE Writes \/ UNCHANGED Written
  BY <1>2 DEF Writes, ResumeStep, ResumeStart, ResumeLock, ResumeBegin, ResumeNotFound,
              ResumeSettled, ResumeSeal, ResumeThrows, ResumeCrash
<1>3. AdminStep => Writes \/ UNCHANGED Written
  BY DEF Writes, AdminStep, RevokeRequest, Revoke, Rotate, PolicyChange
<1>4. WorldStep => Writes \/ UNCHANGED Written
  BY DEF Writes, WorldStep, IssueLease, LeaseExpires, PrincipalChange, ConnectionChange,
         ApprovalDue
<1> QED
  BY <1>1, <1>2, <1>3, <1>4 DEF Next, vars

\* Only a redemption inserts an execution, and nothing rewrites its columns.
LEMMA OnlyCommitInserts ==
  ASSUME TypeOK, TablesAgree, [Next]_vars, ~ \E r \in Requests : AuthCommit(r)
  PROVE  /\ row' = row
         /\ \A x \in Requests : state'[x] = "none" <=> state[x] = "none"
<1> USE DEF TypeOK, ExecutionTypes, TablesAgree, ApprovalMatchesExecution, ResumeTypes, Awaiting,
        Open, Claimed
<1>1. CASE UNCHANGED Written
  BY <1>1 DEF Written
<1>2. ASSUME NEW r \in Requests, AuthFails(r) PROVE row' = row
        /\ \A x \in Requests : state'[x] = "none" <=> state[x] = "none"
  BY <1>2 DEF AuthFails, FailSealing
<1>3. ASSUME NEW s \in Resumes, ResumeExpired(s) \/ ResumeCancelled(s) PROVE row' = row
        /\ \A x \in Requests : state'[x] = "none" <=> state[x] = "none"
  BY <1>3 DEF ResumeExpired, ResumeCancelled, CloseApproval
<1>4. ASSUME NEW s \in Resumes, ResumeClaim(s) PROVE row' = row
        /\ \A x \in Requests : state'[x] = "none" <=> state[x] = "none"
  BY <1>4 DEF ResumeClaim, Eligible
<1>5. ASSUME NEW s \in Resumes, ResumeFails(s) PROVE row' = row
        /\ \A x \in Requests : state'[x] = "none" <=> state[x] = "none"
  BY <1>5 DEF ResumeFails, FailSealing
<1>6. ASSUME NEW z \in Requests, NEW v \in {"approve", "deny"}, Decide(z, v) PROVE row' = row
        /\ \A x \in Requests : state'[x] = "none" <=> state[x] = "none"
  BY <1>6 DEF Decide
<1>7. ASSUME NEW z \in Requests, DecideLate(z) PROVE row' = row
        /\ \A x \in Requests : state'[x] = "none" <=> state[x] = "none"
  BY <1>7 DEF DecideLate
<1>8. CASE Sweep
  BY <1>8 DEF Sweep
<1>9. ASSUME NEW z \in Requests, NEW o \in Classifications, RecordOutcome(z, o) PROVE row' = row
        /\ \A x \in Requests : state'[x] = "none" <=> state[x] = "none"
  BY <1>9 DEF RecordOutcome, OutcomeMove, FailureClasses
<1> QED
  BY <1>1, <1>2, <1>3, <1>4, <1>5, <1>6, <1>7, <1>8, <1>9, OnlyWritesWrite DEF Writes

\* Leases are issued once, and consumed by a redemption that commits.
LEMMA LeasesMove ==
  ASSUME TypeOK, [Next]_vars
  PROVE  /\ \/ consumed' = consumed
            \/ \E r \in Requests : AuthCommit(r)
         /\ \A l \in Leases : issued[l] # Nobody => issued'[l] = issued[l]
<1> USE DEF TypeOK, LeaseTypes
<1> DEFINE Kept == /\ consumed' = consumed \/ \E r \in Requests : AuthCommit(r)
                   /\ \A l \in Leases : issued[l] # Nobody => issued'[l] = issued[l]
<1>1. ASSUME NEW r \in Requests, AuthStep(r) PROVE Kept
  BY <1>1 DEF AuthStep, AuthStart, AuthLookup, AuthConflict, AuthRefused, AuthCommit,
              CreateExecution, AuthSeal, AuthSealThrows, AuthFails, AuthCrash
<1>2. ASSUME NEW s \in Resumes, ResumeStep(s) PROVE Kept
  BY <1>2 DEF ResumeStep, ResumeStart, ResumeLock, ResumeBegin, ResumeNotFound,
              ResumeSettled, ResumeExpired, ResumeCancelled, ResumeClaim, ResumeSeal,
              ResumeThrows, ResumeFails, ResumeCrash
<1>3. AdminStep => Kept
  BY DEF AdminStep, Decide, DecideLate, Sweep, RevokeRequest, Revoke, Rotate, PolicyChange
<1>4. WorldStep => Kept
  BY DEF WorldStep, IssueLease, LeaseExpires, RecordOutcome, PrincipalChange,
         ConnectionChange, ApprovalDue
<1> QED
  BY <1>1, <1>2, <1>3, <1>4 DEF Next, vars

-----------------------------------------------------------------------------
(* Leases and decisions.                                                       *)

\* An execution names a lease that was issued.
LeaseOfRow ==
  \A x \in Requests : state[x] # "none" =>
    row[x].lease \in Leases /\ issued[row[x].lease] # Nobody

LeaseInv == LeaseBuysOneExecution /\ LeaseOfRow /\ DecisionIsOfLeasePolicy

\* No executions.
LEMMA LeaseInit == Init => LeaseInv
  BY DEF Init, LeaseInv, LeaseBuysOneExecution, LeaseOfRow, DecisionIsOfLeasePolicy

\* The locked half of a redemption spends a lease nobody has spent, under the rule
\* set it was resolved under; no other step touches leases or rows.
LEMMA LeaseStep == TypeOK /\ TablesAgree /\ LeaseInv /\ [Next]_vars => LeaseInv'
<1> SUFFICES ASSUME TypeOK, TablesAgree, LeaseInv, [Next]_vars PROVE LeaseInv'
  OBVIOUS
<1>1. ASSUME NEW r \in Requests, AuthCommit(r) PROVE LeaseInv'
  <2>1. /\ state[r] = "none" /\ authReq[r].lease \in Leases
        /\ issued' = issued /\ consumed' = consumed \cup {authReq[r].lease}
        /\ issued[authReq[r].lease] = policy /\ policy # Nobody
        /\ authReq[r].lease \notin consumed /\ ~KeyTaken(authReq[r].key)
    BY <1>1, ConstantsAssumption
    DEF AuthCommit, CreateExecution, TablesAgree, FreshUntilCommit, TypeOK, AuthTypes,
        ScopeTypes, Redeemable
  <2>2. /\ row'[r] = [lease |-> authReq[r].lease, key |-> authReq[r].key,
                      principal |-> principal, decision |-> Effect[policy]]
        /\ \A x \in Requests \ {r} : row'[x] = row[x] /\ state'[x] = state[x]
        /\ state'[r] # "none"
    BY <1>1 DEF AuthCommit, CreateExecution, TypeOK, ExecutionTypes
  <2>3. LeaseOfRow'
    BY <2>1, <2>2 DEF LeaseInv, LeaseOfRow
  <2>4. DecisionIsOfLeasePolicy'
    BY <2>1, <2>2 DEF LeaseInv, DecisionIsOfLeasePolicy
  <2>5. LeaseBuysOneExecution'
    BY <2>1, <2>2 DEF LeaseInv, LeaseBuysOneExecution, LeaseOfRow, KeyTaken
  <2> QED
    BY <2>3, <2>4, <2>5 DEF LeaseInv
<1>2. CASE ~ \E r \in Requests : AuthCommit(r)
  <2>1. /\ row' = row /\ consumed' = consumed
        /\ \A x \in Requests : state'[x] = "none" <=> state[x] = "none"
        /\ \A l \in Leases : issued[l] # Nobody => issued'[l] = issued[l]
    BY <1>2, OnlyCommitInserts, LeasesMove
  <2>2. LeaseOfRow'
    BY <2>1 DEF LeaseInv, LeaseOfRow
  <2>3. DecisionIsOfLeasePolicy'
    BY <2>1 DEF LeaseInv, LeaseOfRow, DecisionIsOfLeasePolicy
  <2>4. LeaseBuysOneExecution'
    BY <2>1 DEF LeaseInv, LeaseBuysOneExecution
  <2> QED
    BY <2>2, <2>3, <2>4 DEF LeaseInv
<1> QED
  BY <1>1, <1>2

\* A lease is consumed exactly when one execution names it, however many redemptions
\* pass the unlocked look-up together.
THEOREM LeaseSpentOnce == Spec => []LeaseBuysOneExecution
<1>1. LeaseInv => LeaseBuysOneExecution
  BY DEF LeaseInv
<1> QED
  BY <1>1, TypeInit, TypeStep, TablesInit, TablesStep, LeaseInit, LeaseStep, PTL DEF Spec

\* An execution carries the decision of the rule set its lease was resolved under.
THEOREM DecisionFrozen == Spec => []DecisionIsOfLeasePolicy
<1>1. LeaseInv => DecisionIsOfLeasePolicy
  BY DEF LeaseInv
<1> QED
  BY <1>1, TypeInit, TypeStep, TablesInit, TablesStep, LeaseInit, LeaseStep, PTL DEF Spec

-----------------------------------------------------------------------------
(* The audit trail.                                                            *)

Refusals == {"approval_denied", "approval_expired", "approval_cancelled"}

\* A refusal is audited only of an execution that is over; the approval, before the
\* claim; the claim, with the state.
Trail(x) ==
  /\ state[x] \in {"none", "approval_required", "approved"} =>
       \A e \in Refusals : <<e, x>> \notin audit
  /\ state[x] = "approved" => <<"approval_approved", x>> \in audit
  /\ state[x] \in Claimed /\ row[x].decision = "require_approval" =>
       /\ <<"approval_approved", x>> \in audit
       /\ <<"execution_claimed", x>> \in audit
       /\ \A e \in Refusals : <<e, x>> \notin audit

AuditTrail == \A x \in Requests : Trail(x)

\* No rows.
LEMMA AuditInit == Init => AuditTrail
  BY DEF Init, AuditTrail, Trail, Claimed

\* An audit row of one execution is in the trail of no other.
LEMMA TrailOfOthers ==
  ASSUME NEW x \in Requests, NEW y \in Requests, x # y, NEW event,
         audit' = audit \cup {<<event, y>>}, state'[x] = state[x], row'[x] = row[x], Trail(x)
  PROVE  Trail(x)'
<1>1. \A e : <<e, x>> \in audit' <=> <<e, x>> \in audit
  OBVIOUS
<1> QED
  BY <1>1 DEF Trail

\* The trail of the execution an audit row is about.
LEMMA TrailGains ==
  ASSUME NEW x \in Requests, NEW event, audit' = audit \cup {<<event, x>>}
  PROVE  \A e : <<e, x>> \in audit' <=> <<e, x>> \in audit \/ e = event
  OBVIOUS

\* No statement audits a refusal of an execution that may still be, or was, claimed.
LEMMA AuditStep == TypeOK /\ TablesAgree /\ AuditTrail /\ [Next]_vars => AuditTrail'
<1> SUFFICES ASSUME TypeOK, TablesAgree, AuditTrail, [Next]_vars, NEW x \in Requests
             PROVE  Trail(x)'
  BY DEF AuditTrail
<1>0. /\ Trail(x)
      /\ state \in [Requests -> ExecutionStates]
      /\ row \in [Requests -> Row]
      /\ \A s \in Resumes : resumePc[s] \in {"begun", "failing"} => resumeReq[s].exec \in Requests
  BY DEF AuditTrail, TypeOK, ExecutionTypes, ResumeTypes
<1>1. CASE UNCHANGED Written
  BY <1>0, <1>1 DEF Written, Trail
<1>2. ASSUME NEW r \in Requests, AuthCommit(r) PROVE Trail(x)'
  <2>1. PICK event \in {"decision_allowed", "decision_blocked", "decision_approval_required"} :
          audit' = audit \cup {<<event, r>>}
    BY <1>2 DEF AuthCommit, CreateExecution
  <2>2. CASE x # r
    <3>1. state'[x] = state[x] /\ row'[x] = row[x]
      BY <1>0, <1>2, <2>2 DEF AuthCommit, CreateExecution
    <3> QED
      BY <1>0, <2>1, <2>2, <3>1, TrailOfOthers
  <2>3. CASE x = r
    <3>1. /\ state[x] = "none"
          /\ row'[x].decision = "require_approval" => state'[x] = "approval_required"
          /\ state'[x] # "approved"
      BY <1>0, <1>2, <2>3 DEF AuthCommit, CreateExecution, TablesAgree, FreshUntilCommit
    <3>2. \A e \in Refusals : <<e, x>> \notin audit'
      BY <1>0, <2>1, <2>3, <3>1, TrailGains DEF Trail, Refusals
    <3> QED
      BY <3>1, <3>2 DEF Trail, Claimed
  <2> QED
    BY <2>2, <2>3
<1>3. ASSUME NEW y \in Requests, FailSealing(y), row' = row PROVE Trail(x)'
  <2>1. CASE ~(state[y] = "claimed" /\ outcome[y] = "none")
    BY <1>0, <1>3, <2>1 DEF FailSealing, Trail
  <2>2. CASE state[y] = "claimed" /\ outcome[y] = "none" /\ x # y
    BY <1>0, <1>3, <2>2, TrailOfOthers DEF FailSealing
  <2>3. CASE state[y] = "claimed" /\ outcome[y] = "none" /\ x = y
    <3>1. \A e : <<e, x>> \in audit' <=> <<e, x>> \in audit \/ e = "outcome_recorded"
      BY <1>3, <2>3, TrailGains DEF FailSealing
    <3> QED
      BY <1>0, <1>3, <2>3, <3>1 DEF FailSealing, Trail, Refusals, Claimed
  <2> QED
    BY <2>1, <2>2, <2>3
<1>4. ASSUME NEW y \in Requests, NEW to \in {"expired", "cancelled"}, NEW event \in Refusals,
             approval[y] # "none", state[y] \notin Claimed, row' = row,
             CloseApproval(y, to, event)
      PROVE  Trail(x)'
  <2>1. CASE x # y
    BY <1>0, <1>4, <2>1, TrailOfOthers DEF CloseApproval
  <2>2. CASE x = y
    BY <1>0, <1>4, <2>2
    DEF CloseApproval, Trail, TablesAgree, ApprovalMatchesExecution, Claimed, Awaiting
  <2> QED
    BY <2>1, <2>2
<1>5. ASSUME NEW s \in Resumes, ResumeClaim(s) PROVE Trail(x)'
  <2>1. resumeReq[s].exec \in Requests /\ row' = row
    BY <1>0, <1>5 DEF ResumeClaim
  <2>2. CASE x # resumeReq[s].exec
    BY <1>0, <1>5, <2>1, <2>2, TrailOfOthers DEF ResumeClaim
  <2>3. CASE x = resumeReq[s].exec
    <3>1. \A e : <<e, x>> \in audit' <=> <<e, x>> \in audit \/ e = "execution_claimed"
      BY <1>5, <2>1, <2>3, TrailGains DEF ResumeClaim
    <3>2. state[x] = "approved" /\ state'[x] = "claimed"
      BY <1>0, <1>5, <2>3 DEF ResumeClaim, Eligible
    <3> QED
      BY <1>0, <3>1, <3>2 DEF Trail, Refusals
  <2> QED
    BY <2>2, <2>3
<1>6. ASSUME NEW y \in Requests, NEW v \in {"approve", "deny"}, Decide(y, v) PROVE Trail(x)'
  <2>1. state[y] = "approval_required" /\ row' = row
    BY <1>6 DEF Decide, TablesAgree, ApprovalMatchesExecution
  <2>2. CASE x # y
    BY <1>0, <1>6, <2>2, TrailOfOthers DEF Decide
  <2>3. CASE x = y /\ v = "approve"
    <3>1. \A e : <<e, x>> \in audit' <=> <<e, x>> \in audit \/ e = "approval_approved"
      BY <1>6, <2>3, TrailGains DEF Decide
    <3> QED
      BY <1>0, <1>6, <2>1, <2>3, <3>1 DEF Decide, Trail, Refusals, Claimed
  <2>4. CASE x = y /\ v = "deny"
    BY <1>0, <1>6, <2>4 DEF Decide, Trail, Claimed
  <2> QED
    BY <2>2, <2>3, <2>4
<1>7. ASSUME NEW y \in Requests, DecideLate(y) PROVE Trail(x)'
  <2>1. CASE state[y] \notin Awaiting
    BY <1>0, <1>7, <2>1 DEF DecideLate, Trail
  <2>2. CASE state[y] \in Awaiting /\ x # y
    BY <1>0, <1>7, <2>2, TrailOfOthers DEF DecideLate
  <2>3. CASE state[y] \in Awaiting /\ x = y
    BY <1>0, <1>7, <2>3 DEF DecideLate, Trail, Claimed
  <2> QED
    BY <2>1, <2>2, <2>3
<1>8. CASE Sweep
  <2>1. CASE state'[x] = "expired"
    BY <2>1 DEF Trail, Claimed
  <2>2. CASE state'[x] # "expired"
    <3>1. state'[x] = state[x] /\ row' = row /\ \A e : <<e, x>> \in audit' <=> <<e, x>> \in audit
      BY <1>8, <2>2 DEF Sweep
    <3> QED
      BY <1>0, <3>1 DEF Trail
  <2> QED
    BY <2>1, <2>2
<1>9. ASSUME NEW y \in Requests, NEW o \in Classifications, RecordOutcome(y, o) PROVE Trail(x)'
  <2>1. CASE x # y
    BY <1>0, <1>9, <2>1, TrailOfOthers DEF RecordOutcome
  <2>2. CASE x = y
    <3>1. \A e : <<e, x>> \in audit' <=> <<e, x>> \in audit \/ e = "outcome_recorded"
      BY <1>9, <2>2, TrailGains DEF RecordOutcome
    <3>2. /\ state'[x] \in Claimed <=> state[x] \in Claimed
          /\ state'[x] \notin Claimed => state'[x] = state[x]
          /\ row' = row
      BY <1>0, <1>9, <2>2 DEF RecordOutcome, OutcomeMove, Claimed, FailureClasses
    <3> QED
      BY <1>0, <3>1, <3>2 DEF Trail, Refusals, Claimed
  <2> QED
    BY <2>1, <2>2
<1>10. ASSUME NEW r \in Requests, AuthFails(r) PROVE Trail(x)'
  BY <1>3, <1>10 DEF AuthFails
<1>11. ASSUME NEW s \in Resumes, ResumeFails(s) PROVE Trail(x)'
  BY <1>0, <1>3, <1>11 DEF ResumeFails
<1>12. ASSUME NEW s \in Resumes, ResumeExpired(s) PROVE Trail(x)'
  BY <1>0, <1>4, <1>12 DEF ResumeExpired, Refusals
<1>13. ASSUME NEW s \in Resumes, ResumeCancelled(s) PROVE Trail(x)'
  BY <1>0, <1>4, <1>13 DEF ResumeCancelled, Refusals
<1> QED
  BY <1>1, <1>2, <1>5, <1>6, <1>7, <1>8, <1>9, <1>10, <1>11, <1>12, <1>13, OnlyWritesWrite
  DEF Writes

\* An execution that was held and is claimed, or was when it settled, has its approval and
\* its claim in the audit log and no denial, expiry or cancellation.
THEOREM AuditIntegrity == Spec => []ClaimAuditIsClean
<1>1. AuditTrail => ClaimAuditIsClean
  BY DEF AuditTrail, Trail, ClaimAuditIsClean, Refusals
<1> QED
  BY <1>1, TypeInit, TypeStep, TablesInit, TablesStep, AuditInit, AuditStep, PTL DEF Spec

-----------------------------------------------------------------------------
(* Settling.                                                                   *)

Settled(x) ==
  /\ state[x] \in Terminal => state'[x] = state[x]
  /\ outcome[x] # "none" => outcome'[x] = outcome[x]
  /\ approval[x] \in {"denied", "expired", "cancelled"} => approval'[x] = approval[x]

\* No statement moves a terminal state, an outcome or a decided approval.
LEMMA SettledStep ==
  ASSUME TypeOK, TablesAgree, [Next]_vars, NEW x \in Requests
  PROVE  Settled(x)
<1> USE DEF TypeOK, ExecutionTypes, ResumeTypes, TablesAgree, ApprovalMatchesExecution,
        Settled, Terminal, Claimed, Awaiting, Open
<1>1. CASE UNCHANGED Written
  BY <1>1 DEF Written
<1>2. ASSUME NEW r \in Requests, AuthCommit(r) PROVE Settled(x)
  BY <1>2 DEF AuthCommit, CreateExecution, FreshUntilCommit, AuthTypes
<1>3. ASSUME NEW r \in Requests, AuthFails(r) PROVE Settled(x)
  BY <1>3 DEF AuthFails, FailSealing
<1>4. ASSUME NEW s \in Resumes, ResumeExpired(s) \/ ResumeCancelled(s) PROVE Settled(x)
  BY <1>4 DEF ResumeExpired, ResumeCancelled, CloseApproval
<1>5. ASSUME NEW s \in Resumes, ResumeClaim(s) PROVE Settled(x)
  BY <1>5 DEF ResumeClaim, Eligible
<1>6. ASSUME NEW s \in Resumes, ResumeFails(s) PROVE Settled(x)
  BY <1>6 DEF ResumeFails, FailSealing
<1>7. ASSUME NEW y \in Requests, NEW v \in {"approve", "deny"}, Decide(y, v) PROVE Settled(x)
  BY <1>7 DEF Decide
<1>8. ASSUME NEW y \in Requests, DecideLate(y) PROVE Settled(x)
  BY <1>8 DEF DecideLate
<1>9. CASE Sweep
  BY <1>9 DEF Sweep
<1>10. ASSUME NEW y \in Requests, NEW o \in Classifications, RecordOutcome(y, o) PROVE Settled(x)
  BY <1>10 DEF RecordOutcome, OutcomeMove, FailureClasses
<1> QED
  BY <1>1, <1>2, <1>3, <1>4, <1>5, <1>6, <1>7, <1>8, <1>9, <1>10, OnlyWritesWrite DEF Writes

\* Racing decisions, sweeps, resumes, failures and reports settle an execution once.
THEOREM OutcomeIsFinal == Spec => SettledOnce
<1>1. TypeOK /\ TablesAgree /\ [Next]_vars
      => [\A x \in Requests :
            /\ state[x] \in Terminal => state'[x] = state[x]
            /\ outcome[x] # "none" => outcome'[x] = outcome[x]
            /\ approval[x] \in {"denied", "expired", "cancelled"}
                 => approval'[x] = approval[x]]_vars
  BY SettledStep DEF Settled
<1> QED
  BY <1>1, TypeInit, TypeStep, TablesInit, TablesStep, PTL DEF Spec, SettledOnce

-----------------------------------------------------------------------------
(* The refinement: every step of the gateway moves one ticket, closes several, *)
(* hands one, or leaves phases and deliveries alone.                           *)

PhaseMap == [x \in Requests |-> Phase(x)]
Handed == {<<d.by, d.exec>> : d \in sealed}

\* The empty tables are unissued tickets.
LEMMA TicketInit == Init => Ticket!Init
  BY DEF Init, Ticket!Init, Phase

\* A write of one execution's state is a move of its phase.
LEMMA PhaseOfWrite ==
  ASSUME TypeOK, NEW x \in Requests, NEW to, state' = [state EXCEPT ![x] = to]
  PROVE  PhaseMap' = [PhaseMap EXCEPT ![x] = Phase(x)']
<1>1. \A y \in Requests : y # x => state'[y] = state[y]
  BY DEF TypeOK, ExecutionTypes
<1> QED
  BY <1>1 DEF PhaseMap, Phase

\* Executions that a statement closes.
LEMMA PhaseOfClose ==
  ASSUME TypeOK, sealed' = sealed, NEW T \in SUBSET Requests,
         \A x \in T : state[x] \in Awaiting /\ state'[x] \in {"cancelled", "expired"},
         \A x \in Requests \ T : state'[x] = state[x]
  PROVE  Ticket!Next
<1>1. \A x \in T : Phase(x) \in {"waiting", "ready"} /\ Phase(x)' = "closed"
  BY DEF Phase, Awaiting
<1>2. \A x \in Requests \ T : Phase(x)' = Phase(x)
  BY DEF Phase
<1>3. Ticket!Close(T)
  BY <1>1, <1>2 DEF Ticket!Close
<1> QED
  BY <1>3 DEF Ticket!Next

\* A step that writes states but seals nothing is a move, a closing or a stutter.
LEMMA WriteMaps ==
  ASSUME TypeOK, TablesAgree, [Next]_vars, sealed' = sealed
  PROVE  [Ticket!Next]_<<PhaseMap, Handed>>
<1> DEFINE Maps == Ticket!Next \/ UNCHANGED <<PhaseMap, Handed>>
<1>0. Handed' = Handed /\ (state' = state => PhaseMap' = PhaseMap)
  BY DEF Handed, PhaseMap, Phase
<1>1. CASE UNCHANGED Written
  BY <1>0, <1>1 DEF Written
<1>2. ASSUME NEW x \in Requests, NEW to, state' = [state EXCEPT ![x] = to],
             \/ state[x] = "none" /\ to \in {"blocked", "approval_required", "claimed"}
             \/ state[x] = "approval_required" /\ to = "approved"
             \/ state[x] = "approved" /\ to = "claimed"
             \/ state[x] = "claimed" /\ to \in {"succeeded", "failed"}
      PROVE  Maps
  <2>1. state'[x] = to
    BY <1>2 DEF TypeOK, ExecutionTypes
  <2>2. \/ Phase(x) = "none" /\ Phase(x)' \in {"closed", "waiting", "open"}
        \/ Phase(x) = "waiting" /\ Phase(x)' = "ready"
        \/ Phase(x) = "ready" /\ Phase(x)' = "open"
        \/ Phase(x) = "open" /\ Phase(x)' = "settled"
    BY <1>2, <2>1 DEF Phase
  <2>3. PhaseMap[x] = Phase(x) /\ PhaseMap' = [PhaseMap EXCEPT ![x] = Phase(x)']
    BY <1>2, PhaseOfWrite DEF PhaseMap
  <2>4. \/ Ticket!Refuse(x) \/ Ticket!Hold(x) \/ Ticket!Approve(x) \/ Ticket!Open(x)
        \/ Ticket!Settle(x)
    BY <1>0, <2>2, <2>3
    DEF Ticket!Refuse, Ticket!Hold, Ticket!Approve, Ticket!Open, Ticket!Settle, Ticket!Move,
        PhaseMap, Handed
  <2> QED
    BY <2>4 DEF Ticket!Next
<1>3. ASSUME NEW x \in Requests, NEW to \in {"cancelled", "expired"},
             state' = [state EXCEPT ![x] = IF @ \in Awaiting THEN to ELSE @]
      PROVE  Maps
  <2>1. CASE state[x] \in Awaiting
    BY <1>3, <2>1, PhaseOfClose, {x} \in SUBSET Requests DEF TypeOK, ExecutionTypes
  <2>2. CASE state[x] \notin Awaiting
    BY <1>0, <1>3, <2>2 DEF TypeOK, ExecutionTypes
  <2> QED
    BY <2>1, <2>2
<1>4. ASSUME NEW r \in Requests, AuthCommit(r) PROVE Maps
  BY <1>2, <1>4 DEF AuthCommit, CreateExecution, TablesAgree, FreshUntilCommit
<1>5. ASSUME NEW y \in Requests, FailSealing(y) PROVE Maps
  BY <1>0, <1>2, <1>5 DEF FailSealing
<1>6. ASSUME NEW r \in Requests, AuthFails(r) PROVE Maps
  BY <1>5, <1>6 DEF AuthFails
<1>7. \A s \in Resumes : resumePc[s] \in {"begun", "failing"} => resumeReq[s].exec \in Requests
  BY DEF TypeOK, ResumeTypes
<1>8. ASSUME NEW s \in Resumes, ResumeFails(s) PROVE Maps
  BY <1>5, <1>7, <1>8 DEF ResumeFails
<1>9. ASSUME NEW s \in Resumes, ResumeExpired(s) \/ ResumeCancelled(s) PROVE Maps
  BY <1>3, <1>7, <1>9 DEF ResumeExpired, ResumeCancelled, CloseApproval
<1>10. ASSUME NEW s \in Resumes, ResumeClaim(s) PROVE Maps
  BY <1>2, <1>7, <1>10 DEF ResumeClaim, Eligible
<1>11. ASSUME NEW x \in Requests, NEW v \in {"approve", "deny"}, Decide(x, v) PROVE Maps
  <2>1. state[x] = "approval_required"
    BY <1>11 DEF Decide, TablesAgree, ApprovalMatchesExecution
  <2>2. CASE v = "approve"
    BY <1>2, <1>11, <2>1, <2>2 DEF Decide
  <2>3. CASE v = "deny"
    BY <1>3, <1>11, <2>1, <2>3 DEF Decide, Awaiting
  <2> QED
    BY <2>2, <2>3
<1>12. ASSUME NEW x \in Requests, DecideLate(x) PROVE Maps
  <2>1. CASE state[x] \in Awaiting
    BY <1>3, <1>12, <2>1 DEF DecideLate
  <2>2. CASE state[x] \notin Awaiting
    BY <1>0, <1>12, <2>2 DEF DecideLate
  <2> QED
    BY <2>1, <2>2
<1>13. CASE Sweep
  <2> DEFINE T == {x \in Requests : approval[x] \in Open /\ due[x] /\ state[x] \in Awaiting}
  <2>1. /\ \A x \in T : state[x] \in Awaiting /\ state'[x] \in {"cancelled", "expired"}
        /\ \A x \in Requests \ T : state'[x] = state[x]
    BY <1>13 DEF Sweep
  <2>2. T \in SUBSET Requests
    OBVIOUS
  <2> QED
    BY <2>1, <2>2, PhaseOfClose
<1>14. ASSUME NEW x \in Requests, NEW o \in Classifications, RecordOutcome(x, o) PROVE Maps
  <2>1. PICK to \in ExecutionStates : OutcomeMove(state[x], o, to)
                                      /\ state' = [state EXCEPT ![x] = to]
    BY <1>14 DEF RecordOutcome
  <2>2. CASE state[x] = "claimed"
    BY <1>2, <2>1, <2>2 DEF OutcomeMove, FailureClasses
  <2>3. CASE state[x] # "claimed"
    <3>1. state' = state
      BY <2>1, <2>3 DEF OutcomeMove, TypeOK, ExecutionTypes
    <3> QED
      BY <1>0, <3>1
  <2> QED
    BY <2>2, <2>3
<1> QED
  BY <1>1, <1>4, <1>6, <1>8, <1>9, <1>10, <1>11, <1>12, <1>13, <1>14, OnlyWritesWrite
  DEF Writes

\* A seal hands out a ticket that is open or settled and was never handed out.
LEMMA SealMaps ==
  ASSUME TypeOK, NEW h \in Processes, NEW x \in Requests, NEW c, state' = state,
         state[x] \in Claimed, \A d \in sealed : d.exec # x,
         sealed' = sealed \cup {[by |-> h, exec |-> x, cred |-> c]}
  PROVE  Ticket!Next
<1>1. PhaseMap' = PhaseMap /\ PhaseMap[x] \in {"open", "settled"}
  BY DEF PhaseMap, Phase, Claimed
<1>2. Handed' = Handed \cup {<<h, x>>}
  <2> DEFINE e == [by |-> h, exec |-> x, cred |-> c]
  <2>1. e.by = h /\ e.exec = x /\ sealed' = sealed \cup {e}
    OBVIOUS
  <2> HIDE DEF e
  <2>2. ASSUME NEW p PROVE p \in Handed' <=> p \in Handed \/ p = <<h, x>>
    BY <2>1 DEF Handed
  <2> QED
    BY <2>2
<1>3. \A p \in Handed : p[2] # x
  BY DEF Handed
<1>4. Ticket!Hand(h, x)
  BY <1>1, <1>2, <1>3 DEF Ticket!Hand, PhaseMap, Handed
<1> QED
  BY <1>4 DEF Ticket!Next

\* Every step of the gateway is a step of the ticket or a stutter.
LEMMA TicketStep ==
  TypeOK /\ TablesAgree /\ SoleCustodian /\ [Next]_vars
    => [Ticket!Next]_<<PhaseMap, Handed>>
<1> SUFFICES ASSUME TypeOK, TablesAgree, SoleCustodian, [Next]_vars
             PROVE  [Ticket!Next]_<<PhaseMap, Handed>>
  OBVIOUS
<1>1. CASE sealed' = sealed
  BY <1>1, WriteMaps
<1>2. ASSUME NEW r \in Requests, AuthSeal(r) PROVE Ticket!Next
  <2>1. /\ state' = state /\ state[r] \in Claimed /\ \A d \in sealed : d.exec # r
        /\ sealed' = sealed \cup {[by |-> r, exec |-> r, cred |-> authReq[r].cred]}
    BY <1>2 DEF AuthSeal, SoleCustodian, RedeemerIsSole, Claimed
  <2> QED
    BY <2>1, SealMaps DEF Processes
<1>3. ASSUME NEW s \in Resumes, ResumeSeal(s) PROVE Ticket!Next
  <2> DEFINE x == resumeReq[s].exec
  <2>1. /\ state' = state /\ x \in Requests /\ state[x] \in Claimed
        /\ \A d \in sealed : d.exec # x
        /\ sealed' = sealed \cup {[by |-> s, exec |-> x, cred |-> resumeReq[s].cred]}
    BY <1>3 DEF ResumeSeal, SoleCustodian, WinnerIsSole, TypeOK, ResumeTypes
  <2> QED
    BY <2>1, SealMaps DEF Processes
<1> QED
  BY <1>1, <1>2, <1>3, OnlySealsHand

\* The tables, locks, retries, failures and clocks of the gateway never do more than
\* the one-use ticket allows.
THEOREM IsATicket == Spec => ImplementsTicket
  BY TypeInit, TypeStep, TablesInit, TablesStep, CustodyInit, CustodyStep, TicketInit,
     TicketStep, PTL
  DEF Spec, ImplementsTicket, Ticket!Spec, PhaseMap, Handed

=============================================================================
