------------------------ MODULE GovernedActions_proofs ------------------------
(***************************************************************************)
(* Proofs about governed actions for any number of submits, decisions,     *)
(* identities, credentials, rule sets, connections and attempts: types,    *)
(* exclusion by the identity lock, one effect per identity, and authority  *)
(* at the moment an effect commits.                                        *)
(***************************************************************************)
EXTENDS GovernedActions, FiniteSetTheorems, TLAPS

USE DEF authority, tables, locks, links

-----------------------------------------------------------------------------
(* Types. *)

\* A process that works on something works on an identity, past acceptance on an attempt.
JobsFit ==
  \A p \in Processes :
    /\ pc[p] # "idle" => job[p].op \in Operations
    /\ pc[p] \in {"accepted", "resuming", "deciding", "executing"} => job[p].try \in Tries
    /\ pc[p] \in {"begun", "accepted", "resuming"} => p \in Submits
    /\ pc[p] = "deciding" => p \in Decisions
    /\ p \in Decisions /\ pc[p] \in {"deciding", "executing"} =>
         job[p].decision \in {"approved", "denied"}

Typed == GovernedTypeOK /\ JobsFit

\* The empty tables are well typed.
LEMMA TypedInit == Init => Typed
  BY GovernedAssumption DEF Init, Typed, GovernedTypeOK, JobsFit, NoAction, Actions, NoJob,
     Jobs, Statuses, Terminal, Pcs, Processes, Tries

\* Opening a transaction keeps the types.
LEMMA OpenTypes ==
  ASSUME Typed, NEW p \in Processes, NEW o \in Operations, Open(p, o)
  PROVE  /\ holder' \in [Operations -> Processes \cup {Nobody}]
         /\ owner' \in [Connections -> Processes \cup {Nobody}]
         /\ conn' \in [Processes -> Connections \cup {Nobody}]
  BY DEF Typed, GovernedTypeOK, Open

\* Ending a transaction keeps the types.
LEMMA ReleaseTypes ==
  ASSUME Typed, NEW p \in Processes, NEW next \in Pcs, Release(p, next)
  PROVE  /\ pc' \in [Processes -> Pcs]
         /\ holder' \in [Operations -> Processes \cup {Nobody}]
         /\ sharing' \in SUBSET Processes
         /\ owner' \in [Connections -> Processes \cup {Nobody}]
         /\ writes' \in [Connections -> SUBSET Processes]
  BY DEF Typed, GovernedTypeOK, Release

\* Closing one keeps the types and leaves the authority tables alone.
LEMMA CloseTypes ==
  ASSUME Typed, NEW p \in Processes, NEW next \in Pcs, Close(p, next)
  PROVE  /\ pc' \in [Processes -> Pcs]
         /\ holder' \in [Operations -> Processes \cup {Nobody}]
         /\ sharing' \in SUBSET Processes
         /\ owner' \in [Connections -> Processes \cup {Nobody}]
         /\ writes' \in [Connections -> SUBSET Processes]
         /\ conn' \in [Processes -> Connections \cup {Nobody}]
         /\ detached' \in SUBSET Processes
         /\ UNCHANGED <<authority, overruled>>
  BY ReleaseTypes DEF Typed, GovernedTypeOK, Close

\* An aborted transaction keeps the types.
LEMMA AbortTyped ==
  ASSUME Typed, NEW p \in Processes, Abort(p, "done"), job[p].op \in Operations
  PROVE  Typed'
<1>1. "done" \in Pcs
  BY DEF Pcs
<1>2. GovernedTypeOK'
  BY <1>1, CloseTypes DEF Abort, Typed, GovernedTypeOK
<1>3. JobsFit'
  BY DEF Abort, Close, Release, Typed, GovernedTypeOK, JobsFit
<1> QED
  BY <1>2, <1>3 DEF Typed

\* What settling does to the tables: one attempt gets its status, its queue row at most
\* the decision, and no other row moves.
LEMMA SettleRows ==
  ASSUME Typed, NEW p \in Processes, NEW status \in Statuses, Settle(p, status),
         pc[p] \in {"resuming", "deciding", "executing"}
  PROVE  /\ action'[job[p].op][job[p].try].status = status
         /\ \A o \in Operations, n \in Tries :
              o # job[p].op \/ n # job[p].try =>
                action'[o][n] = action[o][n] /\ approval'[o][n] = approval[o][n]
         /\ IF p \in Decisions /\ ApprovalOf(p) = "pending"
            THEN approval'[job[p].op][job[p].try] = job[p].decision
            ELSE approval' = approval
         /\ UNCHANGED <<identity, tries, job>>
<1> DEFINE op == job[p].op
           n == job[p].try
<1> USE DEF Typed, GovernedTypeOK
<1>1. op \in Operations /\ n \in Tries
  BY DEF JobsFit
<1>2. action[op][n] \in Actions
  BY <1>1
<1>3. action' = [action EXCEPT ![op] = [action[op] EXCEPT ![n] =
                   [action[op][n] EXCEPT !.status = status]]]
  BY DEF Settle
<1>4. IF p \in Decisions /\ ApprovalOf(p) = "pending"
      THEN approval' = [approval EXCEPT ![op] = [approval[op] EXCEPT ![n] = job[p].decision]]
      ELSE approval' = approval
  BY DEF Settle
<1>5. UNCHANGED <<identity, tries, job>>
  BY DEF Settle
<1> HIDE DEF op, n
<1>6. action'[op][n] = [action[op][n] EXCEPT !.status = status]
  BY <1>1, <1>3
<1>7. action'[op][n].status = status
  BY <1>2, <1>6 DEF Actions
<1>8. \A x \in Operations, m \in Tries : x # op \/ m # n => action'[x][m] = action[x][m]
  BY <1>1, <1>3
<1>9. \A x \in Operations, m \in Tries : x # op \/ m # n => approval'[x][m] = approval[x][m]
  BY <1>1, <1>4
<1>10. p \in Decisions /\ ApprovalOf(p) = "pending" => approval'[op][n] = job[p].decision
  BY <1>1, <1>4
<1> QED
  BY <1>4, <1>5, <1>7, <1>8, <1>9, <1>10 DEF op, n

\* Settling keeps the types.
LEMMA SettleTyped ==
  ASSUME Typed, NEW p \in Processes, NEW status \in Statuses, Settle(p, status),
         pc[p] \in {"resuming", "deciding", "executing"},
         landed' \in SUBSET (Processes \X Operations \X Tries)
  PROVE  Typed'
<1> USE DEF Typed
<1>1. "done" \in Pcs
  BY DEF Pcs
<1>2. action' \in [Operations -> [Tries -> Actions]]
  <2> DEFINE o == job[p].op
             n == job[p].try
             row == [action[o][n] EXCEPT !.status = status]
  <2>1. o \in Operations /\ n \in Tries
    BY DEF JobsFit
  <2>2. action' = [action EXCEPT ![o] = [action[o] EXCEPT ![n] = row]]
    BY DEF Settle
  <2> HIDE DEF o, n
  <2>3. action[o][n] \in Actions
    BY <2>1 DEF GovernedTypeOK
  <2>4. row \in Actions
    BY <2>3 DEF Actions
  <2> HIDE DEF row
  <2> QED
    BY <2>1, <2>2, <2>4 DEF GovernedTypeOK
<1>3. approval' \in [Operations -> [Tries -> {"none", "pending", "approved", "denied"}]]
  <2>1. p \in Decisions => job[p].decision \in {"approved", "denied"}
    BY GovernedAssumption DEF JobsFit
  <2>2. job[p].op \in Operations /\ job[p].try \in Tries
    BY DEF JobsFit
  <2> QED
    BY <2>1, <2>2 DEF Settle, ApprovalOf, GovernedTypeOK
<1>4. GovernedTypeOK'
  BY <1>1, <1>2, <1>3, CloseTypes DEF Settle, GovernedTypeOK
<1>5. JobsFit'
  BY DEF Settle, Close, Release, GovernedTypeOK, JobsFit
<1> QED
  BY <1>4, <1>5

\* The steps of the first transaction of a submit keep the types.
LEMMA SubmitTyped ==
  ASSUME Typed, NEW p \in Submits, Submit(p)
  PROVE  Typed'
<1> USE DEF Typed
<1>p. p \in Processes
  BY DEF Processes
<1>pc. /\ {"idle", "begun", "accepted", "resuming", "deciding", "executing", "done"} \subseteq Pcs
  BY DEF Pcs
<1>1. CASE SubmitBegin(p)
  <2>1. PICK o \in Operations, t \in Texts, k \in Credentials :
          /\ job' = [job EXCEPT ![p] = [op |-> o, try |-> 0, text |-> t, cred |-> k,
                                        decision |-> "none"]]
          /\ Open(p, o)
    BY <1>1 DEF SubmitBegin
  <2>2. [op |-> o, try |-> 0, text |-> t, cred |-> k, decision |-> "none"] \in Jobs
    BY GovernedAssumption DEF Jobs
  <2>3. GovernedTypeOK'
    BY <1>1, <1>p, <1>pc, <2>1, <2>2, OpenTypes DEF SubmitBegin, GovernedTypeOK
  <2>4. job'[p].op = o /\ \A q \in Processes \ {p} : job'[q] = job[q] /\ pc'[q] = pc[q]
    BY <1>1, <1>p, <2>1, <2>2 DEF SubmitBegin, GovernedTypeOK, NoJob
  <2>5. pc'[p] = "begun"
    BY <1>1, <1>p DEF SubmitBegin, GovernedTypeOK
  <2>6. JobsFit'
    BY <1>p, <2>4, <2>5, GovernedAssumption DEF JobsFit
  <2> QED
    BY <2>3, <2>6
<1>2. CASE SubmitRefused(p) \/ SubmitUnavailable(p) \/ ResumeStands(p)
  BY <1>2, <1>p, AbortTyped DEF SubmitRefused, SubmitUnavailable, ResumeStands, JobsFit
<1>3. CASE SubmitReplays(p)
  <2>1. job[p].op \in Operations /\ tries[job[p].op] \in Tries
    BY <1>3, <1>p DEF SubmitReplays, Replays, JobsFit, GovernedTypeOK, Tries
  <2>2. [job[p] EXCEPT !.try = tries[job[p].op]] \in Jobs
    <3>1. job[p] \in Jobs /\ tries[job[p].op] \in 0..MaxTries
      BY <1>p, <2>1 DEF GovernedTypeOK
    <3> HIDE DEF Typed
    <3> QED
      BY <3>1 DEF Jobs
  <2>3. PICK next \in {"accepted", "done"} : Close(p, next)
    BY <1>3 DEF SubmitReplays
  <2>4. GovernedTypeOK'
    BY <1>3, <1>p, <1>pc, <2>2, <2>3, CloseTypes DEF SubmitReplays, GovernedTypeOK, Pcs
  <2>5. JobsFit'
    BY <1>3, <1>p, <2>1, <2>3 DEF SubmitReplays, Close, Release, GovernedTypeOK, JobsFit
  <2> QED
    BY <2>4, <2>5
<1>4. CASE SubmitAccepted(p)
  <2> DEFINE o == job[p].op
             n == tries[o] + 1
             row == [status |-> "requested", cred |-> job[p].cred, stamp |-> Nobody]
  <2>1. o \in Operations /\ n \in Tries /\ job[p] \in Jobs
    BY <1>4, <1>p, GovernedAssumption DEF SubmitAccepted, JobsFit, GovernedTypeOK, Tries
  <2>2. row \in Actions /\ job[p].text \in Texts \cup {Nobody}
    BY <2>1 DEF Actions, Jobs, Statuses
  <2>3. [job[p] EXCEPT !.try = n] \in Jobs
    BY <2>1 DEF Jobs, Tries
  <2>4. n \in 0..MaxTries
    BY <2>1 DEF Tries
  <2>5. /\ action' = [action EXCEPT ![o] = [action[o] EXCEPT ![n] = row]]
        /\ identity' = [identity EXCEPT ![o] = job[p].text]
        /\ tries' = [tries EXCEPT ![o] = n]
        /\ job' = [job EXCEPT ![p] = [job[p] EXCEPT !.try = n]]
        /\ Close(p, "accepted") /\ UNCHANGED <<approval, landed>>
    BY <1>4 DEF SubmitAccepted
  <2>6. JobsFit'
    BY <1>4, <1>p, <2>1, <2>5 DEF Close, Release, GovernedTypeOK, JobsFit
  <2> HIDE DEF o, n, row
  <2>7. GovernedTypeOK'
    BY <1>p, <1>pc, <2>1, <2>2, <2>3, <2>4, <2>5, CloseTypes DEF GovernedTypeOK
  <2> QED
    BY <2>6, <2>7
<1>5. CASE ResumeBegin(p)
  <2>1. job[p].op \in Operations /\ job[p].try \in Tries
    BY <1>5, <1>p DEF ResumeBegin, JobsFit
  <2>2. GovernedTypeOK'
    BY <1>5, <1>p, <1>pc, <2>1, OpenTypes DEF ResumeBegin, GovernedTypeOK
  <2>3. JobsFit'
    BY <1>5, <1>p, <2>1 DEF ResumeBegin, GovernedTypeOK, JobsFit
  <2> QED
    BY <2>2, <2>3
<1>6. CASE ResumeBusy(p) \/ DiesBetween(p)
  BY <1>6, <1>p, <1>pc DEF ResumeBusy, DiesBetween, GovernedTypeOK, JobsFit
<1> QED
  BY <1>1, <1>2, <1>3, <1>4, <1>5, <1>6 DEF Submit

\* The steps of a decision keep the types.
LEMMA DecideTyped ==
  ASSUME Typed, NEW p \in Decisions, Decide(p)
  PROVE  Typed'
<1> USE DEF Typed
<1>p. p \in Processes
  BY DEF Processes
<1>1. CASE DecideBegin(p)
  <2>1. PICK o \in Operations, n \in Tries, d \in {"approved", "denied"} :
          /\ job' = [job EXCEPT ![p] = [op |-> o, try |-> n, text |-> Nobody,
                                        cred |-> Nobody, decision |-> d]]
          /\ Open(p, o)
    BY <1>1 DEF DecideBegin
  <2>2. [op |-> o, try |-> n, text |-> Nobody, cred |-> Nobody, decision |-> d] \in Jobs
    BY GovernedAssumption DEF Jobs, Tries
  <2>3. "deciding" \in Pcs
    BY DEF Pcs
  <2>4. GovernedTypeOK'
    BY <1>1, <1>p, <2>1, <2>2, <2>3, OpenTypes DEF DecideBegin, GovernedTypeOK
  <2>5. /\ job'[p].op = o /\ job'[p].try = n /\ job'[p].decision = d
        /\ \A q \in Processes \ {p} : job'[q] = job[q] /\ pc'[q] = pc[q]
    BY <1>1, <1>p, <2>1 DEF DecideBegin, GovernedTypeOK, NoJob
  <2>6. pc'[p] = "deciding"
    BY <1>1, <1>p DEF DecideBegin, GovernedTypeOK
  <2>7. JobsFit'
    BY <1>p, <2>5, <2>6 DEF JobsFit
  <2> QED
    BY <2>4, <2>7
<1>2. CASE DecideRefused(p)
  BY <1>2, <1>p, AbortTyped DEF DecideRefused, JobsFit
<1>3. CASE DecideInconsistent(p) \/ DecideDenies(p)
  <2>1. /\ Settle(p, "denied") /\ "denied" \in Statuses /\ UNCHANGED landed
        /\ pc[p] = "deciding"
    BY <1>3 DEF DecideInconsistent, DecideDenies, Decides, Statuses, Terminal
  <2> QED
    BY <1>p, <2>1, SettleTyped DEF GovernedTypeOK
<1> QED
  BY <1>1, <1>2, <1>3 DEF Decide

-----------------------------------------------------------------------------
(* Connections and the identity lock. *)

\* An open transaction and its connection name each other, and only the process that
\* owns the connection has uncommitted effects on it: the guard of the context.
Linked ==
  /\ \A p \in Processes : pc[p] \in InTransaction =>
       conn[p] \in Connections /\ owner[conn[p]] = p
  /\ \A c \in Connections : owner[c] # Nobody =>
       pc[owner[c]] \in InTransaction /\ conn[owner[c]] = c
  /\ \A c \in Connections : \A q \in writes[c] : owner[c] = q

\* The holder of an identity is in a transaction that works on it, and whoever resumes,
\* decides or executes holds it.
Locked ==
  /\ \A o \in Operations : holder[o] # Nobody =>
       pc[holder[o]] \in InTransaction /\ job[holder[o]].op = o
  /\ \A p \in Processes : pc[p] \in {"resuming", "deciding", "executing"} => Owns(p)

Exclusive == Linked /\ Locked

\* Nobody is in a transaction at first.
LEMMA ExclusiveInit == Init => Exclusive
  BY GovernedAssumption DEF Init, Exclusive, Linked, Locked, InTransaction, Processes

\* The end of a transaction releases its connection and its identities.
LEMMA ReleaseExclusive ==
  ASSUME Typed, Exclusive, NEW p \in Processes, NEW next \in Pcs \ InTransaction,
         next \in {"accepted", "done"}, Release(p, next),
         \A q \in Processes \ {p} : conn'[q] = conn[q] /\ job'[q] = job[q]
  PROVE  Exclusive'
<1> USE GovernedAssumption DEF Typed, GovernedTypeOK, Exclusive, Release, InTransaction, Processes
<1>1. Linked'
  BY DEF Linked
<1>2. Locked'
  BY DEF Locked, Owns, JobsFit
<1> QED
  BY <1>1, <1>2

\* Opening a transaction on a free connection takes the identity only when it is free.
LEMMA OpenExclusive ==
  ASSUME Typed, Exclusive, NEW p \in Processes, NEW o \in Operations, Open(p, o),
         pc[p] \notin InTransaction, job'[p].op = o,
         pc'[p] = "begun" \/ (pc'[p] \in {"resuming", "deciding"} /\ holder[o] = Nobody),
         \A q \in Processes \ {p} : pc'[q] = pc[q] /\ job'[q] = job[q],
         UNCHANGED writes
  PROVE  Exclusive'
<1> USE GovernedAssumption DEF Typed, GovernedTypeOK, Exclusive, Linked, Locked, InTransaction,
        Processes
<1>1. PICK c \in Connections :
        /\ owner[c] = Nobody
        /\ owner' = [owner EXCEPT ![c] = p]
        /\ conn' = [conn EXCEPT ![p] = c]
  BY DEF Open
<1>2. holder' = [holder EXCEPT ![o] = IF @ = Nobody THEN p ELSE @]
  BY DEF Open
<1>3. Linked'
  <2>0. pc'[p] \in InTransaction /\ owner'[c] = p /\ conn'[p] = c
    BY <1>1
  <2>1. ASSUME NEW q \in Processes, pc'[q] \in InTransaction
        PROVE  conn'[q] \in Connections /\ owner'[conn'[q]] = q
    <3>1. CASE q = p
      BY <2>0, <3>1
    <3>2. CASE q # p
      <4>1. pc[q] \in InTransaction /\ conn'[q] = conn[q]
        BY <1>1, <2>1, <3>2
      <4>2. conn[q] \in Connections /\ owner[conn[q]] = q /\ q # Nobody
        BY <4>1
      <4> QED
        BY <1>1, <4>1, <4>2
    <3> QED
      BY <3>1, <3>2
  <2>2. ASSUME NEW d \in Connections, owner'[d] # Nobody
        PROVE  pc'[owner'[d]] \in InTransaction /\ conn'[owner'[d]] = d
    <3>1. CASE d = c
      BY <2>0, <3>1
    <3>2. CASE d # c
      <4>1. owner'[d] = owner[d] /\ owner[d] \in Processes
        BY <1>1, <2>2, <3>2
      <4>2. pc[owner[d]] \in InTransaction /\ conn[owner[d]] = d
        BY <2>2, <4>1
      <4> QED
        BY <1>1, <4>1, <4>2
    <3> QED
      BY <3>1, <3>2
  <2>3. ASSUME NEW d \in Connections, NEW q \in writes'[d] PROVE owner'[d] = q
    BY <1>1, <2>3
  <2> QED
    BY <2>1, <2>2, <2>3
<1>4. ASSUME NEW x \in Operations, holder'[x] # Nobody
      PROVE  pc'[holder'[x]] \in InTransaction /\ job'[holder'[x]].op = x
  <2>1. CASE holder[x] = Nobody
    BY <1>2, <1>4, <2>1
  <2>2. CASE holder[x] # Nobody
    <3>1. holder'[x] = holder[x] /\ holder[x] \in Processes \ {p}
      BY <1>2, <2>2
    <3> QED
      BY <2>2, <3>1
  <2> QED
    BY <2>1, <2>2
<1>5. ASSUME NEW q \in Processes, pc'[q] \in {"resuming", "deciding", "executing"}
      PROVE  holder'[job'[q].op] = q
  <2>1. CASE q = p
    BY <1>2, <1>5, <2>1
  <2>2. CASE q # p
    BY <1>2, <1>5, <2>2 DEF Owns, JobsFit
  <2> QED
    BY <2>1, <2>2
<1>6. Locked'
  BY <1>4, <1>5 DEF Owns
<1> QED
  BY <1>3, <1>6

\* Execution is reached past acceptance only.
LEMMA ExecutesWhere ==
  ASSUME NEW p \in Processes, Executes(p)
  PROVE  pc[p] \in {"resuming", "deciding"}
  BY DEF Executes, Decides

\* The steps of an execution, and the client's, keep the types.
LEMMA ExecuteTyped ==
  ASSUME Typed, Exclusive, NEW p \in Processes, Execute(p)
  PROVE  Typed'
<1> USE DEF Typed
<1>1. CASE ExecuteUnavailable(p) \/ EffectThrows(p)
  BY <1>1, ExecutesWhere, AbortTyped DEF ExecuteUnavailable, EffectThrows, JobsFit
<1>2. CASE ExecuteDenied(p)
  BY <1>2, ExecutesWhere, SettleTyped
     DEF ExecuteDenied, GovernedTypeOK, Statuses, Terminal
<1>3. CASE EffectFails(p)
  <2>1. PICK s \in {"conflict", "failed", "denied"} : Settle(p, s)
    BY <1>3 DEF EffectFails
  <2> QED
    BY <1>3, <2>1, SettleTyped DEF EffectFails, GovernedTypeOK, Statuses, Terminal
<1>4. CASE EffectSucceeds(p)
  <2>1. conn[p] \in Connections
    BY <1>4 DEF EffectSucceeds, Exclusive, Linked, InTransaction
  <2>2. \A q \in writes[conn[p]] : q = p
    BY <1>4, <2>1 DEF EffectSucceeds, Exclusive, Linked, InTransaction
  <2>3. job[p].op \in Operations /\ job[p].try \in Tries
    BY <1>4 DEF EffectSucceeds, JobsFit
  <2>4. landed' \in SUBSET (Processes \X Operations \X Tries)
    BY <1>4, <2>1, <2>2, <2>3 DEF EffectSucceeds, GovernedTypeOK
  <2> QED
    BY <1>4, <2>4, SettleTyped DEF EffectSucceeds, Statuses, Terminal
<1>5. CASE ExecuteHolds(p)
  <2> DEFINE o == job[p].op
             n == job[p].try
             row == [status |-> "pending_approval", cred |-> action[o][n].cred, stamp |-> rules]
  <2>1. o \in Operations /\ n \in Tries
    BY <1>5, ExecutesWhere DEF ExecuteHolds, JobsFit
  <2>2. /\ action' = [action EXCEPT ![o] = [action[o] EXCEPT ![n] = row]]
        /\ approval' = [approval EXCEPT ![o] = [approval[o] EXCEPT ![n] = "pending"]]
        /\ Close(p, "done") /\ "done" \in Pcs /\ UNCHANGED <<identity, tries, landed, job>>
    BY <1>5 DEF ExecuteHolds, Pcs
  <2>3. JobsFit'
    BY <2>1, <2>2 DEF Close, Release, GovernedTypeOK, JobsFit
  <2> HIDE DEF o, n
  <2>4. row \in Actions
    BY <2>1 DEF Actions, GovernedTypeOK, Statuses
  <2> HIDE DEF row
  <2>5. GovernedTypeOK'
    BY <2>1, <2>2, <2>4, CloseTypes DEF GovernedTypeOK
  <2> QED
    BY <2>3, <2>5
<1>6. CASE ExecuteRuns(p)
  BY <1>6, ExecutesWhere, GovernedAssumption DEF ExecuteRuns, GovernedTypeOK, JobsFit, Pcs, Executes, Decides
<1>7. CASE CallbackWrites(p)
  BY <1>7 DEF CallbackWrites, GovernedTypeOK, JobsFit
<1>8. CASE Expires(p)
  <2>1. "done" \in Pcs
    BY DEF Pcs
  <2>2. GovernedTypeOK'
    BY <1>8, <2>1, ReleaseTypes DEF Expires, GovernedTypeOK
  <2>3. JobsFit'
    BY <1>8 DEF Expires, Release, GovernedTypeOK, JobsFit, InTransaction
  <2> QED
    BY <2>2, <2>3
<1>9. CASE CallAgain(p)
  <2>1. NoJob \in Jobs /\ "idle" \in Pcs
    BY GovernedAssumption DEF NoJob, Jobs, Pcs
  <2> QED
    BY <1>9, <2>1 DEF CallAgain, GovernedTypeOK, JobsFit
<1> QED
  BY <1>1, <1>2, <1>3, <1>4, <1>5, <1>6, <1>7, <1>8, <1>9 DEF Execute

\* Administration keeps the types.
LEMMA AdministrationTyped ==
  ASSUME Typed, Administration
  PROVE  Typed'
<1> USE DEF Typed
<1>1. CASE StandingChanges \/ RulesChange \/ \E k \in Credentials : CredentialRevoked(k)
  BY <1>1 DEF StandingChanges, RulesChange, CredentialRevoked, GovernedTypeOK, JobsFit
<1>2. ASSUME NEW o \in Operations, NEW n \in Tries, OldReleaseWrites(o, n) PROVE Typed'
  BY <1>2 DEF OldReleaseWrites, GovernedTypeOK, JobsFit
<1> QED
  BY <1>1, <1>2 DEF Administration

\* Every step keeps the types.
LEMMA TypedStep == Typed /\ Exclusive /\ [Next]_vars => Typed'
<1> SUFFICES ASSUME Typed, Exclusive, [Next]_vars PROVE Typed'
  OBVIOUS
<1>1. ASSUME UNCHANGED vars PROVE Typed'
  BY <1>1 DEF vars, Typed, GovernedTypeOK, JobsFit
<1> QED
  BY <1>1, SubmitTyped, DecideTyped, ExecuteTyped, AdministrationTyped DEF Next

\* Closing, aborting and settling release what a process holds.
LEMMA CloseExclusive ==
  ASSUME Typed, Exclusive, NEW p \in Processes, NEW next \in {"accepted", "done"},
         Close(p, next), \A q \in Processes \ {p} : job'[q] = job[q]
  PROVE  Exclusive'
<1>1. next \in Pcs \ InTransaction
  BY DEF Pcs, InTransaction
<1>2. Release(p, next) /\ \A q \in Processes \ {p} : conn'[q] = conn[q]
  BY DEF Close, Typed, GovernedTypeOK
<1> QED
  BY <1>1, <1>2, ReleaseExclusive

\* No step of a submit breaks the exclusion.
LEMMA SubmitExclusive ==
  ASSUME Typed, Exclusive, NEW p \in Submits, Submit(p)
  PROVE  Exclusive'
<1>p. p \in Processes
  BY DEF Processes
<1>1. CASE SubmitBegin(p)
  <2>1. PICK o \in Operations : Open(p, o) /\ job'[p].op = o
    BY <1>1, <1>p DEF SubmitBegin, Typed, GovernedTypeOK
  <2>2. /\ pc[p] \notin InTransaction /\ pc'[p] = "begun" /\ UNCHANGED writes
        /\ \A q \in Processes \ {p} : pc'[q] = pc[q] /\ job'[q] = job[q]
    BY <1>1, <1>p DEF SubmitBegin, Typed, GovernedTypeOK, InTransaction
  <2> QED
    BY <1>p, <2>1, <2>2, OpenExclusive
<1>2. CASE SubmitRefused(p) \/ SubmitUnavailable(p) \/ ResumeStands(p)
  BY <1>2, <1>p, CloseExclusive DEF SubmitRefused, SubmitUnavailable, ResumeStands, Abort
<1>3. CASE SubmitReplays(p) \/ SubmitAccepted(p)
  <2>1. PICK next \in {"accepted", "done"} : Close(p, next)
    BY <1>3 DEF SubmitReplays, SubmitAccepted
  <2>2. \A q \in Processes \ {p} : job'[q] = job[q]
    BY <1>3, <1>p DEF SubmitReplays, SubmitAccepted, Typed, GovernedTypeOK
  <2> QED
    BY <1>p, <2>1, <2>2, CloseExclusive
<1>4. CASE ResumeBegin(p)
  <2>1. job[p].op \in Operations
    BY <1>4, <1>p DEF ResumeBegin, Typed, JobsFit
  <2>2. /\ Open(p, job[p].op) /\ job' = job /\ holder[job[p].op] = Nobody
        /\ pc[p] \notin InTransaction /\ pc'[p] = "resuming" /\ UNCHANGED writes
        /\ \A q \in Processes \ {p} : pc'[q] = pc[q]
    BY <1>4, <1>p DEF ResumeBegin, Typed, GovernedTypeOK, InTransaction
  <2> QED
    BY <1>p, <2>1, <2>2, OpenExclusive
<1>5. CASE ResumeBusy(p) \/ DiesBetween(p)
  <2>1. /\ pc[p] = "accepted" /\ pc' = [pc EXCEPT ![p] = "done"]
        /\ UNCHANGED <<tables, locks, links, job>>
    BY <1>5 DEF ResumeBusy, DiesBetween
  <2>2. Linked'
    BY <1>p, <2>1 DEF Exclusive, Linked, Typed, GovernedTypeOK, InTransaction
  <2>3. Locked'
    BY <1>p, <2>1 DEF Exclusive, Locked, Owns, Typed, GovernedTypeOK, InTransaction
  <2> QED
    BY <2>2, <2>3 DEF Exclusive
<1> QED
  BY <1>1, <1>2, <1>3, <1>4, <1>5 DEF Submit

\* No step of a decision breaks it.
LEMMA DecideExclusive ==
  ASSUME Typed, Exclusive, NEW p \in Decisions, Decide(p)
  PROVE  Exclusive'
<1>p. p \in Processes
  BY DEF Processes
<1>1. CASE DecideBegin(p)
  <2>1. PICK o \in Operations : Open(p, o) /\ job'[p].op = o /\ holder[o] = Nobody
    BY <1>1, <1>p DEF DecideBegin, Typed, GovernedTypeOK
  <2>2. /\ pc[p] \notin InTransaction /\ pc'[p] = "deciding" /\ UNCHANGED writes
        /\ \A q \in Processes \ {p} : pc'[q] = pc[q] /\ job'[q] = job[q]
    BY <1>1, <1>p DEF DecideBegin, Typed, GovernedTypeOK, InTransaction
  <2> QED
    BY <1>p, <2>1, <2>2, OpenExclusive
<1>2. CASE DecideRefused(p) \/ DecideInconsistent(p) \/ DecideDenies(p)
  BY <1>2, <1>p, CloseExclusive
     DEF DecideRefused, DecideInconsistent, DecideDenies, Abort, Settle
<1> QED
  BY <1>1, <1>2 DEF Decide

\* No step of an execution breaks it.
LEMMA ExecuteExclusive ==
  ASSUME Typed, Exclusive, NEW p \in Processes, Execute(p)
  PROVE  Exclusive'
<1>1. CASE \/ ExecuteUnavailable(p) \/ ExecuteDenied(p) \/ ExecuteHolds(p)
           \/ EffectSucceeds(p) \/ EffectFails(p) \/ EffectThrows(p)
  <2>1. Close(p, "done") /\ UNCHANGED job
    BY <1>1 DEF ExecuteUnavailable, ExecuteDenied, ExecuteHolds, EffectSucceeds, EffectFails,
       EffectThrows, Abort, Settle
  <2> QED
    BY <2>1, CloseExclusive
<1>2. CASE ExecuteRuns(p)
  <2>1. pc[p] \in {"resuming", "deciding"}
    BY <1>2, ExecutesWhere DEF ExecuteRuns
  <2> QED
    BY <1>2, <2>1 DEF ExecuteRuns, Exclusive, Linked, Locked, Owns, Typed, GovernedTypeOK,
       InTransaction
<1>3. CASE CallbackWrites(p)
  BY <1>3 DEF CallbackWrites, Exclusive, Linked, Locked, Owns, Typed, GovernedTypeOK
<1>4. CASE Expires(p)
  <2>1. Release(p, "done") /\ "done" \in Pcs \ InTransaction
    BY <1>4 DEF Expires, Pcs, InTransaction
  <2>2. \A q \in Processes \ {p} : conn'[q] = conn[q] /\ job'[q] = job[q]
    BY <1>4 DEF Expires, Typed, GovernedTypeOK
  <2> QED
    BY <2>1, <2>2, ReleaseExclusive
<1>5. CASE CallAgain(p)
  BY <1>5, GovernedAssumption DEF CallAgain, Exclusive, Linked, Locked, Owns, Typed, GovernedTypeOK,
     InTransaction, Processes
<1> QED
  BY <1>1, <1>2, <1>3, <1>4, <1>5 DEF Execute

\* Every step keeps the exclusion; administration touches no lock of it.
LEMMA ExclusiveStep == Typed /\ Exclusive /\ [Next]_vars => Exclusive'
<1> SUFFICES ASSUME Typed, Exclusive, [Next]_vars PROVE Exclusive'
  OBVIOUS
<1>1. ASSUME Administration \/ UNCHANGED vars PROVE Exclusive'
  BY <1>1 DEF Administration, StandingChanges, RulesChange, CredentialRevoked,
     OldReleaseWrites, vars, Exclusive, Linked, Locked, Owns
<1> QED
  BY <1>1, SubmitExclusive, DecideExclusive, ExecuteExclusive DEF Next

\* Types and exclusion hold however many callers, connections and crashes there are.
LEMMA ExclusiveAlways == Spec => [](Typed /\ Exclusive)
  BY TypedInit, ExclusiveInit, TypedStep, ExclusiveStep, PTL DEF Spec

\* The tables and the processes are well typed, for every number of attempts and callers.
THEOREM GovernedTypeCorrect == Spec => []GovernedTypeOK
  BY ExclusiveAlways, PTL DEF Typed

-----------------------------------------------------------------------------
(* The rows of an identity. *)

\* Attempts are numbered without gaps, all but the last are over, and the queue row of
\* an attempt follows its status.
RowsAgree ==
  /\ OnlyLatestIsOpen
  /\ ApprovalAgrees
  /\ \A o \in Operations, n \in Tries :
       action[o][n].status \in {"none", "requested"} => approval[o][n] = "none"

\* A process works on an attempt that exists.
Placed ==
  \A p \in Processes : pc[p] \in {"accepted", "resuming", "deciding", "executing"} =>
    job[p].try <= tries[job[p].op]

\* While the callback runs, authority is fenced and valid, and the attempt waits for it.
Fenced ==
  \A p \in Processes : pc[p] = "executing" =>
    /\ p \in sharing /\ Authorised(p) /\ ~Stale(p) /\ Cleared(p)
    /\ StatusOf(p) = IF p \in Submits THEN "requested" ELSE "pending_approval"
    /\ p \in Decisions => ApprovalOf(p) = "pending" /\ job[p].decision = "approved"

\* A process that settles its attempt: who it is, and what the attempt was.
Settles(p, status) ==
  /\ Settle(p, status) /\ status \in Terminal
  /\ pc[p] \in {"resuming", "deciding", "executing"}
  /\ \/ p \in Submits /\ StatusOf(p) = "requested"
     \/ p \in Decisions /\ StatusOf(p) = "pending_approval"
  /\ status = "succeeded" => EffectSucceeds(p)
  /\ status # "succeeded" => UNCHANGED landed

RowsSame == UNCHANGED <<identity, tries, action, approval, landed, overruled>>

\* Every step leaves the rows alone, accepts an attempt, settles one, holds one, or is
\* the old release's.
LEMMA StepKinds ==
  ASSUME Typed, Fenced, [Next]_vars
  PROVE  \/ RowsSame
         \/ \E p \in Submits : SubmitAccepted(p)
         \/ \E p \in Processes, s \in Terminal : Settles(p, s)
         \/ \E p \in Processes : ExecuteHolds(p)
         \/ \E o \in Operations, n \in Tries : OldReleaseWrites(o, n)
<1>s. UNCHANGED <<tables, overruled>> => RowsSame
  BY DEF RowsSame
<1>1. ASSUME NEW p \in Submits, Submit(p) PROVE RowsSame \/ SubmitAccepted(p)
  <2>1. UNCHANGED <<tables, overruled>> \/ SubmitAccepted(p)
    BY <1>1 DEF Submit, SubmitBegin, SubmitRefused, SubmitReplays, SubmitUnavailable, ResumeBegin,
       ResumeBusy, ResumeStands, DiesBetween, Abort, Close
  <2> QED
    BY <2>1, <1>s
<1>2. ASSUME NEW p \in Decisions, Decide(p)
      PROVE  RowsSame \/ Settles(p, "denied")
  <2>1. CASE DecideBegin(p) \/ DecideRefused(p)
    BY <2>1, <1>s DEF DecideBegin, DecideRefused, Abort, Close
  <2>2. CASE DecideInconsistent(p) \/ DecideDenies(p)
    BY <2>2 DEF DecideInconsistent, DecideDenies, Decides, Settles, Terminal
  <2> QED
    BY <1>2, <2>1, <2>2 DEF Decide
<1>3. ASSUME NEW p \in Processes, Execute(p)
      PROVE  RowsSame \/ ExecuteHolds(p) \/ \E s \in Terminal : Settles(p, s)
  <2>1. CASE \/ ExecuteUnavailable(p) \/ ExecuteRuns(p) \/ CallbackWrites(p)
             \/ EffectThrows(p) \/ Expires(p) \/ CallAgain(p)
    BY <2>1, <1>s DEF ExecuteUnavailable, ExecuteRuns, CallbackWrites, EffectThrows, Expires,
       CallAgain, Abort, Close
  <2>2. CASE ExecuteDenied(p)
    BY <2>2 DEF ExecuteDenied, Executes, Decides, Settles, Terminal
  <2>3. CASE EffectSucceeds(p) \/ EffectFails(p)
    <3>1. pc[p] = "executing"
      BY <2>3 DEF EffectSucceeds, EffectFails
    <3>2. \/ p \in Submits /\ StatusOf(p) = "requested"
          \/ p \in Decisions /\ StatusOf(p) = "pending_approval"
      BY <3>1 DEF Fenced, Processes
    <3> QED
      BY <2>3, <3>1, <3>2 DEF EffectSucceeds, EffectFails, Settles, Terminal
  <2> QED
    BY <1>3, <2>1, <2>2, <2>3 DEF Execute
<1>4. ASSUME Administration
      PROVE  RowsSame \/ \E o \in Operations, n \in Tries : OldReleaseWrites(o, n)
  BY <1>4 DEF Administration, StandingChanges, RulesChange, CredentialRevoked, RowsSame
<1>5. ASSUME UNCHANGED vars PROVE RowsSame
  BY <1>5 DEF vars, RowsSame
<1>6. \A p \in Decisions : p \in Processes
  BY DEF Processes
<1>7. "denied" \in Terminal
  BY DEF Terminal
<1> QED
  BY <1>1, <1>2, <1>3, <1>4, <1>5, <1>6, <1>7 DEF Next

\* The rows agree at first.
LEMMA RowsInit == Init => RowsAgree /\ Placed /\ Fenced
  BY GovernedAssumption
  DEF Init, RowsAgree, OnlyLatestIsOpen, ApprovalAgrees, Placed, Fenced, NoAction, Tries

\* What settling does to the row and to its queue row.
LEMMA SettlesRows ==
  ASSUME Typed, Fenced, NEW p \in Processes, NEW s \in Terminal, Settles(p, s)
  PROVE  /\ job[p].op \in Operations /\ job[p].try \in Tries
         /\ action[job[p].op][job[p].try].status \in {"requested", "pending_approval"}
         /\ action'[job[p].op][job[p].try].status = s
         /\ \A o \in Operations, n \in Tries :
              o # job[p].op \/ n # job[p].try =>
                action'[o][n] = action[o][n] /\ approval'[o][n] = approval[o][n]
         /\ \/ p \in Submits /\ approval' = approval
            \/ /\ p \in Decisions
               /\ approval'[job[p].op][job[p].try] =
                    IF ApprovalOf(p) = "pending" THEN job[p].decision ELSE ApprovalOf(p)
               /\ job[p].decision \in {"approved", "denied"}
               /\ s = "succeeded" => ApprovalOf(p) = "pending" /\ job[p].decision = "approved"
         /\ UNCHANGED <<identity, tries, job>>
<1>1. /\ Settle(p, s) /\ s \in Statuses
      /\ pc[p] \in {"resuming", "deciding", "executing"}
      /\ job[p].op \in Operations /\ job[p].try \in Tries
  BY DEF Settles, Typed, JobsFit, Statuses
<1>3. action'[job[p].op][job[p].try].status = s
  BY <1>1, SettleRows
<1>4. p \in Submits => p \notin Decisions
  BY GovernedAssumption
<1>5. p \in Submits => approval' = approval
  BY <1>1, <1>4 DEF Settle
<1>6. p \in Decisions => job[p].decision \in {"approved", "denied"}
  BY <1>1, <1>4 DEF Typed, JobsFit
<1>7. s = "succeeded" => pc[p] = "executing"
  BY DEF Settles, EffectSucceeds
<1>8. action[job[p].op][job[p].try].status \in {"requested", "pending_approval"}
  BY DEF Settles, StatusOf
<1>9. p \in Decisions =>
        approval'[job[p].op][job[p].try] =
          IF ApprovalOf(p) = "pending" THEN job[p].decision ELSE ApprovalOf(p)
  BY <1>1, SettleRows DEF ApprovalOf
<1>10. \A o \in Operations, n \in Tries :
         o # job[p].op \/ n # job[p].try =>
           action'[o][n] = action[o][n] /\ approval'[o][n] = approval[o][n]
  BY <1>1, SettleRows
<1>11. UNCHANGED <<identity, tries, job>>
  BY <1>1 DEF Settle
<1>12. s = "succeeded" /\ p \in Decisions =>
         ApprovalOf(p) = "pending" /\ job[p].decision = "approved"
  BY <1>7 DEF Fenced
<1> QED
  BY <1>1, <1>3, <1>5, <1>6, <1>8, <1>9, <1>10, <1>11, <1>12 DEF Processes

\* Orders of natural numbers, for leaves about anything but numbers.
LEMMA NatOrder ==
  /\ \A a, b \in Nat : a <= b /\ ~(a < b) => a = b
  /\ \A a \in Nat : a + 1 > a /\ (a + 1) - 1 = a
  /\ \A a \in Nat : a + 1 > 1 => a > 0
  OBVIOUS

\* What acceptance does: the next attempt, after none or a failed or denied one.
LEMMA AcceptedRows ==
  ASSUME Typed, NEW p \in Submits, SubmitAccepted(p)
  PROVE  LET o == job[p].op
             n == tries[o] + 1
         IN  /\ o \in Operations /\ n \in Tries
             /\ tries' = [tries EXCEPT ![o] = n]
             /\ action'[o][n] = [status |-> "requested", cred |-> job[p].cred, stamp |-> Nobody]
             /\ \A x \in Operations, m \in Tries :
                  x # o \/ m # n => action'[x][m] = action[x][m]
             /\ n > 1 => action[o][n - 1].status \in {"denied", "failed"}
             /\ identity[o] = Nobody \/ identity'[o] = identity[o]
             /\ \A x \in Operations \ {o} : identity'[x] = identity[x]
             /\ UNCHANGED <<approval, landed>>
<1> DEFINE o == job[p].op
           n == tries[o] + 1
<1> USE DEF Typed, GovernedTypeOK
<1>1. o \in Operations /\ n \in Tries /\ tries[o] \in Nat
  BY GovernedAssumption DEF SubmitAccepted, JobsFit, Processes, Tries
<1>2. /\ action' = [action EXCEPT ![o] = [action[o] EXCEPT ![n] =
                     [status |-> "requested", cred |-> job[p].cred, stamp |-> Nobody]]]
      /\ tries' = [tries EXCEPT ![o] = n]
      /\ identity' = [identity EXCEPT ![o] = job[p].text]
      /\ UNCHANGED <<approval, landed>>
  BY DEF SubmitAccepted
<1>3. n > 1 => action[o][n - 1].status \in {"denied", "failed"}
  <2> SUFFICES ASSUME n > 1 PROVE action[o][n - 1].status \in {"denied", "failed"}
    OBVIOUS
  <2>1. tries[o] > 0 /\ n - 1 = tries[o]
    BY <1>1, NatOrder
  <2>2. Latest(o) \in {"denied", "failed"}
    BY <2>1 DEF SubmitAccepted, Replays, Retriable
  <2> QED
    BY <2>1, <2>2 DEF Latest
<1>4. identity[o] = Nobody \/ identity[o] = job[p].text
  BY DEF SubmitAccepted, Matches
<1> HIDE DEF o, n
<1> QED
  BY <1>1, <1>2, <1>3, <1>4 DEF o, n

\* What a hold does: the requested attempt waits for the administrator.
LEMMA HoldsRows ==
  ASSUME Typed, NEW p \in Processes, ExecuteHolds(p)
  PROVE  LET o == job[p].op
             n == job[p].try
         IN  /\ o \in Operations /\ n \in Tries
             /\ action[o][n].status = "requested"
             /\ action'[o][n] = [status |-> "pending_approval", cred |-> action[o][n].cred,
                                 stamp |-> rules]
             /\ approval'[o][n] = "pending"
             /\ \A x \in Operations, m \in Tries :
                  x # o \/ m # n => /\ action'[x][m] = action[x][m]
                                    /\ approval'[x][m] = approval[x][m]
             /\ UNCHANGED <<identity, tries, landed>>
<1> DEFINE o == job[p].op
           n == job[p].try
<1> USE DEF Typed, GovernedTypeOK
<1>1. o \in Operations /\ n \in Tries
  BY ExecutesWhere DEF ExecuteHolds, JobsFit
<1>2. /\ action' = [action EXCEPT ![o] = [action[o] EXCEPT ![n] =
            [status |-> "pending_approval", cred |-> action[o][n].cred, stamp |-> rules]]]
      /\ approval' = [approval EXCEPT ![o] = [approval[o] EXCEPT ![n] = "pending"]]
      /\ UNCHANGED <<identity, tries, landed>>
  BY DEF ExecuteHolds
<1>3. action[o][n].status = "requested"
  BY GovernedAssumption DEF ExecuteHolds, Executes, StatusOf, Decides
<1> HIDE DEF o, n
<1> QED
  BY <1>1, <1>2, <1>3 DEF o, n

\* Every step keeps the rows in agreement.
LEMMA RowsStep ==
  ASSUME Typed, RowsAgree, Placed, Fenced, [Next]_vars
  PROVE  RowsAgree'
<1> USE DEF Typed, GovernedTypeOK
<1>1. CASE RowsSame
  BY <1>1 DEF RowsSame, RowsAgree, OnlyLatestIsOpen, ApprovalAgrees
<1>2. ASSUME NEW p \in Submits, SubmitAccepted(p) PROVE RowsAgree'
  <2> DEFINE o == job[p].op
             n == tries[o] + 1
  <2>1. /\ o \in Operations /\ n \in Tries /\ tries[o] \in Nat
        /\ tries' = [tries EXCEPT ![o] = n]
        /\ action'[o][n] = [status |-> "requested", cred |-> job[p].cred, stamp |-> Nobody]
        /\ \A x \in Operations, m \in Tries : x # o \/ m # n => action'[x][m] = action[x][m]
        /\ n > 1 => action[o][n - 1].status \in {"denied", "failed"}
        /\ UNCHANGED approval
    <3>1. tries[o] \in Nat \/ o \notin Operations
      BY GovernedAssumption
    <3> HIDE DEF Typed, GovernedTypeOK
    <3> QED
      BY <1>2, <3>1, AcceptedRows
  <2>l. UNCHANGED overruled
    BY <1>2 DEF SubmitAccepted, Close
  <2>2. approval[o][n] = "none"
    <3>1. n > tries[o]
      BY <2>1
    <3>2. action[o][n] = NoAction
      BY <2>1, <3>1 DEF RowsAgree, OnlyLatestIsOpen
    <3>3. action[o][n].status = "none"
      BY <3>2 DEF NoAction
    <3> QED
      BY <2>1, <3>3 DEF RowsAgree
  <2>3. action'[o][n].status = "requested"
    BY <2>1
  <2> HIDE DEF n, o
  <2>4. OnlyLatestIsOpen'
    <3> SUFFICES ASSUME NEW x \in Operations, NEW m \in Tries
                 PROVE  /\ m < tries'[x] => action'[x][m].status \in {"denied", "failed"}
                        /\ m > tries'[x] => action'[x][m] = NoAction
      BY DEF OnlyLatestIsOpen
    <3>1. CASE x # o
      BY <2>1, <3>1 DEF RowsAgree, OnlyLatestIsOpen
    <3>2. CASE x = o
      <4>1. tries[o] = n - 1 /\ m \in Int /\ n \in Int /\ tries'[x] = n
        BY <2>1, <3>2 DEF n, Tries
      <4>2. m > n => action'[x][m] = NoAction
        BY <2>1, <3>2, <4>1 DEF RowsAgree, OnlyLatestIsOpen
      <4>3. m = n - 1 => action'[x][m].status \in {"denied", "failed"}
        <5> SUFFICES ASSUME m = n - 1 PROVE action'[x][m].status \in {"denied", "failed"}
          OBVIOUS
        <5>1. m \in 1..MaxTries
          BY DEF Tries
        <5> HIDE DEF Typed, GovernedTypeOK
        <5>2. n > 1 /\ m # n
          BY <4>1, <5>1
        <5>3. action'[x][m] = action[x][m]
          BY <2>1, <5>2
        <5> QED
          BY <2>1, <3>2, <5>2, <5>3
      <4>4. m < n - 1 => action'[x][m].status \in {"denied", "failed"}
        BY <2>1, <3>2, <4>1 DEF RowsAgree, OnlyLatestIsOpen
      <4> QED
        BY <4>1, <4>2, <4>3, <4>4
    <3> QED
      BY <3>1, <3>2
  <2>5. \A x \in Operations, m \in Tries :
          \/ action'[x][m] = action[x][m]
          \/ action'[x][m].status = "requested" /\ approval[x][m] = "none"
    BY <2>1, <2>2, <2>3
  <2> QED
    BY <2>1, <2>l, <2>4, <2>5 DEF RowsAgree, ApprovalAgrees
<1>3. ASSUME NEW p \in Processes, NEW s \in Terminal, Settles(p, s) PROVE RowsAgree'
  <2> DEFINE o == job[p].op
             n == job[p].try
  <2>1. pc[p] \in {"resuming", "deciding", "executing"}
    BY <1>3 DEF Settles
  <2>l. UNCHANGED overruled
    BY <1>3 DEF Settles, Settle, Close
  <2>2. n = tries[o]
    <3>1. n <= tries[o] /\ tries[o] \in Nat /\ n \in Nat
      BY <2>1, <1>3, SettlesRows, GovernedAssumption DEF Placed, Tries
    <3>2. /\ o \in Operations /\ n \in Tries
          /\ action[o][n].status \in {"requested", "pending_approval"}
      BY <1>3, SettlesRows
    <3> HIDE DEF o, n
    <3>3. ~(n < tries[o])
      BY <3>2 DEF RowsAgree, OnlyLatestIsOpen
    <3> QED
      BY <3>1, <3>3, NatOrder
  <2>3. \A x \in Operations, m \in Tries :
          x # o \/ m # n => action'[x][m] = action[x][m] /\ approval'[x][m] = approval[x][m]
    BY <1>3, SettlesRows
  <2>4. OnlyLatestIsOpen'
    <3>1. o \in Operations /\ n \in Tries /\ UNCHANGED tries /\ tries[o] \in Nat
      BY <1>3, SettlesRows, GovernedAssumption
    <3>2. \A x \in Operations, m \in Tries :
            /\ m < tries[x] => action[x][m].status \in {"denied", "failed"}
            /\ m > tries[x] => action[x][m] = NoAction
      BY DEF RowsAgree, OnlyLatestIsOpen
    <3> HIDE DEF o, n, Typed
    <3>3. \A x \in Operations, m \in Tries : m < tries[x] \/ m > tries[x] => x # o \/ m # n
      BY <3>1, <2>2
    <3> QED
      BY <2>3, <3>1, <3>2, <3>3 DEF OnlyLatestIsOpen
  <2>5. action'[o][n].status = s /\ s \notin {"none", "requested", "pending_approval"}
    BY <1>3, SettlesRows DEF Terminal
  <2>6. /\ approval'[o][n] # "pending"
        /\ s = "succeeded" /\ approval'[o][n] # "none" => approval'[o][n] = "approved"
        /\ approval[o][n] # "none" => approval'[o][n] # "none"
    <3>1. o \in Operations /\ n \in Tries
      BY <1>3, SettlesRows
    <3>2. CASE p \in Submits
      <4>1. StatusOf(p) = "requested" /\ approval' = approval
        BY <1>3, <3>2, SettlesRows, GovernedAssumption DEF Settles
      <4>2. action[o][n].status = "requested"
        BY <4>1 DEF StatusOf
      <4>3. approval[o][n] = "none"
        BY <3>1, <4>2 DEF RowsAgree
      <4> QED
        BY <4>1, <4>3
    <3>3. CASE p \notin Submits
      <4> HIDE DEF Typed, GovernedTypeOK
      <4> QED
        BY <1>3, <3>1, <3>3, SettlesRows DEF ApprovalOf
    <3> QED
      BY <3>2, <3>3
  <2> HIDE DEF o, n
  <2>7. ApprovalAgrees'
    <3> SUFFICES ASSUME NEW x \in Operations, NEW m \in Tries
                 PROVE  /\ approval'[x][m] = "pending" => action'[x][m].status = "pending_approval"
                        /\ <<x, m>> \notin overruled' =>
                             /\ action'[x][m].status = "pending_approval"
                                  => approval'[x][m] = "pending"
                             /\ action'[x][m].status = "succeeded" /\ approval'[x][m] # "none"
                                  => approval'[x][m] = "approved"
      BY DEF ApprovalAgrees
    <3>1. CASE x = o /\ m = n
      BY <2>5, <2>6, <3>1
    <3>2. CASE x # o \/ m # n
      BY <2>l, <2>3, <3>2 DEF RowsAgree, ApprovalAgrees
    <3> QED
      BY <3>1, <3>2
  <2>8. \A x \in Operations, m \in Tries :
          action'[x][m].status \in {"none", "requested"} => approval'[x][m] = "none"
    <3> SUFFICES ASSUME NEW x \in Operations, NEW m \in Tries,
                        action'[x][m].status \in {"none", "requested"}
                 PROVE  approval'[x][m] = "none"
      OBVIOUS
    <3>1. x # o \/ m # n
      BY <2>5
    <3> QED
      BY <2>3, <3>1 DEF RowsAgree
  <2> QED
    BY <2>4, <2>7, <2>8 DEF RowsAgree
<1>4. ASSUME NEW p \in Processes, ExecuteHolds(p) PROVE RowsAgree'
  <2> DEFINE o == job[p].op
             n == job[p].try
  <2>1. /\ o \in Operations /\ n \in Tries /\ action[o][n].status = "requested"
        /\ action'[o][n] = [status |-> "pending_approval", cred |-> action[o][n].cred,
                            stamp |-> rules]
        /\ approval'[o][n] = "pending"
        /\ \A x \in Operations, m \in Tries :
             x # o \/ m # n => action'[x][m] = action[x][m] /\ approval'[x][m] = approval[x][m]
        /\ UNCHANGED tries
    BY <1>4, HoldsRows
  <2>2. n <= tries[o]
    BY <1>4, ExecutesWhere DEF ExecuteHolds, Placed
  <2>l. UNCHANGED overruled
    BY <1>4 DEF ExecuteHolds, Close
  <2> HIDE DEF o, n
  <2>3. action'[o][n].status = "pending_approval"
    BY <2>1
  <2>4. ~(n < tries[o]) /\ tries[o] \in Nat /\ n \in Nat
    <3>1. ~(n < tries[o])
      BY <2>1 DEF RowsAgree, OnlyLatestIsOpen
    <3>2. tries[o] \in Nat /\ n \in Nat
      BY <2>1, GovernedAssumption DEF Tries
    <3> QED
      BY <3>1, <3>2
  <2>5. OnlyLatestIsOpen'
    <3> SUFFICES ASSUME NEW x \in Operations, NEW m \in Tries
                 PROVE  /\ m < tries[x] => action'[x][m].status \in {"denied", "failed"}
                        /\ m > tries[x] => action'[x][m] = NoAction
      BY <2>1 DEF OnlyLatestIsOpen
    <3>1. CASE x = o /\ m = n
      BY <2>2, <2>4, <3>1
    <3>2. CASE x # o \/ m # n
      BY <2>1, <3>2 DEF RowsAgree, OnlyLatestIsOpen
    <3> QED
      BY <3>1, <3>2
  <2>6. \A x \in Operations, m \in Tries :
          \/ action'[x][m] = action[x][m] /\ approval'[x][m] = approval[x][m]
          \/ action'[x][m].status = "pending_approval" /\ approval'[x][m] = "pending"
    BY <2>1, <2>3
  <2>7. ApprovalAgrees'
    <3> SUFFICES ASSUME NEW x \in Operations, NEW m \in Tries
                 PROVE  /\ approval'[x][m] = "pending" => action'[x][m].status = "pending_approval"
                        /\ <<x, m>> \notin overruled' =>
                             /\ action'[x][m].status = "pending_approval"
                                  => approval'[x][m] = "pending"
                             /\ action'[x][m].status = "succeeded" /\ approval'[x][m] # "none"
                                  => approval'[x][m] = "approved"
      BY DEF ApprovalAgrees
    <3>1. ApprovalAgrees
      BY DEF RowsAgree
    <3> HIDE DEF Typed
    <3>2. CASE action'[x][m] = action[x][m] /\ approval'[x][m] = approval[x][m]
      BY <2>l, <3>1, <3>2 DEF ApprovalAgrees
    <3>3. CASE action'[x][m].status = "pending_approval" /\ approval'[x][m] = "pending"
      BY <3>3
    <3> QED
      BY <2>6, <3>2, <3>3
  <2>8. \A x \in Operations, m \in Tries :
          action'[x][m].status \in {"none", "requested"} => approval'[x][m] = "none"
    <3>1. \A x \in Operations, m \in Tries :
            action[x][m].status \in {"none", "requested"} => approval[x][m] = "none"
      BY DEF RowsAgree
    <3> HIDE DEF Typed, GovernedTypeOK
    <3> QED
      BY <2>6, <3>1
  <2> QED
    BY <2>5, <2>7, <2>8 DEF RowsAgree
<1>5. ASSUME NEW o \in Operations, NEW n \in Tries, OldReleaseWrites(o, n) PROVE RowsAgree'
  <2>1. PICK d \in {"approved", "denied"} :
          approval' = [approval EXCEPT ![o] = [approval[o] EXCEPT ![n] = d]]
    BY <1>5 DEF OldReleaseWrites
  <2>2. /\ UNCHANGED <<tries, action>> /\ approval[o][n] # "none"
        /\ overruled' = overruled \cup {<<o, n>>}
    BY <1>5 DEF OldReleaseWrites
  <2>3. \A x \in Operations, m \in Tries :
          action[x][m].status \in {"none", "requested"} => approval[x][m] = "none"
    BY DEF RowsAgree
  <2>4. /\ approval'[o][n] = d
        /\ \A x \in Operations, m \in Tries : x # o \/ m # n => approval'[x][m] = approval[x][m]
    BY <2>1
  <2>5. OnlyLatestIsOpen'
    BY <2>2 DEF RowsAgree, OnlyLatestIsOpen
  <2>c. ApprovalAgrees
    BY DEF RowsAgree
  <2> HIDE DEF Typed
  <2>6. ApprovalAgrees'
    <3> SUFFICES ASSUME NEW x \in Operations, NEW m \in Tries
                 PROVE  /\ approval'[x][m] = "pending" => action'[x][m].status = "pending_approval"
                        /\ <<x, m>> \notin overruled' =>
                             /\ action'[x][m].status = "pending_approval"
                                  => approval'[x][m] = "pending"
                             /\ action'[x][m].status = "succeeded" /\ approval'[x][m] # "none"
                                  => approval'[x][m] = "approved"
      BY DEF ApprovalAgrees
    <3>1. CASE x = o /\ m = n
      BY <2>2, <2>4, <3>1
    <3>2. CASE x # o \/ m # n
      BY <2>2, <2>4, <2>c, <3>2 DEF ApprovalAgrees
    <3> QED
      BY <3>1, <3>2
  <2>7. \A x \in Operations, m \in Tries :
          action'[x][m].status \in {"none", "requested"} => approval'[x][m] = "none"
    <3> SUFFICES ASSUME NEW x \in Operations, NEW m \in Tries
                 PROVE  action'[x][m].status \in {"none", "requested"} => approval'[x][m] = "none"
      OBVIOUS
    <3>1. CASE x = o /\ m = n
      BY <2>2, <2>3, <2>4, <3>1
    <3>2. CASE x # o \/ m # n
      <4>1. approval'[x][m] = approval[x][m]
        BY <2>4, <3>2
      <4> QED
        BY <2>2, <2>3, <4>1
    <3> QED
      BY <3>1, <3>2
  <2> QED
    BY <2>5, <2>6, <2>7 DEF RowsAgree
<1> QED
  BY <1>1, <1>2, <1>3, <1>4, <1>5, StepKinds

\* The number of attempts never falls.
LEMMA TriesGrow ==
  ASSUME Typed, Fenced, [Next]_vars, NEW o \in Operations
  PROVE  tries[o] \in Nat /\ tries'[o] \in Nat /\ tries[o] <= tries'[o]
<1>1. tries[o] \in Nat
  BY GovernedAssumption DEF Typed, GovernedTypeOK
<1>2. ASSUME NEW p \in Submits, SubmitAccepted(p)
      PROVE  tries'[o] \in Nat /\ tries[o] <= tries'[o]
  <2>1. tries' = [tries EXCEPT ![job[p].op] = tries[job[p].op] + 1]
    BY <1>2, AcceptedRows
  <2> QED
    BY <1>1, <2>1 DEF Typed, GovernedTypeOK
<1>3. ASSUME NEW p \in Processes, NEW s \in Terminal, Settles(p, s) PROVE UNCHANGED tries
  BY <1>3, SettlesRows
<1>4. ASSUME NEW p \in Processes, ExecuteHolds(p) PROVE UNCHANGED tries
  BY <1>4, HoldsRows
<1>5. ASSUME NEW x \in Operations, NEW n \in Tries, OldReleaseWrites(x, n)
      PROVE  UNCHANGED tries
  BY <1>5 DEF OldReleaseWrites
<1> QED
  BY <1>1, <1>2, <1>3, <1>4, <1>5, StepKinds DEF RowsSame

\* Whoever starts to work on an attempt works on one that exists.
LEMMA PlacedStep ==
  ASSUME Typed, Exclusive, RowsAgree, Placed, Fenced, [Next]_vars
  PROVE  Placed'
<1> SUFFICES ASSUME NEW q \in Processes,
                    pc'[q] \in {"accepted", "resuming", "deciding", "executing"}
             PROVE  job'[q].try <= tries'[job'[q].op]
  BY DEF Placed
<1>t. Typed'
  BY TypedStep
<1>1. CASE pc[q] \in {"accepted", "resuming", "deciding", "executing"} /\ job'[q] = job[q]
  <2>1. job[q].op \in Operations /\ job[q].try \in Nat
    BY <1>1 DEF Typed, JobsFit, Tries
  <2>2. job[q].try <= tries[job[q].op]
    BY <1>1 DEF Placed
  <2>3. /\ tries[job[q].op] \in Nat /\ tries'[job[q].op] \in Nat
        /\ tries[job[q].op] <= tries'[job[q].op]
    BY <2>1, TriesGrow
  <2> QED
    BY <1>1, <2>1, <2>2, <2>3
<1>2. ASSUME q \in Submits, SubmitReplays(q) PROVE job'[q].try <= tries'[job'[q].op]
  <2>1. /\ job'[q] = [job[q] EXCEPT !.try = tries[job[q].op]] /\ tries' = tries
        /\ job[q] \in Jobs /\ job[q].op \in Operations
    BY <1>2 DEF SubmitReplays, Typed, GovernedTypeOK, JobsFit
  <2>2. job'[q].try = tries[job[q].op] /\ job'[q].op = job[q].op
    BY <2>1 DEF Jobs
  <2> QED
    BY <2>1, <2>2, TriesGrow
<1>3. ASSUME q \in Submits, SubmitAccepted(q) PROVE job'[q].try <= tries'[job'[q].op]
  <2>1. /\ job'[q] = [job[q] EXCEPT !.try = tries[job[q].op] + 1]
        /\ tries' = [tries EXCEPT ![job[q].op] = tries[job[q].op] + 1]
        /\ job[q] \in Jobs /\ job[q].op \in Operations
    BY <1>3 DEF SubmitAccepted, Typed, GovernedTypeOK, JobsFit
  <2>2. job'[q].try = tries[job[q].op] + 1 /\ job'[q].op = job[q].op
    BY <2>1 DEF Jobs
  <2>3. tries'[job[q].op] = tries[job[q].op] + 1
    BY <2>1 DEF Typed, GovernedTypeOK
  <2> QED
    BY <2>1, <2>2, <2>3, TriesGrow
<1>4. ASSUME q \in Decisions, DecideBegin(q) PROVE job'[q].try <= tries'[job'[q].op]
  <2>1. PICK o \in Operations, n \in Tries, d \in {"approved", "denied"} :
          /\ approval[o][n] # "none" /\ tries' = tries
          /\ job' = [job EXCEPT ![q] = [op |-> o, try |-> n, text |-> Nobody,
                                        cred |-> Nobody, decision |-> d]]
    BY <1>4 DEF DecideBegin
  <2>2. ~(n > tries[o])
    <3>1. action[o][n] = NoAction => action[o][n].status = "none"
      BY DEF NoAction
    <3> QED
      BY <2>1, <3>1 DEF RowsAgree, OnlyLatestIsOpen
  <2>3. tries[o] \in Nat /\ n \in Nat
    BY GovernedAssumption DEF Typed, GovernedTypeOK, Tries
  <2>4. n <= tries[o]
    BY <2>2, <2>3
  <2> QED
    BY <2>1, <2>4 DEF Typed, GovernedTypeOK
<1>5. \/ pc[q] \in {"accepted", "resuming", "deciding", "executing"} /\ job'[q] = job[q]
      \/ q \in Submits /\ (SubmitReplays(q) \/ SubmitAccepted(q))
      \/ q \in Decisions /\ DecideBegin(q)
  <2> USE DEF Typed, GovernedTypeOK
  <2>1. ASSUME NEW p \in Submits, Submit(p), ~SubmitReplays(p), ~SubmitAccepted(p)
        PROVE  pc[q] \in {"accepted", "resuming", "deciding", "executing"} /\ job'[q] = job[q]
    BY <2>1 DEF Submit, SubmitBegin, SubmitRefused, SubmitUnavailable, ResumeBegin, ResumeBusy,
       ResumeStands, DiesBetween, Abort, Close, Release
  <2>2. ASSUME NEW p \in Submits, SubmitReplays(p) \/ SubmitAccepted(p), p # q
        PROVE  pc[q] \in {"accepted", "resuming", "deciding", "executing"} /\ job'[q] = job[q]
    BY <2>2 DEF SubmitReplays, SubmitAccepted, Close, Release, Processes
  <2>3. ASSUME NEW p \in Decisions, Decide(p), ~(p = q /\ DecideBegin(p))
        PROVE  pc[q] \in {"accepted", "resuming", "deciding", "executing"} /\ job'[q] = job[q]
    BY <2>3 DEF Decide, DecideBegin, DecideRefused, DecideInconsistent, DecideDenies, Abort,
       Settle, Close, Release
  <2>4. ASSUME NEW p \in Processes, Execute(p)
        PROVE  pc[q] \in {"accepted", "resuming", "deciding", "executing"} /\ job'[q] = job[q]
    BY <2>4 DEF Execute, ExecuteUnavailable, ExecuteDenied, ExecuteHolds, ExecuteRuns,
       CallbackWrites, EffectSucceeds, EffectFails, EffectThrows, Expires, CallAgain, Executes,
       Decides, Abort, Settle, Close, Release
  <2>5. ASSUME Administration \/ UNCHANGED vars
        PROVE  pc[q] \in {"accepted", "resuming", "deciding", "executing"} /\ job'[q] = job[q]
    BY <2>5 DEF Administration, StandingChanges, RulesChange, CredentialRevoked,
       OldReleaseWrites, vars
  <2> QED
    BY <2>1, <2>2, <2>3, <2>4, <2>5 DEF Next
<1> QED
  BY <1>1, <1>2, <1>3, <1>4, <1>5

\* While a callback runs, its process keeps its job and the fence, and nobody writes the
\* tables of authority.
LEMMA FenceHolds ==
  ASSUME Typed, Fenced, [Next]_vars, NEW q \in Processes, pc[q] = "executing",
         pc'[q] = "executing"
  PROVE  job'[q] = job[q] /\ q \in sharing' /\ UNCHANGED authority
<1> USE DEF Typed, GovernedTypeOK
<1>q. q \in sharing
  BY DEF Fenced
<1>1. ASSUME NEW p \in Submits, Submit(p)
      PROVE  job'[q] = job[q] /\ q \in sharing' /\ UNCHANGED authority
  <2>1. pc[p] # "executing"
    BY <1>1 DEF Submit, SubmitBegin, SubmitRefused, SubmitReplays, SubmitUnavailable,
       SubmitAccepted, ResumeBegin, ResumeBusy, ResumeStands, DiesBetween
  <2>2. p # q
    BY <2>1
  <2> QED
    BY <1>1, <1>q, <2>2 DEF Submit, SubmitBegin, SubmitRefused, SubmitReplays,
       SubmitUnavailable, SubmitAccepted, ResumeBegin, ResumeBusy, ResumeStands, DiesBetween,
       Abort, Close, Release, Processes
<1>2. ASSUME NEW p \in Decisions, Decide(p)
      PROVE  job'[q] = job[q] /\ q \in sharing' /\ UNCHANGED authority
  <2>1. p # q
    BY <1>2 DEF Decide, DecideBegin, DecideRefused, DecideInconsistent, DecideDenies, Decides
  <2> QED
    BY <1>2, <1>q, <2>1 DEF Decide, DecideBegin, DecideRefused, DecideInconsistent,
       DecideDenies, Abort, Settle, Close, Release, Processes
<1>3. ASSUME NEW p \in Processes, Execute(p)
      PROVE  job'[q] = job[q] /\ q \in sharing' /\ UNCHANGED authority
  <2>1. CASE ExecuteRuns(p) \/ CallbackWrites(p)
    BY <2>1, <1>q DEF ExecuteRuns, CallbackWrites
  <2>2. CASE ~(ExecuteRuns(p) \/ CallbackWrites(p))
    <3>1. p # q
      BY <1>3, <2>2 DEF Execute, ExecuteUnavailable, ExecuteDenied, ExecuteHolds,
         EffectSucceeds, EffectFails, EffectThrows, Expires, CallAgain, Abort, Settle, Close,
         Release
    <3> QED
      BY <1>3, <2>2, <1>q, <3>1 DEF Execute, ExecuteUnavailable, ExecuteDenied, ExecuteHolds,
         EffectSucceeds, EffectFails, EffectThrows, Expires, CallAgain, Abort, Settle, Close,
         Release
  <2> QED
    BY <2>1, <2>2
<1>4. ASSUME Administration \/ UNCHANGED vars
      PROVE  job'[q] = job[q] /\ q \in sharing' /\ UNCHANGED authority
  BY <1>4, <1>q DEF Administration, StandingChanges, RulesChange, CredentialRevoked,
     OldReleaseWrites, vars
<1> QED
  BY <1>1, <1>2, <1>3, <1>4 DEF Next

\* While a callback runs nobody else writes the attempt it works on, because its process
\* holds the identity, nor the queue row of a decision, which is locked FOR UPDATE.
LEMMA RowHolds ==
  ASSUME Typed, Exclusive, Fenced, [Next]_vars, NEW q \in Processes, pc[q] = "executing",
         pc'[q] = "executing"
  PROVE  /\ action'[job[q].op][job[q].try] = action[job[q].op][job[q].try]
         /\ q \in Decisions =>
              approval'[job[q].op][job[q].try] = approval[job[q].op][job[q].try]
<1> USE DEF Typed, GovernedTypeOK
<1>q. job[q].op \in Operations /\ job[q].try \in Tries /\ holder[job[q].op] = q
  BY DEF JobsFit, Exclusive, Locked, Owns
<1>1. ASSUME NEW p \in Submits, SubmitAccepted(p)
      PROVE  action'[job[q].op][job[q].try] = action[job[q].op][job[q].try]
             /\ UNCHANGED approval
  <2>1. job[p].op # job[q].op
    BY <1>1, <1>q DEF SubmitAccepted, Owns
  <2> QED
    <3>1. /\ UNCHANGED approval
          /\ \A x \in Operations, m \in Tries :
               x # job[p].op => action'[x][m] = action[x][m]
      <4>1. \A x \in Operations, m \in Tries :
              x # job[p].op \/ m # tries[job[p].op] + 1 => action'[x][m] = action[x][m]
        BY <1>1, AcceptedRows, Zenon
      <4> QED
        BY <1>1, <4>1 DEF SubmitAccepted
    <3> QED
      BY <1>q, <2>1, <3>1
<1>2. ASSUME NEW p \in Processes, NEW s \in Terminal, Settles(p, s)
      PROVE  action'[job[q].op][job[q].try] = action[job[q].op][job[q].try]
             /\ approval'[job[q].op][job[q].try] = approval[job[q].op][job[q].try]
  <2>1. p # q /\ holder[job[p].op] = p
    BY <1>2 DEF Settles, Settle, Close, Release, Exclusive, Locked, Owns
  <2>2. job[p].op # job[q].op
    BY <1>q, <2>1
  <2> QED
    BY <1>2, <1>q, <2>2, SettlesRows
<1>3. ASSUME NEW p \in Processes, ExecuteHolds(p)
      PROVE  action'[job[q].op][job[q].try] = action[job[q].op][job[q].try]
             /\ approval'[job[q].op][job[q].try] = approval[job[q].op][job[q].try]
  <2>1. p # q /\ holder[job[p].op] = p
    BY <1>3, ExecutesWhere DEF ExecuteHolds, Close, Release, Exclusive, Locked, Owns
  <2>2. job[p].op # job[q].op
    BY <1>q, <2>1
  <2> QED
    BY <1>3, <1>q, <2>2, HoldsRows
<1>4. ASSUME NEW o \in Operations, NEW n \in Tries, OldReleaseWrites(o, n)
      PROVE  /\ UNCHANGED action
             /\ q \in Decisions =>
                  approval'[job[q].op][job[q].try] = approval[job[q].op][job[q].try]
  <2>1. q \in Decisions => job[q].op # o
    BY <1>4 DEF OldReleaseWrites
  <2> QED
    BY <1>4, <1>q, <2>1 DEF OldReleaseWrites
<1> QED
  BY <1>1, <1>2, <1>3, <1>4, StepKinds DEF RowsSame

\* Authority and the attempt stay as they were checked for as long as the callback runs.
LEMMA FencedStep ==
  ASSUME Typed, Exclusive, Fenced, [Next]_vars
  PROVE  Fenced'
<1> USE DEF Typed, GovernedTypeOK
<1> SUFFICES ASSUME NEW q \in Processes, pc'[q] = "executing"
             PROVE  /\ q \in sharing' /\ Authorised(q)' /\ ~Stale(q)' /\ Cleared(q)'
                    /\ StatusOf(q)' = IF q \in Submits THEN "requested" ELSE "pending_approval"
                    /\ q \in Decisions =>
                         ApprovalOf(q)' = "pending" /\ job'[q].decision = "approved"
  BY DEF Fenced
<1>1. CASE pc[q] = "executing"
  <2>1. job'[q] = job[q] /\ q \in sharing' /\ UNCHANGED authority
    BY <1>1, FenceHolds
  <2>2. /\ action'[job[q].op][job[q].try] = action[job[q].op][job[q].try]
        /\ q \in Decisions =>
             approval'[job[q].op][job[q].try] = approval[job[q].op][job[q].try]
    BY <1>1, RowHolds
  <2> QED
    BY <1>1, <2>1, <2>2 DEF Fenced, Authorised, Stale, Cleared, StatusOf, StampOf, ApprovalOf
<1>2. CASE pc[q] # "executing"
  <2>1. ExecuteRuns(q)
    <3>1. ASSUME NEW p \in Submits, Submit(p) PROVE FALSE
      BY <3>1, <1>2 DEF Submit, SubmitBegin, SubmitRefused, SubmitReplays,
         SubmitUnavailable, SubmitAccepted, ResumeBegin, ResumeBusy, ResumeStands, DiesBetween,
         Abort, Close, Release
    <3>2. ASSUME NEW p \in Decisions, Decide(p) PROVE FALSE
      BY <3>2, <1>2 DEF Decide, DecideBegin, DecideRefused, DecideInconsistent,
         DecideDenies, Abort, Settle, Close, Release
    <3>3. ASSUME NEW p \in Processes, Execute(p) PROVE p = q /\ ExecuteRuns(p)
      BY <3>3, <1>2 DEF Execute, ExecuteUnavailable, ExecuteDenied, ExecuteHolds, ExecuteRuns,
         CallbackWrites, EffectSucceeds, EffectFails, EffectThrows, Expires, CallAgain, Abort,
         Settle, Close, Release
    <3>4. ASSUME Administration \/ UNCHANGED vars PROVE FALSE
      BY <3>4, <1>2 DEF Administration, StandingChanges, RulesChange, CredentialRevoked,
         OldReleaseWrites, vars
    <3> QED
      BY <3>1, <3>2, <3>3, <3>4 DEF Next
  <2>2. q \in Submits => q \notin Decisions
    BY GovernedAssumption
  <2> QED
    BY <2>1, <2>2 DEF ExecuteRuns, Executes, Decides, Authorised, Stale, Cleared, StatusOf,
       StampOf, ApprovalOf, Processes
<1> QED
  BY <1>1, <1>2

-----------------------------------------------------------------------------
(* Effects. *)

\* The committed effects are those of the succeeded attempts, one of each.
EffectsAgree ==
  /\ \A e \in landed : action[e[2]][e[3]].status = "succeeded"
  /\ \A e, f \in landed : e[2] = f[2] /\ e[3] = f[3] => e = f
  /\ \A o \in Operations, n \in Tries :
       action[o][n].status = "succeeded" => \E e \in landed : e[2] = o /\ e[3] = n

\* A success commits the effect of its own process and no other, since nobody else can
\* have written on its connection.
LEMMA SuccessLands ==
  ASSUME Typed, Exclusive, NEW p \in Processes, EffectSucceeds(p)
  PROVE  landed' = landed \cup {<<p, job[p].op, job[p].try>>}
<1>1. writes[conn[p]] = {p}
  <2>1. conn[p] \in Connections /\ owner[conn[p]] = p /\ p \in writes[conn[p]]
    BY DEF EffectSucceeds, Exclusive, Linked, InTransaction
  <2>2. \A q \in writes[conn[p]] : q = p
    BY <2>1 DEF Exclusive, Linked
  <2> QED
    BY <2>1, <2>2
<1> QED
  BY <1>1 DEF EffectSucceeds

\* Every step keeps effects and attempts in agreement.
LEMMA EffectsStep ==
  ASSUME Typed, Exclusive, RowsAgree, Fenced, EffectsAgree, [Next]_vars
  PROVE  EffectsAgree'
<1> USE DEF Typed, GovernedTypeOK
<1>e. \A e \in landed : e[2] \in Operations /\ e[3] \in Tries
  OBVIOUS
<1>1. CASE RowsSame
  BY <1>1 DEF RowsSame, EffectsAgree
<1>2. ASSUME UNCHANGED landed,
             \A o \in Operations, n \in Tries :
               \/ action'[o][n] = action[o][n]
               \/ action[o][n].status # "succeeded" /\ action'[o][n].status # "succeeded"
      PROVE  EffectsAgree'
  <2>1. \A o \in Operations, n \in Tries :
          action'[o][n].status = "succeeded" <=> action[o][n].status = "succeeded"
    BY <1>2
  <2>2. \A e \in landed : action'[e[2]][e[3]].status = "succeeded"
    BY <1>e, <2>1 DEF EffectsAgree
  <2>3. \A o \in Operations, n \in Tries :
          action'[o][n].status = "succeeded" => \E e \in landed : e[2] = o /\ e[3] = n
    BY <2>1 DEF EffectsAgree
  <2> QED
    BY <1>2, <2>2, <2>3 DEF EffectsAgree
<1>3. ASSUME NEW p \in Submits, SubmitAccepted(p) PROVE EffectsAgree'
  <2> DEFINE o == job[p].op
             n == tries[o] + 1
  <2>1. /\ o \in Operations /\ n \in Tries /\ tries[o] \in Nat
        /\ action'[o][n] = [status |-> "requested", cred |-> job[p].cred, stamp |-> Nobody]
        /\ \A x \in Operations, m \in Tries : x # o \/ m # n => action'[x][m] = action[x][m]
        /\ UNCHANGED landed
    BY <1>3, AcceptedRows, GovernedAssumption
  <2>2. n > tries[o]
    BY <2>1, NatOrder
  <2>3. action[o][n] = NoAction
    BY <2>1, <2>2 DEF RowsAgree, OnlyLatestIsOpen
  <2>4. action[o][n].status = "none" /\ action'[o][n].status = "requested"
    BY <2>1, <2>3 DEF NoAction
  <2> HIDE DEF o, n
  <2> QED
    BY <1>2, <2>1, <2>4
<1>4. ASSUME NEW p \in Processes, NEW s \in Terminal, Settles(p, s) PROVE EffectsAgree'
  <2> DEFINE o == job[p].op
             n == job[p].try
  <2>1. /\ o \in Operations /\ n \in Tries
        /\ action[o][n].status # "succeeded" /\ action'[o][n].status = s
        /\ \A x \in Operations, m \in Tries : x # o \/ m # n => action'[x][m] = action[x][m]
    <3> HIDE DEF Typed, GovernedTypeOK
    <3> QED
      BY <1>4, SettlesRows
  <2>2. CASE s # "succeeded"
    <3>1. UNCHANGED landed
      BY <1>4, <2>2 DEF Settles
    <3> HIDE DEF o, n
    <3> QED
      BY <1>2, <2>1, <2>2, <3>1
  <2>3. CASE s = "succeeded"
    <3>1. landed' = landed \cup {<<p, o, n>>}
      BY <1>4, <2>3, SuccessLands DEF Settles
    <3> HIDE DEF o, n
    <3>2. \A e \in landed : e[2] # o \/ e[3] # n
      BY <2>1 DEF EffectsAgree
    <3>3. \A e \in landed' : action'[e[2]][e[3]].status = "succeeded"
      BY <1>e, <2>1, <2>3, <3>1, <3>2 DEF EffectsAgree
    <3>4. \A e, f \in landed' : e[2] = f[2] /\ e[3] = f[3] => e = f
      BY <3>1, <3>2 DEF EffectsAgree
    <3>5. \A x \in Operations, m \in Tries :
            action'[x][m].status = "succeeded" => \E e \in landed' : e[2] = x /\ e[3] = m
      <4> SUFFICES ASSUME NEW x \in Operations, NEW m \in Tries,
                          action'[x][m].status = "succeeded"
                   PROVE  \E e \in landed' : e[2] = x /\ e[3] = m
        OBVIOUS
      <4>1. CASE x = o /\ m = n
        <5>1. <<p, o, n>> \in landed' /\ <<p, o, n>>[2] = x /\ <<p, o, n>>[3] = m
          BY <3>1, <4>1
        <5> QED
          BY <5>1
      <4>2. CASE x # o \/ m # n
        <5>1. action[x][m].status = "succeeded"
          BY <2>1, <4>2
        <5>2. PICK e \in landed : e[2] = x /\ e[3] = m
          BY <5>1 DEF EffectsAgree
        <5> QED
          BY <3>1, <5>2
      <4> QED
        BY <4>1, <4>2
    <3> QED
      BY <3>3, <3>4, <3>5 DEF EffectsAgree
  <2> QED
    BY <2>2, <2>3
<1>5. ASSUME NEW p \in Processes, ExecuteHolds(p) PROVE EffectsAgree'
  <2> DEFINE o == job[p].op
             n == job[p].try
  <2>1. /\ o \in Operations /\ n \in Tries /\ action[o][n].status = "requested"
        /\ action'[o][n] = [status |-> "pending_approval", cred |-> action[o][n].cred,
                            stamp |-> rules]
        /\ \A x \in Operations, m \in Tries : x # o \/ m # n => action'[x][m] = action[x][m]
        /\ UNCHANGED landed
    BY <1>5, HoldsRows
  <2> HIDE DEF o, n
  <2>2. action'[o][n].status = "pending_approval"
    BY <2>1
  <2> QED
    BY <1>2, <2>1, <2>2
<1>6. ASSUME NEW o \in Operations, NEW n \in Tries, OldReleaseWrites(o, n)
      PROVE  EffectsAgree'
  BY <1>6 DEF OldReleaseWrites, EffectsAgree
<1> QED
  BY <1>1, <1>3, <1>4, <1>5, <1>6, StepKinds

-----------------------------------------------------------------------------
(* Theorems. *)

GovernedInv == Typed /\ Exclusive /\ RowsAgree /\ Placed /\ Fenced /\ EffectsAgree

\* The inductive invariant holds however many callers, crashes and edits there are.
LEMMA GovernedInvAlways == Spec => []GovernedInv
<1>1. Init => GovernedInv
  <2>1. Init => EffectsAgree
    BY DEF Init, EffectsAgree, NoAction
  <2> QED
    BY <2>1, TypedInit, ExclusiveInit, RowsInit DEF GovernedInv
<1>2. GovernedInv /\ [Next]_vars => GovernedInv'
  BY TypedStep, ExclusiveStep, RowsStep, PlacedStep, FencedStep, EffectsStep DEF GovernedInv
<1> QED
  BY <1>1, <1>2, PTL DEF Spec

\* However many submits, replays, decisions and recoveries there are, an identity has at
\* most one committed effect, that of the attempt recorded as succeeded.
THEOREM EffectIsUnique == Spec => []OneEffect
<1>1. GovernedInv => OneEffect
  <2> SUFFICES ASSUME GovernedInv, NEW o \in Operations
               PROVE  /\ Cardinality(EffectsOf(o)) <= 1
                      /\ \A n \in Tries :
                           (\E e \in EffectsOf(o) : e[3] = n) <=> action[o][n].status = "succeeded"
    BY DEF OneEffect
  <2> USE DEF GovernedInv, EffectsAgree, EffectsOf, Typed, GovernedTypeOK
  <2>1. \A e \in EffectsOf(o) : e[3] = tries[o] /\ e[2] = o /\ e \in landed
    <3> SUFFICES ASSUME NEW e \in EffectsOf(o) PROVE e[3] = tries[o]
      OBVIOUS
    <3>0. e[3] \in Tries /\ e[2] = o /\ e \in landed
      OBVIOUS
    <3>1. e[3] \in Tries /\ action[o][e[3]].status = "succeeded" /\ tries[o] \in Nat
      <4>1. action[e[2]][e[3]].status = "succeeded"
        BY <3>0
      <4>2. tries[o] \in Nat
        BY GovernedAssumption
      <4> QED
        BY <3>0, <4>1, <4>2
    <3>l. OnlyLatestIsOpen
      BY DEF RowsAgree
    <3> HIDE DEF GovernedInv, EffectsAgree, EffectsOf, Typed, GovernedTypeOK
    <3>2. ~(e[3] < tries[o])
      BY <3>1, <3>l DEF OnlyLatestIsOpen
    <3>3. ~(e[3] > tries[o])
      BY <3>1, <3>l DEF OnlyLatestIsOpen, NoAction
    <3> QED
      BY <3>1, <3>2, <3>3 DEF Tries
  <2>2. \A e, f \in EffectsOf(o) : e = f
    BY <2>1
  <2>3. Cardinality(EffectsOf(o)) <= 1
    <3>1. CASE EffectsOf(o) = {}
      <4> HIDE DEF EffectsOf
      <4>1. Cardinality({}) = 0
        BY FS_EmptySet
      <4> QED
        BY <3>1, <4>1
    <3>2. ASSUME NEW e \in EffectsOf(o) PROVE Cardinality(EffectsOf(o)) <= 1
      <4>1. EffectsOf(o) = {e}
        BY <2>2
      <4> HIDE DEF EffectsOf
      <4>2. Cardinality({e}) = 1
        BY FS_Singleton
      <4> QED
        BY <4>1, <4>2
    <3> QED
      BY <3>1, <3>2
  <2>4. \A n \in Tries :
          (\E e \in EffectsOf(o) : e[3] = n) <=> action[o][n].status = "succeeded"
    OBVIOUS
  <2> QED
    BY <2>3, <2>4
<1> QED
  BY <1>1, GovernedInvAlways, PTL

\* Every attempt of an identity but the last has failed or was denied.
THEOREM HistoryIsClosed == Spec => []OnlyLatestIsOpen
  BY GovernedInvAlways, PTL DEF GovernedInv, RowsAgree

\* A queue row left pending belongs to an action that waits; and unless an older release
\* has overwritten the row, an action that waits has a pending row and what was executed
\* after a hold was approved.
THEOREM QueueRowAgrees == Spec => []ApprovalAgrees
  BY GovernedInvAlways, PTL DEF GovernedInv, RowsAgree

\* A callback runs only under its identity and behind the fence on authority.
THEOREM CallbackFenced == Spec => []CallbackIsFenced
<1>1. GovernedInv => CallbackIsFenced
  <2> SUFFICES ASSUME GovernedInv, NEW p \in Processes, pc[p] = "executing"
               PROVE  /\ Owns(p) /\ p \in sharing
                      /\ job[p].try = tries[job[p].op]
                      /\ StatusOf(p) = IF p \in Submits THEN "requested" ELSE "pending_approval"
                      /\ p \in Decisions => ApprovalOf(p) = "pending"
    BY DEF CallbackIsFenced
  <2>1. /\ job[p].op \in Operations /\ job[p].try \in Tries /\ tries[job[p].op] \in Nat
    BY GovernedAssumption DEF GovernedInv, Typed, GovernedTypeOK, JobsFit
  <2>2. job[p].try <= tries[job[p].op]
    BY DEF GovernedInv, Placed
  <2>3. ~(job[p].try < tries[job[p].op])
    BY <2>1 DEF GovernedInv, Fenced, StatusOf, RowsAgree, OnlyLatestIsOpen
  <2> QED
    BY <2>1, <2>2, <2>3 DEF GovernedInv, Exclusive, Locked, Fenced, Tries
<1> QED
  BY <1>1, GovernedInvAlways, PTL

\* An effect commits only while its credential, the member's standing and the rules, or
\* the approval which that commit records under these very rules, allow it.
THEOREM CommitsAuthorised == Spec => CommitsUnderAuthority
<1>1. ASSUME GovernedInv, [Next]_vars, NEW e \in landed' \ landed
      PROVE  LET a == action[e[2]][e[3]]
             IN  /\ a.cred \in live /\ standing = "team"
                 /\ \/ Verdict[rules] = "allow"
                    \/ /\ a.stamp = rules
                       /\ approval[e[2]][e[3]] = "pending"
                       /\ approval'[e[2]][e[3]] = "approved"
  <2> USE DEF GovernedInv
  <2>1. PICK p \in Processes : Settles(p, "succeeded")
    <3>1. ASSUME NEW p \in Submits, SubmitAccepted(p) PROVE UNCHANGED landed
      BY <3>1 DEF SubmitAccepted
    <3>2. ASSUME NEW p \in Processes, ExecuteHolds(p) PROVE UNCHANGED landed
      BY <3>2 DEF ExecuteHolds
    <3>3. ASSUME NEW o \in Operations, NEW n \in Tries, OldReleaseWrites(o, n)
          PROVE  UNCHANGED landed
      BY <3>3 DEF OldReleaseWrites
    <3>4. ASSUME NEW p \in Processes, NEW s \in Terminal, Settles(p, s), s # "succeeded"
          PROVE  UNCHANGED landed
      BY <3>4 DEF Settles
    <3> QED
      BY <1>1, <3>1, <3>2, <3>3, <3>4, StepKinds DEF RowsSame
  <2>2. EffectSucceeds(p) /\ pc[p] = "executing"
    BY <2>1 DEF Settles, EffectSucceeds
  <2>3. e = <<p, job[p].op, job[p].try>>
    BY <1>1, <2>2, SuccessLands
  <2>4. Authorised(p) /\ ~Stale(p) /\ Cleared(p)
    BY <1>1, <2>2 DEF Fenced
  <2>5. p \in Decisions => approval'[job[p].op][job[p].try] = "approved"
    <3>1. "succeeded" \in Terminal
      BY DEF Terminal
    <3>2. p \in Decisions => p \notin Submits
      BY GovernedAssumption
    <3> QED
      BY <1>1, <2>1, <3>1, <3>2, SettlesRows
  <2>6. p \in Decisions => approval[job[p].op][job[p].try] = "pending"
    BY <1>1, <2>2 DEF Fenced, ApprovalOf
  <2>7. e[2] = job[p].op /\ e[3] = job[p].try
    BY <2>3
  <2> HIDE DEF GovernedInv
  <2>8. /\ action[job[p].op][job[p].try].cred \in live /\ standing = "team"
        /\ p \in Decisions => action[job[p].op][job[p].try].stamp = rules
        /\ Verdict[rules] = "allow" \/ p \in Decisions
    BY <2>4 DEF Authorised, Stale, Cleared, StampOf
  <2> QED
    BY <2>5, <2>6, <2>7, <2>8
<1>2. GovernedInv /\ [Next]_vars =>
        [\A e \in landed' \ landed :
           LET a == action[e[2]][e[3]]
           IN  /\ a.cred \in live /\ standing = "team"
               /\ \/ Verdict[rules] = "allow"
                  \/ /\ a.stamp = rules
                     /\ approval[e[2]][e[3]] = "pending"
                     /\ approval'[e[2]][e[3]] = "approved"]_vars
  BY <1>1
<1> QED
  BY <1>2, GovernedInvAlways, PTL DEF Spec, CommitsUnderAuthority

\* What is settled stays settled, and an identity keeps its bytes for ever.
THEOREM SettledForever == Spec => SettledStays
<1>1. ASSUME GovernedInv, [Next]_vars, NEW o \in Operations
      PROVE  /\ identity[o] # Nobody => identity'[o] = identity[o]
             /\ \A n \in Tries :
                  action[o][n].status \in Terminal => action'[o][n] = action[o][n]
  <2> USE DEF GovernedInv
  <2>1. ASSUME NEW p \in Submits, SubmitAccepted(p)
        PROVE  /\ identity[o] # Nobody => identity'[o] = identity[o]
               /\ \A n \in Tries :
                    action[o][n].status \in Terminal => action'[o][n] = action[o][n]
    <3> DEFINE x == job[p].op
               m == tries[x] + 1
    <3>1. /\ x \in Operations /\ m \in Tries /\ tries[x] \in Nat
          /\ identity[x] = Nobody \/ identity'[x] = identity[x]
          /\ \A y \in Operations \ {x} : identity'[y] = identity[y]
          /\ \A y \in Operations, n \in Tries :
               y # x \/ n # m => action'[y][n] = action[y][n]
      <4>1. Typed
        BY <1>1
      <4>2. x \in Operations /\ m \in Tries
        BY <2>1, <4>1, AcceptedRows
      <4>3. tries[x] \in Nat
        BY <4>1, <4>2, GovernedAssumption DEF Typed, GovernedTypeOK
      <4> QED
        BY <2>1, <4>1, <4>2, <4>3, AcceptedRows
    <3>2. m > tries[x]
      BY <3>1, NatOrder
    <3>3. action[x][m].status \notin Terminal
      BY <1>1, <3>1, <3>2 DEF RowsAgree, OnlyLatestIsOpen, NoAction, Terminal
    <3> HIDE DEF x, m
    <3> QED
      BY <3>1, <3>3
  <2>2. ASSUME NEW p \in Processes, NEW s \in Terminal, Settles(p, s)
        PROVE  /\ UNCHANGED identity
               /\ \A n \in Tries :
                    action[o][n].status \in Terminal => action'[o][n] = action[o][n]
    BY <1>1, <2>2, SettlesRows DEF Terminal
  <2>3. ASSUME NEW p \in Processes, ExecuteHolds(p)
        PROVE  /\ UNCHANGED identity
               /\ \A n \in Tries :
                    action[o][n].status \in Terminal => action'[o][n] = action[o][n]
    BY <1>1, <2>3, HoldsRows DEF Terminal
  <2>4. ASSUME NEW x \in Operations, NEW n \in Tries, OldReleaseWrites(x, n)
        PROVE  UNCHANGED <<identity, action>>
    BY <2>4 DEF OldReleaseWrites
  <2> QED
    BY <1>1, <2>1, <2>2, <2>3, <2>4, StepKinds DEF RowsSame
<1>2. GovernedInv /\ [Next]_vars =>
        [\A o \in Operations :
           /\ identity[o] # Nobody => identity'[o] = identity[o]
           /\ \A n \in Tries :
                action[o][n].status \in Terminal => action'[o][n] = action[o][n]]_vars
  BY <1>1
<1> QED
  BY <1>2, GovernedInvAlways, PTL DEF Spec, SettledStays
=============================================================================
