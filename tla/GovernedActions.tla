--------------------------- MODULE GovernedActions ---------------------------
(***************************************************************************)
(* Governed actions: lib/actions/governed/index.ts and transaction.ts, the *)
(* tables governed_action_identities, governed_actions, approval_requests. *)
(*                                                                         *)
(* A member's submit is two transactions: the first accepts the request    *)
(* under its identity (member, project, operation key), the second runs    *)
(* it.  A policy may hold the action for an administrator, whose decision  *)
(* runs it in a transaction of its own.  An identity is serialised by a    *)
(* transaction-scoped advisory try-lock; the tables that grant authority   *)
(* are locked in SHARE mode from the check until the commit.               *)
(*                                                                         *)
(* Between taking the table locks and COMMIT or the consumer's callback a  *)
(* transaction reads only rows it has fenced, so that stretch is one step; *)
(* the callback, which may take as long as the transaction may, is not.    *)
(***************************************************************************)
EXTENDS Integers, FiniteSets

CONSTANTS
  Submits,      \* submit calls of one member
  Decisions,    \* decide calls of administrators
  Operations,   \* identities: (team, member, project, operation key)
  Texts,        \* canonical request bytes
  NoteTexts,    \* those of note.append (its key is a hash of them, any other key
                \* is chosen by the caller and may be any string)
  Credentials,  \* API keys of the member (a key is its id and fingerprint)
  RuleSets,     \* enabled rules of the team
  Verdict,      \* what a rule set decides for the modelled action
  Connections,  \* pooled connections
  MaxTries,     \* bound: attempts of one note
  MaxDetached,  \* bound: callbacks a consumer leaves running
  MaxLegacy,    \* bound: decisions an older release takes
  Nobody

ASSUME GovernedAssumption ==
  /\ Submits \cap Decisions = {}
  /\ NoteTexts \subseteq Texts
  /\ Verdict \in [RuleSets -> {"allow", "deny", "require_approval"}]
  /\ MaxTries \in Nat \ {0} /\ MaxDetached \in Nat /\ MaxLegacy \in Nat
  /\ Nobody \notin Submits \cup Decisions \cup Operations \cup Texts
  /\ Nobody \notin Credentials \cup RuleSets \cup Connections

Processes == Submits \cup Decisions
Tries == 1..MaxTries
Terminal == {"succeeded", "denied", "failed", "conflict"}
Statuses == {"none", "requested", "pending_approval"} \cup Terminal

VARIABLES
  standing,   \* the member: "team", "external" or "none" (not a principal, no access)
  live,       \* credentials that still match and are not revoked
  rules,      \* the enabled rule set
  identity,   \* Operations -> canonical bytes, Nobody: no row
  tries,      \* Operations -> number of attempts
  action,     \* Operations -> Tries -> the governed_actions row
  approval,   \* Operations -> Tries -> approval_requests.status
  landed,     \* history: committed effects <<author, operation, attempt>>
  holder,     \* Operations -> holder of the advisory lock
  sharing,    \* processes holding the SHARE locks while their callback runs
  owner,      \* Connections -> process whose transaction is open (the generation)
  writes,     \* Connections -> authors of the uncommitted effects
  conn,       \* Processes -> connection its context is bound to
  detached,   \* processes whose callback outlived its transaction
  overruled,  \* history: attempts <<operation, attempt>> whose queue row an older release
              \* has written
  pc, job     \* where a process is, and what it works on

authority == <<standing, live, rules>>
tables    == <<identity, tries, action, approval, landed>>
locks     == <<holder, sharing>>
links     == <<owner, writes, conn, detached>>
vars == <<authority, overruled, tables, locks, links, pc, job>>

NoAction == [status |-> "none", cred |-> Nobody, stamp |-> Nobody]
Actions == [status : Statuses, cred : Credentials \cup {Nobody},
            stamp : RuleSets \cup {Nobody}]
NoJob == [op |-> Nobody, try |-> 0, text |-> Nobody, cred |-> Nobody, decision |-> "none"]
Jobs == [op : Operations \cup {Nobody}, try : 0..MaxTries, text : Texts \cup {Nobody},
         cred : Credentials \cup {Nobody}, decision : {"none", "approved", "denied"}]
Pcs == {"idle", "begun", "accepted", "resuming", "deciding", "executing", "done"}
InTransaction == {"begun", "resuming", "deciding", "executing"}

GovernedTypeOK ==
  /\ standing \in {"team", "external", "none"} /\ live \in SUBSET Credentials
  /\ rules \in RuleSets
  /\ identity \in [Operations -> Texts \cup {Nobody}]
  /\ tries \in [Operations -> 0..MaxTries]
  /\ action \in [Operations -> [Tries -> Actions]]
  /\ approval \in [Operations -> [Tries -> {"none", "pending", "approved", "denied"}]]
  /\ landed \in SUBSET (Processes \X Operations \X Tries)
  /\ holder \in [Operations -> Processes \cup {Nobody}]
  /\ sharing \in SUBSET Processes
  /\ owner \in [Connections -> Processes \cup {Nobody}]
  /\ writes \in [Connections -> SUBSET Processes]
  /\ conn \in [Processes -> Connections \cup {Nobody}]
  /\ detached \in SUBSET Processes
  /\ overruled \in SUBSET (Operations \X Tries)
  /\ pc \in [Processes -> Pcs] /\ job \in [Processes -> Jobs]

Init ==
  /\ standing = "team" /\ live = Credentials /\ rules \in RuleSets
  /\ identity = [o \in Operations |-> Nobody] /\ tries = [o \in Operations |-> 0]
  /\ action = [o \in Operations |-> [n \in Tries |-> NoAction]]
  /\ approval = [o \in Operations |-> [n \in Tries |-> "none"]]
  /\ landed = {}
  /\ holder = [o \in Operations |-> Nobody] /\ sharing = {}
  /\ owner = [c \in Connections |-> Nobody] /\ writes = [c \in Connections |-> {}]
  /\ conn = [p \in Processes |-> Nobody] /\ detached = {}
  /\ overruled = {}
  /\ pc = [p \in Processes |-> "idle"] /\ job = [p \in Processes |-> NoJob]

-----------------------------------------------------------------------------
(* Transactions. *)

StatusOf(p) == action[job[p].op][job[p].try].status
ApprovalOf(p) == approval[job[p].op][job[p].try]
StampOf(p) == action[job[p].op][job[p].try].stamp
Owns(p) == holder[job[p].op] = p

\* BEGIN on a free connection, then pg_try_advisory_xact_lock on the identity.
Open(p, o) ==
  /\ \E c \in Connections :
       /\ owner[c] = Nobody
       /\ owner' = [owner EXCEPT ![c] = p]
       /\ conn' = [conn EXCEPT ![p] = c]
  /\ holder' = [holder EXCEPT ![o] = IF @ = Nobody THEN p ELSE @]

\* What ends any transaction: its locks go, its generation is no longer active.
Release(p, next) ==
  /\ pc' = [pc EXCEPT ![p] = next]
  /\ holder' = [o \in Operations |-> IF holder[o] = p THEN Nobody ELSE holder[o]]
  /\ sharing' = sharing \ {p}
  /\ owner' = [c \in Connections |-> IF owner[c] = p THEN Nobody ELSE owner[c]]
  /\ writes' = [c \in Connections |-> IF owner[c] = p THEN {} ELSE writes[c]]

\* The client object goes back to the pool; a callback that was not awaited
\* keeps its context, which is bound to that same object.
Close(p, next) ==
  /\ Release(p, next)
  /\ \/ conn' = [conn EXCEPT ![p] = Nobody] /\ UNCHANGED detached
     \/ /\ pc[p] = "executing" /\ Cardinality(detached) < MaxDetached
        /\ detached' = detached \cup {p} /\ UNCHANGED conn
  /\ UNCHANGED <<authority, overruled>>

\* ROLLBACK, or the end of a transaction that has written nothing.
Abort(p, next) == Close(p, next) /\ UNCHANGED <<tables, job>>

\* Mutant: the queue row is not decided with the action.
SettleForgetsApproval(p, status) ==
  /\ Close(p, "done")
  /\ action' = [action EXCEPT ![job[p].op][job[p].try].status = status]
  /\ UNCHANGED <<identity, tries, approval, job>>

\* Audit row, result and status of the attempt, then COMMIT.
Settle(p, status) ==
  /\ Close(p, "done")
  /\ action' = [action EXCEPT ![job[p].op][job[p].try].status = status]
  /\ approval' = IF p \in Decisions /\ ApprovalOf(p) = "pending"
                 THEN [approval EXCEPT ![job[p].op][job[p].try] = job[p].decision]
                 ELSE approval
  /\ UNCHANGED <<identity, tries, job>>

-----------------------------------------------------------------------------
(* The first transaction of submit. *)

SubmitBegin(p) ==
  /\ pc[p] = "idle"
  /\ \E o \in Operations, t \in Texts, k \in Credentials :
       /\ job' = [job EXCEPT ![p] = [op |-> o, try |-> 0, text |-> t, cred |-> k,
                                     decision |-> "none"]]
       /\ Open(p, o)
  /\ pc' = [pc EXCEPT ![p] = "begun"]
  /\ UNCHANGED <<authority, overruled, tables, sharing, writes, detached>>

\* authority() of the caller: a live credential of a principal who sees the project.
Admitted(p) == job[p].cred \in live /\ standing # "none"
Matches(p) == identity[job[p].op] \in {Nobody, job[p].text}
Latest(o) == action[o][tries[o]].status
Retriable(p) == job[p].text \in NoteTexts /\ Latest(job[p].op) \in {"denied", "failed"}
Replays(p) == tries[job[p].op] > 0 /\ (~Owns(p) \/ ~Retriable(p))

SubmitRefused(p) ==
  /\ pc[p] = "begun"
  /\ ~Admitted(p) \/ ~Matches(p)
  /\ Abort(p, "done")

\* The latest attempt stands; only its lock holder goes on to run it.
SubmitReplays(p) ==
  /\ pc[p] = "begun" /\ Admitted(p) /\ Matches(p) /\ Replays(p)
  /\ Close(p, IF Owns(p) /\ Latest(job[p].op) = "requested" THEN "accepted" ELSE "done")
  /\ job' = [job EXCEPT ![p].try = tries[job[p].op]]
  /\ UNCHANGED tables

\* The identity is busy, this server lacks the capability (servers with and without
\* the flag or the consumer overlap), or the member may read only.
SubmitUnavailable(p) ==
  /\ pc[p] = "begun" /\ Admitted(p) /\ Matches(p) /\ ~Replays(p)
  /\ Abort(p, "done")

SubmitAccepted(p) ==
  LET o == job[p].op
      n == tries[o] + 1
  IN  /\ pc[p] = "begun" /\ Admitted(p) /\ Matches(p) /\ ~Replays(p)
      /\ Owns(p) /\ standing = "team"
      /\ n <= MaxTries
      /\ identity' = [identity EXCEPT ![o] = job[p].text]
      /\ tries' = [tries EXCEPT ![o] = n]
      /\ action' = [action EXCEPT ![o][n] =
                      [status |-> "requested", cred |-> job[p].cred, stamp |-> Nobody]]
      /\ job' = [job EXCEPT ![p].try = n]
      /\ Close(p, "accepted")
      /\ UNCHANGED <<approval, landed>>

-----------------------------------------------------------------------------
(* The second transaction of submit, and the administrator's. *)

ResumeBegin(p) ==
  /\ pc[p] = "accepted"
  /\ holder[job[p].op] = Nobody
  /\ Open(p, job[p].op)
  /\ pc' = [pc EXCEPT ![p] = "resuming"]
  /\ UNCHANGED <<authority, overruled, tables, sharing, writes, detached, job>>

\* Somebody else holds the identity: the stored result is returned.
ResumeBusy(p) ==
  /\ pc[p] = "accepted"
  /\ holder[job[p].op] # Nobody
  /\ pc' = [pc EXCEPT ![p] = "done"]
  /\ UNCHANGED <<authority, overruled, tables, locks, links, job>>

ResumeStands(p) ==
  /\ pc[p] = "resuming"
  /\ StatusOf(p) # "requested"
  /\ Abort(p, "done")

DecideBegin(p) ==
  /\ pc[p] = "idle"
  /\ \E o \in Operations, n \in Tries, d \in {"approved", "denied"} :
       /\ approval[o][n] # "none"
       /\ holder[o] = Nobody       \* otherwise: operation_in_progress
       /\ job' = [job EXCEPT ![p] = [op |-> o, try |-> n, text |-> Nobody, cred |-> Nobody,
                                     decision |-> d]]
       /\ Open(p, o)
  /\ pc' = [pc EXCEPT ![p] = "deciding"]
  /\ UNCHANGED <<authority, overruled, tables, sharing, writes, detached>>

\* A decider who is no active human lead or admin, or a decision on what is settled.
DecideRefused(p) ==
  /\ pc[p] = "deciding"
  /\ Abort(p, "done")

\* Another resolver has written the queue row: no authority to execute.
DecideInconsistent(p) ==
  /\ pc[p] = "deciding"
  /\ StatusOf(p) = "pending_approval" /\ ApprovalOf(p) # "pending"
  /\ Settle(p, "denied")
  /\ UNCHANGED landed

Decides(p) ==
  /\ pc[p] = "deciding"
  /\ StatusOf(p) = "pending_approval" /\ ApprovalOf(p) = "pending"

DecideDenies(p) ==
  /\ Decides(p) /\ job[p].decision = "denied"
  /\ Settle(p, "denied")
  /\ UNCHANGED landed

-----------------------------------------------------------------------------
(* execute(): checks, then the consumer's callback inside a savepoint. *)

\* Mutant: the execution relies on resume and decide for the status of the attempt.
ExecutesAnyStatus(p) ==
  \/ p \in Submits /\ pc[p] = "resuming"
  \/ p \in Decisions /\ Decides(p) /\ job[p].decision = "approved"

Executes(p) ==
  \/ p \in Submits /\ pc[p] = "resuming" /\ StatusOf(p) = "requested"
  \/ p \in Decisions /\ Decides(p) /\ job[p].decision = "approved"

\* authority(..., execution = true) of the credential stored with the attempt.
Authorised(p) ==
  action[job[p].op][job[p].try].cred \in live /\ standing = "team"
Stale(p) == p \in Decisions /\ StampOf(p) # rules
Cleared(p) == Verdict[rules] = "allow" \/ (p \in Decisions /\ Verdict[rules] # "deny")

\* The capability is off on this server, or the visibility query fails (503).
ExecuteUnavailable(p) ==
  /\ Executes(p)
  /\ Abort(p, "done")

\* revoked_authorization, stale_approval, or a rule that now denies.
ExecuteDenied(p) ==
  /\ Executes(p)
  /\ ~Authorised(p) \/ Stale(p) \/ Verdict[rules] = "deny"
  /\ Settle(p, "denied")
  /\ UNCHANGED landed

\* Mutant: the effect of the policy is stored in place of its fingerprint.
ExecuteHoldsStampsEffect(p) ==
  LET o == job[p].op
      n == job[p].try
  IN  /\ Executes(p) /\ Authorised(p)
      /\ p \in Submits /\ Verdict[rules] = "require_approval"
      /\ action' = [action EXCEPT ![o][n] = [status |-> "pending_approval", cred |-> @.cred,
                                             stamp |-> Verdict[rules]]]
      /\ approval' = [approval EXCEPT ![o][n] = "pending"]
      /\ Close(p, "done")
      /\ UNCHANGED <<identity, tries, landed, job>>

ExecuteHolds(p) ==
  LET o == job[p].op
      n == job[p].try
  IN  /\ Executes(p) /\ Authorised(p)
      /\ p \in Submits /\ Verdict[rules] = "require_approval"
      /\ action' = [action EXCEPT ![o][n] = [status |-> "pending_approval",
                                             cred |-> @.cred, stamp |-> rules]]
      /\ approval' = [approval EXCEPT ![o][n] = "pending"]
      /\ Close(p, "done")
      /\ UNCHANGED <<identity, tries, landed, job>>

\* Mutant: the authority tables are read without being locked.
ExecuteRunsUnfenced(p) ==
  /\ Executes(p) /\ Authorised(p) /\ ~Stale(p) /\ Cleared(p)
  /\ pc' = [pc EXCEPT ![p] = "executing"]
  /\ UNCHANGED <<authority, overruled, tables, locks, links, job>>

ExecuteRuns(p) ==
  /\ Executes(p) /\ Authorised(p) /\ ~Stale(p) /\ Cleared(p)
  /\ sharing' = sharing \cup {p}
  /\ pc' = [pc EXCEPT ![p] = "executing"]
  /\ UNCHANGED <<authority, overruled, tables, holder, links, job>>

\* Mutant: the guard looks for any open transaction on the client object.
CallbackWritesToAny(p) ==
  /\ pc[p] = "executing" \/ p \in detached
  /\ conn[p] # Nobody
  /\ owner[conn[p]] # Nobody
  /\ writes' = [writes EXCEPT ![conn[p]] = @ \cup {p}]
  /\ UNCHANGED <<authority, overruled, tables, locks, owner, conn, detached, pc, job>>

\* A query of the consumer's context.  The guard compares the generation captured
\* when the context was made with the one now active on the client object.
CallbackWrites(p) ==
  /\ pc[p] = "executing" \/ p \in detached
  /\ conn[p] # Nobody
  /\ owner[conn[p]] = p
  /\ writes' = [writes EXCEPT ![conn[p]] = @ \cup {p}]
  /\ UNCHANGED <<authority, overruled, tables, locks, owner, conn, detached, pc, job>>

\* A consumer returns an effect only for what it has written (external contract).
EffectSucceeds(p) ==
  /\ pc[p] = "executing"
  /\ p \in writes[conn[p]]
  /\ Settle(p, "succeeded")
  /\ landed' = landed \cup
       {<<q, job[q].op, job[q].try>> : q \in writes[conn[p]]}

\* DomainFailure: back to the savepoint, every claim of the transaction is kept.
EffectFails(p) ==
  /\ pc[p] = "executing"
  /\ \E s \in {"conflict", "failed", "denied"} : Settle(p, s)
  /\ UNCHANGED landed

\* Any other exception, an invalid result, a failing audit or COMMIT.
EffectThrows(p) ==
  /\ pc[p] = "executing"
  /\ Abort(p, "done")

\* The deadline, a lost server connection or a crash destroys the connection.
Expires(p) ==
  /\ pc[p] \in InTransaction
  /\ Release(p, "done")
  /\ conn' = [conn EXCEPT ![p] = Nobody]
  /\ UNCHANGED <<authority, overruled, tables, detached, job>>

\* The server dies between the two transactions of a submit.
DiesBetween(p) ==
  /\ pc[p] = "accepted"
  /\ pc' = [pc EXCEPT ![p] = "done"]
  /\ UNCHANGED <<authority, overruled, tables, locks, links, job>>

\* The client gives up on the answer; whether it calls again is its own choice.
CallAgain(p) ==
  /\ pc[p] = "done" /\ p \notin detached
  /\ pc' = [pc EXCEPT ![p] = "idle"]
  /\ job' = [job EXCEPT ![p] = NoJob]
  /\ UNCHANGED <<authority, overruled, tables, locks, links>>

-----------------------------------------------------------------------------
(* Administration: writers of the authority tables wait for the SHARE locks. *)

StandingChanges ==
  /\ sharing = {}
  /\ standing' \in {"team", "external", "none"}
  /\ UNCHANGED <<live, rules, overruled, tables, locks, links, pc, job>>

CredentialRevoked(k) ==
  /\ sharing = {}
  /\ k \in live
  /\ live' = live \ {k}
  /\ UNCHANGED <<standing, rules, overruled, tables, locks, links, pc, job>>

RulesChange ==
  /\ sharing = {}
  /\ rules' \in RuleSets
  /\ UNCHANGED <<standing, live, overruled, tables, locks, links, pc, job>>

\* A release that does not yet look governed approvals up decides the queue row by
\* itself, in two statements: it reads the row as pending, and later overwrites it by id
\* whatever it says by then.  The read changes nothing, and every row is inserted pending,
\* so it may lie before any write to a row that exists.  Only the row lock of a decision
\* holds the write up.
OldReleaseWrites(o, n) ==
  /\ approval[o][n] # "none"
  /\ Cardinality(overruled) < MaxLegacy
  /\ \A p \in Decisions : ~(pc[p] = "executing" /\ job[p].op = o)   \* FOR UPDATE
  /\ \E d \in {"approved", "denied"} : approval' = [approval EXCEPT ![o][n] = d]
  /\ overruled' = overruled \cup {<<o, n>>}
  /\ UNCHANGED <<authority, identity, tries, action, landed, locks, links, pc, job>>

Submit(p) ==
  \/ SubmitBegin(p) \/ SubmitRefused(p) \/ SubmitReplays(p)
  \/ SubmitUnavailable(p) \/ SubmitAccepted(p)
  \/ ResumeBegin(p) \/ ResumeBusy(p) \/ ResumeStands(p) \/ DiesBetween(p)
Decide(p) ==
  \/ DecideBegin(p) \/ DecideRefused(p) \/ DecideInconsistent(p) \/ DecideDenies(p)
Execute(p) ==
  \/ ExecuteUnavailable(p) \/ ExecuteDenied(p) \/ ExecuteHolds(p) \/ ExecuteRuns(p)
  \/ CallbackWrites(p) \/ EffectSucceeds(p) \/ EffectFails(p) \/ EffectThrows(p)
  \/ Expires(p) \/ CallAgain(p)
Administration ==
  \/ StandingChanges \/ RulesChange
  \/ \E k \in Credentials : CredentialRevoked(k)
  \/ \E o \in Operations, n \in Tries : OldReleaseWrites(o, n)

Next ==
  \/ \E p \in Submits : Submit(p)
  \/ \E p \in Decisions : Decide(p)
  \/ \E p \in Processes : Execute(p)
  \/ Administration

Spec == Init /\ [][Next]_vars

-----------------------------------------------------------------------------
(* Properties. *)

\* An identity is executed once: however many submits, replays, decisions and
\* recoveries there are, at most one effect of it is ever committed, and the
\* attempt that committed it is the one recorded as succeeded.
EffectsOf(o) == {e \in landed : e[2] = o}
OneEffect ==
  \A o \in Operations :
    /\ Cardinality(EffectsOf(o)) <= 1
    /\ \A n \in Tries :
         (\E e \in EffectsOf(o) : e[3] = n) <=> action[o][n].status = "succeeded"

\* Retries of a note keep its history: every attempt but the last has failed or
\* was denied, so no earlier attempt can still run or be decided.
OnlyLatestIsOpen ==
  \A o \in Operations, n \in Tries :
    /\ n < tries[o] => action[o][n].status \in {"denied", "failed"}
    /\ n > tries[o] => action[o][n] = NoAction

\* A callback runs only for the process that holds its identity and the fence on
\* authority, on an attempt that is still undecided.
CallbackIsFenced ==
  \A p \in Processes :
    pc[p] = "executing" =>
      /\ Owns(p) /\ p \in sharing
      /\ job[p].try = tries[job[p].op]
      /\ StatusOf(p) = IF p \in Submits THEN "requested" ELSE "pending_approval"
      /\ p \in Decisions => ApprovalOf(p) = "pending"

\* The queue row agrees with its action.  A row left pending belongs to an action that
\* waits for it, whoever wrote last.  Unless an older release has overwritten the row,
\* which it does with whatever its member chose and at any time, an action that waits
\* has a pending row, and an action executed after a hold carries the approval.
ApprovalAgrees ==
  \A o \in Operations, n \in Tries :
    /\ approval[o][n] = "pending" => action[o][n].status = "pending_approval"
    /\ <<o, n>> \notin overruled =>
         /\ action[o][n].status = "pending_approval" => approval[o][n] = "pending"
         /\ action[o][n].status = "succeeded" /\ approval[o][n] # "none"
              => approval[o][n] = "approved"

\* Whenever an effect is committed, the credential of the attempt and the member's
\* standing are valid at that moment, and the rules of that moment allow it or are the
\* very rules it was held under, and the commit itself turns its pending queue row to
\* approved: no other resolver's decision executes it.
CommitsUnderAuthority ==
  [][\A e \in landed' \ landed :
       LET a == action[e[2]][e[3]]
       IN  /\ a.cred \in live /\ standing = "team"
           /\ \/ Verdict[rules] = "allow"
              \/ /\ a.stamp = rules
                 /\ approval[e[2]][e[3]] = "pending"
                 /\ approval'[e[2]][e[3]] = "approved"]_vars

\* What is settled stays settled, and an identity is never bound to other bytes.
SettledStays ==
  [][\A o \in Operations :
       /\ identity[o] # Nobody => identity'[o] = identity[o]
       /\ \A n \in Tries :
            action[o][n].status \in Terminal => action'[o][n] = action[o][n]]_vars
=============================================================================
