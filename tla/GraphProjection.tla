--------------------------- MODULE GraphProjection ---------------------------
(***************************************************************************)
(* Graph projection of one item: lib/graph/project.ts (the projector's     *)
(* pass and the retirement of purged items), lib/graph/reconcile.ts, the   *)
(* caller lib/ingest/purge.ts, the table graph_episodes.                   *)
(*                                                                         *)
(* A group is a graph in Graphiti, which accepts a push at once and        *)
(* extracts it later, or never.  The ledger has a row per (item, group);   *)
(* sha = None is its '' sentinel and owed its pending_delete_group_id.     *)
(* A lease admits one pass over a team; purges, readers that arm an        *)
(* initiative, edits and Graphiti's worker run beside it.                  *)
(*                                                                         *)
(* Every statement but the arming flip names one item, so one is enough.   *)
(***************************************************************************)
EXTENDS Integers, FiniteSets

CONSTANTS
  general, external,  \* the home groups (the built-ins' stored pointers)
  Initiatives,        \* groups of the initiatives
  Bodies,             \* versions of the item's text
  None,               \* no text, the '' sentinel, no group
  Ids,                \* row ids
  Retractable,        \* whether the item's source may take text back
  MaxChanges,         \* bound: edits of the item, of its memberships, and purges
  MaxFaults           \* bound: failed calls, lost episodes, crashes

ASSUME GraphAssumption ==
  /\ general # external
  /\ {general, external} \cap Initiatives = {}
  /\ None \notin {general, external} \cup Initiatives \cup Bodies
  /\ Ids \cap Initiatives = {} /\ Bodies # {}
  /\ Retractable \subseteq BOOLEAN
  /\ MaxChanges \in Nat /\ MaxFaults \in Nat

Homes == {general, external}
Groups == Homes \cup Initiatives

VARIABLES
  item,      \* the items row; body None: nothing to extract
  members,   \* open includes: General, external-shared, initiatives
  retracts,  \* the source may take text back (retainSupersededBodies = false)
  ledger,    \* Ids -> graph_episodes row
  landed,    \* episodes in Graphiti: <<group, body>>
  queued,    \* accepted pushes it has not extracted
  pc, job,   \* the pass: where it is, what it has read
  purge,     \* the purge: where it is, the rows it has read
  changes, faults

inputs == <<item, members, retracts, changes>>
graph == <<landed, queued>>
vars == <<inputs, ledger, graph, pc, job, purge, faults>>

Row == [group : Groups \cup {None}, sha : Bodies \cup {None}, uuid : BOOLEAN,
        deferred : BOOLEAN, owed : Groups \cup {None}, aged : BOOLEAN]
NoRow == [group |-> None, sha |-> None, uuid |-> FALSE, deferred |-> FALSE,
          owed |-> None, aged |-> FALSE]
NoRows == [i \in Ids |-> NoRow]
NoJob == [home |-> general, closed |-> FALSE, body |-> None, tags |-> {}, rows |-> NoRows,
          todo |-> {}, flagged |-> {}, failed |-> FALSE, orphan |-> FALSE, target |-> None]
Visiting == {"loaded", "homed", "restricted", "armed", "open", "moved", "prepared", "pushed",
             "redacting", "fanout", "fanpushed"}
Reconciling == {"read", "judging"}

\* Types, and the two keys of the table: one row per group, one per item in the homes.
GraphTypeOK ==
  /\ item \in [alive : BOOLEAN, access : {"team", "external"}, body : Bodies \cup {None}]
  /\ members \in [general : BOOLEAN, shared : BOOLEAN, tags : SUBSET Initiatives]
  /\ retracts \in BOOLEAN
  /\ ledger \in [Ids -> Row]
  /\ landed \in SUBSET (Groups \X Bodies) /\ queued \in SUBSET (Groups \X Bodies)
  /\ pc \in {"idle"} \cup Visiting \cup Reconciling
  /\ job \in [home : Homes, closed : BOOLEAN, body : Bodies \cup {None},
              tags : SUBSET Initiatives, rows : [Ids -> Row], todo : SUBSET (Ids \cup Initiatives),
              flagged : SUBSET Ids, failed : BOOLEAN, orphan : BOOLEAN,
              target : Groups \cup {None}]
  /\ purge \in [at : {"idle", "retiring", "failed", "done"}, rows : [Ids -> Row], todo : SUBSET Ids]
  /\ changes \in 0..MaxChanges /\ faults \in 0..MaxFaults
  /\ \A i, k \in Ids : ledger[i].group = ledger[k].group => i = k \/ ledger[i] = NoRow
  /\ Cardinality({i \in Ids : ledger[i].group \in Homes}) <= 1

Init ==
  /\ \E a \in {"team", "external"}, t \in SUBSET Initiatives :
       /\ item = [alive |-> TRUE, access |-> a, body |-> CHOOSE b \in Bodies : TRUE]
       /\ members = [general |-> TRUE, shared |-> a = "external", tags |-> t]
  /\ retracts \in Retractable
  /\ ledger = NoRows /\ landed = {} /\ queued = {}
  /\ pc = "idle" /\ job = NoJob
  /\ purge = [at |-> "idle", rows |-> NoRows, todo |-> {}]
  /\ changes = 0 /\ faults = 0

-----------------------------------------------------------------------------
(* Rows and calls. *)

RowAt(L, g) ==
  IF \E i \in Ids : L[i].group = g
  THEN L[CHOOSE i \in Ids : L[i].group = g] ELSE NoRow
Tombstone(r) == [r EXCEPT !.sha = None, !.owed = r.group, !.aged = FALSE]
Tombstoned(G) == [i \in Ids |-> IF ledger[i].group \in G THEN Tombstone(ledger[i]) ELSE ledger[i]]

\* An id never used for another row while a snapshot holds it.
FreshId == CHOOSE i \in Ids : {ledger[i].group, job.rows[i].group, purge.rows[i].group} = {None}

\* INSERT: a conflict on (item, group) leaves the row that is there.
Inserted(r) == IF RowAt(ledger, r.group) = NoRow THEN [ledger EXCEPT ![FreshId] = r] ELSE ledger
NewRow(g) == [NoRow EXCEPT !.group = g]

Fault == faults < MaxFaults /\ faults' = faults + 1
In(E, G) == {e \in E : e[1] \in G}

\* deleteItemEpisodes on some groups, one call per episode: all the item's episodes, or
\* those before the call that failed.
Deletes(G) == landed' = landed \ In(landed, G) /\ UNCHANGED <<queued, faults>>
DeleteFails(G) ==
  /\ Fault /\ UNCHANGED queued
  /\ \E gone \in SUBSET In(landed, G) : landed' = landed \ gone
TriesDelete(G) == Deletes(G) \/ DeleteFails(G)

-----------------------------------------------------------------------------
(* A visit of the projector.  It acts on what it has read: item and members, *)
(* then the ledger rows.                                                     *)

IsExternal(access, m) == access = "external" /\ (m.shared \/ ~m.general)
Home == job.home
OtherHome == IF Home = general THEN external ELSE general
Current == RowAt(job.rows, Home)
Stale == RowAt(job.rows, OtherHome)
Handled(i) == job' = [job EXCEPT !.todo = @ \ {i}]
Existing == IF Current # NoRow THEN Current ELSE Stale
FanoutIds(rows) == {i \in Ids : rows[i].group \in Initiatives}
Restricted == job.closed /\ job.body # None

LoadItem ==
  /\ pc = "idle" /\ item.alive
  /\ job' = [NoJob EXCEPT !.home = IF item.access = "external" THEN external ELSE general,
                          !.body = item.body]
  /\ pc' = "loaded"
  /\ UNCHANGED <<inputs, ledger, graph, purge, faults>>

\* resolveFanoutTargets: the home follows the memberships, not the access alone.
ResolveTargets ==
  LET access == IF Home = external THEN "external" ELSE "team"
  IN  /\ pc = "loaded"
      /\ job' = [job EXCEPT !.home = IF IsExternal(access, members) THEN external ELSE general,
                            !.closed = access = "team" /\ ~members.general,
                            !.tags = members.tags]
      /\ pc' = "homed"
      /\ UNCHANGED <<inputs, ledger, graph, purge, faults>>

\* Mutant: only the item's current initiatives are looked at.
FanoutTodoTagged(rows) ==
  {i \in FanoutIds(rows) : rows[i].group \in job.tags}
    \cup {t \in job.tags : job.body # None /\ RowAt(rows, t) = NoRow}

\* The rows it will look at, and the initiatives that have none yet.
FanoutTodo(rows) ==
  FanoutIds(rows) \cup {t \in job.tags : job.body # None /\ RowAt(rows, t) = NoRow}
ReadLedger ==
  /\ pc = "homed"
  /\ LET rows == [i \in Ids |-> [ledger[i] EXCEPT !.aged = FALSE]]
     IN  job' = [job EXCEPT !.rows = rows, !.todo = FanoutTodo(rows)]
  /\ pc' = IF Restricted THEN "restricted" ELSE "open"
  /\ UNCHANGED <<inputs, ledger, graph, purge, faults>>
\* Mutant: the copies wait for a reader.
RestrictionArmsNothing ==
  /\ pc = "restricted"
  /\ pc' = "armed"
  /\ UNCHANGED <<inputs, ledger, graph, job, purge, faults>>

\* A restriction arms the item's copies before anything else.
RestrictionArms ==
  /\ pc = "restricted"
  /\ ledger' = [i \in Ids |->
       IF ledger[i].group \in job.tags /\ RowAt(job.rows, ledger[i].group).deferred
       THEN [ledger[i] EXCEPT !.deferred = FALSE] ELSE ledger[i]]
  /\ pc' = "armed"
  /\ UNCHANGED <<inputs, graph, job, purge, faults>>

LandedCopy ==
  \E i \in FanoutIds(job.rows) : /\ ~job.rows[i].deferred /\ job.rows[i].sha = job.body
                                 /\ job.rows[i].uuid /\ job.rows[i].group \in job.tags
Moves == Current # NoRow /\ Current.sha # None /\ Current.owed = None /\ LandedCopy
Parked == Current # NoRow /\ (Current.owed = Home \/ Current.sha = None)

MoveOut ==
  /\ pc = "armed" /\ Moves
  /\ TriesDelete({Home})
  /\ ledger' = Tombstoned({Home})
  /\ pc' = "fanout"
  /\ UNCHANGED <<inputs, job, purge>>

HoldHome ==
  /\ pc = "armed" /\ ~Moves /\ Parked
  /\ pc' = "fanout"
  /\ UNCHANGED <<inputs, ledger, graph, job, purge, faults>>

\* No copy yet: a row of the other tier is tombstoned, a home row stays served.
KeepUntilCopied ==
  LET old == IF Stale # NoRow /\ Stale.sha # None /\ Stale.owed = None THEN {OtherHome} ELSE {}
  IN  /\ pc = "armed" /\ ~Moves /\ ~Parked
      /\ TriesDelete(old)
      /\ ledger' = Tombstoned(old)
      /\ pc' = IF Current = NoRow THEN "fanout" ELSE "open"
      /\ UNCHANGED <<inputs, job, purge>>

\* Nothing to extract any more: what was pushed is tombstoned, home first.
RedactHome ==
  LET home == IF Existing # NoRow /\ Existing.owed = None THEN {Existing.group} ELSE {}
  IN  /\ pc = "open" /\ job.body = None
      /\ TriesDelete(home)
      /\ ledger' = Tombstoned(home)
      /\ job' = [job EXCEPT !.todo = {i \in @ : ~job.rows[i].deferred /\ job.rows[i].owed = None}]
      /\ pc' = "redacting"
      /\ UNCHANGED <<inputs, purge>>

\* '' may be a push that was never recorded: the sentinel spares no copy.
RedactCopy(i) ==
  /\ pc = "redacting" /\ i \in job.todo
  /\ TriesDelete({job.rows[i].group})
  /\ ledger' = Tombstoned({job.rows[i].group})
  /\ Handled(i)
  /\ UNCHANGED <<inputs, pc, purge>>

RedactEnds ==
  /\ pc = "redacting" /\ job.todo = {}
  /\ job' = [job EXCEPT !.todo = FanoutTodo(job.rows)]
  /\ pc' = "fanout"
  /\ UNCHANGED <<inputs, ledger, graph, purge, faults>>

TierChanged == Existing # NoRow /\ Existing.group # Home
PurgeFirst == Existing # NoRow /\ Existing.owed = Home
Unchanged == Existing # NoRow /\ Existing.sha = job.body /\ ~TierChanged /\ ~PurgeFirst

SkipUnchanged ==
  /\ pc = "open" /\ job.body # None /\ Unchanged
  /\ pc' = "fanout"
  /\ UNCHANGED <<inputs, ledger, graph, job, purge, faults>>
\* Mutant: the move is an upsert, which leaves the old row.
MoveGroupUpserts ==
  /\ pc = "open" /\ job.body # None /\ TierChanged
  /\ TriesDelete({Existing.group})
  /\ ledger' = Inserted([NewRow(Home) EXCEPT !.owed = Existing.group])
  /\ pc' = "moved"
  /\ UNCHANGED <<inputs, job, purge>>

\* Mutant: the group the row leaves is not owed a purge.
MoveGroupForgets ==
  /\ pc = "open" /\ job.body # None /\ TierChanged
  /\ TriesDelete({Existing.group})
  /\ ledger' = [i \in Ids |->
       IF ledger[i].group = Existing.group
       THEN [ledger[i] EXCEPT !.group = Home, !.sha = None] ELSE ledger[i]]
  /\ pc' = "moved"
  /\ UNCHANGED <<inputs, job, purge>>

\* The row is relocated by its old key; the old group becomes a debt.
MoveGroup ==
  /\ pc = "open" /\ job.body # None /\ TierChanged
  /\ RowAt(ledger, Home) = NoRow        \* the unique key; otherwise the pass aborts
  /\ TriesDelete({Existing.group})
  /\ ledger' = [i \in Ids |->
       IF ledger[i].group = Existing.group
       THEN [ledger[i] EXCEPT !.group = Home, !.sha = None, !.owed = Existing.group, !.aged = FALSE]
       ELSE ledger[i]]
  /\ pc' = "moved"
  /\ UNCHANGED <<inputs, job, purge>>

\* Clear the group this push replaces, and reserve the row if it has none: the first, or
\* the one that the move did not find.
Prepare ==
  LET clears == Existing # NoRow /\ (PurgeFirst \/ retracts)
      reserved == IF TierChanged THEN [NewRow(Home) EXCEPT !.owed = Existing.group] ELSE NewRow(Home)
  IN  /\ pc = "moved" \/ (pc = "open" /\ job.body # None /\ ~Unchanged /\ ~TierChanged)
      /\ \/ /\ Deletes(IF clears THEN {Home} ELSE {})
            /\ UNCHANGED job
         \/ /\ clears /\ DeleteFails({Home})
            /\ job' = [job EXCEPT !.failed = TRUE]
      /\ ledger' = IF Existing = NoRow \/ (TierChanged /\ RowAt(ledger, Home) = NoRow)
                   THEN Inserted(reserved) ELSE ledger
      /\ pc' = "prepared"
      /\ UNCHANGED <<inputs, purge>>

PushHome ==
  /\ pc = "prepared"
  /\ queued' = IF PurgeFirst /\ job.failed /\ Existing.sha = job.body
               THEN queued ELSE queued \cup {<<Home, job.body>>}
  /\ pc' = "pushed"
  /\ UNCHANGED <<inputs, ledger, landed, job, purge, faults>>

\* The flag after the push: the old tier, a failed retraction, a purge seen to succeed.
Settled(r, gate) ==
  CASE TierChanged -> [r EXCEPT !.owed = Existing.group, !.aged = FALSE]
    [] ~TierChanged /\ job.failed /\ ~PurgeFirst -> [r EXCEPT !.owed = Home, !.aged = FALSE]
    [] ~TierChanged /\ PurgeFirst /\ ~job.failed /\ gate -> [r EXCEPT !.owed = None, !.aged = FALSE]
    [] OTHER -> r

RecordHome ==
  /\ pc = "pushed"
  /\ \E gate \in BOOLEAN :       \* the partition's cached arcs are purged
       /\ (gate /\ UNCHANGED faults) \/ (~gate /\ Fault)
       /\ LET r == RowAt(ledger, Home)
              new == Settled([IF r = NoRow THEN NewRow(Home) ELSE r
                                EXCEPT !.sha = job.body], gate)
          IN  ledger' = IF r = NoRow THEN Inserted(new)
                        ELSE [i \in Ids |-> IF ledger[i].group = Home THEN new ELSE ledger[i]]
  /\ pc' = "fanout"
  /\ UNCHANGED <<inputs, graph, job, purge>>

-----------------------------------------------------------------------------
(* runFanout: the item's copies in its initiatives' groups. *)

FanoutDefers(t) ==
  /\ pc = "fanout" /\ t \in job.todo \cap Initiatives
  /\ ledger' = Inserted([NewRow(t) EXCEPT !.deferred = TRUE])
  /\ Handled(t)
  /\ UNCHANGED <<inputs, graph, pc, purge, faults>>

Wanted(r) == r.group \in job.tags
Drops(r) == r.deferred /\ ~Wanted(r)
Untags(r) == ~r.deferred /\ ~Wanted(r) /\ r.owed = None /\ r.sha # None
Completes(r) == ~r.deferred /\ ~Wanted(r) /\ r.owed = None /\ r.sha = None
Pushes(r) ==
  ~r.deferred /\ Wanted(r) /\ r.sha # job.body /\ job.body # None /\ r.owed = None
Without(P) == [i \in Ids |-> IF i \in P THEN NoRow ELSE ledger[i]]
\* The copies are looked at when every missing row is there.
At(i) == pc = "fanout" /\ job.todo \subseteq Ids /\ i \in job.todo

\* Untagged and never pushed.
FanoutDrops(i) ==
  /\ At(i) /\ Drops(job.rows[i])
  /\ ledger' = Without({k \in Ids : ledger[k].group = job.rows[i].group /\ ledger[k].deferred})
  /\ Handled(i)
  /\ UNCHANGED <<inputs, graph, pc, purge, faults>>
FanoutUntags(i) ==
  /\ At(i) /\ Untags(job.rows[i])
  /\ TriesDelete({job.rows[i].group})
  /\ ledger' = Tombstoned({job.rows[i].group})
  /\ Handled(i)
  /\ UNCHANGED <<inputs, pc, purge>>

\* An untagged row on the sentinel with no flag: its purge is taken as confirmed.
FanoutCompletes(i) ==
  /\ At(i) /\ Completes(job.rows[i])
  /\ ledger' = Without({k \in Ids : ledger[k].group = job.rows[i].group
                                    /\ ledger[k].sha = None /\ ledger[k].owed = None})
  /\ Handled(i)
  /\ UNCHANGED <<inputs, graph, pc, purge, faults>>

FanoutSkips(i) ==
  LET r == job.rows[i]
  IN  /\ At(i)
      /\ ~Drops(r) /\ ~Untags(r) /\ ~Completes(r) /\ ~Pushes(r)
      /\ Handled(i)
      /\ UNCHANGED <<inputs, ledger, graph, pc, purge, faults>>

\* The budget of the pass is spent.
FanoutThrottles(i) ==
  /\ At(i) /\ Pushes(job.rows[i])
  /\ Fault /\ Handled(i)
  /\ UNCHANGED <<inputs, ledger, graph, pc, purge>>

FanoutPushes(i) ==
  /\ At(i) /\ Pushes(job.rows[i])
  /\ queued' = queued \cup {<<job.rows[i].group, job.body>>}
  /\ job' = [job EXCEPT !.todo = @ \ {i}, !.target = job.rows[i].group]
  /\ pc' = "fanpushed"
  /\ UNCHANGED <<inputs, ledger, landed, purge, faults>>

\* The row may be gone: then a tombstone claims the group.
FanoutRecords ==
  /\ pc = "fanpushed"
  /\ ledger' = IF RowAt(ledger, job.target) = NoRow
               THEN Inserted(Tombstone(NewRow(job.target)))
               ELSE [i \in Ids |-> IF ledger[i].group = job.target
                                   THEN [ledger[i] EXCEPT !.sha = job.body]
                                   ELSE ledger[i]]
  /\ pc' = "fanout"
  /\ UNCHANGED <<inputs, graph, job, purge, faults>>

\* A call fails, or the process dies: no reconcile in this pass.
Aborts ==
  /\ pc \in Visiting \cup Reconciling
  /\ Fault
  /\ pc' = "idle" /\ job' = NoJob
  /\ UNCHANGED <<inputs, ledger, graph, purge>>

-----------------------------------------------------------------------------
(* reconcileProjectedEpisodes: writes by row id, judged on its own snapshot. *)

ReconcileReads ==
  /\ \/ pc = "fanout" /\ job.todo = {}
     \/ pc = "idle" /\ ~item.alive              \* no item to visit
  /\ job' = [NoJob EXCEPT !.rows = [i \in Ids |-> IF ledger[i].deferred THEN NoRow ELSE [ledger[i] EXCEPT !.uuid = FALSE]]]
  /\ pc' = "read"
  /\ UNCHANGED <<inputs, ledger, graph, purge, faults>>

Seen == {i \in Ids : job.rows[i] # NoRow}
\* Mutant: a row that looks healthy is not taken for an orphan.
RepairOrphansParked ==
  LET found == IF item.alive THEN {} ELSE {i \in Seen : job.rows[i].owed = None /\ job.rows[i].sha = None}
      patched == [i \in Ids |-> IF i \in found THEN Tombstone(job.rows[i]) ELSE job.rows[i]]
  IN  /\ pc = "read"
      /\ ledger' = [i \in Ids |->
           IF i \in found /\ ledger[i] # NoRow
           THEN [ledger[i] EXCEPT !.sha = None, !.owed = job.rows[i].group, !.aged = FALSE]
           ELSE ledger[i]]
      /\ job' = [job EXCEPT !.rows = patched, !.orphan = ~item.alive, !.todo = Seen,
                            !.flagged = {i \in Seen : patched[i].owed # None}]
      /\ pc' = "judging"
      /\ UNCHANGED <<inputs, graph, purge, faults>>

RepairOrphans ==
  LET found == IF item.alive THEN {} ELSE {i \in Seen : job.rows[i].owed = None}
      patched == [i \in Ids |-> IF i \in found THEN Tombstone(job.rows[i]) ELSE job.rows[i]]
  IN  /\ pc = "read"
      /\ ledger' = [i \in Ids |->
           IF i \in found /\ ledger[i] # NoRow
           THEN [ledger[i] EXCEPT !.sha = None, !.owed = job.rows[i].group, !.aged = FALSE]
           ELSE ledger[i]]
      /\ job' = [job EXCEPT !.rows = patched, !.orphan = ~item.alive, !.todo = Seen,
                            !.flagged = {i \in Seen : patched[i].owed # None}]
      /\ pc' = "judging"
      /\ UNCHANGED <<inputs, graph, purge, faults>>

\* Judged by the name of the episode: any version of the item is the item.
Present(i) == In(landed, {job.rows[i].group}) # {}
Backlog(i) == In(queued, {job.rows[i].group}) # {}

JudgeConfirms(i) ==
  /\ pc = "judging" /\ i \in job.todo /\ Present(i)
  /\ ledger' = IF ledger[i] = NoRow THEN ledger ELSE [ledger EXCEPT ![i].uuid = TRUE]
  /\ Handled(i)
  /\ UNCHANGED <<inputs, graph, pc, purge, faults>>

\* Never pushed, or already parked; or the push is too recent to be judged.
JudgePasses(i) ==
  LET r == job.rows[i]
  IN  /\ pc = "judging" /\ i \in job.todo
      /\ ~Present(i) /\ (Backlog(i) \/ r.sha = None)
      /\ Handled(i)
      /\ UNCHANGED <<inputs, ledger, graph, pc, purge, faults>>

\* Unreachable, saturated, held or throttled.
JudgeSkips(i) ==
  /\ pc = "judging" /\ i \in job.todo
  /\ Fault /\ Handled(i)
  /\ UNCHANGED <<inputs, ledger, graph, pc, purge>>
\* Mutant: an absent episode is only counted.
JudgeParksCounts(i) ==
  /\ pc = "judging" /\ i \in job.todo /\ ~Present(i) /\ job.rows[i].sha # None
  /\ (~Backlog(i) /\ UNCHANGED faults) \/ (Backlog(i) /\ Fault)
  /\ Handled(i)
  /\ UNCHANGED <<inputs, ledger, graph, pc, purge>>

\* Absent: back on the sentinel, the flag stays.  LANDED_GRACE_MS is assumed to exceed
\* Graphiti's queue; a push it outlives counts as a fault.
JudgeParks(i) ==
  /\ pc = "judging" /\ i \in job.todo /\ ~Present(i) /\ job.rows[i].sha # None
  /\ (~Backlog(i) /\ UNCHANGED faults) \/ (Backlog(i) /\ Fault)
  /\ ledger' = IF ledger[i] = NoRow THEN ledger ELSE [ledger EXCEPT ![i].sha = None]
  /\ Handled(i)
  /\ UNCHANGED <<inputs, graph, pc, purge>>

Dirty(i) == In(landed, {job.rows[i].owed}) # {}
Cleans(i) ==
  /\ pc = "judging" /\ job.todo = {} /\ i \in job.flagged
  /\ job' = [job EXCEPT !.flagged = @ \ {i}]
Patched(i, p) == IF ledger[i] = NoRow THEN ledger ELSE [ledger EXCEPT ![i] = p]

\* What is found is deleted; the flag waits for a pass that finds nothing.
CleanDeletes(i) ==
  /\ Cleans(i) /\ Dirty(i)
  /\ TriesDelete({job.rows[i].owed})
  /\ UNCHANGED <<inputs, ledger, pc, purge>>

CleanWaits(i) ==
  /\ Cleans(i) /\ ~Dirty(i)
  /\ (~job.rows[i].aged /\ UNCHANGED faults) \/ Fault   \* list or arc purge fails
  /\ UNCHANGED <<inputs, ledger, graph, pc, purge>>

CleanClears(i) ==
  LET r == job.rows[i]
  IN  /\ Cleans(i) /\ ~Dirty(i) /\ r.aged
      /\ ledger' =
           CASE ~job.orphan -> Patched(i, [ledger[i] EXCEPT !.owed = None, !.aged = FALSE])
             [] job.orphan /\ r.owed # r.group ->
                  Patched(i, [ledger[i] EXCEPT !.owed = r.group, !.aged = FALSE])
             [] OTHER -> Patched(i, NoRow)
      /\ UNCHANGED <<inputs, graph, pc, purge, faults>>

PassEnds ==
  /\ pc = "judging" /\ job.todo = {} /\ job.flagged = {}
  /\ pc' = "idle" /\ job' = NoJob
  /\ UNCHANGED <<inputs, ledger, graph, purge, faults>>

-----------------------------------------------------------------------------
(* purgeItemIds: the ledger rows are retired, then the item is deleted. *)

Edits == item.alive /\ changes < MaxChanges /\ changes' = changes + 1
View(r) == [NoRow EXCEPT !.group = r.group, !.owed = r.owed, !.deferred = r.deferred]
PurgeStarts ==
  /\ purge.at \in {"idle", "failed"} /\ Edits
  /\ purge' = [at |-> "retiring", rows |-> [i \in Ids |-> View(ledger[i])], todo |-> {i \in Ids : ledger[i] # NoRow}]
  /\ UNCHANGED <<item, members, retracts, ledger, graph, pc, job, faults>>

Retires(i) ==
  /\ purge.at = "retiring" /\ i \in purge.todo
  /\ purge' = [purge EXCEPT !.todo = @ \ {i}]

RetiresDeferred(i) ==
  /\ Retires(i) /\ purge.rows[i].deferred
  /\ ledger' = Without({k \in {i} : ledger[k].deferred})
  /\ UNCHANGED <<inputs, graph, pc, job, faults>>

\* One flag slot: what the row owed is purged once, here, and overwritten.
RetiresPushed(i) ==
  LET r == purge.rows[i]
  IN  /\ Retires(i) /\ \A k \in purge.todo : ~purge.rows[k].deferred
      /\ TriesDelete({r.group, r.owed} \ {None})
      /\ ledger' = Patched(i, [ledger[i] EXCEPT !.sha = None, !.owed = r.group, !.aged = FALSE])
      /\ UNCHANGED <<inputs, pc, job>>

PurgeDeletes ==
  /\ purge.at = "retiring" /\ purge.todo = {}
  /\ item' = [item EXCEPT !.alive = FALSE]
  /\ purge' = [purge EXCEPT !.at = "done", !.rows = NoRows]
  /\ UNCHANGED <<members, retracts, changes, ledger, graph, pc, job, faults>>

\* It throws before the item is deleted and may be tried again.
PurgeFails ==
  /\ purge.at = "retiring" /\ Fault
  /\ purge' = [at |-> "failed", rows |-> NoRows, todo |-> {}]
  /\ UNCHANGED <<inputs, ledger, graph, pc, job>>

-----------------------------------------------------------------------------
(* Graphiti, readers, time and the team. *)

Extract(e) ==
  /\ e \in queued
  /\ queued' = queued \ {e} /\ landed' = landed \cup {e}
  /\ UNCHANGED <<inputs, ledger, pc, job, purge, faults>>

Lose(e) ==
  /\ e \in queued /\ Fault
  /\ queued' = queued \ {e}
  /\ UNCHANGED <<inputs, ledger, landed, pc, job, purge>>

\* armDeferredRowsForGroups, on a member's read.
ReadArms(g) ==
  /\ RowAt(ledger, g).deferred
  /\ ledger' = [i \in Ids |-> IF ledger[i].group = g
                              THEN [ledger[i] EXCEPT !.deferred = FALSE] ELSE ledger[i]]
  /\ UNCHANGED <<inputs, graph, pc, job, purge, faults>>

\* CLEANUP_GRACE_MS, assumed to exceed a visit and Graphiti's queue.
GraceElapses(i) ==
  /\ pc = "idle"
  /\ ledger[i].owed # None /\ ~ledger[i].aged
  /\ In(queued, {ledger[i].owed}) = {}
  /\ ledger' = [ledger EXCEPT ![i].aged = TRUE]
  /\ UNCHANGED <<inputs, graph, pc, job, purge, faults>>

Elsewhere == UNCHANGED <<retracts, ledger, graph, pc, job, purge, faults>>
ItemChanges ==
  /\ Edits
  /\ \E a \in {"team", "external"}, b \in Bodies \cup {None} :
       /\ item' = [item EXCEPT !.access = a, !.body = b]
  /\ item' # item /\ UNCHANGED members /\ Elsewhere

MembersChange ==
  /\ Edits
  /\ \/ members' = [members EXCEPT !.general = ~@]
     \/ members' = [members EXCEPT !.shared = ~@]
     \/ \E t \in Initiatives :
          members' = [members EXCEPT !.tags = IF t \in @ THEN @ \ {t} ELSE @ \cup {t}]
  /\ UNCHANGED item /\ Elsewhere

-----------------------------------------------------------------------------
Visit ==
  \/ LoadItem \/ ResolveTargets \/ ReadLedger
  \/ RestrictionArms \/ MoveOut \/ HoldHome \/ KeepUntilCopied
  \/ RedactHome \/ RedactEnds \/ SkipUnchanged \/ MoveGroup \/ Prepare \/ PushHome \/ RecordHome
  \/ FanoutRecords
  \/ \E t \in Initiatives : FanoutDefers(t)
  \/ \E i \in Ids \cap job.todo :
       \/ RedactCopy(i) \/ FanoutDrops(i) \/ FanoutUntags(i) \/ FanoutCompletes(i)
       \/ FanoutSkips(i) \/ FanoutThrottles(i) \/ FanoutPushes(i)
Reconcile ==
  \/ ReconcileReads \/ RepairOrphans \/ PassEnds
  \/ \E i \in Ids \cap job.todo :
       \/ JudgeConfirms(i) \/ JudgePasses(i) \/ JudgeSkips(i) \/ JudgeParks(i)
  \/ \E i \in Ids \cap job.flagged :
       \/ CleanDeletes(i) \/ CleanWaits(i) \/ CleanClears(i)
Retirement ==
  \/ PurgeDeletes
  \/ \E i \in Ids : RetiresDeferred(i) \/ RetiresPushed(i)
Environment ==
  \/ Aborts \/ PurgeStarts \/ PurgeFails \/ ItemChanges \/ MembersChange
  \/ \E e \in Groups \X Bodies : Extract(e) \/ Lose(e)
  \/ \E g \in Initiatives : ReadArms(g)
  \/ \E i \in Ids : GraceElapses(i)

Next == Visit \/ Reconcile \/ Retirement \/ Environment

Spec == Init /\ [][Next]_vars

-----------------------------------------------------------------------------
(* Safety. *)

Content == landed \cup queued

\* A pushed row stands for a group, or owes it a purge: somebody will come back to it.
Pointed(g) == \E i \in Ids : ~ledger[i].deferred /\ g \in {ledger[i].group, ledger[i].owed}
Ledgered(G) == \A e \in Content : e[1] \in G => Pointed(e[1])

\* Every episode of a home group, extracted or accepted, is one the ledger points at:
\* reserved before the push, owed after a change of tier, through failed calls, crashes,
\* late extractions and passes that act on what they read earlier.  Until a purge, and
\* for sources that keep superseded text: both have one flag slot for two debts.
HomeLedgered == purge.at = "idle" /\ ~retracts => Ledgered(Homes)

\* So is every copy in an initiative's group, whatever readers, edits and a purge do
\* beside the pass, as long as no call fails.
CopiesLedgered == faults = 0 => Ledgered(Initiatives)

\* Nothing is forgotten in a graph: every episode is one a row points at or owes.
EpisodesLedgered == HomeLedgered /\ CopiesLedgered

-----------------------------------------------------------------------------
(* Liveness.  Changes are bounded, so each states what holds once the item is   *)
(* left alone.                                                                  *)

\* The lease's runner starts pass after pass, Graphiti extracts what it accepted, time
\* passes, a purge that began goes on.  No reader has to come, nothing has to fail.
Fairness ==
  /\ WF_vars(Visit \/ Reconcile) /\ WF_vars(Retirement)
  /\ WF_vars(\E e \in queued : Extract(e))
  /\ SF_vars(\E i \in Ids : GraceElapses(i))
FairSpec == Spec /\ Fairness

\* Nothing of a purged item stays in Graphiti while the ledger points at it: not by
\* failed deletes, and not by a visit that began before the purge and pushed after it.
PurgedIsForgotten == <>[](~item.alive /\ Ledgered(Groups) => Content = {})

Kept == item.alive /\ purge.at # "failed" /\ ~retracts
HomeNow == IF IsExternal(item.access, members) THEN external ELSE general
Closed == item.access = "team" /\ ~members.general

\* An item is extracted in its home group, lost pushes notwithstanding, and leaves the
\* home of its former tier; what lost its text leaves both.
HomeConverges ==
  <>[](item.alive /\ ~Closed =>
         /\ item.body # None => In(landed, {HomeNow}) # {}
         /\ Kept => In(landed, Homes \ {HomeNow}) = {}
         /\ Kept /\ item.body = None => In(landed, Homes) = {})

\* A tagged item restricted out of General leaves it, though no reader ever arms the
\* initiatives: the restriction arms the copies, and the first that landed lets it go.
RestrictionLeaves ==
  <>[](item.alive /\ item.body # None /\ Closed /\ members.tags # {} /\ faults = 0
         => In(landed, {general}) = {})

\* An untagged item leaves the initiative's group.
CopiesLeave ==
  <>[](item.alive /\ purge.at # "failed" /\ faults = 0 =>
         \A t \in Initiatives : In(landed, {t}) # {} => t \in members.tags)

\* Once the item is left alone, the groups it is in are those it belongs to: it arrives in
\* its home, leaves a former home, leaves General when it is restricted out of it, and
\* leaves every initiative whose tag it lost.
GroupsConverge == HomeConverges /\ RestrictionLeaves /\ CopiesLeave
=============================================================================
