------------------------------- MODULE PmSync -------------------------------
(***************************************************************************)
(* Project-management sync with a Linear board: lib/pm-sync/project.ts,    *)
(* linear.ts and after-write.ts push rows of tasks to issues (the brain    *)
(* wins); lib/pm-sync/inbound.ts pulls status moves back and adopts issues *)
(* written in Linear.  The table task_pm_links ties a row to its issue.    *)
(*                                                                         *)
(* A row's projected fields but the status are one text, its body.  A row  *)
(* and an issue written by the brain carry a key: the row key, in the      *)
(* issue the aios-ext footer.  Rows of different projects may share a key. *)
(***************************************************************************)
EXTENDS Integers, FiniteSets

CONSTANTS
  Tasks,            \* task rows that carry a row key
  Keys, Projects,
  Issues,           \* issue ids; all but those of Written are unborn at first
  Written,          \* issues a person wrote in Linear
  Scenarios,        \* what the rows are and how much may happen: see Scenario
  Projections,      \* invocations of the projector
  Statuses,         \* task statuses the members use
  Board,            \* names of the workflow states of the Linear team
  Texts,            \* bodies the members write
  Prose, Blank,     \* the body a person wrote in Linear; the empty body
  None, Unborn, Gone

\* external: Linear's workflow states and their types.
StateType == [x \in {"Backlog", "Todo", "In Progress", "In Review", "Blocked", "Done",
                     "Canceled", "Triage"} |->
  CASE x = "Backlog" -> "backlog" [] x = "Todo" -> "unstarted" [] x = "Triage" -> "triage"
    [] x = "Done" -> "completed" [] x = "Canceled" -> "canceled" [] OTHER -> "started"]

\* The rows there are; for each its key, its project, the issue a human declared on it
\* and the issue of which it is the mirror that ingestion imported; and the bounds:
\* edits, moves on the board, inbound passes, batches, failed calls and crashes, and
\* how many invocations of the projector run at once.
Scenario == [rows : SUBSET Tasks, key : [Tasks -> Keys], project : [Tasks -> Projects],
             declared : [Tasks -> Written \cup {None}], mirror : [Tasks -> Written \cup {None}],
             bound : [edits : Nat, moves : Nat, passes : Nat, batches : Nat, faults : Nat,
                      atOnce : Nat]]

ASSUME PmAssumption ==
  /\ Written \subseteq Issues /\ Board \subseteq DOMAIN StateType /\ "Todo" \in Board
  /\ Statuses \subseteq {"backlog", "ready", "in_progress", "in_review", "blocked", "done"}
  /\ \A s \in Scenarios :
       /\ s \in Scenario
       /\ \A t, u \in s.rows : s.project[t] = s.project[u] /\ s.key[t] = s.key[u] => t = u
  /\ {Prose, Blank} \cap Texts = {} /\ Prose # Blank

\* There are finitely many rows: they are those of a table.
ASSUME TasksAreFinite == IsFiniteSet(Tasks)

VARIABLES
  scenario,
  task,     \* the tasks row: status and body
  link,     \* its task_pm_links row for Linear, or None
  issue,    \* the issues of the Linear team
  due,      \* after() callbacks scheduled for a row
  proj,     \* the invocations of the projector
  inb,      \* the inbound pass (single-flight)
  raced,    \* history: rows with activities that ran over each other
  lost,     \* history: rows with a write to Linear whose record was lost
  unread,   \* history: rows that met a projection whose reading of the owners failed
  kept,     \* history: rows adopted with a body of their own
  said,     \* history: the row as its member, or a move the pass took over, last left it
  overtaken,\* history: rows whose edit a seed or an adoption that had not read it wrote over
  budget    \* what is left of the bounds

editVars == <<said, overtaken>>
history == <<raced, lost, unread, kept, said, overtaken>>
vars == <<scenario, task, link, issue, due, proj, inb, raced, lost, unread, kept, said,
          overtaken, budget>>

-----------------------------------------------------------------------------
(* States, statuses, fingerprints *)

\* desiredStateForStatus: the group, as Linear's state type, and the preferred name.
GroupOf(s) == CASE s = "ready" -> "unstarted" [] s = "done" -> "completed"
                [] s \in {"in_progress", "in_review", "blocked"} -> "started" [] OTHER -> "backlog"
PreferredName(s) == CASE s = "ready" -> "Todo" [] s = "in_progress" -> "In Progress"
                      [] s = "in_review" -> "In Review" [] s = "blocked" -> "Blocked"
                      [] s = "done" -> "Done" [] OTHER -> "Backlog"

\* resolveStateByGroup: the state of that name, else the first of the group, else an error.
StateFor(s) ==
  LET named == {x \in Board : x = PreferredName(s)}
      ofType == {x \in Board : StateType[x] = GroupOf(s)}
  IN CHOOSE x \in Board \cup {None} : IF named # {} THEN x \in named
                                      ELSE IF ofType # {} THEN x \in ofType ELSE x = None

\* linearStatusOrNull: by name, else by type.
StatusOf(x) ==
  CASE x = "In Progress" -> "in_progress" [] x = "In Review" -> "in_review"
    [] x = "Blocked" -> "blocked" [] StateType[x] = "backlog" -> "backlog"
    [] StateType[x] = "unstarted" -> "ready" [] StateType[x] = "triage" -> None [] OTHER -> "done"

\* projectionFingerprint: the group of the status, not the status, and every other field.
Fingerprint(status, body) == <<GroupOf(status), body>>
FingerprintOf(row) == Fingerprint(row.status, row.body)

Live(i, at) == at[i] \notin {Unborn, Gone}
RidOf(l) == IF l = None THEN None ELSE l.rid

\* buildBootstrap: the issues, and for each key the issue listed last with its footer.
Listings ==
  LET listed == {i \in Issues : Live(i, issue) /\ issue[i].key # None}
      footed(k) == {i \in listed : issue[i].key = k}
  IN {[at |-> issue, ext |-> e] : e \in
        {e \in [Keys -> listed \cup {None}] :
           \A k \in Keys : IF footed(k) = {} THEN e[k] = None ELSE e[k] \in footed(k)}}

-----------------------------------------------------------------------------
(* Activities that meet *)

Claims(t) == {scenario.declared[t], scenario.mirror[t]} \ {None}
\* Whoever has the key of a row finds what that row has claimed by its footer.
KeyClaims(k) == UNION {Claims(t) : t \in {t \in Tasks : scenario.key[t] = k}}
Contend(t, u) == \/ scenario.key[t] = scenario.key[u]
                 \/ KeyClaims(scenario.key[t]) \cap KeyClaims(scenario.key[u]) # {}
Projected == UNION {proj[p].todo : p \in Projections}
Passed == IF inb.pc = "idle" THEN {} ELSE inb.left \cup {t \in Tasks : scenario.mirror[t] # None}
                                          \cup (IF inb.pc \in {"listed", "linked"} THEN Tasks ELSE {})

\* The rows of which an activity meets another when one over T begins.
Meet(T, busy) == {t \in T : \E u \in busy : Contend(t, u)} \cup {u \in busy : \E t \in T : Contend(t, u)}

NoRow == [status |-> "backlog", body |-> Blank]
NoBoot == None
IdleProjection == [pc |-> "idle", todo |-> {}, rows |-> [t \in Tasks |-> NoRow], boot |-> NoBoot,
                   cur |-> None, known |-> None, owned |-> {}, plan |-> None]
NoIssues == [i \in Issues |-> Unborn]
IdlePass == [pc |-> "idle", seen |-> NoIssues, links |-> [t \in Tasks |-> None],
             tasks |-> [t \in Tasks |-> NoRow], left |-> {}, cur |-> None]

-----------------------------------------------------------------------------
Bodies == Texts \cup {Prose, Blank}
BrainStatuses == Statuses \cup {"backlog", "ready", "in_progress", "in_review", "blocked", "done"}
Rows == [status : BrainStatuses, body : Bodies]
Fingerprints == {"backlog", "unstarted", "started", "completed"} \X Bodies
Links == [rid : Issues \cup {None}, fp : Fingerprints \cup {None},
          lps : DOMAIN StateType \cup {None}, lpb : BrainStatuses \cup {None}]
\* by: who put the issue in its state; taker: the row it was last taken for, or None.
IssueRows == [state : Board, body : Bodies, key : Keys \cup {None},
              by : {"brain", "person"}, taker : Tasks \cup {None}]

ASSUME NullsAssumption ==
  /\ None \notin Issues \cup Tasks \cup Keys \cup Bodies \cup DOMAIN StateType \cup BrainStatuses
  /\ None \notin Links
  /\ Unborn # Gone /\ Unborn \notin IssueRows /\ Gone \notin IssueRows

Snapshot(at) == \A i \in Issues : at[i] \in IssueRows \cup {Unborn, Gone}

\* Types, and the unique index on provider_resource_id.
PmTypeOK ==
  /\ scenario \in Scenarios
  /\ task \in [Tasks -> Rows]
  /\ \A t \in Tasks : link[t] \in Links \cup {None}
  /\ Snapshot(issue)
  /\ due \in [Tasks -> 0..(scenario.bound.edits + 1)]
  /\ \A p \in Projections :
       /\ proj[p].pc \in {"idle", "prepare", "link", "insert", "owners", "listing", "upsert",
                          "seed", "persist"}
       /\ proj[p].todo \subseteq Tasks /\ proj[p].rows \in [Tasks -> Rows]
       /\ proj[p].cur \in Tasks \cup {None} /\ proj[p].owned \subseteq Issues
       /\ proj[p].boot # NoBoot => Snapshot(proj[p].boot.at)
  /\ inb.pc \in {"idle", "listed", "linked", "applying", "fetched", "adopting", "mirror", "footer"}
  /\ Snapshot(inb.seen) /\ inb.left \subseteq Tasks /\ inb.cur \in Tasks \cup {None}
  /\ raced \cup lost \cup unread \cup kept \cup overtaken \subseteq Tasks
  /\ said \in [Tasks -> Rows]
  /\ \A b \in DOMAIN budget : budget[b] \in 0..scenario.bound[b]
  /\ \A t, u \in Tasks : RidOf(link[t]) # None /\ RidOf(link[t]) = RidOf(link[u]) => t = u

DeclaredLink == [rid |-> None, fp |-> None, lps |-> None, lpb |-> None]
NewIssue == [state |-> "Todo", body |-> Prose, key |-> None, by |-> "person", taker |-> None]

\* Rows just written by a member or a push, each with its callback; mirrors are
\* imported and have none.  A push writes the link of a row with a declaration.
Init ==
  /\ scenario \in Scenarios
  /\ task = [t \in Tasks |-> [status |-> "ready", body |-> Blank]]
  /\ link = [t \in Tasks |-> IF scenario.declared[t] = None THEN None ELSE DeclaredLink]
  /\ issue = [i \in Issues |-> IF i \in UNION {Claims(t) : t \in scenario.rows} THEN NewIssue ELSE Unborn]
  /\ due = [t \in Tasks |-> IF t \in scenario.rows /\ scenario.mirror[t] = None THEN 1 ELSE 0]
  /\ proj = [p \in Projections |-> IdleProjection]
  /\ inb = IdlePass
  /\ raced = {} /\ lost = {} /\ unread = {} /\ kept = {}
  /\ said = task /\ overtaken = {}
  /\ budget = scenario.bound

-----------------------------------------------------------------------------
(* Members and people *)

Fault == /\ budget.faults > 0
         /\ budget' = [budget EXCEPT !.faults = @ - 1]

\* moveTaskAction, updateTaskAction: the write, then a callback.
Edit(t) ==
  /\ budget.edits > 0 /\ t \in scenario.rows
  /\ \/ \E s \in Statuses \ {task[t].status} : task' = [task EXCEPT ![t].status = s]
     \/ \E x \in Texts \ {task[t].body} : task' = [task EXCEPT ![t].body = x]
  /\ said' = [said EXCEPT ![t] = task'[t]]
  /\ due' = [due EXCEPT ![t] = @ + 1]
  /\ budget' = [budget EXCEPT !.edits = @ - 1]
  /\ UNCHANGED <<scenario, link, issue, proj, inb, raced, lost, unread, kept, overtaken>>

\* external: a person moves an issue on the board, or deletes it.
Move(i) ==
  /\ budget.moves > 0 /\ Live(i, issue)
  /\ \/ \E x \in Board \ {issue[i].state} :
          issue' = [issue EXCEPT ![i].state = x, ![i].by = "person"]
     \/ issue' = [issue EXCEPT ![i] = Gone]
  /\ budget' = [budget EXCEPT !.moves = @ - 1]
  /\ UNCHANGED <<scenario, task, link, due, proj, inb, history>>

-----------------------------------------------------------------------------
(* The projector *)

Proceed(p, new) == proj' = [proj EXCEPT ![p] = new]

\* The row is done; the batch goes on with the next.
Finish(p) ==
  LET left == proj[p].todo \ {proj[p].cur}
  IN Proceed(p, IF left = {} THEN IdleProjection
                ELSE [proj[p] EXCEPT !.pc = "link", !.todo = left, !.cur = None,
                        !.rows = [t \in Tasks |-> IF t \in left THEN @[t] ELSE NoRow],
                        !.plan = None])

Begin(p, T, pc) ==
  /\ proj[p].pc = "idle"
  /\ Cardinality({q \in Projections : proj[q].pc # "idle"}) < scenario.bound.atOnce
  /\ Proceed(p, [IdleProjection EXCEPT !.pc = pc, !.todo = T,
                   !.rows = [t \in Tasks |-> IF t \in T THEN task[t] ELSE NoRow]])
  /\ raced' = raced \cup Meet(T, Projected \cup Passed)

\* projectTaskByIdAfterWrite: the callback loads the row.
Callback(p, t) ==
  /\ due[t] > 0
  /\ Begin(p, {t}, "link")
  /\ due' = [due EXCEPT ![t] = @ - 1]
  /\ UNCHANGED <<scenario, task, link, issue, inb, lost, unread, kept, editVars, budget>>

\* projectAllTasks: every row of a project, its bootstrap fetched once.
ProjectBoard(p, j) ==
  /\ budget.batches > 0
  /\ LET T == {t \in scenario.rows : scenario.project[t] = j}
     IN T # {} /\ Begin(p, T, "prepare")
  /\ budget' = [budget EXCEPT !.batches = @ - 1]
  /\ UNCHANGED <<scenario, task, link, issue, due, inb, lost, unread, kept, editVars>>

Prepare(p) ==
  /\ proj[p].pc = "prepare"
  /\ \/ \E b \in Listings : Proceed(p, [proj[p] EXCEPT !.pc = "link", !.boot = b]) /\ UNCHANGED budget
     \/ Fault /\ Proceed(p, IdleProjection)
  /\ UNCHANGED <<scenario, task, link, issue, due, inb, history>>

\* ensureLink's select, and the short-circuit of an unchanged row.
FindLink(p, t) ==
  /\ proj[p].pc = "link" /\ t \in proj[p].todo
  /\ LET here == [proj[p] EXCEPT !.cur = t, !.known = link[t]]
         unchanged == /\ RidOf(link[t]) # None
                      /\ link[t].fp = FingerprintOf(proj[p].rows[t])
     IN IF link[t] = None THEN Proceed(p, [here EXCEPT !.pc = "insert"])
        ELSE IF unchanged
             THEN LET left == proj[p].todo \ {t}
                  IN Proceed(p, IF left = {} THEN IdleProjection
                                ELSE [proj[p] EXCEPT !.todo = left, !.rows[t] = NoRow])
             ELSE Proceed(p, [here EXCEPT !.pc = "owners"])
  /\ UNCHANGED <<scenario, task, link, issue, due, inb, history, budget>>

\* ensureLink's insert; a row inserted meanwhile is an error, and an error ends the
\* invocation.
InsertLink(p) ==
  /\ proj[p].pc = "insert"
  /\ LET t == proj[p].cur
     IN \/ /\ link[t] = None
           /\ link' = [link EXCEPT ![t] = DeclaredLink]
           /\ Proceed(p, [proj[p] EXCEPT !.pc = "owners", !.known = DeclaredLink])
           /\ UNCHANGED budget
        \/ /\ IF link[t] = None THEN Fault ELSE UNCHANGED budget
           /\ Proceed(p, IdleProjection) /\ UNCHANGED link
  /\ UNCHANGED <<scenario, task, issue, due, inb, history>>

\* Resource ids that the links of other rows hold.
OwnedByOthers(t) == {RidOf(link[u]) : u \in Tasks \ {t}} \ {None}

\* The rungs of upsertWorkItem, tried in this order; each answers an issue or None.
ByResourceId(q, boot) == IF q.known.rid # None /\ Live(q.known.rid, boot.at) THEN q.known.rid ELSE None
\* Mutant: an issue is taken by its footer whoever owns it.
ByFooterOfAnyone(q, boot) == boot.ext[scenario.key[q.cur]]

\* Mutant: the footer is not looked at.
ByFooterNever(q, boot) == None

ByFooter(q, boot) ==
  LET candidate == boot.ext[scenario.key[q.cur]]
  IN IF candidate \in q.owned THEN None ELSE candidate

\* A declared issue is refused if it is not there, is another row's or is owned.
MayAdopt(q, boot, i) == /\ Live(i, boot.at) /\ i \notin q.owned
                        /\ boot.at[i].key \in {None, scenario.key[q.cur]}

\* What upsertWorkItem will do, decided over a bootstrap: refuse, leave a matching
\* issue as it is, or write target (None: create one); seeded is the adopted body.
Plan(q, boot) ==
  LET row == q.rows[q.cur]
      known == IF ByResourceId(q, boot) # None THEN ByResourceId(q, boot) ELSE ByFooter(q, boot)
      adopts == known = None /\ scenario.declared[q.cur] # None
      target == IF adopts THEN scenario.declared[q.cur] ELSE known
      refuses == StateFor(row.status) = None \/ (adopts /\ ~MayAdopt(q, boot, target))
      there == IF target = None \/ refuses THEN NewIssue ELSE boot.at[target]
  IN [refuses |-> refuses, target |-> target,
      same |-> /\ target # None /\ ~refuses
               /\ there.state = StateFor(row.status) /\ there.body = row.body,
      seeded |-> IF adopts /\ row.body = Blank /\ there.body # Blank THEN there.body ELSE None]

Planned(q, boot) ==
  [q EXCEPT !.pc = "upsert", !.plan = Plan(q, boot), !.known = None, !.owned = {},
            !.boot = IF q.todo = {q.cur} THEN NoBoot ELSE boot]

\* The owners are read; the error of that read is not, and leaves no owners.
ReadOwners(p) ==
  /\ proj[p].pc = "owners"
  /\ LET t == proj[p].cur
         Read(owned) == LET q == [proj[p] EXCEPT !.owned = owned]
                        IN Proceed(p, IF q.boot = NoBoot THEN [q EXCEPT !.pc = "listing"]
                                      ELSE Planned(q, q.boot))
     IN \/ Read(OwnedByOthers(t)) /\ UNCHANGED <<unread, budget>>
        \/ /\ Fault /\ Read({})
           /\ unread' = unread \cup {u \in Tasks : Contend(t, u)}
  /\ UNCHANGED <<scenario, task, link, issue, due, inb, raced, lost, kept, editVars>>

\* A projection of one row fetches the bootstrap inside upsertWorkItem.
FetchBoot(p) ==
  /\ proj[p].pc = "listing"
  /\ \E b \in Listings : Proceed(p, Planned(proj[p], b))
  /\ UNCHANGED <<scenario, task, link, issue, due, inb, history, budget>>

\* Mutant: the row's own body is sent on adoption.
SentBodyUnseeded(q) == q.rows[q.cur].body

\* The body a projection sends, and stands for.
SentBody(q) == IF q.plan.seeded # None THEN q.plan.seeded ELSE q.rows[q.cur].body

\* The issue i as a projection leaves it.
Projection(q, i) ==
  LET state == StateFor(q.rows[q.cur].status)
  IN [state |-> state, body |-> SentBody(q), key |-> scenario.key[q.cur],
      by |-> IF Live(i, issue) /\ issue[i].state = state THEN issue[i].by ELSE "brain",
      taker |-> q.cur]

\* The provider's answer: the caches are refreshed, a seed is stored before the link.
Answered(p, i, written) ==
  LET q == proj[p]
  IN Proceed(p, [q EXCEPT !.pc = IF q.plan.seeded = None THEN "persist" ELSE "seed", !.plan.target = i,
       !.boot = IF @ = NoBoot \/ ~written THEN @
                ELSE [at |-> [@.at EXCEPT ![i] = Projection(q, i)],
                      ext |-> [@.ext EXCEPT ![scenario.key[q.cur]] = i]]])

\* The issues a projection may write: the one it found, or a new one.
Targets(q) == IF q.plan.target = None THEN {i \in Issues \ Written : issue[i] = Unborn}
              ELSE {i \in Issues : i = q.plan.target /\ Live(i, issue)}

\* issueUpdate or issueCreate: done; done with the answer lost; refused.  An
\* error is caught and noted in last_error, and the batch goes on.
Upsert(p) ==
  /\ proj[p].pc = "upsert"
  /\ LET q == proj[p]
         writes == ~q.plan.refuses /\ ~q.plan.same
     IN \/ \E i \in Targets(q) :
             /\ writes
             /\ issue' = [issue EXCEPT ![i] = Projection(q, i)]
             /\ \/ Answered(p, i, TRUE) /\ UNCHANGED <<lost, budget>>
                \/ Fault /\ Finish(p) /\ lost' = lost \cup {q.cur}
        \/ /\ q.plan.same
           /\ Answered(p, q.plan.target, FALSE)
           /\ issue' = [issue EXCEPT ![q.plan.target] = IF Live(q.plan.target, issue)
                                                        THEN [@ EXCEPT !.taker = q.cur] ELSE @]
           /\ UNCHANGED <<lost, budget>>
        \/ /\ q.plan.refuses \/ (writes /\ Targets(q) = {})
           /\ Finish(p) /\ UNCHANGED <<issue, lost, budget>>
        \/ Fault /\ Finish(p) /\ UNCHANGED <<issue, lost>>
  /\ UNCHANGED <<scenario, task, link, due, inb, raced, unread, kept, editVars>>

\* The adopted issue's body is stored in the row, whatever body the row has by now; the
\* error of that write is not read.
Seed(p) ==
  /\ proj[p].pc = "seed"
  /\ Proceed(p, [proj[p] EXCEPT !.pc = "persist"])
  /\ LET t == proj[p].cur
     IN \/ /\ task' = [task EXCEPT ![t].body = proj[p].plan.seeded]
           /\ overtaken' = IF task[t].body = proj[p].rows[t].body THEN overtaken
                           ELSE overtaken \cup {t}
           /\ UNCHANGED <<lost, budget>>
        \/ Fault /\ lost' = lost \cup {t} /\ UNCHANGED <<task, overtaken>>
  /\ UNCHANGED <<scenario, link, issue, due, inb, raced, unread, kept, said>>

\* Mutant: the fingerprint is that of the row as it is now.
RecordedAnew(q) ==
  [rid |-> q.plan.target, fp |-> FingerprintOf(task[q.cur]),
   lps |-> StateFor(q.rows[q.cur].status), lpb |-> q.rows[q.cur].status]

\* Mutant: the fingerprint is that of the body the row had before the seed.
RecordedUnseeded(q) ==
  [rid |-> q.plan.target, fp |-> FingerprintOf(q.rows[q.cur]),
   lps |-> StateFor(q.rows[q.cur].status), lpb |-> q.rows[q.cur].status]

\* Mutant: the state that was wanted is recorded, not the one the board has for it.
RecordedWanted(q) ==
  [rid |-> q.plan.target, fp |-> Fingerprint(q.rows[q.cur].status, SentBody(q)),
   lps |-> PreferredName(q.rows[q.cur].status), lpb |-> q.rows[q.cur].status]

\* What persistSuccess records: the projection of the row as it was loaded.
Recorded(q) ==
  LET status == q.rows[q.cur].status
  IN [rid |-> q.plan.target, fp |-> Fingerprint(status, SentBody(q)),
      lps |-> StateFor(status), lpb |-> status]

\* persistSuccess: done, or refused by the unique index, or failed.
Persist(p) ==
  /\ proj[p].pc = "persist"
  /\ LET q == proj[p]
         taken == q.plan.target \in OwnedByOthers(q.cur)
     IN \/ /\ ~taken
           /\ link' = [link EXCEPT ![q.cur] = Recorded(q)]
           /\ UNCHANGED <<lost, budget>>
        \/ /\ IF taken THEN UNCHANGED budget ELSE Fault
           /\ lost' = lost \cup {q.cur} /\ UNCHANGED link
  /\ Finish(p)
  /\ UNCHANGED <<scenario, task, issue, due, inb, raced, unread, kept, editVars>>

-----------------------------------------------------------------------------
(* The inbound pass *)

Continue(new) == inb' = new

\* runInboundForTeam, phase A: fetchSeenStates lists the states of the board.
StartPass ==
  /\ inb.pc = "idle" /\ budget.passes > 0
  /\ Continue([IdlePass EXCEPT !.pc = "listed", !.seen = issue])
  /\ raced' = raced \cup Meet(Tasks, Projected)
  /\ budget' = [budget EXCEPT !.passes = @ - 1]
  /\ UNCHANGED <<scenario, task, link, issue, due, proj, lost, unread, kept, editVars>>

\* loadInboundRows: the links, then their tasks.
LoadLinks ==
  /\ inb.pc = "listed"
  /\ Continue([inb EXCEPT !.pc = "linked", !.links = link])
  /\ UNCHANGED <<scenario, task, link, issue, due, proj, history, budget>>
LoadTasks ==
  /\ inb.pc = "linked"
  /\ Continue([inb EXCEPT !.pc = "applying", !.tasks = task,
                          !.left = {t \in Tasks : RidOf(inb.links[t]) # None}])
  /\ UNCHANGED <<scenario, task, link, issue, due, proj, history, budget>>

\* isDiverged and brainUnchanged, over what the pass has read.
Diverged(t) == inb.seen[inb.links[t].rid].state # inb.links[t].lps
BrainUnchanged(t) == /\ inb.links[t].lpb = inb.tasks[t].status
                     /\ inb.links[t].fp = FingerprintOf(inb.tasks[t])

\* Mutant: the status is written whatever it is by now.
ApplyStatusUnguarded(t, state) ==
  /\ task' = [task EXCEPT ![t].status = StatusOf(state)]
  /\ link' = [link EXCEPT ![t].fp = Fingerprint(StatusOf(state), inb.tasks[t].body),
                          ![t].lps = state, ![t].lpb = StatusOf(state)]

\* applyStatusTx: the status, guarded by the status that was read, and the link.
ApplyStatus(t, state) ==
  /\ task[t].status = inb.tasks[t].status
  /\ task' = [task EXCEPT ![t].status = StatusOf(state)]
  /\ link' = [link EXCEPT ![t].fp = Fingerprint(StatusOf(state), inb.tasks[t].body),
                          ![t].lps = state, ![t].lpb = StatusOf(state)]

\* applyInbound: one row; every other row is a no-op or a conflict that is reported.
ApplyRow(t) ==
  /\ inb.pc = "applying" /\ t \in inb.left
  /\ LET i == inb.links[t].rid
         applies == /\ Live(i, inb.seen) /\ Diverged(t) /\ BrainUnchanged(t)
                    /\ StatusOf(inb.seen[i].state) # None
     IN \/ applies /\ ApplyStatus(t, inb.seen[i].state) /\ said' = [said EXCEPT ![t] = task'[t]]
        \/ /\ ~applies \/ task[t].status # inb.tasks[t].status
           /\ UNCHANGED <<task, link, said>>
  /\ Continue([inb EXCEPT !.left = @ \ {t}, !.links[t] = None, !.tasks[t] = NoRow,
                          !.seen[inb.links[t].rid] = Unborn])
  /\ UNCHANGED <<scenario, issue, due, proj, raced, lost, unread, kept, overtaken, budget>>

\* Phase B: fetchLinearTeam, then the resource ids that links own.
FetchTeam ==
  /\ inb.pc = "applying" /\ inb.left = {}
  /\ Continue([IdlePass EXCEPT !.pc = "fetched", !.seen = issue])
  /\ UNCHANGED <<scenario, task, link, issue, due, proj, history, budget>>

\* Candidates: no footer, no owner, and a mirror row that ingestion imported.
ReadOwned ==
  /\ inb.pc = "fetched"
  /\ LET owned == {RidOf(link[t]) : t \in Tasks}
         candidate(t) == LET i == scenario.mirror[t]
                         IN i # None /\ Live(i, inb.seen) /\ inb.seen[i].key = None /\ i \notin owned
     IN Continue([inb EXCEPT !.pc = "adopting", !.left = {t \in Tasks : candidate(t)}])
  /\ UNCHANGED <<scenario, task, link, issue, due, proj, history, budget>>

ReadMirror(t) ==
  /\ inb.pc = "adopting" /\ t \in inb.left
  /\ Continue([inb EXCEPT !.pc = "mirror", !.cur = t, !.left = @ \ {t}, !.tasks[t] = task[t]])
  /\ UNCHANGED <<scenario, task, link, issue, due, proj, history, budget>>

\* Mutant: a state without a status is taken over too.
AdoptedUnmapped(t) ==
  [status |-> StatusOf(inb.seen[scenario.mirror[t]].state),
   body |-> IF inb.tasks[t].body = Blank THEN inb.seen[scenario.mirror[t]].body ELSE inb.tasks[t].body]

\* What an adoption makes of the mirror row: the board's status, and its body unless it has one.
Adopted(t) ==
  LET seen == inb.seen[scenario.mirror[t]]
      row == inb.tasks[t]
  IN [status |-> IF StatusOf(seen.state) = None THEN row.status ELSE StatusOf(seen.state),
      body |-> IF row.body = Blank THEN seen.body ELSE row.body]

\* The adopting transaction: a link that exists, or that owns the issue, leaves all as it is.
Adopt ==
  /\ inb.pc = "mirror"
  /\ LET t == inb.cur
         i == scenario.mirror[t]
     IN \/ /\ link[t] = None /\ i \notin OwnedByOthers(t)
           /\ link' = [link EXCEPT ![t] = [rid |-> i, fp |-> FingerprintOf(Adopted(t)),
                                           lps |-> inb.seen[i].state, lpb |-> Adopted(t).status]]
           /\ task' = [task EXCEPT ![t] = Adopted(t)]
           /\ kept' = IF Adopted(t).body = inb.seen[i].body THEN kept ELSE kept \cup {t}
           /\ overtaken' = IF task[t] = inb.tasks[t] THEN overtaken ELSE overtaken \cup {t}
           /\ Continue([inb EXCEPT !.pc = "footer"])
        \/ /\ link[t] # None \/ i \in OwnedByOthers(t)
           /\ Continue([inb EXCEPT !.pc = "adopting", !.cur = None])
           /\ UNCHANGED <<link, task, kept, overtaken>>
  /\ UNCHANGED <<scenario, issue, due, proj, raced, lost, unread, said, budget>>

\* AdoptFooter: best effort, over the description that was fetched.
StampFooter ==
  /\ inb.pc = "footer"
  /\ LET i == scenario.mirror[inb.cur]
     IN \/ /\ Live(i, issue)
           /\ issue' = [issue EXCEPT ![i].body = inb.seen[i].body,
                          ![i].key = scenario.key[inb.cur], ![i].taker = inb.cur]
           /\ UNCHANGED budget
        \/ ~Live(i, issue) /\ UNCHANGED <<issue, budget>>
        \/ Fault /\ UNCHANGED issue
  /\ Continue([inb EXCEPT !.pc = "adopting", !.cur = None])
  /\ UNCHANGED <<scenario, task, link, due, proj, history>>

EndPass ==
  /\ \/ inb.pc = "adopting" /\ inb.left = {} /\ UNCHANGED budget
     \/ inb.pc # "idle" /\ Fault     \* a read, a listing or a transaction throws
  /\ Continue(IdlePass)
  /\ UNCHANGED <<scenario, task, link, issue, due, proj, history>>

\* The server dies with its callbacks, its projections and its pass.
Crash ==
  /\ Fault
  /\ due' = [t \in Tasks |-> 0]
  /\ proj' = [p \in Projections |-> IdleProjection]
  /\ lost' = lost \cup {proj[p].cur : p \in {p \in Projections : proj[p].pc \in {"seed", "persist"}}}
  /\ inb' = IdlePass
  /\ UNCHANGED <<scenario, task, link, issue, raced, unread, kept, editVars>>

Next ==
  \/ \E t \in Tasks : Edit(t) \/ ApplyRow(t) \/ ReadMirror(t)
  \/ \E i \in Issues : Move(i)
  \/ \E p \in Projections :
       \/ \E t \in Tasks : Callback(p, t) \/ FindLink(p, t)
       \/ \E j \in Projects : ProjectBoard(p, j)
       \/ Prepare(p) \/ InsertLink(p) \/ ReadOwners(p) \/ FetchBoot(p) \/ Upsert(p)
       \/ Seed(p) \/ Persist(p)
  \/ StartPass \/ LoadLinks \/ LoadTasks \/ FetchTeam \/ ReadOwned \/ Adopt \/ StampFooter
  \/ EndPass
  \/ Crash

Spec == Init /\ [][Next]_vars

-----------------------------------------------------------------------------
(* Properties *)

Quiet(t) == t \notin Projected /\ t \notin Passed
Settled(t) == t \notin raced \cup lost \cup unread
Alone(k) == \A t \in Tasks : scenario.key[t] = k => t \notin raced \cup unread

\* One issue has one taker: unless two activities over rows that contend for it
\* ran over each other, the issue a link holds was last written for that row.
OneWriter ==
  \A t \in Tasks :
    t \notin raced \cup unread /\ RidOf(link[t]) # None /\ Live(RidOf(link[t]), issue)
      => issue[link[t].rid].taker \in {t, None}

\* No duplicate: rows whose projections did not run over each other have at most one
\* issue each on the board, whatever answers, records and processes were lost -- but
\* for rows that share a key, whose footers do not tell them apart.
OneIssuePerRow ==
  \A k \in Keys :
    LET rows == {t \in Tasks : scenario.key[t] = k}
        issues == {i \in Issues : Live(i, issue) /\ issue[i].key = k}
    IN Alone(k) /\ (rows \cap lost = {} \/ Cardinality(rows) = 1)
         => Cardinality(issues) <= Cardinality(rows)

\* An equal fingerprint is a safe reason to skip a row: the board has its body, and a
\* state of its group unless a person moved it.
SkipIsSafe ==
  \A t \in Tasks :
    LET i == RidOf(link[t])
    IN Settled(t) /\ Quiet(t) /\ t \notin kept /\ i # None /\ link[t].fp = FingerprintOf(task[t])
         => \/ ~Live(i, issue)
            \/ /\ issue[i].body = task[t].body
               /\ \/ issue[i].by = "person"
                  \/ issue[i].state = StateFor(task[t].status)
                  \/ StateType[issue[i].state] = GroupOf(task[t].status)

\* What a person wrote in Linear survives adoption: a row with nothing to say takes
\* the write-up over, it never erases it.
WriteUpSurvives ==
  \A i \in Written :
    (\A t \in Tasks : i \in Claims(t) => Settled(t)) /\ Live(i, issue) => issue[i].body # Blank

\* The row is as its member last left it, but that a blank body may have been filled from
\* the issue and that a mirror takes the status of the board when it is adopted.
AsSaid(t) ==
  /\ task[t].body = said[t].body \/ said[t].body = Blank
  /\ task[t].status = said[t].status \/ scenario.mirror[t] # None

\* An edit arrives: with no failed call, no crash and no move on the board, once a row's
\* callbacks are done and nothing runs, its link records the row (unless the board has no
\* state for it), and the row is still what its member last made of it.  The exception is
\* an edit made between the load of a projection that seeds the row, or the read of a pass
\* that adopts it, and that unguarded write: it is written over and nobody is told.
EditsArrive ==
  \A t \in Tasks :
    /\ Settled(t) /\ Quiet(t) /\ due[t] = 0 /\ RidOf(link[t]) # None
    /\ \A b \in {"faults", "moves"} : budget[b] = scenario.bound[b]
    /\ StateFor(task[t].status) # None
    => /\ link[t].fp = FingerprintOf(task[t])
       /\ t \notin overtaken => AsSaid(t)

\* The pass took a status from the board for t.
Applied(t) == /\ inb.pc = "applying" /\ inb'.pc = "applying"
              /\ t \in inb.left \ inb'.left /\ task'[t].status # task[t].status

\* Linear wins only over a status that has been projected: an apply of phase A never
\* overwrites an edit of a member that the link does not record.  (Adoption, in phase B,
\* has no such guard: see EditsArrive.)
PmWinsIfUnchanged == [][\A t \in Tasks : Applied(t) /\ Settled(t) => link[t].lpb = task[t].status]_vars

\* No echo: only a state that a person gave the issue is taken over by its row.
OnlyMovesApply ==
  [][\A t \in Tasks : Applied(t) /\ Settled(t) => inb.seen[inb.links[t].rid].by = "person"]_vars
=============================================================================
