--------------------------- MODULE PmSync_proofs ----------------------------
(***************************************************************************)
(* For any rows, projections, faults and bounds: an inbound pass never     *)
(* overwrites an edit that was not projected (UnprojectedEditsWin); every  *)
(* variable keeps its type and no two links hold one issue                 *)
(* (PmTypeCorrect); two rows never write one issue in turns unnoticed      *)
(* (WritersStandApart); and while no call fails, no process dies and       *)
(* nobody moves an issue, an edit of a row arrives at its link unless a    *)
(* seed or an adoption wrote over it first (EditsReach).  The history      *)
(* variable raced carries all of them but the types: a row of which two    *)
(* activities were at work at the same time is in it, so what an activity  *)
(* has read of any other row still holds.                                  *)
(***************************************************************************)
EXTENDS PmSync, TLAPS

ProjectionFields == {"pc", "todo", "rows", "boot", "cur", "known", "owned", "plan"}
PassFields == {"pc", "seen", "links", "tasks", "left", "cur"}

\* A projection that has chosen its row works on one of the rows it still has to do.
AtWork(q) ==
  q.pc \in {"insert", "owners", "listing", "upsert", "seed", "persist"} => q.cur \in q.todo

Shape ==
  /\ DOMAIN proj = Projections
  /\ \A p \in Projections : DOMAIN proj[p] = ProjectionFields /\ AtWork(proj[p])
  /\ DOMAIN inb = PassFields
  /\ inb.left \subseteq Tasks
  /\ DOMAIN link = Tasks
  /\ inb.pc \in {"linked", "applying"} => DOMAIN inb.links = Tasks

\* Rows a pass and a projection have in hand at the same time have been noticed.
MetIsRaced == Passed \cap Projected \subseteq raced

\* What the pass has read of the other links is still so.
LinksAreFresh ==
  /\ inb.pc = "linked" => \A t \in Tasks \ raced : inb.links[t] = link[t]
  /\ inb.pc = "applying" => \A t \in inb.left \ raced : inb.links[t] = link[t]

PmInv == Shape /\ MetIsRaced /\ LinksAreFresh

-----------------------------------------------------------------------------
(* The projector *)

\* What a step of a projection makes of it.
Narrowed(q, new) ==
  DOMAIN new = ProjectionFields /\ AtWork(new) /\ new.todo \subseteq q.todo

\* Projection p goes on with rows it had.
Narrows(p) == \E new : proj' = [proj EXCEPT ![p] = new] /\ Narrowed(proj[p], new)

LEMMA IdleNarrows ==
  ASSUME NEW q
  PROVE  Narrowed(q, IdleProjection)
<1> QED BY DEF Narrowed, IdleProjection, ProjectionFields, AtWork

LEMMA FinishNarrows ==
  ASSUME Shape, NEW p \in Projections, Finish(p)
  PROVE  Narrows(p)
<1> DEFINE left == proj[p].todo \ {proj[p].cur}
           next == [proj[p] EXCEPT !.pc = "link", !.todo = left, !.cur = None,
                        !.rows = [t \in Tasks |-> IF t \in left THEN @[t] ELSE NoRow],
                        !.plan = None]
<1>1. CASE left = {}
  <2>1. proj' = [proj EXCEPT ![p] = IdleProjection]
    BY <1>1 DEF Finish, Proceed
  <2> QED BY <2>1, IdleNarrows DEF Narrows
<1>2. CASE left # {}
  <2>1. proj' = [proj EXCEPT ![p] = next]
    BY <1>2 DEF Finish, Proceed
  <2>2. DOMAIN proj[p] = ProjectionFields
    BY DEF Shape
  <2>3. Narrowed(proj[p], next)
    BY <2>2 DEF Narrowed, ProjectionFields, AtWork
  <2> QED BY <2>1, <2>3 DEF Narrows
<1> QED BY <1>1, <1>2

\* What Planned makes of a projection.
LEMMA PlannedNarrows ==
  ASSUME NEW q, NEW boot, DOMAIN q = ProjectionFields, q.cur \in q.todo
  PROVE  Narrowed(q, Planned(q, boot))
<1> DEFINE plan == Plan(q, boot)
           newBoot == IF q.todo = {q.cur} THEN NoBoot ELSE boot
<1>1. Planned(q, boot) = [q EXCEPT !.pc = "upsert", !.plan = plan, !.known = None,
                                   !.owned = {}, !.boot = newBoot]
  BY DEF Planned
<1> HIDE DEF plan, newBoot
<1> QED BY <1>1 DEF Narrowed, ProjectionFields, AtWork

\* Every step of a projection but its beginning narrows it.
ProjectorStep(p) ==
  \/ Prepare(p) \/ (\E t \in Tasks : FindLink(p, t)) \/ InsertLink(p) \/ ReadOwners(p)
  \/ FetchBoot(p) \/ Upsert(p) \/ Seed(p) \/ Persist(p)

LEMMA ProjectorNarrows ==
  ASSUME Shape, NEW p \in Projections, ProjectorStep(p)
  PROVE  Narrows(p)
<1> DEFINE q == proj[p]
<1>0. DOMAIN q = ProjectionFields /\ AtWork(q)
  BY DEF Shape
<1>1. CASE Prepare(p)
  <2>1. ASSUME NEW b, Proceed(p, [q EXCEPT !.pc = "link", !.boot = b])
        PROVE  Narrows(p)
    <3>1. Narrowed(q, [q EXCEPT !.pc = "link", !.boot = b])
      BY <1>0 DEF Narrowed, ProjectionFields, AtWork
    <3> QED BY <2>1, <3>1 DEF Narrows, Proceed
  <2> QED BY <1>1, <2>1, IdleNarrows DEF Prepare, Proceed, Narrows
<1>2. ASSUME NEW t \in Tasks, FindLink(p, t)
      PROVE  Narrows(p)
  <2> DEFINE here == [q EXCEPT !.cur = t, !.known = link[t]]
             left == q.todo \ {t}
             rest == [q EXCEPT !.todo = left, !.rows[t] = NoRow]
  <2>1. t \in q.todo /\ q.pc = "link"
    BY <1>2 DEF FindLink
  <2>2. DOMAIN here = ProjectionFields /\ here.cur = t /\ here.todo = q.todo
    BY <1>0 DEF ProjectionFields
  <2>3. Narrowed(q, [here EXCEPT !.pc = "insert"])
    <3> HIDE DEF here, q
    <3> QED BY <2>1, <2>2 DEF Narrowed, ProjectionFields, AtWork
  <2>4. Narrowed(q, [here EXCEPT !.pc = "owners"])
    <3> HIDE DEF here, q
    <3> QED BY <2>1, <2>2 DEF Narrowed, ProjectionFields, AtWork
  <2>5. Narrowed(q, rest)
    <3> HIDE DEF q
    <3> QED BY <1>0, <2>1 DEF Narrowed, ProjectionFields, AtWork
  <2>6. \E new \in {[here EXCEPT !.pc = "insert"], [here EXCEPT !.pc = "owners"], rest,
                    IdleProjection} : Proceed(p, new)
    BY <1>2 DEF FindLink
  <2> HIDE DEF here, rest
  <2> QED BY <2>3, <2>4, <2>5, <2>6, IdleNarrows DEF Narrows, Proceed
<1>3. CASE InsertLink(p)
  <2> DEFINE next == [q EXCEPT !.pc = "owners", !.known = DeclaredLink]
  <2>1. q.pc = "insert" /\ (Proceed(p, next) \/ Proceed(p, IdleProjection))
    BY <1>3 DEF InsertLink
  <2>2. Narrowed(q, next)
    <3> HIDE DEF q
    <3> QED BY <1>0, <2>1 DEF Narrowed, ProjectionFields, AtWork
  <2> QED BY <2>1, <2>2, IdleNarrows DEF Narrows, Proceed
<1>4. CASE ReadOwners(p)
  <2>1. q.pc = "owners" /\ q.cur \in q.todo
    BY <1>0, <1>4 DEF ReadOwners, AtWork
  <2>2. PICK owned :
          LET r == [q EXCEPT !.owned = owned]
          IN Proceed(p, IF r.boot = NoBoot THEN [r EXCEPT !.pc = "listing"]
                        ELSE Planned(r, r.boot))
    BY <1>4 DEF ReadOwners
  <2> DEFINE r == [q EXCEPT !.owned = owned]
  <2>3. DOMAIN r = ProjectionFields /\ r.cur = q.cur /\ r.todo = q.todo
    <3> HIDE DEF q
    <3> QED BY <1>0 DEF ProjectionFields
  <2>4. Narrowed(q, [r EXCEPT !.pc = "listing"])
    <3> HIDE DEF r, q
    <3> QED BY <2>1, <2>3 DEF Narrowed, ProjectionFields, AtWork
  <2>5. Narrowed(q, Planned(r, r.boot))
    <3> HIDE DEF r, q
    <3> QED BY <2>1, <2>3, PlannedNarrows DEF Narrowed
  <2>6. Proceed(p, [r EXCEPT !.pc = "listing"]) \/ Proceed(p, Planned(r, r.boot))
    BY <2>2
  <2> HIDE DEF r
  <2> QED BY <2>4, <2>5, <2>6 DEF Narrows, Proceed
<1>5. CASE FetchBoot(p)
  <2>1. q.pc = "listing" /\ q.cur \in q.todo
    BY <1>0, <1>5 DEF FetchBoot, AtWork
  <2>2. PICK b : Proceed(p, Planned(q, b))
    BY <1>5 DEF FetchBoot
  <2> QED BY <1>0, <2>1, <2>2, PlannedNarrows DEF Narrows, Proceed
<1>6. CASE Upsert(p)
  <2>1. ASSUME NEW i, NEW written, Answered(p, i, written)
        PROVE  Narrows(p)
    <3>1. q.cur \in q.todo
      BY <1>0, <1>6 DEF Upsert, AtWork
    <3> DEFINE pc == IF q.plan.seeded = None THEN "persist" ELSE "seed"
               boot == IF q.boot = NoBoot \/ ~written THEN q.boot
                       ELSE [at |-> [q.boot.at EXCEPT ![i] = Projection(q, i)],
                             ext |-> [q.boot.ext EXCEPT ![scenario.key[q.cur]] = i]]
    <3>2. Proceed(p, [q EXCEPT !.pc = pc, !.plan.target = i, !.boot = boot])
      BY <2>1 DEF Answered
    <3>3. Narrowed(q, [q EXCEPT !.pc = pc, !.plan.target = i, !.boot = boot])
      <4>1. pc \in {"persist", "seed"}
        OBVIOUS
      <4> HIDE DEF q, pc, boot
      <4> QED BY <1>0, <3>1, <4>1 DEF Narrowed, ProjectionFields, AtWork
    <3> QED BY <3>2, <3>3 DEF Narrows, Proceed
  <2> QED BY <1>6, <2>1, FinishNarrows DEF Upsert
<1>7. CASE Seed(p)
  <2>1. q.cur \in q.todo /\ Proceed(p, [q EXCEPT !.pc = "persist"])
    BY <1>0, <1>7 DEF Seed, AtWork
  <2>2. Narrowed(q, [q EXCEPT !.pc = "persist"])
    <3> HIDE DEF q
    <3> QED BY <1>0, <2>1 DEF Narrowed, ProjectionFields, AtWork
  <2> QED BY <2>1, <2>2 DEF Narrows, Proceed
<1>8. CASE Persist(p)
  BY <1>8, FinishNarrows DEF Persist
<1> QED BY <1>1, <1>2, <1>3, <1>4, <1>5, <1>6, <1>7, <1>8 DEF ProjectorStep

-----------------------------------------------------------------------------
(* The invariant *)

LEMMA InitPmInv == Init => PmInv
<1> SUFFICES ASSUME Init PROVE PmInv
  OBVIOUS
<1>1. \A p \in Projections : proj[p] = IdleProjection
  BY DEF Init
<1>2. inb.pc = "idle" /\ inb.left = {} /\ DOMAIN inb = PassFields
  BY DEF Init, IdlePass, PassFields
<1>3. DOMAIN proj = Projections /\ DOMAIN link = Tasks
  BY DEF Init
<1>4. Shape
  BY <1>1, <1>2, <1>3 DEF Shape, IdleProjection, ProjectionFields, AtWork
<1>5. MetIsRaced /\ LinksAreFresh
  BY <1>2 DEF MetIsRaced, LinksAreFresh, Passed
<1> QED BY <1>4, <1>5 DEF PmInv

\* A projection that starts meets whatever else is at work on its rows.
LEMMA BeginKeeps ==
  ASSUME PmInv, NEW p \in Projections, NEW T, NEW pc \in {"link", "prepare"}, Begin(p, T, pc),
         UNCHANGED <<scenario, link, inb>>
  PROVE  PmInv'
<1> DEFINE new == [IdleProjection EXCEPT !.pc = pc, !.todo = T,
                     !.rows = [t \in Tasks |-> IF t \in T THEN task[t] ELSE NoRow]]
<1>1. proj' = [proj EXCEPT ![p] = new]
  BY DEF Begin, Proceed
<1>2. DOMAIN new = ProjectionFields /\ new.todo = T /\ new.pc = pc
  BY DEF IdleProjection, ProjectionFields
<1> HIDE DEF new
<1>3. AtWork(new)
  BY <1>2 DEF AtWork
<1>4. Shape'
  BY <1>1, <1>2, <1>3 DEF PmInv, Shape
<1>5. Projected' \subseteq Projected \cup T
  BY <1>1, <1>2 DEF PmInv, Shape, Projected
<1>6. Passed' = Passed
  BY DEF Passed
<1>7. raced' = raced \cup Meet(T, Projected \cup Passed)
  BY DEF Begin
<1>8. \A t \in T : t \in Passed => t \in Meet(T, Projected \cup Passed)
  BY DEF Meet, Contend
<1>9. MetIsRaced'
  BY <1>5, <1>6, <1>7, <1>8 DEF PmInv, MetIsRaced
<1>10. LinksAreFresh'
  BY <1>7 DEF PmInv, LinksAreFresh
<1> QED BY <1>4, <1>9, <1>10 DEF PmInv

\* A projection writes the link of its row only.
LEMMA ProjectorLinks ==
  ASSUME NEW p \in Projections, ProjectorStep(p)
  PROVE  /\ UNCHANGED <<scenario, inb, raced>>
         /\ \/ UNCHANGED link
            \/ /\ proj[p].pc \in {"insert", "persist"}
               /\ \E x : link' = [link EXCEPT ![proj[p].cur] = x]
<1>1. CASE Prepare(p)
  BY <1>1 DEF Prepare, history
<1>2. CASE \E t \in Tasks : FindLink(p, t)
  BY <1>2 DEF FindLink, history
<1>3. CASE InsertLink(p)
  BY <1>3 DEF InsertLink, history
<1>4. CASE ReadOwners(p)
  BY <1>4 DEF ReadOwners
<1>5. CASE FetchBoot(p)
  BY <1>5 DEF FetchBoot, history
<1>6. CASE Upsert(p)
  BY <1>6 DEF Upsert
<1>7. CASE Seed(p)
  BY <1>7 DEF Seed
<1>8. CASE Persist(p)
  BY <1>8 DEF Persist
<1> QED BY <1>1, <1>2, <1>3, <1>4, <1>5, <1>6, <1>7, <1>8 DEF ProjectorStep

LEMMA ProjectorKeeps ==
  ASSUME PmInv, NEW p \in Projections, ProjectorStep(p)
  PROVE  PmInv'
<1>1. PICK new : proj' = [proj EXCEPT ![p] = new] /\ Narrowed(proj[p], new)
  BY ProjectorNarrows DEF PmInv, Narrows
<1>2. UNCHANGED <<scenario, inb, raced>>
  BY ProjectorLinks
<1>3. DOMAIN link' = Tasks
  BY ProjectorLinks DEF PmInv, Shape
<1>4. Shape'
  BY <1>1, <1>2, <1>3 DEF PmInv, Shape, Narrowed
<1>5. Projected' \subseteq Projected /\ Passed' = Passed
  BY <1>1, <1>2 DEF PmInv, Shape, Narrowed, Projected, Passed
<1>6. MetIsRaced'
  BY <1>2, <1>5 DEF PmInv, MetIsRaced
<1>7. \A t \in Tasks \cap Passed : t \notin raced => link'[t] = link[t]
  <2>1. CASE UNCHANGED link
    BY <2>1
  <2>2. CASE proj[p].pc \in {"insert", "persist"} /\ \E x : link' = [link EXCEPT ![proj[p].cur] = x]
    <3>1. proj[p].cur \in Projected
      BY <2>2 DEF PmInv, Shape, AtWork, Projected
    <3> QED BY <2>2, <3>1 DEF PmInv, Shape, MetIsRaced
  <2> QED BY <2>1, <2>2, ProjectorLinks
<1>8. LinksAreFresh'
  BY <1>2, <1>7 DEF PmInv, Shape, LinksAreFresh, Passed
<1> QED BY <1>4, <1>6, <1>8 DEF PmInv

\* A step of the pass that starts nothing keeps to the rows it had.
LEMMA PassKeeps ==
  ASSUME PmInv, UNCHANGED <<scenario, proj, raced>>, DOMAIN inb' = PassFields,
         inb'.left \subseteq Tasks, inb'.pc \notin {"linked", "applying"},
         Passed' \subseteq Passed, DOMAIN link' = Tasks
  PROVE  PmInv'
<1>1. Shape'
  BY DEF PmInv, Shape, AtWork
<1>2. Projected' = Projected
  BY DEF Projected
<1>3. MetIsRaced' /\ LinksAreFresh'
  BY <1>2 DEF PmInv, MetIsRaced, LinksAreFresh
<1> QED BY <1>1, <1>3 DEF PmInv

LEMMA StartPassKeeps ==
  ASSUME PmInv, StartPass
  PROVE  PmInv'
<1>1. inb' = [IdlePass EXCEPT !.pc = "listed", !.seen = issue]
  BY DEF StartPass, Continue
<1>2. DOMAIN inb' = PassFields /\ inb'.pc = "listed" /\ inb'.left = {}
  BY <1>1 DEF IdlePass, PassFields
<1>3. UNCHANGED <<scenario, link, proj>> /\ raced' = raced \cup Meet(Tasks, Projected)
  BY DEF StartPass
<1>4. Shape'
  BY <1>2, <1>3 DEF PmInv, Shape, AtWork
<1>5. Passed' \subseteq Tasks /\ Projected' = Projected
  BY <1>2, <1>3 DEF Passed, Projected
<1>6. \A t \in Tasks : t \in Projected => t \in Meet(Tasks, Projected)
  BY DEF Meet, Contend
<1>7. MetIsRaced' /\ LinksAreFresh'
  BY <1>2, <1>3, <1>5, <1>6 DEF MetIsRaced, LinksAreFresh
<1> QED BY <1>4, <1>7 DEF PmInv

LEMMA LoadLinksKeeps ==
  ASSUME PmInv, LoadLinks
  PROVE  PmInv'
<1>1. inb' = [inb EXCEPT !.pc = "linked", !.links = link] /\ inb.pc = "listed"
  BY DEF LoadLinks, Continue
<1>2. /\ DOMAIN inb' = PassFields /\ inb'.pc = "linked" /\ inb'.left = inb.left
      /\ inb'.links = link
  BY <1>1 DEF PmInv, Shape, PassFields
<1>3. UNCHANGED <<scenario, link, proj, raced>>
  BY DEF LoadLinks, history
<1>4. Shape'
  BY <1>2, <1>3 DEF PmInv, Shape, AtWork
<1>5. Passed' = Passed /\ Projected' = Projected
  BY <1>1, <1>2, <1>3 DEF Passed, Projected
<1>6. MetIsRaced' /\ LinksAreFresh'
  BY <1>2, <1>3, <1>5 DEF PmInv, MetIsRaced, LinksAreFresh
<1> QED BY <1>4, <1>6 DEF PmInv

LEMMA LoadTasksKeeps ==
  ASSUME PmInv, LoadTasks
  PROVE  PmInv'
<1> DEFINE left == {t \in Tasks : RidOf(inb.links[t]) # None}
<1>1. inb' = [inb EXCEPT !.pc = "applying", !.tasks = task, !.left = left] /\ inb.pc = "linked"
  BY DEF LoadTasks, Continue
<1>2. left \subseteq Tasks
  OBVIOUS
<1> HIDE DEF left
<1>3. /\ DOMAIN inb' = PassFields /\ inb'.pc = "applying" /\ inb'.left = left
      /\ inb'.links = inb.links
  BY <1>1 DEF PmInv, Shape, PassFields
<1>4. UNCHANGED <<scenario, link, proj, raced>>
  BY DEF LoadTasks, history
<1>5. Shape'
  BY <1>1, <1>2, <1>3, <1>4 DEF PmInv, Shape, AtWork
<1>6. Passed' \subseteq Passed /\ Projected' = Projected
  BY <1>1, <1>2, <1>3, <1>4 DEF Passed, Projected
<1>7. MetIsRaced'
  BY <1>4, <1>6 DEF PmInv, MetIsRaced
<1>8. LinksAreFresh'
  BY <1>1, <1>2, <1>3, <1>4 DEF PmInv, LinksAreFresh
<1> QED BY <1>5, <1>7, <1>8 DEF PmInv

\* A row that is applied changes its own link only, and is done.
LEMMA ApplyRowKeeps ==
  ASSUME PmInv, NEW t \in Tasks, ApplyRow(t)
  PROVE  PmInv'
<1>1. /\ inb.pc = "applying" /\ t \in inb.left
      /\ inb' = [inb EXCEPT !.left = @ \ {t}, !.links[t] = None, !.tasks[t] = NoRow,
                            !.seen[inb.links[t].rid] = Unborn]
  BY DEF ApplyRow, Continue
<1>2. /\ DOMAIN inb' = PassFields /\ inb'.pc = "applying" /\ inb'.left = inb.left \ {t}
      /\ inb'.links = [inb.links EXCEPT ![t] = None]
  BY <1>1 DEF PmInv, Shape, PassFields
<1>3. UNCHANGED <<scenario, proj, raced>>
  BY DEF ApplyRow, history
<1>4. DOMAIN link' = Tasks /\ \A u \in Tasks \ {t} : link'[u] = link[u]
  BY DEF ApplyRow, ApplyStatus, PmInv, Shape
<1>5. Shape'
  BY <1>1, <1>2, <1>3, <1>4 DEF PmInv, Shape, AtWork
<1>6. Passed' \subseteq Passed /\ Projected' = Projected
  BY <1>1, <1>2, <1>3 DEF Passed, Projected
<1>7. MetIsRaced'
  BY <1>3, <1>6 DEF PmInv, MetIsRaced
<1>8. LinksAreFresh'
  BY <1>1, <1>2, <1>3, <1>4 DEF PmInv, Shape, LinksAreFresh
<1> QED BY <1>5, <1>7, <1>8 DEF PmInv

\* Phase B holds no link it has read.
AdoptionStep ==
  \/ FetchTeam \/ ReadOwned \/ (\E t \in Tasks : ReadMirror(t)) \/ Adopt \/ StampFooter

LEMMA AdoptionKeeps ==
  ASSUME PmInv, AdoptionStep
  PROVE  PmInv'
<1>0. DOMAIN inb = PassFields /\ inb.left \subseteq Tasks /\ DOMAIN link = Tasks
  BY DEF PmInv, Shape
<1>1. CASE FetchTeam
  <2>1. inb' = [IdlePass EXCEPT !.pc = "fetched", !.seen = issue] /\ inb.pc = "applying"
    BY <1>1 DEF FetchTeam, Continue
  <2>2. DOMAIN inb' = PassFields /\ inb'.pc = "fetched" /\ inb'.left = {}
    BY <2>1 DEF IdlePass, PassFields
  <2>3. UNCHANGED <<scenario, proj, raced, link>>
    BY <1>1 DEF FetchTeam, history
  <2>4. Passed' \subseteq Passed
    BY <2>1, <2>2, <2>3 DEF Passed
  <2> QED BY <1>0, <2>2, <2>3, <2>4, PassKeeps
<1>2. CASE ReadOwned
  <2>1. PICK left : /\ left \subseteq {t \in Tasks : scenario.mirror[t] # None}
                    /\ inb' = [inb EXCEPT !.pc = "adopting", !.left = left]
                    /\ inb.pc = "fetched"
    BY <1>2 DEF ReadOwned, Continue
  <2>2. DOMAIN inb' = PassFields /\ inb'.pc = "adopting" /\ inb'.left = left
    BY <1>0, <2>1 DEF PassFields
  <2>3. UNCHANGED <<scenario, proj, raced, link>>
    BY <1>2 DEF ReadOwned, history
  <2>4. Passed' \subseteq Passed
    BY <2>1, <2>2, <2>3 DEF Passed
  <2> QED BY <1>0, <2>1, <2>2, <2>3, <2>4, PassKeeps
<1>3. ASSUME NEW t \in Tasks, ReadMirror(t)
      PROVE  PmInv'
  <2>1. /\ inb' = [inb EXCEPT !.pc = "mirror", !.cur = t, !.left = @ \ {t}, !.tasks[t] = task[t]]
        /\ inb.pc = "adopting"
    BY <1>3 DEF ReadMirror, Continue
  <2>2. DOMAIN inb' = PassFields /\ inb'.pc = "mirror" /\ inb'.left = inb.left \ {t}
    BY <1>0, <2>1 DEF PassFields
  <2>3. UNCHANGED <<scenario, proj, raced, link>>
    BY <1>3 DEF ReadMirror, history
  <2>4. Passed' \subseteq Passed
    BY <2>1, <2>2, <2>3 DEF Passed
  <2> QED BY <1>0, <2>2, <2>3, <2>4, PassKeeps
<1>4. CASE Adopt
  <2>1. \/ inb' = [inb EXCEPT !.pc = "footer"]
        \/ inb' = [inb EXCEPT !.pc = "adopting", !.cur = None]
    BY <1>4 DEF Adopt, Continue
  <2>2. /\ DOMAIN inb' = PassFields /\ inb'.pc \in {"footer", "adopting"}
        /\ inb'.left = inb.left /\ inb.pc = "mirror"
    BY <1>0, <1>4, <2>1 DEF PassFields, Adopt
  <2>3. UNCHANGED <<scenario, proj, raced>> /\ DOMAIN link' = Tasks
    BY <1>0, <1>4 DEF Adopt
  <2>4. Passed' \subseteq Passed
    BY <2>2, <2>3 DEF Passed
  <2> QED BY <1>0, <2>2, <2>3, <2>4, PassKeeps
<1>5. CASE StampFooter
  <2>1. inb' = [inb EXCEPT !.pc = "adopting", !.cur = None] /\ inb.pc = "footer"
    BY <1>5 DEF StampFooter, Continue
  <2>2. DOMAIN inb' = PassFields /\ inb'.pc = "adopting" /\ inb'.left = inb.left
    BY <1>0, <2>1 DEF PassFields
  <2>3. UNCHANGED <<scenario, proj, raced, link>>
    BY <1>5 DEF StampFooter, history
  <2>4. Passed' \subseteq Passed
    BY <2>1, <2>2, <2>3 DEF Passed
  <2> QED BY <1>0, <2>2, <2>3, <2>4, PassKeeps
<1> QED BY <1>1, <1>2, <1>3, <1>4, <1>5 DEF AdoptionStep

LEMMA EndPassKeeps ==
  ASSUME PmInv, EndPass
  PROVE  PmInv'
<1>1. DOMAIN inb' = PassFields /\ inb'.pc = "idle" /\ inb'.left = {}
  BY DEF EndPass, Continue, IdlePass, PassFields
<1>2. UNCHANGED <<scenario, proj, raced, link>>
  BY DEF EndPass, history
<1>3. Passed' = {}
  BY <1>1 DEF Passed
<1> QED BY <1>1, <1>2, <1>3, PassKeeps DEF PmInv, Shape

LEMMA CrashKeeps ==
  ASSUME PmInv, Crash
  PROVE  PmInv'
<1>1. DOMAIN inb' = PassFields /\ inb'.pc = "idle" /\ inb'.left = {}
  BY DEF Crash, IdlePass, PassFields
<1>2. proj' = [p \in Projections |-> IdleProjection] /\ UNCHANGED link
  BY DEF Crash
<1>3. Shape'
  BY <1>1, <1>2 DEF PmInv, Shape, IdleProjection, ProjectionFields, AtWork
<1>4. MetIsRaced' /\ LinksAreFresh'
  BY <1>1 DEF MetIsRaced, LinksAreFresh, Passed
<1> QED BY <1>3, <1>4 DEF PmInv

\* A step that touches neither links nor activities.
LEMMA RestKeeps ==
  ASSUME PmInv, UNCHANGED <<scenario, link, proj, inb, raced>>
  PROVE  PmInv'
<1>1. Shape'
  BY DEF PmInv, Shape, AtWork
<1>2. MetIsRaced' /\ LinksAreFresh'
  BY DEF PmInv, MetIsRaced, LinksAreFresh, Passed, Projected
<1> QED BY <1>1, <1>2 DEF PmInv

LEMMA NextPmInv == PmInv /\ [Next]_vars => PmInv'
<1> SUFFICES ASSUME PmInv, [Next]_vars PROVE PmInv'
  OBVIOUS
<1>1. ASSUME NEW t \in Tasks, Edit(t) PROVE PmInv'
  BY <1>1, RestKeeps DEF Edit, history
<1>2. ASSUME NEW i \in Issues, Move(i) PROVE PmInv'
  BY <1>2, RestKeeps DEF Move, history
<1>3. ASSUME NEW p \in Projections, NEW t \in Tasks, Callback(p, t) PROVE PmInv'
  BY <1>3, BeginKeeps DEF Callback
<1>4. ASSUME NEW p \in Projections, NEW j \in Projects, ProjectBoard(p, j) PROVE PmInv'
  BY <1>4, BeginKeeps DEF ProjectBoard
<1>5. ASSUME NEW p \in Projections, ProjectorStep(p) PROVE PmInv'
  BY <1>5, ProjectorKeeps
<1>6. ASSUME NEW t \in Tasks, ApplyRow(t) PROVE PmInv'
  BY <1>6, ApplyRowKeeps
<1>7. CASE StartPass \/ LoadLinks \/ LoadTasks \/ EndPass \/ Crash
  BY <1>7, StartPassKeeps, LoadLinksKeeps, LoadTasksKeeps, EndPassKeeps, CrashKeeps
<1>8. CASE AdoptionStep
  BY <1>8, AdoptionKeeps
<1>9. CASE UNCHANGED vars
  BY <1>9, RestKeeps DEF vars
<1> QED
  BY <1>1, <1>2, <1>3, <1>4, <1>5, <1>6, <1>7, <1>8, <1>9
  DEF Next, ProjectorStep, AdoptionStep

-----------------------------------------------------------------------------
(* Linear wins only over a status that has been projected *)

\* Only the row that is applied is taken off the list of an applying pass.
LEMMA OnlyApplyRowApplies ==
  ASSUME PmInv, [Next]_vars, NEW t \in Tasks, Applied(t)
  PROVE  ApplyRow(t)
<1>1. inb.pc = "applying" /\ inb'.pc = "applying" /\ inb' # inb
  BY DEF Applied
<1>2. \E u \in Tasks : ApplyRow(u)
  <2>1. ASSUME NEW p \in Projections, ProjectorStep(p) PROVE FALSE
    BY <1>1, <2>1, ProjectorLinks
  <2>2. ASSUME NEW p \in Projections, NEW u \in Tasks, Callback(p, u) PROVE FALSE
    BY <1>1, <2>2 DEF Callback
  <2>3. ASSUME NEW p \in Projections, NEW j \in Projects, ProjectBoard(p, j) PROVE FALSE
    BY <1>1, <2>3 DEF ProjectBoard
  <2>4. ASSUME NEW u \in Tasks, Edit(u) PROVE FALSE
    BY <1>1, <2>4 DEF Edit
  <2>5. ASSUME NEW i \in Issues, Move(i) PROVE FALSE
    BY <1>1, <2>5 DEF Move
  <2>6. ASSUME NEW u \in Tasks, ReadMirror(u) PROVE FALSE
    BY <1>1, <2>6 DEF ReadMirror
  <2>7. CASE \/ StartPass \/ LoadLinks \/ LoadTasks \/ ReadOwned \/ Adopt \/ StampFooter
    BY <1>1, <2>7 DEF StartPass, LoadLinks, LoadTasks, ReadOwned, Adopt, StampFooter
  <2>8. CASE FetchTeam \/ EndPass \/ Crash
    <3>1. CASE FetchTeam
      <4>1. inb' = [IdlePass EXCEPT !.pc = "fetched", !.seen = issue]
        BY <3>1 DEF FetchTeam, Continue
      <4>2. inb'.pc = "fetched"
        BY <4>1 DEF IdlePass
      <4> QED BY <1>1, <4>2
    <3>2. CASE EndPass \/ Crash
      <4>1. inb' = IdlePass
        BY <3>2 DEF EndPass, Crash, Continue
      <4>2. inb'.pc = "idle"
        BY <4>1 DEF IdlePass
      <4> QED BY <1>1, <4>2
    <3> QED BY <2>8, <3>1, <3>2
  <2> QED
    BY <1>1, <2>1, <2>2, <2>3, <2>4, <2>5, <2>6, <2>7, <2>8 DEF Next, ProjectorStep, vars
<1>3. PICK u \in Tasks : ApplyRow(u)
  BY <1>2
<1>4. inb'.left = inb.left \ {u}
  BY <1>3 DEF ApplyRow, Continue, PmInv, Shape, PassFields
<1> QED BY <1>3, <1>4 DEF Applied

LEMMA StepKeepsEdits ==
  ASSUME PmInv, [Next]_vars, NEW t \in Tasks, Applied(t), Settled(t)
  PROVE  link[t].lpb = task[t].status
<1>1. ApplyRow(t)
  BY OnlyApplyRowApplies
<1>2. task' # task
  BY DEF Applied
<1>3. BrainUnchanged(t) /\ task[t].status = inb.tasks[t].status
  BY <1>1, <1>2 DEF ApplyRow, ApplyStatus
<1>4. inb.pc = "applying" /\ t \in inb.left \ raced
  BY DEF Applied, Settled
<1>5. inb.links[t] = link[t]
  BY <1>4 DEF PmInv, LinksAreFresh
<1> QED BY <1>3, <1>5 DEF BrainUnchanged

\* Linear wins only over a status that has been projected: whatever edits, projections,
\* passes, failures and crashes there are, a pass overwrites (applyInbound) only a status
\* that the row's link records, for every row no projection was at work on meanwhile.
THEOREM UnprojectedEditsWin == Spec => PmWinsIfUnchanged
<1>1. PmInv /\ [Next]_vars => [\A t \in Tasks : Applied(t) /\ Settled(t) => link[t].lpb = task[t].status]_vars
  BY StepKeepsEdits
<1> QED BY <1>1, InitPmInv, NextPmInv, PTL DEF Spec, PmWinsIfUnchanged

-----------------------------------------------------------------------------
(* Types *)

ProjectorPcs == {"idle", "prepare", "link", "insert", "owners", "listing", "upsert", "seed", "persist"}
PassPcs == {"idle", "listed", "linked", "applying", "fetched", "adopting", "mirror", "footer"}
Snapshots == [Issues -> IssueRows \cup {Unborn, Gone}]
Boots == [at : Snapshots, ext : [Keys -> Issues \cup {None}]]
Plans == [refuses : BOOLEAN, target : Issues \cup {None}, same : BOOLEAN, seeded : Bodies \cup {None}]
Invocations == [pc : ProjectorPcs, todo : SUBSET Tasks, rows : [Tasks -> Rows],
                boot : Boots \cup {None}, cur : Tasks \cup {None}, known : Links \cup {None},
                owned : SUBSET Issues, plan : Plans \cup {None}]
Passes == [pc : PassPcs, seen : Snapshots, links : [Tasks -> Links \cup {None}],
           tasks : [Tasks -> Rows], left : SUBSET Tasks, cur : Tasks \cup {None}]
Budgets == [edits : Nat, moves : Nat, passes : Nat, batches : Nat, faults : Nat, atOnce : Nat]

\* What an invocation has in hand at each of its steps.
InHand(q) ==
  /\ AtWork(q)
  /\ q.pc \in {"owners", "listing"} => q.known \in Links
  /\ q.pc \in {"upsert", "seed", "persist"} => q.plan \in Plans
  /\ q.pc = "upsert" /\ ~q.plan.refuses => StateFor(q.rows[q.cur].status) \in Board
  /\ q.pc = "upsert" /\ q.plan.same => q.plan.target \in Issues /\ ~q.plan.refuses
  /\ q.pc \in {"seed", "persist"} => q.plan.target \in Issues
  /\ q.pc = "seed" => q.plan.seeded \in Bodies

\* A mirror row whose issue the pass saw without a footer.
Candidate(t) == /\ scenario.mirror[t] # None
                /\ Live(scenario.mirror[t], inb.seen) /\ inb.seen[scenario.mirror[t]].key = None

Typed ==
  /\ scenario \in Scenarios
  /\ task \in [Tasks -> Rows] /\ link \in [Tasks -> Links \cup {None}] /\ issue \in Snapshots
  /\ due \in [Tasks -> Nat]
  /\ proj \in [Projections -> Invocations] /\ inb \in Passes
  /\ raced \subseteq Tasks /\ lost \subseteq Tasks /\ unread \subseteq Tasks /\ kept \subseteq Tasks
  /\ budget \in Budgets

\* Every callback is an edit's, but the first of a row.
WithinBounds ==
  /\ \A b \in DOMAIN budget : budget[b] <= scenario.bound[b]
  /\ \A t \in Tasks : due[t] + budget.edits <= scenario.bound.edits + 1

\* A row is taken off the links of the pass when it has been applied.
PassInHand ==
  /\ inb.pc \in {"linked", "applying"} => \A t \in Tasks : inb.links[t] # None => link[t] # None
  /\ inb.pc = "applying" => \A t \in inb.left : RidOf(inb.links[t]) # None
  /\ inb.pc \in {"adopting", "mirror", "footer"} => \A t \in inb.left : Candidate(t)
  /\ inb.pc \in {"mirror", "footer"} => inb.cur \in Tasks /\ Candidate(inb.cur)

OneOwner ==
  \A t, u \in Tasks : RidOf(link[t]) # None /\ RidOf(link[t]) = RidOf(link[u]) => t = u

TypeInv ==
  /\ Typed /\ WithinBounds /\ PassInHand /\ OneOwner
  /\ \A p \in Projections : InHand(proj[p])

LEMMA ScenarioType ==
  ASSUME Typed
  PROVE  /\ scenario \in Scenario /\ Written \subseteq Issues
         /\ \A t \in Tasks : scenario.mirror[t] \in Issues \cup {None} /\ scenario.key[t] \in Keys
                             /\ scenario.declared[t] \in Issues \cup {None}
                             /\ scenario.mirror[t] \in Written \cup {None}
                             /\ scenario.declared[t] \in Written \cup {None}
<1>1. scenario \in Scenario /\ Written \subseteq Issues
  BY PmAssumption DEF Typed
<1> QED BY <1>1 DEF Scenario

\* What the members last made of the rows, and what was written over it.
SaidTypes == said \in [Tasks -> Rows] /\ overtaken \subseteq Tasks

LEMMA TypeInvOK == TypeInv /\ SaidTypes => PmTypeOK
<1> SUFFICES ASSUME TypeInv, SaidTypes PROVE PmTypeOK
  OBVIOUS
<1>1. scenario \in Scenario
  BY ScenarioType DEF TypeInv
<1>2. /\ Typed /\ WithinBounds /\ OneOwner
  BY DEF TypeInv
<1>3. due \in [Tasks -> 0..(scenario.bound.edits + 1)]
  <2>1. budget.edits \in Nat /\ scenario.bound.edits \in Nat
    BY <1>1, <1>2 DEF Typed, Budgets, Scenario
  <2>2. ASSUME NEW t \in Tasks PROVE due[t] \in 0..(scenario.bound.edits + 1)
    BY <1>2, <2>1 DEF Typed, WithinBounds
  <2> QED BY <1>2, <2>2 DEF Typed
<1>4. ASSUME NEW p \in Projections
      PROVE  /\ proj[p].pc \in ProjectorPcs
             /\ proj[p].todo \subseteq Tasks /\ proj[p].rows \in [Tasks -> Rows]
             /\ proj[p].cur \in Tasks \cup {None} /\ proj[p].owned \subseteq Issues
             /\ proj[p].boot # NoBoot => Snapshot(proj[p].boot.at)
  <2>1. proj[p] \in Invocations
    BY <1>2 DEF Typed
  <2> QED BY <2>1 DEF Invocations, NoBoot, Boots, Snapshots, Snapshot
<1>5. inb.pc \in PassPcs /\ Snapshot(inb.seen) /\ inb.left \subseteq Tasks /\ inb.cur \in Tasks \cup {None}
  BY <1>2 DEF Typed, Passes, Snapshots, Snapshot
<1>6. \A b \in DOMAIN budget : budget[b] \in 0..scenario.bound[b]
  <2>1. DOMAIN budget = {"edits", "moves", "passes", "batches", "faults", "atOnce"}
    BY <1>2 DEF Typed, Budgets
  <2>2. \A b \in DOMAIN budget : budget[b] \in Nat
    BY <1>2, <2>1 DEF Typed, Budgets
  <2>3. \A b \in DOMAIN budget : scenario.bound[b] \in Nat
    BY <1>1, <2>1 DEF Scenario
  <2> QED BY <1>2, <2>2, <2>3 DEF WithinBounds
<1>7. /\ scenario \in Scenarios /\ task \in [Tasks -> Rows]
      /\ \A t \in Tasks : link[t] \in Links \cup {None}
      /\ Snapshot(issue) /\ raced \cup lost \cup unread \cup kept \cup overtaken \subseteq Tasks
      /\ said \in [Tasks -> Rows]
  BY <1>2 DEF Typed, Snapshots, Snapshot, SaidTypes
<1> QED BY <1>2, <1>3, <1>4, <1>5, <1>6, <1>7 DEF PmTypeOK, OneOwner, ProjectorPcs, PassPcs

LEMMA IdleTypes ==
  /\ NoRow \in Rows /\ IdleProjection \in Invocations /\ InHand(IdleProjection)
  /\ IdlePass \in Passes
<1>1. NoRow \in Rows
  BY DEF NoRow, Rows, BrainStatuses, Bodies
<1>2. IdleProjection \in Invocations
  BY <1>1 DEF IdleProjection, Invocations, NoBoot, ProjectorPcs
<1>3. InHand(IdleProjection)
  BY DEF IdleProjection, InHand, AtWork
<1>4. NoIssues \in Snapshots
  BY DEF NoIssues, Snapshots
<1>5. IdlePass \in Passes
  BY <1>1, <1>4 DEF IdlePass, Passes, PassPcs
<1> QED BY <1>1, <1>2, <1>3, <1>5

LEMMA InitTypeInv == Init => TypeInv
<1> SUFFICES ASSUME Init PROVE TypeInv
  OBVIOUS
<1>1. scenario \in Scenario /\ scenario \in Scenarios /\ budget = scenario.bound
  BY PmAssumption DEF Init
<1>2. budget \in Budgets
  BY <1>1 DEF Scenario, Budgets
<1>3. task \in [Tasks -> Rows]
  BY DEF Init, Rows, BrainStatuses, Bodies
<1>4. link \in [Tasks -> Links \cup {None}] /\ \A t \in Tasks : RidOf(link[t]) = None
  <2>1. DeclaredLink \in Links /\ DeclaredLink.rid = None
    BY DEF DeclaredLink, Links
  <2> QED BY <2>1 DEF Init, RidOf
<1>5. issue \in Snapshots
  <2>1. NewIssue \in IssueRows
    BY PmAssumption DEF NewIssue, IssueRows, Bodies
  <2> QED BY <2>1 DEF Init, Snapshots
<1>6. due \in [Tasks -> Nat] /\ \A t \in Tasks : due[t] <= 1
  BY DEF Init
<1>7. proj \in [Projections -> Invocations] /\ \A p \in Projections : InHand(proj[p])
  BY IdleTypes DEF Init
<1>8. inb \in Passes /\ inb.pc = "idle"
  BY IdleTypes DEF Init, IdlePass
<1>9. Typed
  BY <1>1, <1>2, <1>3, <1>4, <1>5, <1>6, <1>7, <1>8 DEF Typed, Init
<1>10. WithinBounds
  <2>1. \A b \in DOMAIN budget : budget[b] \in Nat
    BY <1>2 DEF Budgets
  <2>2. budget.edits \in Nat
    BY <1>2 DEF Budgets
  <2>3. \A t \in Tasks : due[t] \in Nat /\ due[t] <= 1
    BY <1>6
  <2> QED BY <1>1, <2>1, <2>2, <2>3 DEF WithinBounds
<1>11. PassInHand /\ OneOwner
  BY <1>4, <1>8 DEF PassInHand, OneOwner
<1> QED BY <1>7, <1>9, <1>10, <1>11 DEF TypeInv

LEMMA StateForType ==
  ASSUME NEW s
  PROVE  StateFor(s) \in Board \cup {None}
<1> DEFINE named == {x \in Board : x = PreferredName(s)}
           ofType == {x \in Board : StateType[x] = GroupOf(s)}
<1>1. \E x \in Board \cup {None} : IF named # {} THEN x \in named
                                   ELSE IF ofType # {} THEN x \in ofType ELSE x = None
  OBVIOUS
<1>2. StateFor(s) = CHOOSE x \in Board \cup {None} : IF named # {} THEN x \in named
                                   ELSE IF ofType # {} THEN x \in ofType ELSE x = None
  BY DEF StateFor
<1> HIDE DEF named, ofType
<1> QED BY <1>1, <1>2

LEMMA StatusOfType ==
  ASSUME NEW x \in Board
  PROVE  StatusOf(x) \in BrainStatuses \cup {None}
BY DEF StatusOf, BrainStatuses

LEMMA FingerprintType ==
  ASSUME NEW s, NEW b \in Bodies
  PROVE  Fingerprint(s, b) \in Fingerprints
BY DEF Fingerprint, Fingerprints, GroupOf

LEMMA LiveIsRow ==
  ASSUME NEW at \in Snapshots, NEW i \in Issues, Live(i, at)
  PROVE  at[i] \in IssueRows
BY DEF Live, Snapshots

LEMMA BudgetSpent ==
  ASSUME Typed, WithinBounds, NEW b \in {"moves", "passes", "batches", "faults"}, budget[b] > 0,
         budget' = [budget EXCEPT ![b] = @ - 1], UNCHANGED <<scenario, due>>
  PROVE  budget' \in Budgets /\ WithinBounds'
<1>1. budget \in Budgets
  BY DEF Typed
<1>2. scenario.bound.edits \in Nat /\ scenario.bound[b] \in Nat
  BY ScenarioType DEF Scenario
<1>3. budget' \in Budgets
  BY <1>1 DEF Budgets
<1>4. DOMAIN budget' = DOMAIN budget /\ budget'[b] = budget[b] - 1 /\ budget[b] \in Nat
  BY <1>1 DEF Budgets
<1>5. \A c \in DOMAIN budget : c # b => budget'[c] = budget[c]
  BY <1>1 DEF Budgets
<1>6. budget'.edits = budget.edits
  BY <1>1 DEF Budgets
<1>7. budget[b] - 1 <= scenario.bound[b]
  BY <1>1, <1>2, <1>4 DEF WithinBounds, Budgets
<1>8. WithinBounds'
  BY <1>4, <1>5, <1>6, <1>7 DEF WithinBounds
<1> QED BY <1>3, <1>8

\* Members, people and starting invocations leave links and pass alone.
LEMMA EditTypes ==
  ASSUME TypeInv, NEW t \in Tasks, Edit(t)
  PROVE  TypeInv'
<1>1. task' \in [Tasks -> Rows]
  <2>1. CASE \E s \in Statuses \ {task[t].status} : task' = [task EXCEPT ![t].status = s]
    <3>1. PICK s \in Statuses : task' = [task EXCEPT ![t].status = s]
      BY <2>1
    <3>2. \A r \in Rows : [r EXCEPT !.status = s] \in Rows
      BY DEF Rows, BrainStatuses
    <3> QED BY <3>1, <3>2 DEF TypeInv, Typed
  <2>2. CASE \E x \in Texts \ {task[t].body} : task' = [task EXCEPT ![t].body = x]
    <3>1. PICK x \in Texts : task' = [task EXCEPT ![t].body = x]
      BY <2>2
    <3>2. \A r \in Rows : [r EXCEPT !.body = x] \in Rows
      BY DEF Rows, Bodies
    <3> QED BY <3>1, <3>2 DEF TypeInv, Typed
  <2> QED BY <2>1, <2>2 DEF Edit
<1>2. /\ budget.edits > 0 /\ due' = [due EXCEPT ![t] = @ + 1]
      /\ budget' = [budget EXCEPT !.edits = @ - 1]
      /\ UNCHANGED <<scenario, link, issue, proj, inb, raced, lost, unread, kept>>
  BY DEF Edit, history
<1>3. budget \in Budgets /\ due \in [Tasks -> Nat]
  BY DEF TypeInv, Typed
<1>4. budget' \in Budgets
  BY <1>2, <1>3 DEF Budgets
<1>5. due' \in [Tasks -> Nat]
  BY <1>2, <1>3
<1>6. Typed'
  BY <1>1, <1>2, <1>4, <1>5 DEF TypeInv, Typed
<1>7. scenario.bound.edits \in Nat
  BY ScenarioType DEF Scenario, TypeInv
<1>8. /\ budget.edits \in Nat /\ budget'.edits = budget.edits - 1
      /\ DOMAIN budget' = DOMAIN budget /\ \A c \in DOMAIN budget : c # "edits" => budget'[c] = budget[c]
      /\ "edits" \in DOMAIN budget
  BY <1>2, <1>3 DEF Budgets
<1>9. WithinBounds'
  <2>1. \A b \in DOMAIN budget' : budget'[b] <= scenario'.bound[b]
    BY <1>2, <1>7, <1>8 DEF TypeInv, WithinBounds
  <2>2. ASSUME NEW u \in Tasks PROVE due'[u] + budget'.edits <= scenario.bound.edits + 1
    <3>1. due[u] + budget.edits <= scenario.bound.edits + 1 /\ due[u] \in Nat /\ due'[u] <= due[u] + 1
          /\ due'[u] \in Nat
      BY <1>2, <1>3, <1>5 DEF TypeInv, WithinBounds
    <3> QED BY <1>7, <1>8, <3>1
  <2> QED BY <1>2, <2>1, <2>2 DEF WithinBounds
<1>10. PassInHand' /\ OneOwner' /\ \A p \in Projections : InHand(proj[p])'
  BY <1>2 DEF TypeInv, PassInHand, Candidate, OneOwner, InHand, AtWork
<1> QED BY <1>6, <1>9, <1>10 DEF TypeInv

LEMMA MoveTypes ==
  ASSUME TypeInv, NEW i \in Issues, Move(i)
  PROVE  TypeInv'
<1>1. issue' \in Snapshots
  <2>1. issue \in Snapshots
    BY DEF TypeInv, Typed
  <2>2. issue[i] \in IssueRows
    BY <2>1, LiveIsRow DEF Move
  <2>3. CASE issue' = [issue EXCEPT ![i] = Gone]
    BY <2>1, <2>3 DEF Snapshots
  <2>4. CASE \E x \in Board \ {issue[i].state} : issue' = [issue EXCEPT ![i].state = x, ![i].by = "person"]
    <3>1. PICK x \in Board : issue' = [issue EXCEPT ![i].state = x, ![i].by = "person"]
      BY <2>4
    <3>2. \A r \in IssueRows : [r EXCEPT !.state = x, !.by = "person"] \in IssueRows
      BY DEF IssueRows
    <3>3. issue' = [issue EXCEPT ![i] = [issue[i] EXCEPT !.state = x, !.by = "person"]]
      BY <2>1, <3>1 DEF Snapshots
    <3> QED BY <2>1, <2>2, <3>2, <3>3 DEF Snapshots
  <2> QED BY <2>3, <2>4 DEF Move
<1>2. /\ budget.moves > 0 /\ budget' = [budget EXCEPT !.moves = @ - 1]
      /\ UNCHANGED <<scenario, task, link, due, proj, inb, raced, lost, unread, kept>>
  BY DEF Move, history
<1>3. budget' \in Budgets /\ WithinBounds'
  BY <1>2, BudgetSpent DEF TypeInv
<1>4. Typed'
  BY <1>1, <1>2, <1>3 DEF TypeInv, Typed
<1>5. PassInHand' /\ OneOwner' /\ \A p \in Projections : InHand(proj[p])'
  BY <1>2 DEF TypeInv, PassInHand, Candidate, OneOwner, InHand, AtWork
<1> QED BY <1>3, <1>4, <1>5 DEF TypeInv

\* What any step of an invocation must leave behind, links and bounds apart.
LEMMA InvocationTypes ==
  ASSUME TypeInv, NEW p \in Projections, NEW new \in Invocations, InHand(new),
         proj' = [proj EXCEPT ![p] = new], UNCHANGED <<scenario, inb>>,
         task' \in [Tasks -> Rows], issue' \in Snapshots, due' \in [Tasks -> Nat],
         link' \in [Tasks -> Links \cup {None}], OneOwner',
         \A t \in Tasks : link[t] # None => link'[t] # None,
         raced' \subseteq Tasks, lost' \subseteq Tasks, unread' \subseteq Tasks, kept' \subseteq Tasks,
         budget' \in Budgets, WithinBounds'
  PROVE  TypeInv'
<1>1. proj' \in [Projections -> Invocations]
  BY DEF TypeInv, Typed
<1>2. \A q \in Projections : InHand(proj'[q])
  BY DEF TypeInv, Typed
<1>3. \A q \in Projections : InHand(proj[q])'
  BY <1>2 DEF InHand, AtWork
<1>4. Typed'
  BY <1>1 DEF TypeInv, Typed
<1>5. PassInHand'
  BY DEF TypeInv, PassInHand, Candidate
<1> QED BY <1>3, <1>4, <1>5 DEF TypeInv

LEMMA BeginTypes ==
  ASSUME TypeInv, NEW p \in Projections, NEW T \in SUBSET Tasks, NEW pc \in {"link", "prepare"},
         Begin(p, T, pc), UNCHANGED <<scenario, task, link, issue, inb, lost, unread, kept>>,
         due' \in [Tasks -> Nat], budget' \in Budgets, WithinBounds'
  PROVE  TypeInv'
<1> DEFINE rows == [t \in Tasks |-> IF t \in T THEN task[t] ELSE NoRow]
           new == [IdleProjection EXCEPT !.pc = pc, !.todo = T, !.rows = rows]
<1>1. proj' = [proj EXCEPT ![p] = new] /\ raced' = raced \cup Meet(T, Projected \cup Passed)
  BY DEF Begin, Proceed
<1>2. rows \in [Tasks -> Rows]
  BY IdleTypes DEF TypeInv, Typed
<1> HIDE DEF rows
<1>3. \A q \in Invocations : [q EXCEPT !.pc = pc, !.todo = T, !.rows = rows] \in Invocations
  BY <1>2 DEF Invocations, ProjectorPcs
<1>4. new \in Invocations /\ new.pc = pc
  BY <1>3, IdleTypes DEF IdleProjection
<1>5. InHand(new)
  BY <1>4 DEF InHand, AtWork
<1> HIDE DEF new
<1>6. Projected \cup Passed \subseteq Tasks
  BY DEF TypeInv, Typed, Invocations, Passes, Projected, Passed
<1>7. raced' \subseteq Tasks
  BY <1>1, <1>6 DEF Meet, TypeInv, Typed
<1> QED BY <1>1, <1>4, <1>5, <1>7, InvocationTypes DEF TypeInv, Typed, OneOwner

\* A step of an invocation that writes nothing but, maybe, of the bounds.
QuietStep(p) ==
  /\ UNCHANGED <<scenario, task, link, issue, due, inb, raced, lost, kept>>
  /\ unread' \subseteq Tasks
  /\ \/ UNCHANGED budget
     \/ Fault

LEMMA FaultTypes ==
  ASSUME TypeInv, Fault, UNCHANGED <<scenario, due>>
  PROVE  budget' \in Budgets /\ WithinBounds'
BY BudgetSpent DEF Fault, TypeInv

LEMMA SameBounds ==
  ASSUME TypeInv, UNCHANGED <<scenario, due, budget>>
  PROVE  budget' \in Budgets /\ WithinBounds'
BY DEF TypeInv, Typed, WithinBounds

LEMMA QuietTypes ==
  ASSUME TypeInv, NEW p \in Projections, QuietStep(p),
         NEW new \in Invocations, InHand(new), proj' = [proj EXCEPT ![p] = new]
  PROVE  TypeInv'
<1>1. budget' \in Budgets /\ WithinBounds'
  BY FaultTypes, SameBounds DEF QuietStep
<1>2. UNCHANGED <<scenario, task, link, issue, due, inb, raced, lost, kept>> /\ unread' \subseteq Tasks
  BY DEF QuietStep
<1>3. OneOwner' /\ \A t \in Tasks : link[t] # None => link'[t] # None
  BY <1>2 DEF TypeInv, OneOwner
<1> QED BY <1>1, <1>2, <1>3, InvocationTypes DEF TypeInv, Typed

LEMMA FinishTypes ==
  ASSUME TypeInv, NEW p \in Projections, Finish(p)
  PROVE  \E new \in Invocations : InHand(new) /\ proj' = [proj EXCEPT ![p] = new]
<1> DEFINE q == proj[p]
           left == q.todo \ {q.cur}
           rows == [t \in Tasks |-> IF t \in left THEN q.rows[t] ELSE NoRow]
           next == [q EXCEPT !.pc = "link", !.todo = left, !.cur = None, !.rows = rows, !.plan = None]
<1>0. q \in Invocations
  BY DEF TypeInv, Typed
<1>1. CASE left = {}
  BY <1>1, IdleTypes DEF Finish, Proceed
<1>2. CASE left # {}
  <2>1. proj' = [proj EXCEPT ![p] = next]
    BY <1>0, <1>2 DEF Finish, Proceed, Invocations
  <2>2. left \subseteq Tasks /\ rows \in [Tasks -> Rows]
    BY <1>0, IdleTypes DEF Invocations
  <2> HIDE DEF left, rows
  <2>3. next \in Invocations /\ next.pc = "link"
    BY <1>0, <2>2 DEF Invocations, ProjectorPcs
  <2>4. InHand(next)
    BY <2>3 DEF InHand, AtWork
  <2> QED BY <2>1, <2>3, <2>4
<1> QED BY <1>1, <1>2

LEMMA PrepareTypes ==
  ASSUME TypeInv, NEW p \in Projections, Prepare(p)
  PROVE  TypeInv'
<1>1. QuietStep(p)
  BY DEF Prepare, QuietStep, history, TypeInv, Typed
<1>2. CASE Proceed(p, IdleProjection)
  BY <1>1, <1>2, QuietTypes, IdleTypes DEF Proceed
<1>3. ASSUME NEW b \in Listings, Proceed(p, [proj[p] EXCEPT !.pc = "link", !.boot = b])
      PROVE  TypeInv'
  <2>1. b \in Boots
    BY DEF Listings, Boots, TypeInv, Typed
  <2>2. proj[p] \in Invocations
    BY DEF TypeInv, Typed
  <2> DEFINE new == [proj[p] EXCEPT !.pc = "link", !.boot = b]
  <2>3. new \in Invocations /\ new.pc = "link"
    BY <2>1, <2>2 DEF Invocations, ProjectorPcs
  <2>4. InHand(new)
    BY <2>3 DEF InHand, AtWork
  <2> HIDE DEF new
  <2> QED BY <1>1, <1>3, <2>3, <2>4, QuietTypes DEF Proceed, new
<1> QED BY <1>2, <1>3 DEF Prepare

LEMMA FindLinkTypes ==
  ASSUME TypeInv, NEW p \in Projections, NEW t \in Tasks, FindLink(p, t)
  PROVE  TypeInv'
<1> DEFINE q == proj[p]
           here == [q EXCEPT !.cur = t, !.known = link[t]]
           left == q.todo \ {t}
           rest == [q EXCEPT !.todo = left, !.rows[t] = NoRow]
<1>0. q \in Invocations /\ link[t] \in Links \cup {None} /\ t \in q.todo /\ q.pc = "link"
  BY DEF TypeInv, Typed, FindLink
<1>1. QuietStep(p)
  BY DEF FindLink, QuietStep, history, TypeInv, Typed
<1>2. \/ Proceed(p, [here EXCEPT !.pc = "insert"])
      \/ Proceed(p, [here EXCEPT !.pc = "owners"]) /\ link[t] # None
      \/ Proceed(p, rest) \/ Proceed(p, IdleProjection)
  BY DEF FindLink
<1>3. /\ here \in Invocations /\ here.cur = t /\ here.todo = q.todo /\ here.known = link[t]
      /\ here.pc = "link"
  <2> HIDE DEF q
  <2> QED BY <1>0 DEF Invocations
<1>4. rest \in Invocations /\ InHand(rest)
  <2>1. left \subseteq Tasks /\ [q.rows EXCEPT ![t] = NoRow] \in [Tasks -> Rows]
    BY <1>0, IdleTypes DEF Invocations
  <2>2. rest = [q EXCEPT !.todo = left, !.rows = [q.rows EXCEPT ![t] = NoRow]]
    BY <1>0 DEF Invocations
  <2> HIDE DEF q, left, rest
  <2>3. rest \in Invocations /\ rest.pc = "link"
    BY <1>0, <2>1, <2>2 DEF Invocations
  <2> QED BY <2>3 DEF InHand, AtWork
<1>5. ASSUME NEW pc \in {"insert", "owners"}, pc = "owners" => link[t] # None
      PROVE  [here EXCEPT !.pc = pc] \in Invocations /\ InHand([here EXCEPT !.pc = pc])
  <2> DEFINE new == [here EXCEPT !.pc = pc]
  <2> HIDE DEF here, q
  <2>1. /\ new \in Invocations /\ new.pc = pc /\ new.cur = t /\ new.todo = q.todo
        /\ new.known = link[t]
    BY <1>3 DEF Invocations, ProjectorPcs
  <2> HIDE DEF new
  <2>2. InHand(new)
    BY <1>0, <1>5, <2>1 DEF InHand, AtWork
  <2> QED BY <2>1, <2>2 DEF new
<1> HIDE DEF here, rest
<1> QED BY <1>1, <1>2, <1>4, <1>5, IdleTypes, QuietTypes DEF Proceed

LEMMA DeclaredLinkType == DeclaredLink \in Links /\ RidOf(DeclaredLink) = None
BY DEF DeclaredLink, Links, RidOf

LEMMA InsertLinkTypes ==
  ASSUME TypeInv, NEW p \in Projections, InsertLink(p)
  PROVE  TypeInv'
<1> DEFINE q == proj[p]
<1>0. q \in Invocations /\ InHand(q) /\ q.pc = "insert" /\ link \in [Tasks -> Links \cup {None}]
  BY DEF TypeInv, Typed, InsertLink
<1>1. q.cur \in q.todo /\ q.cur \in Tasks
  BY <1>0 DEF InHand, AtWork, Invocations
<1>2. UNCHANGED <<scenario, task, issue, due, inb, raced, lost, unread, kept>>
  BY DEF InsertLink, history
<1>3. CASE Proceed(p, IdleProjection) /\ UNCHANGED link
  <2>1. QuietStep(p)
    BY <1>2, <1>3 DEF InsertLink, QuietStep, TypeInv, Typed
  <2> QED BY <1>3, <2>1, IdleTypes, QuietTypes DEF Proceed
<1>4. CASE /\ link[q.cur] = None /\ link' = [link EXCEPT ![q.cur] = DeclaredLink]
           /\ Proceed(p, [q EXCEPT !.pc = "owners", !.known = DeclaredLink]) /\ UNCHANGED budget
  <2> DEFINE new == [q EXCEPT !.pc = "owners", !.known = DeclaredLink]
  <2>1. link' \in [Tasks -> Links \cup {None}]
    BY <1>0, <1>1, <1>4, DeclaredLinkType
  <2>2. \A t \in Tasks : link[t] # None => link'[t] # None
    BY <1>0, <1>4
  <2>3. \A t \in Tasks : RidOf(link'[t]) = RidOf(link[t])
    <3>1. RidOf(link[q.cur]) = None /\ RidOf(link'[q.cur]) = None
      BY <1>0, <1>1, <1>4, DeclaredLinkType DEF RidOf
    <3> QED BY <1>0, <1>4, <3>1
  <2>4. OneOwner'
    BY <2>3 DEF TypeInv, OneOwner
  <2>5. new \in Invocations /\ InHand(new)
    <3> HIDE DEF q
    <3>1. /\ new \in Invocations /\ new.pc = "owners" /\ new.cur = q.cur /\ new.todo = q.todo
          /\ new.known = DeclaredLink
      BY <1>0, DeclaredLinkType DEF Invocations, ProjectorPcs
    <3> HIDE DEF new
    <3> QED BY <1>1, <3>1, DeclaredLinkType DEF InHand, AtWork
  <2>6. proj' = [proj EXCEPT ![p] = new]
    BY <1>4 DEF Proceed
  <2> HIDE DEF new
  <2> QED BY <1>2, <1>4, <2>1, <2>2, <2>4, <2>5, <2>6, SameBounds, InvocationTypes DEF TypeInv, Typed
<1> QED BY <1>3, <1>4 DEF InsertLink

\* What a plan says, rung by rung.
LEMMA PlanFacts ==
  ASSUME NEW q, NEW boot
  PROVE  LET plan == Plan(q, boot)
             row == q.rows[q.cur]
             byId == ByResourceId(q, boot)
             byFooter == ByFooter(q, boot)
             adopts == byId = None /\ byFooter = None /\ scenario.declared[q.cur] # None
         IN /\ plan = [refuses |-> plan.refuses, target |-> plan.target, same |-> plan.same,
                       seeded |-> plan.seeded]
            /\ plan.refuses \in BOOLEAN /\ plan.same \in BOOLEAN
            /\ ~plan.refuses => StateFor(row.status) # None
            /\ plan.target \in {byId, byFooter, scenario.declared[q.cur]}
            /\ adopts => /\ plan.target = scenario.declared[q.cur]
                         /\ ~plan.refuses => MayAdopt(q, boot, plan.target)
            /\ ~adopts => plan.target = (IF byId # None THEN byId ELSE byFooter)
            /\ plan.same => /\ plan.target # None /\ ~plan.refuses /\ plan.seeded = None
                            /\ boot.at[plan.target].state = StateFor(row.status)
                            /\ boot.at[plan.target].body = row.body
            /\ plan.seeded # None => /\ adopts /\ row.body = Blank
                                     /\ plan.seeded = IF plan.refuses THEN Prose
                                                      ELSE boot.at[plan.target].body
            /\ plan.seeded = None /\ adopts /\ ~plan.refuses /\ row.body = Blank
                 => boot.at[plan.target].body \in {Blank, None}
<1> DEFINE row == q.rows[q.cur]
           byId == ByResourceId(q, boot)
           byFooter == ByFooter(q, boot)
           known == IF byId # None THEN byId ELSE byFooter
           adopts == known = None /\ scenario.declared[q.cur] # None
           target == IF adopts THEN scenario.declared[q.cur] ELSE known
           refuses == StateFor(row.status) = None \/ (adopts /\ ~MayAdopt(q, boot, target))
           there == IF target = None \/ refuses THEN NewIssue ELSE boot.at[target]
           same == /\ target # None /\ ~refuses
                   /\ there.state = StateFor(row.status) /\ there.body = row.body
           seeded == IF adopts /\ row.body = Blank /\ there.body # Blank THEN there.body ELSE None
           plan == Plan(q, boot)
<1>1. plan = [refuses |-> refuses, target |-> target, same |-> same, seeded |-> seeded]
  BY DEF Plan
<1>2. refuses \in BOOLEAN /\ same \in BOOLEAN
  OBVIOUS
<1>3. adopts <=> byId = None /\ byFooter = None /\ scenario.declared[q.cur] # None
  OBVIOUS
<1>4. ~refuses => StateFor(row.status) # None
  OBVIOUS
<1>5. adopts => target = scenario.declared[q.cur] /\ (~refuses => MayAdopt(q, boot, target))
  OBVIOUS
<1>6. ~adopts => target = known
  OBVIOUS
<1>7. NewIssue.body = Prose
  BY DEF NewIssue
<1>8. same => /\ target # None /\ ~refuses /\ seeded = None
              /\ boot.at[target].state = StateFor(row.status) /\ boot.at[target].body = row.body
  OBVIOUS
<1>9. adopts /\ ~refuses => there = boot.at[target]
  OBVIOUS
<1>10. refuses => there.body = Prose
  BY <1>7
<1>11. seeded # None => adopts /\ row.body = Blank /\ seeded = there.body
  OBVIOUS
<1>12. seeded = None /\ adopts /\ ~refuses /\ row.body = Blank => there.body = Blank \/ there.body = None
  OBVIOUS
<1> HIDE DEF refuses, same, seeded, there, target, adopts, byId, byFooter, plan
<1>13. plan.refuses = refuses /\ plan.target = target /\ plan.same = same /\ plan.seeded = seeded
  BY <1>1
<1>14. target \in {byId, byFooter, scenario.declared[q.cur]}
  BY DEF target
<1>15. seeded # None => /\ adopts /\ row.body = Blank
                        /\ seeded = IF refuses THEN Prose ELSE boot.at[target].body
  BY <1>9, <1>10, <1>11
<1>16. seeded = None /\ adopts /\ ~refuses /\ row.body = Blank => boot.at[target].body \in {Blank, None}
  BY <1>9, <1>12
<1>17. plan = [refuses |-> plan.refuses, target |-> plan.target, same |-> plan.same,
               seeded |-> plan.seeded]
  BY <1>1, <1>13
<1>18. known = IF byId # None THEN byId ELSE byFooter
  OBVIOUS
<1> HIDE DEF known, row
<1>19. /\ plan.refuses \in BOOLEAN /\ plan.same \in BOOLEAN
       /\ ~plan.refuses => StateFor(row.status) # None
       /\ plan.target \in {byId, byFooter, scenario.declared[q.cur]}
       /\ adopts => /\ plan.target = scenario.declared[q.cur]
                    /\ ~plan.refuses => MayAdopt(q, boot, plan.target)
       /\ ~adopts => plan.target = (IF byId # None THEN byId ELSE byFooter)
       /\ plan.same => /\ plan.target # None /\ ~plan.refuses /\ plan.seeded = None
                       /\ boot.at[plan.target].state = StateFor(row.status)
                       /\ boot.at[plan.target].body = row.body
       /\ plan.seeded # None => /\ adopts /\ row.body = Blank
                                /\ plan.seeded = IF plan.refuses THEN Prose
                                                 ELSE boot.at[plan.target].body
       /\ plan.seeded = None /\ adopts /\ ~plan.refuses /\ row.body = Blank
            => boot.at[plan.target].body \in {Blank, None}
  BY <1>2, <1>4, <1>5, <1>6, <1>8, <1>13, <1>14, <1>15, <1>16, <1>18
<1> QED
  BY <1>3, <1>17, <1>19 DEF plan, byId, byFooter, row

LEMMA RungTypes ==
  ASSUME Typed, NEW q \in Invocations, NEW boot \in Boots, q.cur \in Tasks, q.known \in Links
  PROVE  ByResourceId(q, boot) \in Issues \cup {None} /\ ByFooter(q, boot) \in Issues \cup {None}
<1>1. q.known.rid \in Issues \cup {None}
  BY DEF Links
<1>2. boot.ext \in [Keys -> Issues \cup {None}] /\ scenario.key[q.cur] \in Keys
  BY ScenarioType DEF Boots
<1> QED BY <1>1, <1>2 DEF ByResourceId, ByFooter

LEMMA PlanTypes ==
  ASSUME Typed, NEW q \in Invocations, NEW boot \in Boots, q.cur \in Tasks, q.known \in Links
  PROVE  /\ Plan(q, boot) \in Plans
         /\ ~Plan(q, boot).refuses => StateFor(q.rows[q.cur].status) \in Board
         /\ Plan(q, boot).same => Plan(q, boot).target \in Issues /\ ~Plan(q, boot).refuses
<1> DEFINE plan == Plan(q, boot)
<1>1. plan.target \in Issues \cup {None}
  BY PlanFacts, RungTypes, ScenarioType
<1>2. plan.seeded \in Bodies \cup {None}
  <2>1. CASE plan.seeded = None
    BY <2>1
  <2>2. CASE plan.seeded # None /\ plan.refuses
    BY <2>2, PlanFacts DEF Bodies
  <2>3. CASE plan.seeded # None /\ ~plan.refuses
    <3>1. MayAdopt(q, boot, plan.target) /\ plan.seeded = boot.at[plan.target].body
          /\ plan.target = scenario.declared[q.cur] /\ scenario.declared[q.cur] # None
      BY <2>3, PlanFacts
    <3>2. plan.target \in Issues
      BY <3>1, ScenarioType
    <3>3. boot.at[plan.target] \in IssueRows
      BY <3>1, <3>2, LiveIsRow DEF MayAdopt, Boots
    <3> QED BY <3>1, <3>3 DEF IssueRows
  <2> QED BY <2>1, <2>2, <2>3
<1>3. /\ plan = [refuses |-> plan.refuses, target |-> plan.target, same |-> plan.same,
                 seeded |-> plan.seeded]
      /\ plan.refuses \in BOOLEAN /\ plan.same \in BOOLEAN
      /\ ~plan.refuses => StateFor(q.rows[q.cur].status) # None
      /\ plan.same => plan.target # None /\ ~plan.refuses
  BY PlanFacts
<1> HIDE DEF plan
<1>4. plan \in Plans
  BY <1>1, <1>2, <1>3 DEF Plans
<1> QED BY <1>1, <1>3, <1>4, StateForType DEF plan

LEMMA PlannedTypes ==
  ASSUME Typed, NEW q \in Invocations, NEW boot \in Boots, q.cur \in q.todo, q.known \in Links
  PROVE  /\ Planned(q, boot) \in Invocations /\ InHand(Planned(q, boot))
         /\ Planned(q, boot).plan = Plan(q, boot) /\ Planned(q, boot).cur = q.cur
         /\ Planned(q, boot).todo = q.todo /\ Planned(q, boot).rows = q.rows
         /\ Planned(q, boot).pc = "upsert"
         /\ Planned(q, boot).boot = IF q.todo = {q.cur} THEN NoBoot ELSE boot
<1> DEFINE plan == Plan(q, boot)
           next == IF q.todo = {q.cur} THEN NoBoot ELSE boot
           new == [q EXCEPT !.pc = "upsert", !.plan = plan, !.known = None, !.owned = {}, !.boot = next]
<1>1. Planned(q, boot) = new
  BY DEF Planned
<1>2. q.cur \in Tasks
  BY DEF Invocations
<1>3. /\ plan \in Plans /\ (~plan.refuses => StateFor(q.rows[q.cur].status) \in Board)
      /\ plan.same => plan.target \in Issues /\ ~plan.refuses
  BY <1>2, PlanTypes
<1>4. next \in Boots \cup {None}
  BY DEF NoBoot
<1> HIDE DEF plan, next
<1>5. /\ new \in Invocations /\ new.pc = "upsert" /\ new.plan = plan /\ new.cur = q.cur
      /\ new.todo = q.todo /\ new.rows = q.rows /\ new.boot = next
  BY <1>3, <1>4 DEF Invocations, ProjectorPcs
<1> HIDE DEF new
<1>6. InHand(new)
  BY <1>3, <1>5 DEF InHand, AtWork
<1> QED BY <1>1, <1>5, <1>6 DEF plan, next

LEMMA ReadOwnersTypes ==
  ASSUME TypeInv, NEW p \in Projections, ReadOwners(p)
  PROVE  TypeInv'
<1> DEFINE q == proj[p]
<1>0. /\ q \in Invocations /\ q.cur \in q.todo /\ q.known \in Links /\ q.pc = "owners"
      /\ Typed /\ q.cur \in Tasks
  BY DEF TypeInv, Typed, ReadOwners, InHand, AtWork, Invocations
<1>1. QuietStep(p)
  <2>1. UNCHANGED <<scenario, task, link, issue, due, inb, raced, lost, kept>>
    BY DEF ReadOwners
  <2>2. /\ unread' = unread \/ unread' = unread \cup {u \in Tasks : Contend(q.cur, u)}
        /\ UNCHANGED budget \/ Fault
    BY DEF ReadOwners
  <2> QED BY <2>1, <2>2, <1>0 DEF QuietStep, Typed
<1>2. OwnedByOthers(q.cur) \subseteq Issues
  BY <1>0 DEF OwnedByOthers, RidOf, Typed, Links
<1>3. PICK owned \in SUBSET Issues :
        LET r == [q EXCEPT !.owned = owned]
        IN Proceed(p, IF r.boot = NoBoot THEN [r EXCEPT !.pc = "listing"] ELSE Planned(r, r.boot))
  BY <1>2 DEF ReadOwners
<1> DEFINE r == [q EXCEPT !.owned = owned]
<1>4. /\ r \in Invocations /\ r.cur = q.cur /\ r.todo = q.todo /\ r.known = q.known
      /\ r.boot \in Boots \cup {None}
  <2> HIDE DEF q
  <2> QED BY <1>0 DEF Invocations
<1>5. Proceed(p, IF r.boot = NoBoot THEN [r EXCEPT !.pc = "listing"] ELSE Planned(r, r.boot))
  BY <1>3
<1> HIDE DEF r, q
<1>6. CASE r.boot = NoBoot
  <2> DEFINE new == [r EXCEPT !.pc = "listing"]
  <2>1. /\ new \in Invocations /\ new.pc = "listing" /\ new.cur = q.cur /\ new.todo = q.todo
        /\ new.known = q.known
    BY <1>4 DEF Invocations, ProjectorPcs
  <2>2. proj' = [proj EXCEPT ![p] = new]
    BY <1>5, <1>6 DEF Proceed
  <2> HIDE DEF new
  <2>3. InHand(new)
    BY <1>0, <2>1 DEF InHand, AtWork
  <2> QED BY <1>1, <2>1, <2>2, <2>3, QuietTypes
<1>7. CASE r.boot # NoBoot
  <2>1. r.boot \in Boots
    BY <1>4, <1>7 DEF NoBoot
  <2>2. Planned(r, r.boot) \in Invocations /\ InHand(Planned(r, r.boot))
    BY <1>0, <1>4, <2>1, PlannedTypes
  <2>3. proj' = [proj EXCEPT ![p] = Planned(r, r.boot)]
    BY <1>5, <1>7 DEF Proceed
  <2> QED BY <1>1, <2>2, <2>3, QuietTypes
<1> QED BY <1>6, <1>7

LEMMA ListingTypes ==
  ASSUME Typed, NEW b \in Listings
  PROVE  b \in Boots
BY DEF Listings, Boots, Typed

LEMMA FetchBootTypes ==
  ASSUME TypeInv, NEW p \in Projections, FetchBoot(p)
  PROVE  TypeInv'
<1> DEFINE q == proj[p]
<1>0. /\ q \in Invocations /\ q.cur \in q.todo /\ q.known \in Links /\ Typed
  BY DEF TypeInv, Typed, FetchBoot, InHand, AtWork, Invocations
<1>1. QuietStep(p)
  BY DEF FetchBoot, QuietStep, history, TypeInv, Typed
<1>2. PICK b \in Listings : Proceed(p, Planned(q, b))
  BY DEF FetchBoot
<1> HIDE DEF q
<1> QED BY <1>0, <1>1, <1>2, ListingTypes, PlannedTypes, QuietTypes DEF Proceed

\* The issue as a projection that does not refuse leaves it.
LEMMA ProjectionTypes ==
  ASSUME Typed, NEW q \in Invocations, q.cur \in Tasks, q.plan \in Plans,
         StateFor(q.rows[q.cur].status) \in Board, NEW i \in Issues
  PROVE  Projection(q, i) \in IssueRows /\ SentBody(q) \in Bodies
<1>1. q.rows[q.cur].body \in Bodies
  BY DEF Invocations, Rows
<1>2. SentBody(q) \in Bodies
  BY <1>1 DEF SentBody, Plans
<1>3. scenario.key[q.cur] \in Keys
  BY ScenarioType
<1>4. (IF Live(i, issue) /\ issue[i].state = StateFor(q.rows[q.cur].status) THEN issue[i].by
       ELSE "brain") \in {"brain", "person"}
  BY LiveIsRow DEF Typed, IssueRows
<1> QED BY <1>2, <1>3, <1>4 DEF Projection, IssueRows

\* The invocation whose call was answered.
HasAnswer(q, i, written, new) ==
  /\ new.pc = IF q.plan.seeded = None THEN "persist" ELSE "seed"
  /\ new.todo = q.todo /\ new.rows = q.rows /\ new.cur = q.cur
  /\ new.plan = [q.plan EXCEPT !.target = i]
  /\ new.boot = IF q.boot = NoBoot \/ ~written THEN q.boot
                ELSE [at |-> [q.boot.at EXCEPT ![i] = Projection(q, i)],
                      ext |-> [q.boot.ext EXCEPT ![scenario.key[q.cur]] = i]]

LEMMA AnsweredTypes ==
  ASSUME Typed, NEW p \in Projections, InHand(proj[p]), proj[p].pc = "upsert",
         NEW i \in Issues, NEW written \in BOOLEAN, Answered(p, i, written),
         written => ~proj[p].plan.refuses
  PROVE  \E new \in Invocations :
           InHand(new) /\ proj' = [proj EXCEPT ![p] = new] /\ HasAnswer(proj[p], i, written, new)
<1> DEFINE q == proj[p]
           pc == IF q.plan.seeded = None THEN "persist" ELSE "seed"
           plan == [q.plan EXCEPT !.target = i]
           boot == IF q.boot = NoBoot \/ ~written THEN q.boot
                   ELSE [at |-> [q.boot.at EXCEPT ![i] = Projection(q, i)],
                         ext |-> [q.boot.ext EXCEPT ![scenario.key[q.cur]] = i]]
           new == [q EXCEPT !.pc = pc, !.plan = plan, !.boot = boot]
<1>0. q \in Invocations /\ q.cur \in q.todo /\ q.cur \in Tasks /\ q.plan \in Plans
  BY DEF InHand, AtWork, Typed, Invocations
<1>1. boot \in Boots \cup {None}
  <2>1. CASE q.boot = NoBoot \/ ~written
    BY <1>0, <2>1 DEF Invocations
  <2>2. CASE q.boot # NoBoot /\ written
    <3>1. q.boot \in Boots
      BY <1>0, <2>2 DEF Invocations, NoBoot
    <3>2. Projection(q, i) \in IssueRows
      BY <1>0, <2>2, ProjectionTypes DEF InHand
    <3>3. [q.boot.at EXCEPT ![i] = Projection(q, i)] \in Snapshots
      BY <3>1, <3>2 DEF Boots, Snapshots
    <3>4. [q.boot.ext EXCEPT ![scenario.key[q.cur]] = i] \in [Keys -> Issues \cup {None}]
      BY <3>1 DEF Boots
    <3> QED BY <2>2, <3>3, <3>4 DEF Boots
  <2> QED BY <2>1, <2>2
<1>2. plan \in Plans /\ plan.seeded = q.plan.seeded /\ plan.target = i
  BY <1>0 DEF Plans
<1>3. pc \in {"persist", "seed"} /\ (pc = "seed" => q.plan.seeded \in Bodies)
  BY <1>0 DEF Plans
<1>4. Proceed(p, [q EXCEPT !.pc = pc, !.plan.target = i, !.boot = boot])
  BY DEF Answered
<1>5. [q EXCEPT !.pc = pc, !.plan.target = i, !.boot = boot] = new
  <2> HIDE DEF pc, boot, q
  <2> QED BY <1>0 DEF Invocations
<1> HIDE DEF pc, plan, boot, q
<1>6. /\ new \in Invocations /\ new.pc = pc /\ new.todo = q.todo /\ new.rows = q.rows
      /\ new.cur = q.cur /\ new.plan = plan /\ new.boot = boot
  BY <1>0, <1>1, <1>2, <1>3 DEF Invocations, ProjectorPcs
<1> HIDE DEF new
<1>7. InHand(new)
  BY <1>0, <1>2, <1>3, <1>6 DEF InHand, AtWork
<1>8. proj' = [proj EXCEPT ![p] = new]
  BY <1>4, <1>5 DEF Proceed, q
<1>9. HasAnswer(q, i, written, new)
  BY <1>6 DEF HasAnswer, pc, plan, boot
<1> QED BY <1>6, <1>7, <1>8, <1>9 DEF q

LEMMA UpsertTypes ==
  ASSUME TypeInv, NEW p \in Projections, Upsert(p)
  PROVE  TypeInv'
<1> DEFINE q == proj[p]
<1>0. /\ q \in Invocations /\ q.cur \in Tasks /\ q.plan \in Plans /\ q.pc = "upsert" /\ Typed
      /\ InHand(q) /\ issue \in Snapshots
  BY DEF TypeInv, Typed, Upsert, InHand, AtWork, Invocations
<1>1. UNCHANGED <<scenario, task, link, due, inb, raced, unread, kept>>
  BY DEF Upsert
<1>2. OneOwner' /\ \A t \in Tasks : link[t] # None => link'[t] # None
  BY <1>1 DEF TypeInv, OneOwner
<1>3. budget' \in Budgets /\ WithinBounds' /\ lost' \subseteq Tasks
  <2>1. UNCHANGED budget \/ Fault
    BY DEF Upsert
  <2>2. lost' = lost \/ lost' = lost \cup {q.cur}
    BY DEF Upsert
  <2> QED BY <1>0, <1>1, <2>1, <2>2, FaultTypes, SameBounds DEF Typed
<1>4. ASSUME issue' \in Snapshots,
             NEW new \in Invocations, InHand(new), proj' = [proj EXCEPT ![p] = new]
      PROVE  TypeInv'
  BY <1>1, <1>2, <1>3, <1>4, InvocationTypes DEF TypeInv, Typed
<1>5. ASSUME NEW i \in Targets(q), ~q.plan.refuses, issue' = [issue EXCEPT ![i] = Projection(q, i)],
             Answered(p, i, TRUE) \/ Finish(p)
      PROVE  TypeInv'
  <2>1. i \in Issues
    BY <1>5 DEF Targets
  <2>2. Projection(q, i) \in IssueRows
    BY <1>0, <1>5, <2>1, ProjectionTypes DEF InHand
  <2>3. issue' \in Snapshots
    BY <1>0, <1>5, <2>1, <2>2 DEF Snapshots
  <2>4. \E new \in Invocations : InHand(new) /\ proj' = [proj EXCEPT ![p] = new]
    BY <1>0, <1>5, <2>1, AnsweredTypes, FinishTypes
  <2> QED BY <1>4, <2>3, <2>4
<1>6. ASSUME q.plan.same, Answered(p, q.plan.target, FALSE),
             issue' = [issue EXCEPT ![q.plan.target] = IF Live(q.plan.target, issue)
                                                       THEN [@ EXCEPT !.taker = q.cur] ELSE @],
             q.plan.target \in Issues
      PROVE  TypeInv'
  <2>1. issue' \in Snapshots
    <3>1. \A r \in IssueRows : [r EXCEPT !.taker = q.cur] \in IssueRows
      BY <1>0 DEF IssueRows
    <3>2. CASE Live(q.plan.target, issue)
      <4>1. issue[q.plan.target] \in IssueRows
        BY <1>0, <1>6, <3>2, LiveIsRow
      <4>2. issue' = [issue EXCEPT ![q.plan.target] = [issue[q.plan.target] EXCEPT !.taker = q.cur]]
        BY <1>0, <1>6, <3>2 DEF Snapshots
      <4> QED BY <1>0, <1>6, <3>1, <4>1, <4>2 DEF Snapshots
    <3>3. CASE ~Live(q.plan.target, issue)
      BY <1>0, <1>6, <3>3 DEF Snapshots
    <3> QED BY <3>2, <3>3
  <2>2. \E new \in Invocations : InHand(new) /\ proj' = [proj EXCEPT ![p] = new]
    BY <1>0, <1>6, AnsweredTypes
  <2> QED BY <1>4, <2>1, <2>2
<1>7. CASE Finish(p) /\ UNCHANGED issue
  <2>1. \E new \in Invocations : InHand(new) /\ proj' = [proj EXCEPT ![p] = new]
    BY <1>7, FinishTypes
  <2> QED BY <1>0, <1>4, <1>7, <2>1
<1>8. q.plan.same => q.plan.target \in Issues
  BY <1>0 DEF InHand
<1> QED BY <1>5, <1>6, <1>7, <1>8 DEF Upsert

LEMMA SeedTypes ==
  ASSUME TypeInv, NEW p \in Projections, Seed(p)
  PROVE  TypeInv'
<1> DEFINE q == proj[p]
           new == [q EXCEPT !.pc = "persist"]
<1>0. /\ q \in Invocations /\ q.cur \in q.todo /\ q.cur \in Tasks /\ q.plan \in Plans /\ Typed
      /\ q.plan.seeded \in Bodies /\ q.plan.target \in Issues
  BY DEF TypeInv, Typed, Seed, InHand, AtWork, Invocations
<1>1. UNCHANGED <<scenario, link, issue, due, inb, raced, unread, kept>>
  BY DEF Seed
<1>2. OneOwner' /\ \A t \in Tasks : link[t] # None => link'[t] # None
  BY <1>1 DEF TypeInv, OneOwner
<1>3. budget' \in Budgets /\ WithinBounds' /\ lost' \subseteq Tasks
  <2>1. UNCHANGED budget \/ Fault
    BY DEF Seed
  <2>2. lost' = lost \/ lost' = lost \cup {q.cur}
    BY DEF Seed
  <2> QED BY <1>0, <1>1, <2>1, <2>2, FaultTypes, SameBounds DEF Typed
<1>4. task' \in [Tasks -> Rows]
  <2>1. task' = task \/ task' = [task EXCEPT ![q.cur].body = q.plan.seeded]
    BY DEF Seed
  <2>2. \A r \in Rows : [r EXCEPT !.body = q.plan.seeded] \in Rows
    BY <1>0 DEF Rows
  <2> QED BY <1>0, <2>1, <2>2 DEF Typed
<1>5. new \in Invocations /\ InHand(new)
  <2> HIDE DEF q
  <2>1. /\ new \in Invocations /\ new.pc = "persist" /\ new.cur = q.cur /\ new.todo = q.todo
        /\ new.plan = q.plan
    BY <1>0 DEF Invocations, ProjectorPcs
  <2> HIDE DEF new
  <2> QED BY <1>0, <2>1 DEF InHand, AtWork
<1>6. proj' = [proj EXCEPT ![p] = new]
  BY DEF Seed, Proceed
<1> HIDE DEF new, q
<1> QED BY <1>0, <1>1, <1>2, <1>3, <1>4, <1>5, <1>6, InvocationTypes DEF Typed

LEMMA RecordedTypes ==
  ASSUME NEW q \in Invocations, q.cur \in Tasks, q.plan \in Plans
  PROVE  Recorded(q) \in Links /\ Recorded(q).rid = q.plan.target
<1>1. q.rows[q.cur] \in Rows
  BY DEF Invocations
<1>2. SentBody(q) \in Bodies
  BY <1>1 DEF SentBody, Plans, Rows
<1>3. StateFor(q.rows[q.cur].status) \in DOMAIN StateType \cup {None}
  BY StateForType, PmAssumption
<1>4. Fingerprint(q.rows[q.cur].status, SentBody(q)) \in Fingerprints
  BY <1>2, FingerprintType
<1>5. q.plan.target \in Issues \cup {None} /\ q.rows[q.cur].status \in BrainStatuses
  BY <1>1 DEF Plans, Rows
<1> QED BY <1>3, <1>4, <1>5 DEF Recorded, Links

LEMMA PersistTypes ==
  ASSUME TypeInv, NEW p \in Projections, Persist(p)
  PROVE  TypeInv'
<1> DEFINE q == proj[p]
<1>0. /\ q \in Invocations /\ q.cur \in Tasks /\ q.plan \in Plans /\ Typed /\ OneOwner
      /\ link \in [Tasks -> Links \cup {None}]
  BY DEF TypeInv, Typed, Persist, InHand, AtWork, Invocations
<1>1. UNCHANGED <<scenario, task, issue, due, inb, raced, unread, kept>>
  BY DEF Persist
<1>2. budget' \in Budgets /\ WithinBounds' /\ lost' \subseteq Tasks
  <2>1. UNCHANGED budget \/ Fault
    BY DEF Persist
  <2>2. lost' = lost \/ lost' = lost \cup {q.cur}
    BY DEF Persist
  <2> QED BY <1>0, <1>1, <2>1, <2>2, FaultTypes, SameBounds DEF Typed
<1>3. Recorded(q) \in Links /\ Recorded(q).rid = q.plan.target
  BY <1>0, RecordedTypes
<1>4. /\ link' \in [Tasks -> Links \cup {None}] /\ OneOwner'
      /\ \A t \in Tasks : link[t] # None => link'[t] # None
  <2>1. CASE UNCHANGED link
    BY <1>0, <2>1 DEF OneOwner
  <2>2. CASE q.plan.target \notin OwnedByOthers(q.cur) /\ link' = [link EXCEPT ![q.cur] = Recorded(q)]
    <3> HIDE DEF q
    <3>1. link' \in [Tasks -> Links \cup {None}]
      BY <1>0, <1>3, <2>2
    <3>2. \A t \in Tasks : t # q.cur => link'[t] = link[t]
      BY <1>0, <2>2
    <3>3. RidOf(link'[q.cur]) = q.plan.target \/ RidOf(link'[q.cur]) = None
      BY <1>0, <1>3, <2>2 DEF RidOf
    <3>4. \A t \in Tasks : t # q.cur /\ RidOf(link[t]) # None => RidOf(link[t]) # RidOf(link'[q.cur])
      BY <2>2, <3>3 DEF OwnedByOthers
    <3>5. OneOwner'
      BY <1>0, <3>2, <3>4 DEF OneOwner
    <3>6. \A t \in Tasks : link[t] # None => link'[t] # None
      BY <1>0, <1>3, <2>2, NullsAssumption
    <3> QED BY <3>1, <3>5, <3>6
  <2> QED BY <2>1, <2>2 DEF Persist
<1>5. \E new \in Invocations : InHand(new) /\ proj' = [proj EXCEPT ![p] = new]
  BY FinishTypes DEF Persist
<1> QED BY <1>0, <1>1, <1>2, <1>4, <1>5, InvocationTypes DEF Typed

\* What any step of the pass must leave behind.
LEMMA PassStepTypes ==
  ASSUME TypeInv, UNCHANGED <<scenario, due, proj>>, inb' \in Passes,
         task' \in [Tasks -> Rows], issue' \in Snapshots, link' \in [Tasks -> Links \cup {None}],
         raced' \subseteq Tasks, UNCHANGED <<lost, unread>>, kept' \subseteq Tasks,
         UNCHANGED budget \/ Fault \/ (budget' \in Budgets /\ WithinBounds'),
         PassInHand', OneOwner'
  PROVE  TypeInv'
<1>1. budget' \in Budgets /\ WithinBounds'
  BY FaultTypes, SameBounds
<1>2. Typed'
  BY <1>1 DEF TypeInv, Typed
<1>3. \A p \in Projections : InHand(proj[p])'
  BY DEF TypeInv, InHand, AtWork
<1> QED BY <1>1, <1>2, <1>3 DEF TypeInv

LEMMA StartPassTypes ==
  ASSUME TypeInv, StartPass
  PROVE  TypeInv'
<1>1. /\ inb' = [IdlePass EXCEPT !.pc = "listed", !.seen = issue]
      /\ budget.passes > 0 /\ budget' = [budget EXCEPT !.passes = @ - 1]
      /\ raced' = raced \cup Meet(Tasks, Projected)
      /\ UNCHANGED <<scenario, task, link, issue, due, proj, lost, unread, kept>>
  BY DEF StartPass, Continue
<1>2. inb' \in Passes /\ inb'.pc = "listed"
  BY <1>1, IdleTypes DEF TypeInv, Typed, Passes, PassPcs
<1>3. Meet(Tasks, Projected) \subseteq Tasks
  BY DEF Meet, Projected, TypeInv, Typed, Invocations
<1>4. budget' \in Budgets /\ WithinBounds'
  BY <1>1, BudgetSpent DEF TypeInv
<1>5. PassInHand' /\ OneOwner'
  BY <1>1, <1>2 DEF TypeInv, PassInHand, OneOwner
<1> QED BY <1>1, <1>2, <1>3, <1>4, <1>5, PassStepTypes DEF TypeInv, Typed

LEMMA LoadingTypes ==
  ASSUME TypeInv, LoadLinks \/ LoadTasks
  PROVE  TypeInv'
<1>0. UNCHANGED <<scenario, task, link, issue, due, proj, raced, lost, unread, kept, budget>>
  BY DEF LoadLinks, LoadTasks, history
<1>1. CASE LoadLinks
  <2>1. inb' = [inb EXCEPT !.pc = "linked", !.links = link]
    BY <1>1 DEF LoadLinks, Continue
  <2>2. inb' \in Passes /\ inb'.pc = "linked" /\ inb'.links = link
    BY <2>1 DEF TypeInv, Typed, Passes, PassPcs
  <2>3. PassInHand' /\ OneOwner'
    BY <1>0, <2>2 DEF TypeInv, PassInHand, OneOwner
  <2> QED BY <1>0, <2>2, <2>3, PassStepTypes DEF TypeInv, Typed
<1>2. CASE LoadTasks
  <2> DEFINE left == {t \in Tasks : RidOf(inb.links[t]) # None}
  <2>1. inb' = [inb EXCEPT !.pc = "applying", !.tasks = task, !.left = left] /\ inb.pc = "linked"
    BY <1>2 DEF LoadTasks, Continue
  <2>2. \A t \in left : t \in Tasks /\ RidOf(inb.links[t]) # None
    OBVIOUS
  <2> HIDE DEF left
  <2>3. inb' \in Passes /\ inb'.pc = "applying" /\ inb'.links = inb.links /\ inb'.left = left
    BY <2>1, <2>2 DEF TypeInv, Typed, Passes, PassPcs
  <2>4. PassInHand' /\ OneOwner'
    BY <1>0, <2>1, <2>2, <2>3 DEF TypeInv, PassInHand, OneOwner
  <2> QED BY <1>0, <2>3, <2>4, PassStepTypes DEF TypeInv, Typed
<1> QED BY <1>1, <1>2

\* What applyStatusTx leaves of a row and of its link.
LEMMA ApplyStatusTypes ==
  ASSUME Typed, NEW t \in Tasks, NEW i \in Issues, link[t] \in Links, Live(i, inb.seen),
         StatusOf(inb.seen[i].state) # None, ApplyStatus(t, inb.seen[i].state)
  PROVE  /\ task' \in [Tasks -> Rows] /\ link' \in [Tasks -> Links \cup {None}]
         /\ \A u \in Tasks : RidOf(link'[u]) = RidOf(link[u]) /\ (link[u] # None => link'[u] # None)
<1> DEFINE state == inb.seen[i].state
           fp == Fingerprint(StatusOf(state), inb.tasks[t].body)
           new == [link[t] EXCEPT !.fp = fp, !.lps = state, !.lpb = StatusOf(state)]
<1>0. inb \in Passes /\ link \in [Tasks -> Links \cup {None}] /\ task \in [Tasks -> Rows]
  BY DEF Typed
<1>1. state \in Board
  BY <1>0, LiveIsRow DEF Passes, IssueRows
<1>2. StatusOf(state) \in BrainStatuses
  BY <1>1, StatusOfType
<1>3. fp \in Fingerprints
  BY <1>0, FingerprintType DEF Passes, Rows
<1>4. link' = [link EXCEPT ![t] = new]
  BY <1>0 DEF ApplyStatus
<1>5. task' \in [Tasks -> Rows]
  <2>1. \A r \in Rows : [r EXCEPT !.status = StatusOf(state)] \in Rows
    BY <1>2 DEF Rows
  <2> QED BY <1>0, <2>1 DEF ApplyStatus
<1>6. state \in DOMAIN StateType
  BY <1>1, PmAssumption
<1> HIDE DEF fp, state
<1>7. new \in Links /\ new.rid = link[t].rid
  BY <1>2, <1>3, <1>6 DEF Links
<1> HIDE DEF new
<1>8. /\ link' \in [Tasks -> Links \cup {None}]
      /\ \A u \in Tasks : RidOf(link'[u]) = RidOf(link[u]) /\ (link[u] # None => link'[u] # None)
  BY <1>0, <1>4, <1>7, NullsAssumption DEF RidOf
<1> QED BY <1>5, <1>8

LEMMA ApplyRowTypes ==
  ASSUME TypeInv, NEW t \in Tasks, ApplyRow(t)
  PROVE  TypeInv'
<1> DEFINE i == inb.links[t].rid
           state == inb.seen[i].state
           links == [inb.links EXCEPT ![t] = None]
           tasks == [inb.tasks EXCEPT ![t] = NoRow]
           seen == [inb.seen EXCEPT ![i] = Unborn]
           left == inb.left \ {t}
<1>0. /\ inb.pc = "applying" /\ t \in inb.left /\ inb \in Passes /\ PassInHand /\ Typed
      /\ link \in [Tasks -> Links \cup {None}] /\ task \in [Tasks -> Rows]
      /\ UNCHANGED <<scenario, issue, due, proj, raced, lost, unread, kept, budget>>
  BY DEF ApplyRow, history, TypeInv, Typed
<1>1. inb.links[t] \in Links /\ i \in Issues /\ link[t] \in Links
  <2>1. RidOf(inb.links[t]) # None /\ inb.links[t] \in Links \cup {None}
    BY <1>0 DEF PassInHand, Passes
  <2>2. inb.links[t] \in Links /\ i # None
    BY <2>1 DEF RidOf
  <2>3. link[t] # None
    BY <1>0, <2>1 DEF PassInHand, RidOf
  <2> QED BY <1>0, <2>2, <2>3 DEF Links
<1>2. inb' = [inb EXCEPT !.left = left, !.links = links, !.tasks = tasks, !.seen = seen]
  BY <1>0 DEF ApplyRow, Continue, Passes
<1>3. seen \in Snapshots /\ links \in [Tasks -> Links \cup {None}] /\ tasks \in [Tasks -> Rows]
  BY <1>0, <1>1, IdleTypes DEF Passes, Snapshots
<1> HIDE DEF links, tasks, seen, left
<1>4. inb' \in Passes /\ inb'.pc = "applying" /\ inb'.links = links /\ inb'.left = left
  BY <1>0, <1>2, <1>3 DEF Passes, left
<1>5. CASE UNCHANGED <<task, link>>
  <2>1. PassInHand' /\ OneOwner'
    BY <1>0, <1>4, <1>5 DEF TypeInv, PassInHand, OneOwner, links, left, Passes
  <2> QED BY <1>0, <1>4, <1>5, <2>1, PassStepTypes DEF Typed
<1>6. CASE Live(i, inb.seen) /\ StatusOf(state) # None /\ ApplyStatus(t, state)
  <2>1. /\ task' \in [Tasks -> Rows] /\ link' \in [Tasks -> Links \cup {None}]
        /\ \A u \in Tasks : RidOf(link'[u]) = RidOf(link[u]) /\ (link[u] # None => link'[u] # None)
    BY <1>0, <1>1, <1>6, ApplyStatusTypes
  <2>2. OneOwner'
    BY <2>1 DEF TypeInv, OneOwner
  <2>3. PassInHand'
    BY <1>0, <1>4, <2>1 DEF PassInHand, links, left, Passes
  <2> QED BY <1>0, <1>4, <2>1, <2>2, <2>3, PassStepTypes DEF Typed
<1> QED BY <1>5, <1>6 DEF ApplyRow

LEMMA FetchTeamTypes ==
  ASSUME TypeInv, FetchTeam
  PROVE  TypeInv'
<1>0. UNCHANGED <<scenario, task, link, issue, due, proj, raced, lost, unread, kept, budget>>
  BY DEF FetchTeam, history
<1>1. inb' = [IdlePass EXCEPT !.pc = "fetched", !.seen = issue]
  BY DEF FetchTeam, Continue
<1>2. inb' \in Passes /\ inb'.pc = "fetched"
  BY <1>1, IdleTypes DEF TypeInv, Typed, Passes, PassPcs
<1>3. PassInHand' /\ OneOwner'
  BY <1>0, <1>2 DEF TypeInv, PassInHand, OneOwner
<1> QED BY <1>0, <1>2, <1>3, PassStepTypes DEF TypeInv, Typed

LEMMA ReadOwnedTypes ==
  ASSUME TypeInv, ReadOwned
  PROVE  TypeInv'
<1>0. UNCHANGED <<scenario, task, link, issue, due, proj, raced, lost, unread, kept, budget>>
  BY DEF ReadOwned, history
<1>1. PICK left \in SUBSET {t \in Tasks : Candidate(t)} :
        inb' = [inb EXCEPT !.pc = "adopting", !.left = left]
  <2> DEFINE owned == {RidOf(link[t]) : t \in Tasks}
             candidate(t) == LET i == scenario.mirror[t]
                             IN i # None /\ Live(i, inb.seen) /\ inb.seen[i].key = None /\ i \notin owned
  <2>1. inb' = [inb EXCEPT !.pc = "adopting", !.left = {t \in Tasks : candidate(t)}]
    BY DEF ReadOwned, Continue
  <2>2. {t \in Tasks : candidate(t)} \subseteq {t \in Tasks : Candidate(t)}
    BY DEF Candidate
  <2> QED BY <2>1, <2>2
<1>2. /\ inb' \in Passes /\ inb'.pc = "adopting" /\ inb'.left = left /\ inb'.seen = inb.seen
  BY <1>1 DEF TypeInv, Typed, Passes, PassPcs
<1>3. PassInHand' /\ OneOwner'
  BY <1>0, <1>1, <1>2 DEF TypeInv, PassInHand, OneOwner, Candidate
<1> QED BY <1>0, <1>2, <1>3, PassStepTypes DEF TypeInv, Typed

LEMMA ReadMirrorTypes ==
  ASSUME TypeInv, NEW t \in Tasks, ReadMirror(t)
  PROVE  TypeInv'
<1> DEFINE tasks == [inb.tasks EXCEPT ![t] = task[t]]
           left == inb.left \ {t}
<1>0. /\ UNCHANGED <<scenario, task, link, issue, due, proj, raced, lost, unread, kept, budget>>
      /\ inb.pc = "adopting" /\ t \in inb.left /\ inb \in Passes /\ PassInHand /\ task[t] \in Rows
  BY DEF ReadMirror, history, TypeInv, Typed
<1>1. inb' = [inb EXCEPT !.pc = "mirror", !.cur = t, !.left = left, !.tasks = tasks]
  BY <1>0 DEF ReadMirror, Continue, Passes
<1>2. tasks \in [Tasks -> Rows] /\ left \subseteq inb.left
  BY <1>0 DEF Passes
<1> HIDE DEF tasks, left
<1>3. /\ inb' \in Passes /\ inb'.pc = "mirror" /\ inb'.left = left /\ inb'.seen = inb.seen
      /\ inb'.cur = t
  BY <1>0, <1>1, <1>2 DEF Passes, PassPcs
<1>4. PassInHand' /\ OneOwner'
  BY <1>0, <1>2, <1>3 DEF TypeInv, PassInHand, OneOwner, Candidate
<1> QED BY <1>0, <1>3, <1>4, PassStepTypes DEF TypeInv, Typed

\* The mirror row and its issue, as the pass has them in hand.
LEMMA MirrorTypes ==
  ASSUME TypeInv, inb.pc \in {"mirror", "footer"}
  PROVE  /\ inb.cur \in Tasks /\ Candidate(inb.cur) /\ scenario.mirror[inb.cur] \in Issues
         /\ inb.seen[scenario.mirror[inb.cur]] \in IssueRows
         /\ Adopted(inb.cur) \in Rows
<1>1. inb.cur \in Tasks /\ Candidate(inb.cur) /\ Typed
  BY DEF TypeInv, PassInHand
<1>2. scenario.mirror[inb.cur] \in Issues
  BY <1>1, ScenarioType DEF Candidate
<1>3. inb.seen[scenario.mirror[inb.cur]] \in IssueRows
  BY <1>1, <1>2, LiveIsRow DEF Candidate, Typed, Passes
<1>4. inb.tasks[inb.cur] \in Rows
  BY <1>1 DEF Typed, Passes
<1>5. Adopted(inb.cur) \in Rows
  BY <1>3, <1>4, StatusOfType DEF Adopted, Rows, IssueRows
<1> QED BY <1>1, <1>2, <1>3, <1>5

LEMMA AdoptTypes ==
  ASSUME TypeInv, Adopt
  PROVE  TypeInv'
<1> DEFINE t == inb.cur
           i == scenario.mirror[t]
           new == [rid |-> i, fp |-> FingerprintOf(Adopted(t)), lps |-> inb.seen[i].state,
                   lpb |-> Adopted(t).status]
<1>0. /\ UNCHANGED <<scenario, issue, due, proj, raced, lost, unread, budget>>
      /\ inb.pc = "mirror" /\ inb \in Passes /\ PassInHand /\ Typed /\ OneOwner
      /\ link \in [Tasks -> Links \cup {None}] /\ task \in [Tasks -> Rows]
  BY DEF Adopt, TypeInv, Typed
<1>1. t \in Tasks /\ i \in Issues /\ inb.seen[i] \in IssueRows /\ Adopted(t) \in Rows /\ Candidate(t)
  BY <1>0, MirrorTypes
<1>2. CASE /\ link[t] = None /\ i \notin OwnedByOthers(t)
           /\ link' = [link EXCEPT ![t] = new] /\ task' = [task EXCEPT ![t] = Adopted(t)]
           /\ inb' = [inb EXCEPT !.pc = "footer"] /\ kept' \in {kept, kept \cup {t}}
  <2>1. new \in Links /\ new.rid = i
    <3>1. FingerprintOf(Adopted(t)) \in Fingerprints
      BY <1>1, FingerprintType DEF FingerprintOf, Rows
    <3> QED BY <1>1, <3>1, PmAssumption DEF Links, IssueRows, Rows
  <2> HIDE DEF new, t, i
  <2>2. link' \in [Tasks -> Links \cup {None}] /\ task' \in [Tasks -> Rows]
    BY <1>0, <1>1, <1>2, <2>1
  <2>3. \A u \in Tasks : link[u] # None => link'[u] # None
    BY <1>0, <1>2
  <2>4. \A u \in Tasks : u # t => link'[u] = link[u] /\ RidOf(link[u]) # i
    BY <1>0, <1>1, <1>2, NullsAssumption DEF OwnedByOthers
  <2>5. RidOf(link'[t]) = i
    BY <1>0, <1>1, <1>2, <2>1, NullsAssumption DEF RidOf
  <2>6. OneOwner'
    BY <1>0, <2>4, <2>5 DEF OneOwner
  <2>7. /\ inb' \in Passes /\ inb'.pc = "footer" /\ inb'.left = inb.left /\ inb'.seen = inb.seen
        /\ inb'.cur = inb.cur
    BY <1>0, <1>2 DEF Passes, PassPcs
  <2>8. PassInHand'
    BY <1>0, <1>1, <2>7 DEF PassInHand, Candidate, t
  <2>9. kept' \subseteq Tasks
    BY <1>0, <1>1, <1>2 DEF Typed
  <2> QED BY <1>0, <2>2, <2>6, <2>7, <2>8, <2>9, PassStepTypes DEF Typed
<1>3. CASE /\ inb' = [inb EXCEPT !.pc = "adopting", !.cur = None]
           /\ UNCHANGED <<link, task, kept>>
  <2>1. /\ inb' \in Passes /\ inb'.pc = "adopting" /\ inb'.left = inb.left /\ inb'.seen = inb.seen
    BY <1>0, <1>3 DEF Passes, PassPcs
  <2>2. PassInHand' /\ OneOwner'
    BY <1>0, <1>3, <2>1 DEF PassInHand, OneOwner, Candidate
  <2> QED BY <1>0, <1>3, <2>1, <2>2, PassStepTypes DEF Typed
<1> QED BY <1>2, <1>3 DEF Adopt, Continue

LEMMA StampFooterTypes ==
  ASSUME TypeInv, StampFooter
  PROVE  TypeInv'
<1> DEFINE t == inb.cur
           i == scenario.mirror[t]
           new == [issue[i] EXCEPT !.body = inb.seen[i].body, !.key = scenario.key[t], !.taker = t]
<1>0. /\ UNCHANGED <<scenario, task, link, due, proj, raced, lost, unread, kept>>
      /\ inb.pc = "footer" /\ inb \in Passes /\ PassInHand /\ Typed /\ OneOwner
      /\ issue \in Snapshots /\ (UNCHANGED budget \/ Fault)
      /\ inb' = [inb EXCEPT !.pc = "adopting", !.cur = None]
  BY DEF StampFooter, TypeInv, Typed, Continue, history
<1>1. t \in Tasks /\ i \in Issues /\ inb.seen[i] \in IssueRows
  BY <1>0, MirrorTypes
<1>2. /\ inb' \in Passes /\ inb'.pc = "adopting" /\ inb'.left = inb.left /\ inb'.seen = inb.seen
  BY <1>0 DEF Passes, PassPcs
<1>3. PassInHand' /\ OneOwner'
  BY <1>0, <1>2 DEF PassInHand, OneOwner, Candidate
<1>4. issue' \in Snapshots
  <2>1. CASE Live(i, issue) /\ issue' = [issue EXCEPT ![i].body = inb.seen[i].body,
                                           ![i].key = scenario.key[t], ![i].taker = t]
    <3>1. issue[i] \in IssueRows
      BY <1>0, <1>1, <2>1, LiveIsRow
    <3>2. issue' = [issue EXCEPT ![i] = new]
      BY <1>0, <1>1, <2>1 DEF Snapshots
    <3>3. scenario.key[t] \in Keys /\ inb.seen[i].body \in Bodies
      BY <1>0, <1>1, ScenarioType DEF IssueRows
    <3> HIDE DEF t, i
    <3>4. new \in IssueRows
      BY <1>1, <3>1, <3>3 DEF IssueRows
    <3> QED BY <1>0, <1>1, <3>2, <3>4 DEF Snapshots
  <2>2. CASE UNCHANGED issue
    BY <1>0, <2>2
  <2> QED BY <2>1, <2>2 DEF StampFooter
<1> QED BY <1>0, <1>2, <1>3, <1>4, PassStepTypes DEF Typed

LEMMA EndPassTypes ==
  ASSUME TypeInv, EndPass
  PROVE  TypeInv'
<1>0. /\ UNCHANGED <<scenario, task, link, issue, due, proj, raced, lost, unread, kept>>
      /\ inb' = IdlePass /\ (UNCHANGED budget \/ Fault)
  BY DEF EndPass, history, Continue
<1>1. inb' \in Passes /\ inb'.pc = "idle"
  BY <1>0, IdleTypes DEF IdlePass
<1>2. PassInHand' /\ OneOwner'
  BY <1>0, <1>1 DEF TypeInv, PassInHand, OneOwner
<1> QED BY <1>0, <1>1, <1>2, PassStepTypes DEF TypeInv, Typed

LEMMA CrashTypes ==
  ASSUME TypeInv, Crash
  PROVE  TypeInv'
<1>0. /\ UNCHANGED <<scenario, task, link, issue, raced, unread, kept>>
      /\ inb' = IdlePass /\ Fault /\ due' = [t \in Tasks |-> 0]
      /\ proj' = [p \in Projections |-> IdleProjection]
      /\ lost' = lost \cup {proj[p].cur : p \in {p \in Projections : proj[p].pc \in {"seed", "persist"}}}
      /\ Typed
  BY DEF Crash, TypeInv
<1>1. inb' \in Passes /\ inb'.pc = "idle"
  BY <1>0, IdleTypes DEF IdlePass
<1>2. PassInHand' /\ OneOwner'
  BY <1>0, <1>1 DEF TypeInv, PassInHand, OneOwner
<1>3. lost' \subseteq Tasks
  <2>1. \A p \in Projections : proj[p].pc \in {"seed", "persist"} => proj[p].cur \in Tasks
    BY DEF TypeInv, Typed, InHand, AtWork, Invocations
  <2> QED BY <1>0, <2>1 DEF Typed
<1>4. proj' \in [Projections -> Invocations] /\ \A p \in Projections : InHand(proj'[p])
  BY <1>0, IdleTypes
<1>5. \A p \in Projections : InHand(proj[p])'
  BY <1>4 DEF InHand, AtWork
<1>6. due' \in [Tasks -> Nat]
  BY <1>0
<1>7. budget' \in Budgets /\ \A b \in DOMAIN budget' : budget'[b] <= scenario.bound[b]
  <2>1. budget.faults > 0 /\ budget' = [budget EXCEPT !.faults = @ - 1] /\ budget \in Budgets
    BY <1>0 DEF Fault, Typed
  <2>2. DOMAIN budget' = DOMAIN budget /\ budget'.faults = budget.faults - 1
        /\ \A b \in DOMAIN budget : b # "faults" => budget'[b] = budget[b]
    BY <2>1 DEF Budgets
  <2>3. budget.faults \in Nat /\ scenario.bound.faults \in Nat /\ "faults" \in DOMAIN budget
    BY <2>1, <1>0, ScenarioType DEF Budgets, Scenario
  <2>4. budget' \in Budgets
    BY <2>1 DEF Budgets
  <2> QED BY <2>2, <2>3, <2>4 DEF TypeInv, WithinBounds
<1>8. budget'.edits = budget.edits /\ budget.edits \in Nat /\ scenario.bound.edits \in Nat
      /\ budget.edits <= scenario.bound.edits
  <2>1. budget \in Budgets /\ budget' = [budget EXCEPT !.faults = @ - 1]
    BY <1>0 DEF Fault, Typed
  <2> QED BY <2>1, ScenarioType DEF Budgets, Scenario, TypeInv, WithinBounds
<1>9. WithinBounds'
  <2>1. \A t \in Tasks : due'[t] + budget'.edits <= scenario.bound.edits + 1
    BY <1>0, <1>8
  <2> QED BY <1>0, <1>7, <2>1 DEF WithinBounds
<1>10. Typed'
  BY <1>0, <1>1, <1>3, <1>4, <1>6, <1>7 DEF Typed
<1> QED BY <1>2, <1>5, <1>9, <1>10 DEF TypeInv

LEMMA CallbackTypes ==
  ASSUME TypeInv, NEW p \in Projections, NEW t \in Tasks, Callback(p, t)
  PROVE  TypeInv'
<1>1. /\ Begin(p, {t}, "link") /\ due[t] > 0 /\ due' = [due EXCEPT ![t] = @ - 1]
      /\ UNCHANGED <<scenario, task, link, issue, inb, lost, unread, kept, budget>>
  BY DEF Callback
<1>2. due \in [Tasks -> Nat] /\ budget \in Budgets
  BY DEF TypeInv, Typed
<1>3. due' \in [Tasks -> Nat]
  BY <1>1, <1>2
<1>4. budget.edits \in Nat /\ scenario.bound.edits \in Nat
  BY <1>2, ScenarioType DEF Budgets, Scenario, TypeInv
<1>5. \A u \in Tasks : due'[u] <= due[u] /\ due[u] \in Nat /\ due'[u] \in Nat
  BY <1>1, <1>2, <1>3
<1>6. WithinBounds'
  <2>1. ASSUME NEW u \in Tasks PROVE due'[u] + budget.edits <= scenario.bound.edits + 1
    BY <1>4, <1>5 DEF TypeInv, WithinBounds
  <2> QED BY <1>1, <2>1 DEF TypeInv, WithinBounds
<1> QED BY <1>1, <1>2, <1>3, <1>6, BeginTypes

LEMMA ProjectBoardTypes ==
  ASSUME TypeInv, NEW p \in Projections, NEW j \in Projects, ProjectBoard(p, j)
  PROVE  TypeInv'
<1>1. PICK T \in SUBSET Tasks : Begin(p, T, "prepare")
  <2>1. {t \in scenario.rows : scenario.project[t] = j} \subseteq Tasks
    BY ScenarioType DEF Scenario, TypeInv
  <2> QED BY <2>1 DEF ProjectBoard
<1>2. /\ budget.batches > 0 /\ budget' = [budget EXCEPT !.batches = @ - 1]
      /\ UNCHANGED <<scenario, task, link, issue, due, inb, lost, unread, kept>>
  BY DEF ProjectBoard
<1>3. budget' \in Budgets /\ WithinBounds'
  BY <1>2, BudgetSpent DEF TypeInv
<1> QED BY <1>1, <1>2, <1>3, BeginTypes DEF TypeInv, Typed

LEMMA ProjectorTypes ==
  ASSUME TypeInv, NEW p \in Projections, ProjectorStep(p)
  PROVE  TypeInv'
BY PrepareTypes, FindLinkTypes, InsertLinkTypes, ReadOwnersTypes, FetchBootTypes, UpsertTypes,
   SeedTypes, PersistTypes DEF ProjectorStep

LEMMA AdoptionTypes ==
  ASSUME TypeInv, AdoptionStep
  PROVE  TypeInv'
BY FetchTeamTypes, ReadOwnedTypes, ReadMirrorTypes, AdoptTypes, StampFooterTypes DEF AdoptionStep

LEMMA NextTypeInv == TypeInv /\ [Next]_vars => TypeInv'
<1> SUFFICES ASSUME TypeInv, [Next]_vars PROVE TypeInv'
  OBVIOUS
<1>1. ASSUME NEW t \in Tasks, Edit(t) PROVE TypeInv'
  BY <1>1, EditTypes
<1>2. ASSUME NEW i \in Issues, Move(i) PROVE TypeInv'
  BY <1>2, MoveTypes
<1>3. ASSUME NEW p \in Projections, NEW t \in Tasks, Callback(p, t) PROVE TypeInv'
  BY <1>3, CallbackTypes
<1>4. ASSUME NEW p \in Projections, NEW j \in Projects, ProjectBoard(p, j) PROVE TypeInv'
  BY <1>4, ProjectBoardTypes
<1>5. ASSUME NEW p \in Projections, ProjectorStep(p) PROVE TypeInv'
  BY <1>5, ProjectorTypes
<1>6. ASSUME NEW t \in Tasks, ApplyRow(t) PROVE TypeInv'
  BY <1>6, ApplyRowTypes
<1>7. CASE StartPass \/ LoadLinks \/ LoadTasks \/ EndPass \/ Crash
  BY <1>7, StartPassTypes, LoadingTypes, EndPassTypes, CrashTypes
<1>8. CASE AdoptionStep
  BY <1>8, AdoptionTypes
<1>9. CASE UNCHANGED vars
  <2>1. UNCHANGED <<scenario, task, link, issue, due, proj, inb, raced, lost, unread, kept, budget>>
    BY <1>9 DEF vars
  <2> QED BY <2>1, PassStepTypes DEF TypeInv, Typed, PassInHand, OneOwner, Candidate
<1> QED
  BY <1>1, <1>2, <1>3, <1>4, <1>5, <1>6, <1>7, <1>8, <1>9
  DEF Next, ProjectorStep, AdoptionStep

-----------------------------------------------------------------------------
(* What a member last made of a row.  A seed is planned for a row read with a    *)
(* blank body, and an adoption keeps the body that it read; both write over      *)
(* whatever the row has by then.                                                 *)

SeedFits(q) == q.pc \in {"upsert", "seed"} /\ q.plan.seeded # None => q.rows[q.cur].body = Blank

SaidInv ==
  /\ SaidTypes
  /\ \A t \in Tasks \ overtaken : AsSaid(t)
  /\ \A p \in Projections : SeedFits(proj[p])

LEMMA PlannedFits ==
  ASSUME NEW q \in Invocations, NEW boot
  PROVE  SeedFits(Planned(q, boot))
<1>1. Plan(q, boot).seeded # None => q.rows[q.cur].body = Blank
  BY DEF Plan
<1>2. /\ Planned(q, boot).rows = q.rows /\ Planned(q, boot).cur = q.cur
      /\ Planned(q, boot).plan = Plan(q, boot)
  BY DEF Planned, Invocations
<1> QED BY <1>1, <1>2 DEF SeedFits

LEMMA FinishFits ==
  ASSUME TypeInv, NEW p \in Projections, Finish(p)
  PROVE  \E new : SeedFits(new) /\ proj' = [proj EXCEPT ![p] = new]
<1> DEFINE left == proj[p].todo \ {proj[p].cur}
           rest == [proj[p] EXCEPT !.pc = "link", !.todo = left, !.cur = None,
                      !.rows = [t \in Tasks |-> IF t \in left THEN @[t] ELSE NoRow],
                      !.plan = None]
<1>1. rest.pc = "link" /\ IdleProjection.pc = "idle"
  BY DEF TypeInv, Typed, Invocations, IdleProjection
<1>2. SeedFits(rest) /\ SeedFits(IdleProjection)
  BY <1>1 DEF SeedFits
<1>3. proj' = [proj EXCEPT ![p] = IF left = {} THEN IdleProjection ELSE rest]
  BY DEF Finish, Proceed
<1> HIDE DEF rest
<1> QED BY <1>2, <1>3

LEMMA BeginFits ==
  ASSUME NEW p \in Projections, NEW T, NEW pc \in {"link", "prepare"}, Begin(p, T, pc)
  PROVE  \E new : SeedFits(new) /\ proj' = [proj EXCEPT ![p] = new]
<1> DEFINE new == [IdleProjection EXCEPT !.pc = pc, !.todo = T,
                     !.rows = [t \in Tasks |-> IF t \in T THEN task[t] ELSE NoRow]]
<1>1. new.pc = pc
  BY DEF IdleProjection
<1>2. SeedFits(new)
  BY <1>1 DEF SeedFits
<1>3. proj' = [proj EXCEPT ![p] = new]
  BY DEF Begin, Proceed
<1> HIDE DEF new
<1> QED BY <1>2, <1>3

\* A step of the projector before the write, or after the seed.
LEMMA ProjectorFits ==
  ASSUME TypeInv, NEW p \in Projections, SeedFits(proj[p]), ProjectorStep(p)
  PROVE  \E new : SeedFits(new) /\ proj' = [proj EXCEPT ![p] = new]
<1> DEFINE q == proj[p]
           Fits == \E new : SeedFits(new) /\ proj' = [proj EXCEPT ![p] = new]
<1>0. q \in Invocations
  BY DEF TypeInv, Typed
<1>i. SeedFits(IdleProjection)
  BY DEF SeedFits, IdleProjection
<1>1. ASSUME NEW new, new.pc \notin {"upsert", "seed"}, Proceed(p, new) PROVE Fits
  BY <1>1 DEF SeedFits, Proceed
<1>2. ASSUME Proceed(p, IdleProjection) PROVE Fits
  BY <1>2, <1>i DEF Proceed
<1>3. CASE Prepare(p)
  <2>1. ASSUME NEW b, Proceed(p, [q EXCEPT !.pc = "link", !.boot = b]) PROVE Fits
    <3>1. [q EXCEPT !.pc = "link", !.boot = b].pc = "link"
      BY <1>0 DEF Invocations
    <3> QED BY <1>1, <2>1, <3>1
  <2> QED BY <1>2, <1>3, <2>1 DEF Prepare
<1>4. CASE \E t \in Tasks : FindLink(p, t)
  <2>1. PICK t \in Tasks : FindLink(p, t)
    BY <1>4
  <2> DEFINE here == [q EXCEPT !.cur = t, !.known = link[t]]
             rest == [q EXCEPT !.todo = q.todo \ {t}, !.rows[t] = NoRow]
  <2>2. /\ [here EXCEPT !.pc = "insert"].pc = "insert" /\ [here EXCEPT !.pc = "owners"].pc = "owners"
        /\ q.pc = "link" /\ rest.pc = "link"
    BY <1>0, <2>1 DEF Invocations, FindLink
  <2>3. \/ Proceed(p, [here EXCEPT !.pc = "insert"]) \/ Proceed(p, [here EXCEPT !.pc = "owners"])
        \/ Proceed(p, IdleProjection) \/ Proceed(p, rest)
    BY <2>1 DEF FindLink
  <2> HIDE DEF here, rest
  <2>4. CASE Proceed(p, rest)
    BY <1>1, <2>2, <2>4
  <2>5. CASE Proceed(p, [here EXCEPT !.pc = "insert"])
    BY <1>1, <2>2, <2>5
  <2>6. CASE Proceed(p, [here EXCEPT !.pc = "owners"])
    BY <1>1, <2>2, <2>6
  <2> QED BY <1>2, <2>3, <2>4, <2>5, <2>6
<1>5. CASE InsertLink(p)
  <2> DEFINE new == [q EXCEPT !.pc = "owners", !.known = DeclaredLink]
  <2>1. new.pc = "owners"
    BY <1>0 DEF Invocations
  <2>2. Proceed(p, new) \/ Proceed(p, IdleProjection)
    BY <1>5 DEF InsertLink
  <2> HIDE DEF new
  <2> QED BY <1>1, <1>2, <2>1, <2>2
<1>6. CASE ReadOwners(p)
  <2>1. PICK owned \in {OwnedByOthers(q.cur), {}} :
          Proceed(p, IF [q EXCEPT !.owned = owned].boot = NoBoot
                     THEN [[q EXCEPT !.owned = owned] EXCEPT !.pc = "listing"]
                     ELSE Planned([q EXCEPT !.owned = owned], [q EXCEPT !.owned = owned].boot))
    BY <1>6 DEF ReadOwners
  <2> DEFINE o == [q EXCEPT !.owned = owned]
             listing == [o EXCEPT !.pc = "listing"]
  <2>2. o \in Invocations /\ listing.pc = "listing"
    <3>1. owned \subseteq Issues
      BY DEF OwnedByOthers, RidOf, TypeInv, Typed, Links
    <3> QED BY <1>0, <3>1 DEF Invocations
  <2>3. Proceed(p, listing) \/ Proceed(p, Planned(o, o.boot))
    BY <2>1
  <2>4. SeedFits(Planned(o, o.boot))
    BY <2>2, PlannedFits
  <2> HIDE DEF o, listing
  <2>5. CASE Proceed(p, listing)
    BY <1>1, <2>2, <2>5
  <2>6. CASE Proceed(p, Planned(o, o.boot))
    BY <2>4, <2>6 DEF Proceed
  <2> QED BY <2>3, <2>5, <2>6
<1>7. CASE FetchBoot(p)
  <2>1. PICK b \in Listings : Proceed(p, Planned(q, b))
    BY <1>7 DEF FetchBoot
  <2> QED BY <1>0, <2>1, PlannedFits DEF Proceed
<1>8. CASE Upsert(p)
  <2>1. ASSUME NEW i, NEW written, Answered(p, i, written) PROVE Fits
    <3> DEFINE to == IF q.plan.seeded = None THEN "persist" ELSE "seed"
               boot == IF q.boot = NoBoot \/ ~written THEN q.boot
                       ELSE [at |-> [q.boot.at EXCEPT ![i] = Projection(q, i)],
                             ext |-> [q.boot.ext EXCEPT ![scenario.key[q.cur]] = i]]
               new == [q EXCEPT !.pc = to, !.plan.target = i, !.boot = boot]
    <3>1. proj' = [proj EXCEPT ![p] = new]
      BY <2>1 DEF Answered, Proceed
    <3>2. q.pc = "upsert" /\ q.plan \in Plans
      BY <1>8 DEF Upsert, TypeInv, InHand
    <3> HIDE DEF to, boot
    <3>3. new.rows = q.rows /\ new.cur = q.cur /\ new.plan.seeded = q.plan.seeded
      BY <1>0, <3>2 DEF Invocations, Plans
    <3>4. SeedFits(new)
      BY <3>2, <3>3 DEF SeedFits
    <3> QED BY <3>1, <3>4
  <2>2. Finish(p) \/ \E i, written : Answered(p, i, written)
    BY <1>8 DEF Upsert
  <2> QED BY <2>1, <2>2, FinishFits
<1>9. CASE Seed(p)
  <2>1. [q EXCEPT !.pc = "persist"].pc = "persist"
    BY <1>0 DEF Invocations
  <2> QED BY <1>1, <1>9, <2>1 DEF Seed
<1>10. CASE Persist(p)
  BY <1>10, FinishFits DEF Persist
<1> QED
  BY <1>3, <1>4, <1>5, <1>6, <1>7, <1>8, <1>9, <1>10 DEF ProjectorStep

\* Invocations elsewhere are as they were.
LEMMA FitsElsewhere ==
  ASSUME TypeInv, SaidInv, NEW p \in Projections, NEW new, SeedFits(new),
         proj' = [proj EXCEPT ![p] = new]
  PROVE  \A o \in Projections : SeedFits(proj'[o])
BY DEF SaidInv, TypeInv, Typed

\* Rows nobody has written, or that nobody has written over.
LEMMA SaidKept ==
  ASSUME SaidInv, UNCHANGED <<scenario, task, said, overtaken>>,
         \A p \in Projections : SeedFits(proj'[p])
  PROVE  SaidInv'
BY DEF SaidInv, SaidTypes, AsSaid, SeedFits

\* A write of one row.
LEMMA SaidWritten ==
  ASSUME TypeInv, SaidInv, UNCHANGED scenario, NEW t \in Tasks, NEW row \in Rows,
         task' = [task EXCEPT ![t] = row],
         said' = said \/ (said' = [said EXCEPT ![t] = row]),
         overtaken \subseteq overtaken', overtaken' \subseteq Tasks, t \notin overtaken' => AsSaid(t)',
         \A p \in Projections : SeedFits(proj'[p])
  PROVE  SaidInv'
<1>1. /\ task \in [Tasks -> Rows] /\ said \in [Tasks -> Rows]
      /\ \A u \in Tasks \ {t} : task'[u] = task[u] /\ said'[u] = said[u]
  BY DEF TypeInv, Typed, SaidInv, SaidTypes
<1>2. SaidTypes'
  BY <1>1 DEF SaidTypes
<1>3. ASSUME NEW u \in Tasks \ overtaken' PROVE AsSaid(u)'
  BY <1>1, <1>3 DEF SaidInv, AsSaid
<1> QED BY <1>2, <1>3 DEF SaidInv, SeedFits

LEMMA NextSaid == TypeInv /\ SaidInv /\ [Next]_vars => SaidInv'
<1> SUFFICES ASSUME TypeInv, SaidInv, [Next]_vars PROVE SaidInv'
  OBVIOUS
<1>0. task \in [Tasks -> Rows] /\ said \in [Tasks -> Rows] /\ overtaken \subseteq Tasks
  BY DEF TypeInv, Typed, SaidInv, SaidTypes
<1>1. ASSUME NEW t \in Tasks, Edit(t) PROVE SaidInv'
  <2>1. /\ said' = [said EXCEPT ![t] = task'[t]] /\ UNCHANGED <<scenario, overtaken, proj>>
    BY <1>1 DEF Edit
  <2>2. \E row \in Rows : task' = [task EXCEPT ![t] = row]
    <3>1. \/ \E s \in Statuses : task' = [task EXCEPT ![t] = [task[t] EXCEPT !.status = s]]
          \/ \E x \in Texts : task' = [task EXCEPT ![t] = [task[t] EXCEPT !.body = x]]
      BY <1>1 DEF Edit
    <3>2. /\ \A s \in Statuses : [task[t] EXCEPT !.status = s] \in Rows
          /\ \A x \in Texts : [task[t] EXCEPT !.body = x] \in Rows
      BY <1>0 DEF Rows, BrainStatuses, Bodies
    <3> QED BY <3>1, <3>2
  <2>3. PICK row \in Rows : task' = [task EXCEPT ![t] = row]
    BY <2>2
  <2>4. task'[t] = row /\ said'[t] = row
    BY <1>0, <2>1, <2>3
  <2> QED BY <1>0, <2>1, <2>3, <2>4, SaidWritten DEF AsSaid, SaidInv
<1>2. ASSUME NEW t \in Tasks, ApplyRow(t) PROVE SaidInv'
  <2>1. UNCHANGED <<scenario, overtaken, proj>> /\ \A p \in Projections : SeedFits(proj'[p])
    BY <1>2 DEF ApplyRow, SaidInv
  <2>2. CASE UNCHANGED <<task, said>>
    BY <2>1, <2>2, SaidKept
  <2>3. CASE /\ ApplyStatus(t, inb.seen[inb.links[t].rid].state)
             /\ said' = [said EXCEPT ![t] = task'[t]]
    <3>1. task'[t] \in Rows
      BY <1>2, ApplyRowTypes DEF TypeInv, Typed
    <3>2. task' = [task EXCEPT ![t] = task'[t]]
      BY <1>0, <2>3 DEF ApplyStatus
    <3>3. said'[t] = task'[t]
      BY <1>0, <2>3
    <3>4. PICK row \in Rows : row = task'[t]
      BY <3>1
    <3> QED BY <1>0, <2>1, <2>3, <3>2, <3>3, <3>4, SaidWritten DEF AsSaid
  <2> QED BY <1>2, <2>2, <2>3 DEF ApplyRow
<1>3. ASSUME NEW p \in Projections, Seed(p) PROVE SaidInv'
  <2>0. PICK q \in Invocations : q = proj[p]
    BY DEF TypeInv, Typed
  <2>1. q.cur \in Tasks /\ q.plan.seeded \in Bodies /\ q.pc = "seed"
    BY <1>3, <2>0 DEF Seed, TypeInv, InHand, AtWork, Invocations
  <2>11. PICK t \in Tasks : t = q.cur
    BY <2>1
  <2>2. q.rows[t].body = Blank
    BY <2>0, <2>1, <2>11, NullsAssumption DEF SaidInv, SeedFits
  <2>3. \A o \in Projections : SeedFits(proj'[o])
    <3>1. \E new : SeedFits(new) /\ proj' = [proj EXCEPT ![p] = new]
      BY <1>3, ProjectorFits DEF ProjectorStep, SaidInv
    <3> QED BY <3>1, FitsElsewhere
  <2>4. CASE UNCHANGED <<task, overtaken>>
    BY <1>3, <2>3, <2>4, SaidKept DEF Seed
  <2>5. CASE /\ task' = [task EXCEPT ![t].body = q.plan.seeded]
             /\ overtaken' = IF task[t].body = q.rows[t].body THEN overtaken ELSE overtaken \cup {t}
    <3> DEFINE row == [task[t] EXCEPT !.body = q.plan.seeded]
    <3>1. row \in Rows /\ row.status = task[t].status
      BY <1>0, <2>1 DEF Rows
    <3>2. UNCHANGED <<scenario, said>>
      BY <1>3 DEF Seed
    <3>3. task' = [task EXCEPT ![t] = row]
      BY <2>5
    <3> HIDE DEF row
    <3>4. task'[t] = row
      BY <1>0, <2>1, <3>3
    <3>5. t \notin overtaken' => AsSaid(t)'
      <4>1. SUFFICES ASSUME t \notin overtaken' PROVE AsSaid(t)'
        OBVIOUS
      <4>2. task[t].body = Blank /\ t \notin overtaken
        BY <2>2, <2>5, <4>1
      <4>3. said[t].body = Blank
        BY <2>1, <4>2 DEF SaidInv, AsSaid
      <4> QED BY <2>1, <3>1, <3>2, <3>4, <4>2, <4>3 DEF SaidInv, AsSaid
    <3>6. overtaken \subseteq overtaken' /\ overtaken' \subseteq Tasks
      BY <1>0, <2>1, <2>5
    <3>7. PICK new \in Rows : new = row
      BY <3>1
    <3>8. task' = [task EXCEPT ![t] = new]
      BY <3>3, <3>7
    <3> QED BY <2>1, <2>3, <3>2, <3>5, <3>6, <3>8, SaidWritten
  <2> QED BY <1>3, <2>0, <2>11, <2>4, <2>5 DEF Seed
<1>4. CASE Adopt
  <2>0. PICK t \in Tasks : t = inb.cur
    BY <1>4, MirrorTypes DEF Adopt, Candidate
  <2>1. Adopted(t) \in Rows /\ scenario.mirror[t] # None
    BY <1>4, <2>0, MirrorTypes DEF Adopt, Candidate
  <2>2. UNCHANGED <<scenario, said, proj>> /\ \A p \in Projections : SeedFits(proj'[p])
    BY <1>4 DEF Adopt, SaidInv
  <2>3. CASE UNCHANGED <<task, overtaken>>
    BY <2>2, <2>3, SaidKept
  <2>4. CASE /\ task' = [task EXCEPT ![t] = Adopted(t)]
             /\ overtaken' = IF task[t] = inb.tasks[t] THEN overtaken ELSE overtaken \cup {t}
    <3>1. Adopted(t).body = inb.tasks[t].body \/ inb.tasks[t].body = Blank
      BY DEF Adopted
    <3>2. PICK new \in Rows : new = Adopted(t)
      BY <2>1
    <3>3. task' = [task EXCEPT ![t] = new] /\ task'[t] = new
      BY <1>0, <2>1, <2>4, <3>2
    <3>4. t \notin overtaken' => AsSaid(t)'
      <4>1. SUFFICES ASSUME t \notin overtaken' PROVE AsSaid(t)'
        OBVIOUS
      <4>2. task[t] = inb.tasks[t] /\ t \notin overtaken
        BY <2>4, <4>1
      <4>3. task[t].body = said[t].body \/ said[t].body = Blank
        BY <4>2 DEF SaidInv, AsSaid
      <4>4. new.body = task[t].body \/ said[t].body = Blank \/ said[t].body = Blank
        BY <3>1, <3>2, <4>2, <4>3
      <4> QED BY <2>1, <2>2, <3>3, <4>3, <4>4 DEF AsSaid
    <3>5. overtaken \subseteq overtaken' /\ overtaken' \subseteq Tasks
      BY <1>0, <2>1, <2>4
    <3> QED BY <2>2, <3>3, <3>4, <3>5, SaidWritten
  <2> QED BY <1>4, <2>0, <2>3, <2>4 DEF Adopt
<1>5. ASSUME NEW p \in Projections, ProjectorStep(p), ~Seed(p) PROVE SaidInv'
  <2>1. \A o \in Projections : SeedFits(proj'[o])
    <3>1. \E new : SeedFits(new) /\ proj' = [proj EXCEPT ![p] = new]
      BY <1>5, ProjectorFits DEF SaidInv
    <3> QED BY <3>1, FitsElsewhere
  <2>2. UNCHANGED <<scenario, task, said, overtaken>>
    BY <1>5 DEF ProjectorStep, Prepare, FindLink, InsertLink, ReadOwners, FetchBoot, Upsert, Persist,
       history, editVars
  <2> QED BY <2>1, <2>2, SaidKept
<1>6. ASSUME NEW p \in Projections,
             \/ \E t \in Tasks : Callback(p, t)
             \/ \E j \in Projects : ProjectBoard(p, j)
      PROVE  SaidInv'
  <2>1. \E T : Begin(p, T, "link") \/ Begin(p, T, "prepare")
    BY <1>6 DEF Callback, ProjectBoard
  <2>2. \A o \in Projections : SeedFits(proj'[o])
    BY <2>1, BeginFits, FitsElsewhere
  <2>3. UNCHANGED <<scenario, task, said, overtaken>>
    BY <1>6 DEF Callback, ProjectBoard, editVars
  <2> QED BY <2>2, <2>3, SaidKept
<1>7. CASE Crash
  <2>1. \A p \in Projections : SeedFits(proj'[p])
    BY <1>7 DEF Crash, SeedFits, IdleProjection
  <2> QED BY <1>7, <2>1, SaidKept DEF Crash, editVars
<1>8. CASE \/ \E i \in Issues : Move(i)
           \/ \E t \in Tasks : ReadMirror(t)
           \/ StartPass \/ LoadLinks \/ LoadTasks \/ FetchTeam \/ ReadOwned \/ StampFooter
           \/ EndPass \/ UNCHANGED vars
  <2>1. UNCHANGED <<scenario, task, said, overtaken, proj>>
    BY <1>8 DEF Move, ReadMirror, StartPass, LoadLinks, LoadTasks, FetchTeam, ReadOwned, StampFooter,
       EndPass, vars, history, editVars
  <2> QED BY <2>1, SaidKept DEF SaidInv
<1> QED
  BY <1>1, <1>2, <1>3, <1>4, <1>5, <1>6, <1>7, <1>8 DEF Next, ProjectorStep

LEMMA InitSaid == Init => SaidInv
  BY IdleTypes DEF Init, SaidInv, SaidTypes, AsSaid, SeedFits, IdleProjection, Rows, BrainStatuses,
     Bodies

\* Types, and one link for one issue: whatever rows contend for an issue and whatever
\* is lost, the index on provider_resource_id that persistSuccess and the adopting
\* transaction meet keeps every issue with one row, and what an invocation or a pass
\* has in hand is of the shape its next step needs.
THEOREM PmTypeCorrect == Spec => []PmTypeOK
<1>1. SaidInv => SaidTypes
  BY DEF SaidInv
<1> QED BY <1>1, InitTypeInv, NextTypeInv, InitSaid, NextSaid, TypeInvOK, PTL DEF Spec

-----------------------------------------------------------------------------
(* One issue has one taker *)

Clear(t) == t \notin raced \cup unread

\* Activities that contend for an issue at the same time have been noticed.
OverlapsAreRaced ==
  /\ \A p, q \in Projections : p # q =>
       \A t \in proj[p].todo, u \in proj[q].todo : Contend(t, u) => t \in raced
  /\ \A t \in Passed, u \in Projected : Contend(t, u) => t \in raced /\ u \in raced

\* A row with the key k may come to issue i: a row with that key claims it, or it was
\* created with that key.
Kin(k, i) ==
  /\ i \in Written \/ issue[i] # Unborn
  /\ Live(i, issue) => IF i \in Written THEN i \in KeyClaims(k) ELSE issue[i].key = k

KinInvocation(q) ==
  /\ q.pc \in {"owners", "listing"} /\ q.known.rid # None => Kin(scenario.key[q.cur], q.known.rid)
  /\ q.pc \in {"upsert", "seed", "persist"} /\ q.plan.target # None
       => Kin(scenario.key[q.cur], q.plan.target)
  /\ q.boot # NoBoot => \A k \in Keys : q.boot.ext[k] # None => Kin(k, q.boot.ext[k])

\* No row comes to an issue that is not of its kin.
IssuesAreKin ==
  /\ \A t \in Tasks : RidOf(link[t]) # None => Kin(scenario.key[t], link[t].rid)
  /\ \A i \in Issues : Live(i, issue) =>
       IF issue[i].key = None THEN i \in Written ELSE Kin(issue[i].key, i)
  /\ \A p \in Projections : KinInvocation(proj[p])

\* Another row holds i, and nothing ran over it.
HeldByOther(t, i) == \E u \in Tasks \ {t} : Clear(u) /\ RidOf(link[u]) = i

\* What an invocation knows of the holders of the issue it goes for, and of its taker.
NoOtherHolder(q) ==
  /\ q.pc \in {"owners", "listing"} /\ q.known.rid # None /\ Live(q.known.rid, issue)
       => ~HeldByOther(q.cur, q.known.rid)
  /\ q.pc = "listing" => \A t \in Tasks \ {q.cur} :
       Clear(t) /\ Contend(t, q.cur) => RidOf(link[t]) \in q.owned \cup {None}
  /\ /\ q.pc \in {"upsert", "seed", "persist"} /\ (q.pc = "upsert" => ~q.plan.refuses)
     /\ q.plan.target # None /\ Live(q.plan.target, issue)
     => ~HeldByOther(q.cur, q.plan.target)
  /\ q.pc \in {"seed", "persist"} /\ Clear(q.cur) /\ Live(q.plan.target, issue)
       => issue[q.plan.target].taker = q.cur

\* An issue without a footer is as a person wrote it, and only a row that the pass tied
\* to it may have been found to match it.
Keyless(i) == Live(i, issue) /\ issue[i].key = None

KeylessInvocation(q, i) ==
  /\ q.boot # NoBoot => /\ Live(i, q.boot.at) /\ q.boot.at[i].key = None
                        /\ q.boot.at[i].body = Prose /\ \A k \in Keys : q.boot.ext[k] # i
  /\ \A t \in q.todo : scenario.declared[t] = i => q.rows[t].body # Prose
  /\ q.pc \in {"owners", "listing"} => (q.known.rid = i <=> RidOf(link[q.cur]) = i)
  /\ q.pc \in {"upsert", "seed", "persist"} /\ RidOf(link[q.cur]) = i => q.plan.target = i
  /\ q.pc = "upsert" /\ q.plan.same /\ q.plan.target = i => RidOf(link[q.cur]) = i
  /\ q.pc = "seed" => q.plan.target # i
  /\ q.pc = "persist" /\ q.plan.target = i => RidOf(link[q.cur]) = i

KeylessIsUntouched ==
  \A i \in Issues : Keyless(i) =>
    /\ issue[i].body = Prose
    /\ issue[i].taker # None => RidOf(link[issue[i].taker]) = i
    /\ \A t \in Tasks : /\ scenario.declared[t] = i => task[t].body # Prose
                        /\ RidOf(link[t]) = i => scenario.declared[t] = None
    /\ \A p \in Projections : KeylessInvocation(proj[p], i)

\* A row at work has a link, and a seed is an adoption's.
Stands(q) ==
  /\ q.pc \in {"owners", "listing", "upsert", "seed", "persist"} => link[q.cur] # None
  /\ q.pc \in {"upsert", "seed"} /\ q.plan.seeded # None
       => q.plan.target = scenario.declared[q.cur] /\ q.plan.target # None
  /\ q.pc = "upsert" /\ q.plan.same => q.plan.seeded = None

\* A declared row always has a link.
LinksStand ==
  /\ \A t \in Tasks : scenario.declared[t] # None => link[t] # None
  /\ \A p \in Projections : Stands(proj[p])

\* What the pass may still tie to a mirror row is without a footer, or tied to another.
Adoptable(t) ==
  LET i == scenario.mirror[t]
  IN Live(i, issue) => \/ Keyless(i)
                       \/ \E u \in Tasks \ {t} : scenario.mirror[u] = i /\ RidOf(link[u]) = i

AdoptionInv ==
  /\ inb.pc = "fetched" => \A t \in Tasks \ raced : Candidate(t) => Adoptable(t)
  /\ inb.pc \in {"adopting", "mirror", "footer"} => \A t \in inb.left \ raced : Adoptable(t)
  /\ inb.pc \in {"mirror", "footer"} => inb.cur \notin inb.left
  /\ inb.pc = "mirror" /\ inb.cur \notin raced => Adoptable(inb.cur)
  /\ inb.pc = "footer" =>
       LET i == scenario.mirror[inb.cur]
       IN /\ Live(i, issue) => ~HeldByOther(inb.cur, i)
          /\ \A t \in Tasks \ raced : scenario.mirror[t] = i => RidOf(link[inb.cur]) = i

WriterInv ==
  /\ OverlapsAreRaced /\ IssuesAreKin /\ KeylessIsUntouched /\ LinksStand /\ AdoptionInv /\ OneWriter
  /\ \A p \in Projections : NoOtherHolder(proj[p])

LEMMA ContendSymmetric ==
  ASSUME NEW t, NEW u, Contend(t, u)
  PROVE  Contend(u, t)
BY DEF Contend

LEMMA ContendReflexive ==
  ASSUME NEW t
  PROVE  Contend(t, t)
BY DEF Contend

\* Claims of a row are claims of its key.
LEMMA ClaimsOfKey ==
  ASSUME NEW t \in Tasks, NEW i, i # None, i \in {scenario.declared[t], scenario.mirror[t]}
  PROVE  i \in KeyClaims(scenario.key[t])
BY DEF KeyClaims, Claims

\* Rows that are kin of one issue contend.
LEMMA KinContend ==
  ASSUME NEW t \in Tasks, NEW u \in Tasks, NEW i, Live(i, issue),
         Kin(scenario.key[t], i), Kin(scenario.key[u], i)
  PROVE  Contend(t, u)
BY DEF Kin, Contend

\* What any step may do to the issues.
IssuesEvolve ==
  \A i \in Issues :
    /\ issue[i] # Unborn => issue'[i] # Unborn
    /\ Live(i, issue') => Live(i, issue) \/ (i \notin Written /\ issue[i] = Unborn)
    /\ i \notin Written /\ Live(i, issue) /\ Live(i, issue') => issue'[i].key = issue[i].key
    /\ Live(i, issue') /\ issue'[i].key = None => /\ Keyless(i) /\ issue'[i].body = issue[i].body

LEMMA KinStable ==
  ASSUME IssuesEvolve, UNCHANGED scenario, NEW k, NEW i \in Issues, Kin(k, i)
  PROVE  Kin(k, i)'
<1>1. KeyClaims(k)' = KeyClaims(k)
  BY DEF KeyClaims, Claims
<1>2. i \in Written \/ issue'[i] # Unborn
  BY DEF IssuesEvolve, Kin
<1>3. Live(i, issue') => Live(i, issue) /\ (i \notin Written => issue'[i].key = issue[i].key)
  BY DEF IssuesEvolve, Kin
<1> QED BY <1>1, <1>2, <1>3 DEF Kin

LEMMA SameIssuesEvolve ==
  ASSUME UNCHANGED issue
  PROVE  IssuesEvolve
BY DEF IssuesEvolve, Keyless

\* What has been noticed stays noticed, and what nothing began stays apart.
LEMMA OverlapsStable ==
  ASSUME OverlapsAreRaced, UNCHANGED scenario, raced \subseteq raced', Passed' \subseteq Passed,
         \A p \in Projections : proj'[p].todo \subseteq proj[p].todo
  PROVE  OverlapsAreRaced'
<1>1. \A t, u : Contend(t, u)' <=> Contend(t, u)
  BY DEF Contend, KeyClaims, Claims
<1>2. Projected' \subseteq Projected
  BY DEF Projected
<1> QED BY <1>1, <1>2 DEF OverlapsAreRaced

\* The kin of everything that stays as it was, or is new and kin.
LEMMA KinInvocationStable ==
  ASSUME TypeInv, IssuesEvolve, UNCHANGED scenario, NEW q \in Invocations, InHand(q), KinInvocation(q)
  PROVE  KinInvocation(q)'
<1>1. q.pc \in {"owners", "listing"} => q.known.rid \in Issues \cup {None}
  BY DEF InHand, Links
<1>2. q.pc \in {"upsert", "seed", "persist"} => q.plan.target \in Issues \cup {None}
  BY DEF InHand, Plans
<1>3. q.boot # NoBoot => \A k \in Keys : q.boot.ext[k] \in Issues \cup {None}
  BY DEF Invocations, NoBoot, Boots
<1> QED BY <1>1, <1>2, <1>3, KinStable DEF KinInvocation

LEMMA KinStep ==
  ASSUME TypeInv, IssuesAreKin, IssuesEvolve, UNCHANGED scenario,
         \A t \in Tasks, i \in Issues :
           RidOf(link'[t]) = i => RidOf(link[t]) = i \/ Kin(scenario.key[t], i)',
         link' \in [Tasks -> Links \cup {None}],
         \A i \in Issues : Live(i, issue') =>
           \/ Live(i, issue) /\ issue'[i].key = issue[i].key
           \/ issue'[i].key # None /\ Kin(issue[i].key, i)',
         proj' \in [Projections -> Invocations],
         \A p \in Projections, q \in Invocations :
           proj'[p] = q => q = proj[p] \/ KinInvocation(q)'
  PROVE  IssuesAreKin'
<1>1. ASSUME NEW t \in Tasks, RidOf(link'[t]) # None
      PROVE  Kin(scenario.key[t], link[t].rid)'
  <2>1. RidOf(link'[t]) = link'[t].rid /\ link'[t].rid \in Issues
    BY <1>1 DEF RidOf, Links
  <2>2. PICK i \in Issues : i = link'[t].rid
    BY <2>1
  <2>3. CASE RidOf(link[t]) = i
    <3>1. link[t].rid = i /\ RidOf(link[t]) # None
      BY <2>3, NullsAssumption DEF RidOf
    <3>2. Kin(scenario.key[t], i)
      BY <3>1 DEF IssuesAreKin
    <3>3. PICK k : k = scenario.key[t]
      OBVIOUS
    <3>4. Kin(k, i)'
      BY <3>2, <3>3, KinStable
    <3>5. Kin(scenario.key[t], i)'
      BY <3>3, <3>4
    <3> QED BY <2>2, <3>5
  <2>4. CASE Kin(scenario.key[t], i)'
    BY <2>2, <2>4
  <2> QED BY <2>1, <2>2, <2>3, <2>4
<1>2. ASSUME NEW i \in Issues, Live(i, issue')
      PROVE  IF issue'[i].key = None THEN i \in Written ELSE Kin(issue[i].key, i)'
  <2>1. CASE Live(i, issue) /\ issue'[i].key = issue[i].key
    <3>1. IF issue[i].key = None THEN i \in Written ELSE Kin(issue[i].key, i)
      BY <2>1 DEF IssuesAreKin
    <3> QED BY <2>1, <3>1, KinStable DEF Kin, KeyClaims, Claims
  <2>2. CASE issue'[i].key # None /\ Kin(issue[i].key, i)'
    BY <2>2
  <2> QED BY <1>2, <2>1, <2>2
<1>3. ASSUME NEW p \in Projections
      PROVE  KinInvocation(proj[p])'
  <2>1. proj[p] \in Invocations /\ InHand(proj[p]) /\ KinInvocation(proj[p])
    BY DEF TypeInv, Typed, IssuesAreKin
  <2>2. PICK q \in Invocations : q = proj'[p]
    OBVIOUS
  <2>3. CASE q = proj[p]
    <3>1. q \in Invocations /\ InHand(q) /\ KinInvocation(q)
      BY <2>1, <2>3
    <3>2. KinInvocation(q)'
      BY <3>1, KinInvocationStable
    <3> QED BY <2>2, <3>2
  <2>4. CASE KinInvocation(q)'
    BY <2>2, <2>4
  <2> QED BY <2>2, <2>3, <2>4
<1> QED BY <1>1, <1>2, <1>3 DEF IssuesAreKin, Live

\* No step takes back that activities ran over each other.
Noted == UNCHANGED scenario /\ raced \subseteq raced' /\ unread \subseteq unread'

\* Whoever comes to hold an issue is kin of it; if it contends with u, it has been noticed.
NewHoldersApart(u) ==
  \A t \in Tasks \ {u}, i \in Issues :
    Clear(t)' /\ RidOf(link'[t]) = i /\ RidOf(link[t]) # i
      => ~Contend(t, u) /\ Kin(scenario.key[t], i)'

LEMMA RidTypes ==
  ASSUME TypeInv, NEW t \in Tasks
  PROVE  RidOf(link[t]) \in Issues \cup {None}
BY DEF TypeInv, Typed, Links, RidOf

LEMMA HolderStable ==
  ASSUME TypeInv, TypeInv', IssuesEvolve, Noted, NEW u \in Tasks, NewHoldersApart(u),
         NEW i \in Issues, Kin(scenario.key[u], i), Live(i, issue'),
         Live(i, issue) => ~HeldByOther(u, i)
  PROVE  ~HeldByOther(u, i)'
<1>1. SUFFICES ASSUME NEW t \in Tasks \ {u}, Clear(t)', RidOf(link'[t]) = i
               PROVE  FALSE
  BY DEF HeldByOther
<1>2. Live(i, issue)
  BY DEF IssuesEvolve, Kin
<1>3. Clear(t)
  BY <1>1 DEF Clear, Noted
<1>4. RidOf(link[t]) # i
  BY <1>1, <1>2, <1>3 DEF HeldByOther
<1>5. ~Contend(t, u) /\ Kin(scenario.key[t], i)'
  BY <1>1, <1>4 DEF NewHoldersApart
<1>6. Kin(scenario.key[t], i)
  BY <1>2, <1>5 DEF Noted, Kin, KeyClaims, Claims, IssuesEvolve
<1> QED BY <1>1, <1>2, <1>5, <1>6, KinContend

LEMMA NoOtherHolderStable ==
  ASSUME TypeInv, TypeInv', IssuesEvolve, Noted, NEW q \in Invocations, InHand(q), KinInvocation(q),
         NoOtherHolder(q), NewHoldersApart(q.cur),
         /\ q.pc \in {"seed", "persist"} /\ Clear(q.cur)'
         /\ Live(q.plan.target, issue) /\ Live(q.plan.target, issue')
         => issue'[q.plan.target].taker \in {issue[q.plan.target].taker, q.cur}
  PROVE  NoOtherHolder(q)'
<1> DEFINE u == q.cur
<1>1. q.pc \in {"owners", "listing", "upsert", "seed", "persist"} => u \in Tasks
  BY DEF InHand, AtWork, Invocations
<1>2. ASSUME q.pc \in {"owners", "listing"}, q.known.rid # None, Live(q.known.rid, issue')
      PROVE  ~HeldByOther(u, q.known.rid)'
  <2>1. q.known.rid \in Issues
    BY <1>2 DEF InHand, Links
  <2>2. PICK i \in Issues : i = q.known.rid
    BY <2>1
  <2>3. Kin(scenario.key[u], i) /\ (Live(i, issue) => ~HeldByOther(u, i))
    BY <1>2, <2>2 DEF KinInvocation, NoOtherHolder
  <2> QED BY <1>1, <1>2, <2>2, <2>3, HolderStable
<1>3. ASSUME q.pc = "listing", NEW t \in Tasks \ {u}, Clear(t)', Contend(t, u)'
      PROVE  RidOf(link'[t]) \in q.owned \cup {None}
  <2>1. Clear(t) /\ Contend(t, u)
    BY <1>3 DEF Clear, Noted, Contend, KeyClaims, Claims
  <2>2. RidOf(link[t]) \in q.owned \cup {None}
    BY <1>3, <2>1 DEF NoOtherHolder
  <2>3. RidOf(link'[t]) = RidOf(link[t]) \/ RidOf(link'[t]) = None
    <3>1. RidOf(link'[t]) \in Issues \cup {None}
      BY DEF TypeInv, Typed, Links, RidOf
    <3> QED BY <1>3, <2>1, <3>1 DEF NewHoldersApart
  <2> QED BY <2>2, <2>3
<1>4. ASSUME q.pc \in {"upsert", "seed", "persist"}, q.pc = "upsert" => ~q.plan.refuses,
             q.plan.target # None, Live(q.plan.target, issue')
      PROVE  ~HeldByOther(u, q.plan.target)'
  <2>1. q.plan.target \in Issues
    BY <1>4 DEF InHand, Plans
  <2>2. PICK i \in Issues : i = q.plan.target
    BY <2>1
  <2>3. Kin(scenario.key[u], i) /\ (Live(i, issue) => ~HeldByOther(u, i))
    BY <1>4, <2>2 DEF KinInvocation, NoOtherHolder
  <2> QED BY <1>1, <1>4, <2>2, <2>3, HolderStable
<1>5. ASSUME q.pc \in {"seed", "persist"}, Clear(u)', Live(q.plan.target, issue')
      PROVE  issue'[q.plan.target].taker = u
  <2>1. Clear(u) /\ q.plan.target \in Issues /\ q.plan.target # None
    BY <1>5, NullsAssumption DEF Clear, Noted, InHand
  <2>2. Kin(scenario.key[u], q.plan.target)
    BY <1>5, <2>1 DEF KinInvocation
  <2>3. Live(q.plan.target, issue)
    BY <1>5, <2>1, <2>2 DEF IssuesEvolve, Kin
  <2>4. issue[q.plan.target].taker = u
    BY <1>5, <2>1, <2>3 DEF NoOtherHolder
  <2> QED BY <1>5, <2>3, <2>4
<1> QED BY <1>2, <1>3, <1>4, <1>5 DEF NoOtherHolder, Live

\* Which rows hold the issues without a footer.
SameHolders == \A i \in Issues, t \in Tasks :
                 Keyless(i)' => (RidOf(link'[t]) = i <=> RidOf(link[t]) = i)

LEMMA KeylessInvocationStable ==
  ASSUME TypeInv, TypeInv', IssuesEvolve, Noted, SameHolders, NEW q \in Invocations, InHand(q),
         NEW i \in Issues, Keyless(i)', KeylessInvocation(q, i)
  PROVE  KeylessInvocation(q, i)'
<1>1. q.pc \in {"owners", "listing", "upsert", "seed", "persist"} => q.cur \in Tasks
  BY DEF InHand, AtWork, Invocations
<1>2. q.cur \in Tasks => (RidOf(link'[q.cur]) = i <=> RidOf(link[q.cur]) = i)
  BY DEF SameHolders
<1> QED BY <1>1, <1>2 DEF KeylessInvocation, Noted, Live

LEMMA KeylessStep ==
  ASSUME TypeInv, TypeInv', KeylessIsUntouched, IssuesEvolve, Noted, SameHolders,
         \A i \in Issues : Keyless(i)' /\ issue'[i].taker # issue[i].taker
           => RidOf(link[issue'[i].taker]) = i,
         \A t \in Tasks, i \in Issues :
           Keyless(i)' /\ scenario.declared[t] = i => task'[t].body # Prose,
         \A p \in Projections, q \in Invocations, i \in Issues :
           Keyless(i)' /\ proj'[p] = q => q = proj[p] \/ KeylessInvocation(q, i)'
  PROVE  KeylessIsUntouched'
<1>1. SUFFICES ASSUME NEW i \in Issues, Keyless(i)'
               PROVE  (/\ issue[i].body = Prose
                       /\ issue[i].taker # None => RidOf(link[issue[i].taker]) = i
                       /\ \A t \in Tasks : /\ scenario.declared[t] = i => task[t].body # Prose
                                           /\ RidOf(link[t]) = i => scenario.declared[t] = None
                       /\ \A p \in Projections : KeylessInvocation(proj[p], i))'
  BY DEF KeylessIsUntouched
<1>2. Keyless(i) /\ issue'[i].body = issue[i].body
  BY <1>1 DEF IssuesEvolve, Keyless, Live
<1>3. issue'[i].body = Prose
  BY <1>2 DEF KeylessIsUntouched
<1>4. ASSUME issue'[i].taker # None PROVE RidOf(link'[issue'[i].taker]) = i
  <2>1. RidOf(link[issue'[i].taker]) = i
    BY <1>1, <1>2, <1>4 DEF KeylessIsUntouched
  <2>2. issue'[i] \in IssueRows
    BY <1>1 DEF TypeInv, Typed, Keyless, Live, Snapshots
  <2>3. issue'[i].taker \in Tasks
    BY <1>4, <2>2 DEF IssueRows
  <2> QED BY <1>1, <2>1, <2>3 DEF SameHolders
<1>5. ASSUME NEW t \in Tasks
      PROVE  /\ scenario'.declared[t] = i => task'[t].body # Prose
             /\ RidOf(link'[t]) = i => scenario'.declared[t] = None
  BY <1>1, <1>2 DEF KeylessIsUntouched, SameHolders, Noted
<1>6. ASSUME NEW p \in Projections PROVE KeylessInvocation(proj[p], i)'
  <2>1. PICK q \in Invocations : q = proj'[p]
    BY DEF TypeInv, Typed
  <2>2. CASE q = proj[p]
    <3>1. q \in Invocations /\ InHand(q) /\ KeylessInvocation(q, i)
      BY <1>2, <2>2 DEF TypeInv, Typed, KeylessIsUntouched
    <3>2. KeylessInvocation(q, i)'
      BY <1>1, <3>1, KeylessInvocationStable
    <3> QED BY <2>1, <3>2
  <2>3. CASE KeylessInvocation(q, i)'
    BY <2>1, <2>3
  <2> QED BY <1>1, <2>1, <2>2, <2>3
<1> QED BY <1>3, <1>4, <1>5, <1>6

\* A pass at work has every mirror row in hand, and mirrors of one issue contend.
LEMMA MirrorsPassed ==
  ASSUME inb.pc # "idle", NEW t \in Tasks, scenario.mirror[t] # None
  PROVE  t \in Passed
BY DEF Passed

LEMMA MirrorsContend ==
  ASSUME NEW t \in Tasks, NEW k, scenario.mirror[t] # None, NEW u \in Tasks, k = scenario.key[u],
         scenario.mirror[t] \in KeyClaims(k)
  PROVE  Contend(t, u)
<1>1. scenario.mirror[t] \in KeyClaims(scenario.key[t])
  BY ClaimsOfKey
<1> QED BY <1>1 DEF Contend

LEMMA MirrorKin ==
  ASSUME Typed, NEW t \in Tasks, scenario.mirror[t] # None
  PROVE  Kin(scenario.key[t], scenario.mirror[t])
<1>1. scenario.mirror[t] \in Written
  BY ScenarioType
<1>2. scenario.mirror[t] \in KeyClaims(scenario.key[t])
  BY ClaimsOfKey
<1> QED BY <1>1, <1>2 DEF Kin

\* What a pass that does not move may still adopt.
LEMMA AdoptionStable ==
  ASSUME TypeInv, TypeInv', AdoptionInv, IssuesEvolve, Noted, UNCHANGED inb,
         \A t \in Tasks : t \notin raced' /\ inb.pc # "idle" /\ scenario.mirror[t] # None /\ Adoptable(t)
           => Adoptable(t)',
         inb.pc = "footer" => NewHoldersApart(inb.cur),
         \A t \in Tasks :
           /\ t \notin raced' /\ inb.pc = "footer" /\ scenario.mirror[t] = scenario.mirror[inb.cur]
           /\ RidOf(link[inb.cur]) = scenario.mirror[inb.cur]
           => RidOf(link'[inb.cur]) = scenario.mirror[inb.cur]
  PROVE  AdoptionInv'
<1>0. scenario' = scenario /\ inb' = inb /\ raced \subseteq raced' /\ inb.left \subseteq Tasks
  BY DEF Noted, TypeInv, Typed, Passes
<1>1. ASSUME inb.pc = "fetched", NEW t \in Tasks, t \notin raced', Candidate(t)'
      PROVE  Adoptable(t)'
  <2>1. Candidate(t) /\ t \notin raced
    BY <1>0, <1>1 DEF Candidate, Live
  <2>2. Adoptable(t) /\ scenario.mirror[t] # None
    BY <1>1, <2>1 DEF AdoptionInv, Candidate
  <2> QED BY <1>1, <2>2
<1>2. ASSUME inb.pc \in {"adopting", "mirror", "footer"}, NEW t \in inb.left, t \notin raced'
      PROVE  Adoptable(t)'
  <2>1. Candidate(t) /\ t \notin raced /\ t \in Tasks
    BY <1>0, <1>2 DEF TypeInv, PassInHand
  <2>2. Adoptable(t) /\ scenario.mirror[t] # None
    BY <1>2, <2>1 DEF AdoptionInv, Candidate
  <2> QED BY <1>2, <2>1, <2>2
<1>3. ASSUME inb.pc = "mirror", inb.cur \notin raced'
      PROVE  Adoptable(inb.cur)'
  <2>1. Candidate(inb.cur) /\ inb.cur \notin raced /\ inb.cur \in Tasks
    BY <1>0, <1>3 DEF TypeInv, PassInHand
  <2>2. Adoptable(inb.cur) /\ scenario.mirror[inb.cur] # None
    BY <1>3, <2>1 DEF AdoptionInv, Candidate
  <2>3. PICK t \in Tasks : t = inb.cur
    BY <2>1
  <2>4. Adoptable(t)'
    BY <1>3, <2>1, <2>2, <2>3
  <2> QED BY <1>0, <2>3, <2>4
<1>4. ASSUME inb.pc = "footer"
      PROVE  LET i == scenario.mirror[inb.cur]
             IN /\ Live(i, issue') => ~HeldByOther(inb.cur, i)'
                /\ \A t \in Tasks \ raced' : scenario.mirror[t] = i => RidOf(link'[inb.cur]) = i
  <2>1. inb.cur \in Tasks /\ scenario.mirror[inb.cur] # None
    BY <1>4 DEF TypeInv, PassInHand, Candidate
  <2>2. PICK u \in Tasks, i \in Issues : u = inb.cur /\ i = scenario.mirror[inb.cur]
    BY <2>1, ScenarioType DEF TypeInv
  <2>3. Kin(scenario.key[u], i)
    BY <2>1, <2>2, MirrorKin DEF TypeInv
  <2>4. Live(i, issue) => ~HeldByOther(u, i)
    BY <1>4, <2>2 DEF AdoptionInv
  <2>5. Live(i, issue') => ~HeldByOther(u, i)'
    BY <1>4, <2>2, <2>3, <2>4, HolderStable
  <2>6. \A t \in Tasks \ raced' : scenario.mirror[t] = i => RidOf(link'[u]) = i
    BY <1>0, <1>4, <2>2 DEF AdoptionInv
  <2> QED BY <1>0, <2>2, <2>5, <2>6
<1>5. inb.pc \in {"mirror", "footer"} => inb.cur \notin inb.left
  BY DEF AdoptionInv
<1> QED BY <1>0, <1>1, <1>2, <1>3, <1>4, <1>5 DEF AdoptionInv, Live

\* What an invocation may change: the rows it has to do, and issues kin of them.
ProjectorEffect(p) ==
  /\ UNCHANGED inb /\ Noted /\ IssuesEvolve /\ SameHolders
  /\ \A t \in Tasks : RidOf(link'[t]) # RidOf(link[t]) => t \in proj[p].todo
  /\ \A t \in Tasks, i \in Issues : RidOf(link'[t]) = i /\ RidOf(link[t]) # i
       => /\ Kin(scenario.key[t], i)'
          /\ Clear(t)' /\ Live(i, issue') => issue'[i].taker \in {t, None}
  /\ \A i \in Issues : Live(i, issue') /\ issue'[i] # issue[i] =>
       \E u \in proj[p].todo :
         /\ Kin(scenario.key[u], i)' /\ issue'[i].taker = u /\ ~HeldByOther(u, i)'
         /\ \/ Live(i, issue) /\ issue'[i].key = issue[i].key
            \/ issue'[i].key = scenario.key[u]
  /\ \A i \in Issues : Keyless(i)' /\ issue'[i].taker # issue[i].taker
       => RidOf(link[issue'[i].taker]) = i
  /\ \A t \in Tasks, i \in Issues :
       Keyless(i)' /\ scenario.declared[t] = i => task'[t].body # Prose

LEMMA KinBefore ==
  ASSUME IssuesEvolve, UNCHANGED scenario, NEW t, NEW i \in Issues, Live(i, issue),
         Live(i, issue'), Kin(scenario.key[t], i)'
  PROVE  Kin(scenario.key[t], i)
BY DEF Kin, KeyClaims, Claims, IssuesEvolve, Live

LEMMA ProjectorOneWriter ==
  ASSUME TypeInv, TypeInv', OneWriter, IssuesAreKin, NEW p \in Projections, ProjectorEffect(p)
  PROVE  OneWriter'
<1>1. SUFFICES ASSUME NEW t \in Tasks, Clear(t)', NEW i \in Issues, RidOf(link'[t]) = i,
                      Live(i, issue')
               PROVE  issue'[i].taker \in {t, None}
  <2>1. ASSUME NEW t \in Tasks, Clear(t)', RidOf(link'[t]) # None, Live(RidOf(link'[t]), issue')
        PROVE  issue'[link'[t].rid].taker \in {t, None}
    <3>1. RidOf(link'[t]) \in Issues /\ link'[t].rid = RidOf(link'[t])
      BY <2>1 DEF TypeInv, Typed, Links, RidOf
    <3> QED BY <1>1, <2>1, <3>1
  <2> QED BY <2>1 DEF OneWriter, Clear, Live
<1>2. CASE issue'[i] = issue[i] /\ RidOf(link[t]) = i
  <2>1. Live(i, issue) /\ Clear(t) /\ i # None /\ link[t].rid = i
    BY <1>1, <1>2, NullsAssumption DEF Live, Clear, ProjectorEffect, Noted, RidOf
  <2> QED BY <1>2, <2>1 DEF OneWriter, Clear
<1>3. CASE RidOf(link[t]) # i
  BY <1>1, <1>3 DEF ProjectorEffect
<1>4. CASE issue'[i] # issue[i]
  <2>1. PICK u \in proj[p].todo : issue'[i].taker = u /\ ~HeldByOther(u, i)'
    BY <1>1, <1>4 DEF ProjectorEffect
  <2>2. t = u
    BY <1>1, <2>1 DEF HeldByOther
  <2> QED BY <2>1, <2>2
<1> QED BY <1>2, <1>3, <1>4

LEMMA ProjectorAdoption ==
  ASSUME TypeInv, TypeInv', AdoptionInv, OverlapsAreRaced, NEW p \in Projections, ProjectorEffect(p)
  PROVE  AdoptionInv'
<1>0. /\ UNCHANGED inb /\ Noted /\ IssuesEvolve /\ Typed
      /\ proj[p].todo \subseteq Projected /\ proj[p].todo \subseteq Tasks
  BY DEF ProjectorEffect, Projected, TypeInv, Typed, Invocations
<1>1. ASSUME NEW t \in Tasks, t \notin raced', inb.pc # "idle", scenario.mirror[t] # None
      PROVE  \A u \in proj[p].todo : ~Contend(t, u)
  <2>1. t \in Passed
    BY <1>1, MirrorsPassed
  <2> QED BY <1>0, <1>1, <2>1 DEF OverlapsAreRaced, Noted
<1>2. ASSUME NEW t \in Tasks, t \notin raced', inb.pc # "idle", scenario.mirror[t] # None, Adoptable(t)
      PROVE  Adoptable(t)'
  <2>1. PICK i \in Issues : i = scenario.mirror[t] /\ i \in Written
    BY <1>0, <1>2, ScenarioType
  <2>2. SUFFICES ASSUME Live(i, issue')
                 PROVE  \/ Keyless(i)'
                        \/ \E u \in Tasks \ {t} : scenario.mirror[u] = i /\ RidOf(link'[u]) = i
    BY <1>0, <2>1 DEF Adoptable, Live, Noted
  <2>3. Live(i, issue)
    BY <1>0, <2>1, <2>2 DEF IssuesEvolve
  <2>4. CASE Keyless(i)
    <3>1. CASE issue'[i] = issue[i]
      BY <2>4, <3>1 DEF Keyless, Live
    <3>2. CASE issue'[i] # issue[i]
      <4>1. PICK u \in proj[p].todo : Kin(scenario.key[u], i)'
        BY <2>2, <3>2 DEF ProjectorEffect
      <4>2. Kin(scenario.key[u], i)
        BY <1>0, <2>2, <2>3, <4>1, KinBefore DEF Noted
      <4>3. i \in KeyClaims(scenario.key[u])
        BY <2>1, <2>3, <4>2 DEF Kin
      <4>4. Contend(t, u)
        BY <1>0, <1>2, <2>1, <4>3, MirrorsContend
      <4> QED BY <1>1, <1>2, <4>4
    <3> QED BY <3>1, <3>2
  <2>5. CASE \E u \in Tasks \ {t} : scenario.mirror[u] = i /\ RidOf(link[u]) = i
    <3>1. PICK u \in Tasks \ {t} : scenario.mirror[u] = i /\ RidOf(link[u]) = i
      BY <2>5
    <3>2. CASE RidOf(link'[u]) = i
      BY <3>1, <3>2
    <3>3. CASE RidOf(link'[u]) # i
      <4>1. u \in proj[p].todo
        BY <3>1, <3>3 DEF ProjectorEffect
      <4>2. i \in KeyClaims(scenario.key[u])
        BY <1>2, <2>1, <3>1, ClaimsOfKey
      <4>3. Contend(t, u)
        BY <1>2, <2>1, <4>2, MirrorsContend
      <4> QED BY <1>1, <1>2, <4>1, <4>3
    <3> QED BY <3>2, <3>3
  <2> QED BY <1>2, <2>1, <2>3, <2>4, <2>5 DEF Adoptable
<1>3. ASSUME inb.pc = "footer"
      PROVE  NewHoldersApart(inb.cur)
  <2>1. inb.cur \in Tasks /\ scenario.mirror[inb.cur] # None
    BY <1>3 DEF TypeInv, PassInHand, Candidate
  <2>2. inb.cur \in Passed
    BY <1>3, <2>1, MirrorsPassed
  <2>3. SUFFICES ASSUME NEW t \in Tasks \ {inb.cur}, NEW i \in Issues, Clear(t)',
                        RidOf(link'[t]) = i, RidOf(link[t]) # i
                 PROVE  ~Contend(t, inb.cur) /\ Kin(scenario.key[t], i)'
    BY DEF NewHoldersApart
  <2>4. t \in Projected /\ Kin(scenario.key[t], i)'
    BY <1>0, <2>3 DEF ProjectorEffect
  <2>5. t \notin raced
    BY <1>0, <2>3 DEF Clear, Noted
  <2>6. ~Contend(inb.cur, t)
    BY <2>2, <2>4, <2>5 DEF OverlapsAreRaced
  <2> QED BY <2>4, <2>6, ContendSymmetric
<1>4. ASSUME NEW t \in Tasks, t \notin raced', inb.pc = "footer",
             scenario.mirror[t] = scenario.mirror[inb.cur],
             RidOf(link[inb.cur]) = scenario.mirror[inb.cur]
      PROVE  RidOf(link'[inb.cur]) = scenario.mirror[inb.cur]
  <2>1. inb.cur \in Tasks /\ scenario.mirror[inb.cur] # None
    BY <1>4 DEF TypeInv, PassInHand, Candidate
  <2>2. scenario.mirror[t] \in KeyClaims(scenario.key[inb.cur])
    BY <1>4, <2>1, ClaimsOfKey
  <2>3. Contend(t, inb.cur)
    BY <1>4, <2>1, <2>2, MirrorsContend
  <2>4. inb.cur \notin proj[p].todo
    BY <1>1, <1>4, <2>1, <2>3
  <2> QED BY <1>4, <2>1, <2>4 DEF ProjectorEffect
<1> QED BY <1>0, <1>2, <1>3, <1>4, AdoptionStable

\* The other invocations are not disturbed.
LEMMA OthersUndisturbed ==
  ASSUME TypeInv, TypeInv', WriterInv, NEW p \in Projections, ProjectorEffect(p),
         NEW r \in Projections \ {p}
  PROVE  NoOtherHolder(proj[r])'  \/ proj'[r] # proj[r]
<1> DEFINE q == proj[r]
           busy == {"owners", "listing", "upsert", "seed", "persist"}
<1>0. /\ q \in Invocations /\ InHand(q) /\ KinInvocation(q) /\ NoOtherHolder(q)
      /\ IssuesEvolve /\ Noted /\ proj[p].todo \subseteq Tasks
  BY DEF TypeInv, Typed, Invocations, WriterInv, IssuesAreKin, ProjectorEffect
<1>1. PICK s \in Invocations : s = q
  BY <1>0
<1>2. SUFFICES NoOtherHolder(s)'
  BY <1>1 DEF NoOtherHolder
<1>3. CASE s.pc \notin busy
  BY <1>3 DEF NoOtherHolder
<1>4. CASE s.pc \in busy
  <2>1. s.cur \in q.todo /\ s.cur \in Tasks
    BY <1>0, <1>1, <1>4 DEF InHand, AtWork, Invocations
  <2>2. \A t \in proj[p].todo : Contend(t, s.cur) => t \in raced /\ s.cur \in raced
    BY <2>1, ContendSymmetric DEF WriterInv, OverlapsAreRaced
  <2>3. NewHoldersApart(s.cur)
    <3>1. SUFFICES ASSUME NEW t \in Tasks \ {s.cur}, NEW i \in Issues, Clear(t)',
                          RidOf(link'[t]) = i, RidOf(link[t]) # i
                   PROVE  ~Contend(t, s.cur) /\ Kin(scenario.key[t], i)'
      BY DEF NewHoldersApart
    <3>2. t \in proj[p].todo /\ Kin(scenario.key[t], i)'
      BY <3>1 DEF ProjectorEffect
    <3>3. t \notin raced
      BY <1>0, <3>1 DEF Clear, Noted
    <3> QED BY <2>2, <3>2, <3>3
  <2>4. ASSUME s.pc \in {"seed", "persist"}, Clear(s.cur)',
               Live(s.plan.target, issue), Live(s.plan.target, issue')
        PROVE  issue'[s.plan.target].taker \in {issue[s.plan.target].taker, s.cur}
    <3>1. PICK i \in Issues : i = s.plan.target
      BY <1>0, <1>1, <2>4 DEF InHand
    <3>2. CASE issue'[i] # issue[i]
      <4>1. PICK u \in proj[p].todo : Kin(scenario.key[u], i)'
        BY <2>4, <3>1, <3>2 DEF ProjectorEffect
      <4>2. Kin(scenario.key[u], i)
        BY <1>0, <2>4, <3>1, <4>1, KinBefore DEF Noted
      <4>3. Kin(scenario.key[s.cur], i)
        BY <1>0, <1>1, <2>4, <3>1, NullsAssumption DEF KinInvocation
      <4>4. Contend(u, s.cur)
        BY <1>0, <2>1, <2>4, <3>1, <4>2, <4>3, KinContend
      <4> QED BY <1>0, <2>2, <2>4, <4>4 DEF Clear, Noted
    <3> QED BY <3>1, <3>2
  <2> QED BY <1>0, <1>1, <2>3, <2>4, NoOtherHolderStable
<1> QED BY <1>3, <1>4

\* What is to be shown of a step of an invocation.
LEMMA ProjectorWriter ==
  ASSUME TypeInv, TypeInv', WriterInv, NEW p \in Projections, ProjectorEffect(p),
         NEW new \in Invocations, proj' = [proj EXCEPT ![p] = new], new.todo \subseteq proj[p].todo,
         KinInvocation(new)', NoOtherHolder(new)', LinksStand',
         \A i \in Issues : Keyless(i)' => KeylessInvocation(new, i)'
  PROVE  WriterInv'
<1>0. /\ UNCHANGED inb /\ Noted /\ IssuesEvolve /\ SameHolders
      /\ \A r \in Projections : proj'[r] = IF r = p THEN new ELSE proj[r]
      /\ proj[p].todo \subseteq Tasks
  BY DEF ProjectorEffect, TypeInv, Typed, Invocations
<1>1. OverlapsAreRaced'
  <2>1. Passed' = Passed
    BY <1>0 DEF Passed, Noted
  <2> QED BY <1>0, <2>1, OverlapsStable DEF WriterInv, Noted
<1>2. IssuesAreKin'
  <2>1. \A t \in Tasks, i \in Issues :
           RidOf(link'[t]) = i => RidOf(link[t]) = i \/ Kin(scenario.key[t], i)'
    BY DEF ProjectorEffect
  <2>2. ASSUME NEW i \in Issues, Live(i, issue')
        PROVE  \/ Live(i, issue) /\ issue'[i].key = issue[i].key
               \/ issue'[i].key # None /\ Kin(issue[i].key, i)'
    <3>1. CASE issue'[i] = issue[i]
      BY <2>2, <3>1 DEF Live
    <3>2. CASE issue'[i] # issue[i]
      <4>1. PICK u \in proj[p].todo :
              /\ Kin(scenario.key[u], i)'
              /\ \/ Live(i, issue) /\ issue'[i].key = issue[i].key
                 \/ issue'[i].key = scenario.key[u]
        BY <2>2, <3>2 DEF ProjectorEffect
      <4>2. CASE issue'[i].key = scenario.key[u]
        <5>1. scenario.key[u] \in Keys /\ scenario'.key[u] = scenario.key[u]
          BY <1>0, ScenarioType DEF TypeInv, Noted
        <5>2. PICK k \in Keys : k = scenario.key[u]
          BY <5>1
        <5>3. Kin(k, i)'
          BY <4>1, <5>1, <5>2
        <5>4. issue'[i].key = k
          BY <4>2, <5>2
        <5> QED BY <5>3, <5>4, NullsAssumption
      <4> QED BY <4>1, <4>2
    <3> QED BY <3>1, <3>2
  <2>3. \A r \in Projections, q \in Invocations :
           proj'[r] = q => q = proj[r] \/ KinInvocation(q)'
    BY <1>0
  <2>4. link' \in [Tasks -> Links \cup {None}] /\ proj' \in [Projections -> Invocations]
    BY DEF TypeInv, Typed
  <2> QED BY <1>0, <2>1, <2>2, <2>3, <2>4, KinStep DEF WriterInv, Noted
<1>3. KeylessIsUntouched'
  <2>1. \A r \in Projections, q \in Invocations, i \in Issues :
           Keyless(i)' /\ proj'[r] = q => q = proj[r] \/ KeylessInvocation(q, i)'
    BY <1>0
  <2>2. KeylessIsUntouched
    BY DEF WriterInv
  <2>3. /\ \A i \in Issues : Keyless(i)' /\ issue'[i].taker # issue[i].taker
             => RidOf(link[issue'[i].taker]) = i
        /\ \A t \in Tasks, i \in Issues :
             Keyless(i)' /\ scenario.declared[t] = i => task'[t].body # Prose
    BY DEF ProjectorEffect
  <2> QED BY <1>0, <2>1, <2>2, <2>3, KeylessStep
<1>4. AdoptionInv' /\ OneWriter'
  BY ProjectorAdoption, ProjectorOneWriter DEF WriterInv
<1>5. ASSUME NEW r \in Projections PROVE NoOtherHolder(proj[r])'
  <2>1. CASE r = p
    BY <1>0, <2>1
  <2>2. CASE r # p
    BY <1>0, <2>2, OthersUndisturbed
  <2> QED BY <2>1, <2>2
<1> QED BY <1>1, <1>2, <1>3, <1>4, <1>5 DEF WriterInv

LEMMA LinksStandStep ==
  ASSUME TypeInv, LinksStand, UNCHANGED scenario, \A t \in Tasks : link[t] # None => link'[t] # None,
         NEW p \in Projections, NEW new, proj' = [proj EXCEPT ![p] = new], Stands(new)'
  PROVE  LinksStand'
<1>1. ASSUME NEW r \in Projections PROVE Stands(proj[r])'
  <2>1. CASE r = p
    BY <2>1 DEF TypeInv, Typed
  <2>2. CASE r # p
    <3>1. proj'[r] = proj[r]
      BY <2>2 DEF TypeInv, Typed
    <3>2. proj[r].pc \in {"owners", "listing", "upsert", "seed", "persist"} => proj[r].cur \in Tasks
      BY DEF TypeInv, Typed, InHand, AtWork, Invocations
    <3> QED BY <3>1, <3>2 DEF LinksStand, Stands
  <2> QED BY <2>1, <2>2
<1> QED BY <1>1 DEF LinksStand

\* A step of an invocation that writes no issue, no row and no resource id.
SameBoard ==
  /\ UNCHANGED <<scenario, issue, task, inb, raced>> /\ unread \subseteq unread'
  /\ \A t \in Tasks : RidOf(link'[t]) = RidOf(link[t])
  /\ \A t \in Tasks : link[t] # None => link'[t] # None

LEMMA SameBoardEffect ==
  ASSUME TypeInv, WriterInv, SameBoard, NEW p \in Projections
  PROVE  ProjectorEffect(p)
<1>1. UNCHANGED <<scenario, issue, task, inb, raced>> /\ unread \subseteq unread'
      /\ \A t \in Tasks : RidOf(link'[t]) = RidOf(link[t])
  BY DEF SameBoard
<1>2. IssuesEvolve /\ Noted /\ SameHolders
  BY <1>1, SameIssuesEvolve DEF Noted, SameHolders
<1>3. \A i \in Issues : Keyless(i)' <=> Keyless(i)
  BY <1>1 DEF Keyless, Live
<1>4. \A t \in Tasks, i \in Issues : Keyless(i)' /\ scenario.declared[t] = i => task'[t].body # Prose
  BY <1>1, <1>3 DEF WriterInv, KeylessIsUntouched
<1>5. \A i \in Issues : issue'[i] = issue[i]
  BY <1>1
<1> QED BY <1>1, <1>2, <1>4, <1>5 DEF ProjectorEffect

LEMMA SameBoardHolder ==
  ASSUME TypeInv, TypeInv', SameBoard, NEW q \in Invocations, InHand(q), KinInvocation(q),
         NoOtherHolder(q)
  PROVE  NoOtherHolder(q)'
<1>1. UNCHANGED <<scenario, issue, raced>> /\ unread \subseteq unread'
      /\ \A t \in Tasks : RidOf(link'[t]) = RidOf(link[t])
  BY DEF SameBoard
<1>2. IssuesEvolve /\ Noted
  BY <1>1, SameIssuesEvolve DEF Noted
<1>3. NewHoldersApart(q.cur)
  BY <1>1 DEF NewHoldersApart
<1> QED BY <1>1, <1>2, <1>3, NoOtherHolderStable

LEMMA SameBoardWriter ==
  ASSUME TypeInv, TypeInv', WriterInv, SameBoard, NEW p \in Projections,
         NEW new \in Invocations, InHand(new), proj' = [proj EXCEPT ![p] = new],
         new.todo \subseteq proj[p].todo,
         KinInvocation(new), NoOtherHolder(new)', Stands(new)',
         \A i \in Issues : Keyless(i) => KeylessInvocation(new, i)
  PROVE  WriterInv'
<1>1. ProjectorEffect(p)
  BY SameBoardEffect
<1>2. IssuesEvolve /\ Noted /\ SameHolders /\ UNCHANGED scenario
  BY <1>1 DEF ProjectorEffect, Noted
<1>3. KinInvocation(new)'
  BY <1>2, KinInvocationStable
<1>4. ASSUME NEW i \in Issues, Keyless(i)' PROVE KeylessInvocation(new, i)'
  <2>1. Keyless(i)
    BY <1>4 DEF SameBoard, Keyless, Live
  <2> QED BY <1>2, <1>4, <2>1, KeylessInvocationStable
<1>5. LinksStand'
  BY <1>2, LinksStandStep DEF WriterInv, SameBoard
<1> QED BY <1>1, <1>3, <1>4, <1>5, ProjectorWriter

\* The same of what the invocation makes of itself, in the terms of the state it saw.
LEMMA SameBoardProceeds ==
  ASSUME TypeInv, TypeInv', WriterInv, SameBoard, NEW p \in Projections,
         NEW new \in Invocations, InHand(new), proj' = [proj EXCEPT ![p] = new],
         new.todo \subseteq proj[p].todo, KinInvocation(new), NoOtherHolder(new),
         Stands(new) \/ (new.pc = "owners" /\ link'[new.cur] # None),
         \A i \in Issues : Keyless(i) => KeylessInvocation(new, i)
  PROVE  WriterInv'
<1>1. new.pc \in {"owners", "listing", "upsert", "seed", "persist"} => new.cur \in Tasks
  BY DEF InHand, AtWork, Invocations
<1>2. Stands(new)'
  BY <1>1 DEF Stands, SameBoard
<1>3. NoOtherHolder(new)'
  BY SameBoardHolder
<1> QED BY <1>2, <1>3, SameBoardWriter

\* An invocation that has not chosen its row has nothing in hand but the board it fetched.
LEMMA BetweenRows ==
  ASSUME NEW q \in Invocations, q.pc \in {"idle", "prepare", "link", "insert"}
  PROVE  NoOtherHolder(q)' /\ NoOtherHolder(q) /\ Stands(q)' /\ Stands(q)
BY DEF NoOtherHolder, Stands

LEMMA IdleWriter ==
  /\ IdleProjection.todo = {} /\ KinInvocation(IdleProjection) /\ NoOtherHolder(IdleProjection)'
  /\ KinInvocation(IdleProjection)' /\ Stands(IdleProjection)'
  /\ \A i : KeylessInvocation(IdleProjection, i) /\ KeylessInvocation(IdleProjection, i)'
<1>1. /\ IdleProjection.pc = "idle" /\ IdleProjection.todo = {} /\ IdleProjection.boot = NoBoot
  BY DEF IdleProjection
<1> HIDE DEF IdleProjection
<1> QED BY <1>1, IdleTypes, BetweenRows DEF KinInvocation, KeylessInvocation

\* A fetched board is that of Linear.
LEMMA ListingFacts ==
  ASSUME TypeInv, WriterInv, NEW b \in Listings
  PROVE  /\ b \in Boots
         /\ \A k \in Keys : b.ext[k] # None => Kin(k, b.ext[k])
         /\ \A i \in Issues : Keyless(i) =>
              /\ Live(i, b.at) /\ b.at[i].key = None /\ b.at[i].body = Prose
              /\ \A k \in Keys : b.ext[k] # i
<1>1. b \in Boots
  BY ListingTypes DEF TypeInv
<1>2. b.at = issue
  BY DEF Listings
<1>3. ASSUME NEW k \in Keys, b.ext[k] # None
      PROVE  b.ext[k] \in Issues /\ Live(b.ext[k], issue) /\ issue[b.ext[k]].key = k
  BY <1>3 DEF Listings
<1>4. ASSUME NEW k \in Keys, b.ext[k] # None PROVE Kin(k, b.ext[k])
  BY <1>3, <1>4, NullsAssumption DEF WriterInv, IssuesAreKin
<1>5. ASSUME NEW i \in Issues, Keyless(i)
      PROVE  /\ Live(i, b.at) /\ b.at[i].key = None /\ b.at[i].body = Prose
             /\ \A k \in Keys : b.ext[k] # i
  BY <1>2, <1>3, <1>5, NullsAssumption DEF WriterInv, KeylessIsUntouched, Keyless
<1> QED BY <1>1, <1>4, <1>5

LEMMA PrepareWriter ==
  ASSUME TypeInv, TypeInv', WriterInv, NEW p \in Projections, Prepare(p)
  PROVE  WriterInv'
<1>1. SameBoard
  BY DEF Prepare, SameBoard, history
<1>2. CASE Proceed(p, IdleProjection)
  BY <1>1, <1>2, IdleTypes, IdleWriter, SameBoardWriter DEF Proceed
<1>3. ASSUME NEW b \in Listings, Proceed(p, [proj[p] EXCEPT !.pc = "link", !.boot = b])
      PROVE  WriterInv'
  <2> DEFINE q == proj[p]
             new == [q EXCEPT !.pc = "link", !.boot = b]
  <2>1. q \in Invocations
    BY DEF TypeInv, Typed
  <2>2. b \in Boots
    BY ListingFacts
  <2>3. /\ new \in Invocations /\ new.pc = "link" /\ new.todo = q.todo /\ new.rows = q.rows
        /\ new.boot = b
    BY <2>1, <2>2 DEF Invocations, ProjectorPcs
  <2>4. proj' = [proj EXCEPT ![p] = new]
    BY <1>3 DEF Proceed
  <2> HIDE DEF new
  <2>5. InHand(new)
    BY <2>3 DEF InHand, AtWork
  <2>6. KinInvocation(new)
    BY <2>3, ListingFacts DEF KinInvocation
  <2>7. ASSUME NEW i \in Issues, Keyless(i) PROVE KeylessInvocation(new, i)
    <3>1. KeylessInvocation(q, i)
      BY <2>7 DEF WriterInv, KeylessIsUntouched
    <3> HIDE DEF q
    <3>2. \A t \in new.todo : scenario.declared[t] = i => new.rows[t].body # Prose
      BY <2>3, <3>1 DEF KeylessInvocation
    <3> QED BY <2>3, <2>7, <3>2, ListingFacts DEF KeylessInvocation
  <2> QED BY <1>1, <2>3, <2>4, <2>5, <2>6, <2>7, BetweenRows, SameBoardWriter
<1> QED BY <1>2, <1>3 DEF Prepare

LEMMA FindLinkWriter ==
  ASSUME TypeInv, TypeInv', WriterInv, NEW p \in Projections, NEW t \in Tasks, FindLink(p, t)
  PROVE  WriterInv'
<1> DEFINE q == proj[p]
           here == [q EXCEPT !.cur = t, !.known = link[t]]
           left == q.todo \ {t}
           rest == [q EXCEPT !.todo = left, !.rows[t] = NoRow]
<1>0. q \in Invocations /\ link[t] \in Links \cup {None} /\ t \in q.todo /\ q.pc = "link"
  BY DEF TypeInv, Typed, FindLink
<1>1. SameBoard
  BY DEF FindLink, SameBoard, history
<1>2. \/ Proceed(p, [here EXCEPT !.pc = "insert"])
      \/ Proceed(p, [here EXCEPT !.pc = "owners"]) /\ link[t] # None
      \/ Proceed(p, rest) \/ Proceed(p, IdleProjection)
  BY DEF FindLink
<1>3. /\ KinInvocation(q) /\ \A i \in Issues : Keyless(i) => KeylessInvocation(q, i)
  BY DEF WriterInv, IssuesAreKin, KeylessIsUntouched
<1>4. CASE Proceed(p, rest)
  <2>1. [q.rows EXCEPT ![t] = NoRow] \in [Tasks -> Rows]
    BY <1>0, IdleTypes DEF Invocations
  <2>2. rest = [q EXCEPT !.todo = left, !.rows = [q.rows EXCEPT ![t] = NoRow]]
    BY <1>0 DEF Invocations
  <2>3. left \subseteq q.todo /\ t \notin left /\ proj' = [proj EXCEPT ![p] = rest]
    BY <1>4 DEF Proceed
  <2> HIDE DEF q, left, rest
  <2>4. /\ rest \in Invocations /\ rest.pc = "link" /\ rest.todo = left /\ rest.boot = q.boot
        /\ \A u \in left : rest.rows[u] = q.rows[u]
    BY <1>0, <2>1, <2>2, <2>3 DEF Invocations
  <2>5. InHand(rest)
    BY <2>4 DEF InHand, AtWork
  <2>6. KinInvocation(rest) /\ \A i \in Issues : Keyless(i) => KeylessInvocation(rest, i)
    BY <1>3, <2>3, <2>4 DEF KinInvocation, KeylessInvocation
  <2> QED BY <1>1, <2>3, <2>4, <2>5, <2>6, BetweenRows, SameBoardWriter DEF q
<1>5. CASE Proceed(p, IdleProjection)
  BY <1>1, <1>5, IdleTypes, IdleWriter, SameBoardWriter DEF Proceed
<1>6. ASSUME NEW pc \in {"insert", "owners"}, pc = "owners" => link[t] # None,
             Proceed(p, [here EXCEPT !.pc = pc])
      PROVE  WriterInv'
  <2> DEFINE new == [here EXCEPT !.pc = pc]
  <2>0. proj' = [proj EXCEPT ![p] = new]
    BY <1>6 DEF Proceed
  <2> HIDE DEF q
  <2>1. /\ new \in Invocations /\ new.pc = pc /\ new.cur = t /\ new.todo = q.todo
        /\ new.known = link[t] /\ new.boot = q.boot /\ new.rows = q.rows
    BY <1>0, <1>6 DEF Invocations, ProjectorPcs
  <2> HIDE DEF new
  <2>2. InHand(new)
    BY <1>0, <1>6, <2>1 DEF InHand, AtWork
  <2>3. pc = "owners" => RidOf(link[t]) = link[t].rid
    BY <1>6 DEF RidOf
  <2>4. KinInvocation(new)
    <3>1. pc = "owners" /\ link[t].rid # None => Kin(scenario.key[t], link[t].rid)
      BY <2>3 DEF WriterInv, IssuesAreKin
    <3> QED BY <1>3, <1>6, <2>1, <3>1 DEF KinInvocation
  <2>5. NoOtherHolder(new)
    <3>1. ASSUME pc = "owners", link[t].rid # None
          PROVE  ~HeldByOther(t, link[t].rid)
      BY <2>3, <3>1 DEF HeldByOther, TypeInv, OneOwner
    <3> QED BY <1>6, <2>1, <3>1 DEF NoOtherHolder
  <2>6. ASSUME NEW i \in Issues, Keyless(i) PROVE KeylessInvocation(new, i)
    <3>1. KeylessInvocation(q, i)
      BY <1>3, <2>6
    <3> QED BY <1>6, <2>1, <2>3, <3>1 DEF KeylessInvocation
  <2>7. Stands(new)
    BY <1>6, <2>1 DEF Stands
  <2> QED BY <1>1, <2>0, <2>1, <2>2, <2>4, <2>5, <2>6, <2>7, SameBoardProceeds DEF q
<1> HIDE DEF here, rest
<1> QED BY <1>2, <1>4, <1>5, <1>6

LEMMA InsertLinkWriter ==
  ASSUME TypeInv, TypeInv', WriterInv, NEW p \in Projections, InsertLink(p)
  PROVE  WriterInv'
<1> DEFINE q == proj[p]
           new == [q EXCEPT !.pc = "owners", !.known = DeclaredLink]
<1>0. q \in Invocations /\ InHand(q) /\ q.pc = "insert" /\ link \in [Tasks -> Links \cup {None}]
  BY DEF TypeInv, Typed, InsertLink
<1>1. q.cur \in q.todo /\ q.cur \in Tasks
  BY <1>0 DEF InHand, AtWork, Invocations
<1>2. UNCHANGED <<scenario, task, issue, inb, raced, unread>>
  BY DEF InsertLink, history
<1>3. CASE Proceed(p, IdleProjection) /\ UNCHANGED link
  <2>1. SameBoard
    BY <1>2, <1>3 DEF SameBoard
  <2> QED BY <1>3, <2>1, IdleTypes, IdleWriter, SameBoardWriter DEF Proceed
<1>4. CASE /\ link[q.cur] = None /\ link' = [link EXCEPT ![q.cur] = DeclaredLink]
           /\ Proceed(p, new)
  <2>1. RidOf(link[q.cur]) = None /\ RidOf(link'[q.cur]) = None /\ link'[q.cur] # None
    BY <1>0, <1>1, <1>4, DeclaredLinkType, NullsAssumption DEF RidOf
  <2>2. SameBoard
    BY <1>0, <1>2, <1>4, <2>1 DEF SameBoard
  <2>3. proj' = [proj EXCEPT ![p] = new]
    BY <1>4 DEF Proceed
  <2>4. KinInvocation(q) /\ \A i \in Issues : Keyless(i) => KeylessInvocation(q, i)
    BY DEF WriterInv, IssuesAreKin, KeylessIsUntouched
  <2> HIDE DEF q
  <2>5. /\ new \in Invocations /\ new.pc = "owners" /\ new.cur = q.cur /\ new.todo = q.todo
        /\ new.known = DeclaredLink /\ new.boot = q.boot /\ new.rows = q.rows
    BY <1>0, DeclaredLinkType DEF Invocations, ProjectorPcs
  <2>6. DeclaredLink.rid = None
    BY DEF DeclaredLink
  <2> HIDE DEF new
  <2>7. InHand(new)
    BY <1>1, <2>5, DeclaredLinkType DEF InHand, AtWork
  <2>8. KinInvocation(new) /\ NoOtherHolder(new)
    BY <2>4, <2>5, <2>6 DEF KinInvocation, NoOtherHolder
  <2>9. ASSUME NEW i \in Issues, Keyless(i) PROVE KeylessInvocation(new, i)
    BY <2>1, <2>4, <2>5, <2>6, <2>9, NullsAssumption DEF KeylessInvocation
  <2>10. new.pc = "owners" /\ link'[new.cur] # None
    BY <2>1, <2>5
  <2> QED BY <2>2, <2>3, <2>5, <2>7, <2>8, <2>9, <2>10, SameBoardProceeds DEF q
<1> QED BY <1>3, <1>4 DEF InsertLink

\* What a plan may go for, once the owners are read and a board is at hand.
LEMMA PlanWriter ==
  ASSUME TypeInv, WriterInv, NEW q \in Invocations, NEW boot \in Boots, q.cur \in q.todo,
         q.known \in Links, link[q.cur] # None,
         q.known.rid # None => Kin(scenario.key[q.cur], q.known.rid),
         q.known.rid # None /\ Live(q.known.rid, issue) => ~HeldByOther(q.cur, q.known.rid),
         \A k \in Keys : boot.ext[k] # None => Kin(k, boot.ext[k]),
         \A i \in Issues : Keyless(i) =>
           /\ Live(i, boot.at) /\ boot.at[i].key = None /\ boot.at[i].body = Prose
           /\ \A k \in Keys : boot.ext[k] # i
           /\ \A t \in q.todo : scenario.declared[t] = i => q.rows[t].body # Prose
           /\ q.known.rid = i <=> RidOf(link[q.cur]) = i
  PROVE  LET new == Planned(q, boot)
         IN /\ KinInvocation(new) /\ Stands(new)
            /\ \A i \in Issues : Keyless(i) => KeylessInvocation(new, i)
            /\ (\A t \in Tasks \ {q.cur} :
                  Clear(t) /\ Contend(t, q.cur) => RidOf(link[t]) \in q.owned \cup {None})
               => NoOtherHolder(new)
<1> DEFINE u == q.cur
           plan == Plan(q, boot)
           byId == ByResourceId(q, boot)
           byFooter == ByFooter(q, boot)
           adopts == byId = None /\ byFooter = None /\ scenario.declared[u] # None
<1>1. /\ u \in Tasks /\ Typed /\ scenario.key[u] \in Keys
      /\ scenario.declared[u] \in Written \cup {None} /\ Written \subseteq Issues
  BY ScenarioType DEF Invocations, TypeInv
<1>2. plan \in Plans /\ byId \in Issues \cup {None} /\ byFooter \in Issues \cup {None}
  BY <1>1, PlanTypes, RungTypes
<1>3. byId # None => byId = q.known.rid /\ Live(byId, boot.at)
  BY DEF ByResourceId
<1>4. byFooter # None => byFooter = boot.ext[scenario.key[u]] /\ byFooter \notin q.owned
  BY DEF ByFooter
<1>5. /\ ~adopts => plan.target = (IF byId # None THEN byId ELSE byFooter)
      /\ adopts => /\ plan.target = scenario.declared[u]
                   /\ ~plan.refuses => plan.target \notin q.owned
      /\ plan.same => /\ plan.target # None /\ ~plan.refuses /\ plan.seeded = None
                      /\ boot.at[plan.target].body = q.rows[u].body
      /\ plan.seeded # None => adopts
  BY PlanFacts DEF MayAdopt
<1>6. /\ Planned(q, boot).plan = plan /\ Planned(q, boot).cur = u /\ Planned(q, boot).todo = q.todo
      /\ Planned(q, boot).rows = q.rows /\ Planned(q, boot).pc = "upsert"
      /\ Planned(q, boot).boot \in {NoBoot, boot}
  BY <1>1, PlannedTypes
<1> HIDE DEF plan, byId, byFooter
<1>7. plan.target # None => Kin(scenario.key[u], plan.target)
  <2>1. CASE adopts
    <3>1. plan.target \in Written /\ plan.target \in KeyClaims(scenario.key[u])
      BY <1>1, <1>5, <2>1, NullsAssumption, ClaimsOfKey
    <3> QED BY <3>1 DEF Kin
  <2>2. CASE ~adopts
    BY <1>1, <1>3, <1>4, <1>5, <2>2
  <2> QED BY <2>1, <2>2
<1>8. ASSUME \A t \in Tasks \ {u} :
               Clear(t) /\ Contend(t, u) => RidOf(link[t]) \in q.owned \cup {None},
             ~plan.refuses, plan.target # None, Live(plan.target, issue)
      PROVE  ~HeldByOther(u, plan.target)
  <2>1. CASE ~adopts /\ byId # None
    BY <1>3, <1>5, <1>8, <2>1
  <2>2. CASE adopts \/ byId = None
    <3>1. plan.target \notin q.owned /\ plan.target \in Issues
      BY <1>1, <1>2, <1>4, <1>5, <1>8, <2>2
    <3>2. SUFFICES ASSUME NEW t \in Tasks \ {u}, Clear(t), RidOf(link[t]) = plan.target
                   PROVE  FALSE
      BY DEF HeldByOther
    <3>3. Kin(scenario.key[t], plan.target)
      BY <1>8, <3>2, NullsAssumption DEF WriterInv, IssuesAreKin, RidOf
    <3>4. Contend(t, u)
      BY <1>1, <1>7, <1>8, <3>2, <3>3, KinContend
    <3> QED BY <1>8, <3>1, <3>2, <3>4
  <2> QED BY <2>1, <2>2
<1>9. ASSUME NEW i \in Issues, Keyless(i)
      PROVE  /\ RidOf(link[u]) = i => plan.target = i
             /\ plan.same /\ plan.target = i => RidOf(link[u]) = i
  <2>1. ASSUME RidOf(link[u]) = i PROVE plan.target = i
    <3>1. q.known.rid = i /\ Live(i, boot.at) /\ i # None
      BY <1>9, <2>1, NullsAssumption
    <3>2. byId = i
      BY <3>1 DEF ByResourceId, byId
    <3> QED BY <1>5, <3>1, <3>2
  <2>2. ASSUME plan.same, plan.target = i PROVE RidOf(link[u]) = i
    <3>1. CASE adopts
      BY <1>5, <1>9, <2>2, <3>1
    <3>2. CASE ~adopts /\ byId = None
      BY <1>1, <1>4, <1>5, <1>9, <2>2, <3>2
    <3>3. CASE ~adopts /\ byId # None
      BY <1>3, <1>5, <1>9, <2>2, <3>3
    <3> QED BY <3>1, <3>2, <3>3
  <2> QED BY <2>1, <2>2
<1> DEFINE new == Planned(q, boot)
<1> HIDE DEF new
<1>10. /\ new.plan = plan /\ new.cur = u /\ new.todo = q.todo /\ new.rows = q.rows
       /\ new.pc = "upsert" /\ new.boot \in {NoBoot, boot}
  BY <1>6 DEF new
<1>11. KinInvocation(new)
  BY <1>7, <1>10 DEF KinInvocation
<1>12. ASSUME \A t \in Tasks \ {u} :
                Clear(t) /\ Contend(t, u) => RidOf(link[t]) \in q.owned \cup {None}
       PROVE  NoOtherHolder(new)
  BY <1>8, <1>10, <1>12 DEF NoOtherHolder
<1>13. Stands(new)
  BY <1>5, <1>10 DEF Stands
<1>14. ASSUME NEW i \in Issues, Keyless(i) PROVE KeylessInvocation(new, i)
  BY <1>9, <1>10, <1>14 DEF KeylessInvocation
<1> QED BY <1>11, <1>12, <1>13, <1>14 DEF new

\* Once the owners could not be read, no row that contends is clear.
LEMMA UnreadHolder ==
  ASSUME TypeInv, WriterInv, SameBoard, NEW q \in Invocations, InHand(q), KinInvocation(q),
         q.pc \in {"listing", "upsert"}, \A t \in Tasks : Contend(q.cur, t) => t \in unread'
  PROVE  NoOtherHolder(q)'
<1> DEFINE u == q.cur
<1>1. /\ u \in Tasks /\ \A t \in Tasks : RidOf(link'[t]) = RidOf(link[t])
      /\ UNCHANGED <<scenario, issue>>
  BY DEF InHand, AtWork, Invocations, SameBoard
<1>2. ASSUME NEW i, Kin(scenario.key[u], i), Live(i, issue), i # None
      PROVE  ~HeldByOther(u, i)'
  <2>1. SUFFICES ASSUME NEW t \in Tasks \ {u}, Clear(t)', RidOf(link[t]) = i
                 PROVE  FALSE
    BY <1>1 DEF HeldByOther
  <2>2. Kin(scenario.key[t], i)
    BY <1>2, <2>1, NullsAssumption DEF WriterInv, IssuesAreKin, RidOf
  <2>3. Contend(u, t)
    BY <1>1, <1>2, <2>1, <2>2, KinContend
  <2> QED BY <2>1, <2>3 DEF Clear
<1>3. ASSUME q.pc = "listing", q.known.rid # None, Live(q.known.rid, issue)
      PROVE  ~HeldByOther(u, q.known.rid)'
  <2>1. PICK i : i = q.known.rid
    OBVIOUS
  <2> QED BY <1>2, <1>3, <2>1 DEF KinInvocation
<1>4. ASSUME NEW t \in Tasks \ {u}, Clear(t)', Contend(t, u)'
      PROVE  FALSE
  <2>1. Contend(t, u)
    BY <1>1, <1>4 DEF Contend, KeyClaims, Claims
  <2> QED BY <1>4, <2>1, ContendSymmetric DEF Clear
<1>5. ASSUME q.pc = "upsert", q.plan.target # None, Live(q.plan.target, issue)
      PROVE  ~HeldByOther(u, q.plan.target)'
  <2>1. PICK i : i = q.plan.target
    OBVIOUS
  <2> QED BY <1>2, <1>5, <2>1 DEF KinInvocation
<1> QED BY <1>1, <1>3, <1>4, <1>5 DEF NoOtherHolder, Live

\* The invocation that has read the owners, or failed to.
LEMMA ReadOwnersWriter ==
  ASSUME TypeInv, TypeInv', WriterInv, NEW p \in Projections, ReadOwners(p)
  PROVE  WriterInv'
<1> DEFINE q == proj[p]
           u == q.cur
<1>0. /\ q \in Invocations /\ u \in q.todo /\ q.known \in Links /\ q.pc = "owners"
      /\ Typed /\ u \in Tasks /\ KinInvocation(q) /\ NoOtherHolder(q) /\ link[u] # None
      /\ \A i \in Issues : Keyless(i) => KeylessInvocation(q, i)
  BY DEF TypeInv, Typed, ReadOwners, InHand, AtWork, Invocations, WriterInv, IssuesAreKin,
         KeylessIsUntouched, LinksStand, Stands
<1>1. SameBoard
  BY DEF ReadOwners, SameBoard
<1>2. OwnedByOthers(u) \subseteq Issues /\ \A t \in Tasks \ {u} : RidOf(link[t]) \in OwnedByOthers(u) \cup {None}
  BY <1>0 DEF OwnedByOthers, RidOf, Typed, Links
<1>3. PICK owned \in SUBSET Issues :
        /\ LET r == [q EXCEPT !.owned = owned]
           IN Proceed(p, IF r.boot = NoBoot THEN [r EXCEPT !.pc = "listing"] ELSE Planned(r, r.boot))
        /\ \/ owned = OwnedByOthers(u)
           \/ unread' = unread \cup {t \in Tasks : Contend(u, t)}
  <2> DEFINE Read(owned) ==
        LET r == [q EXCEPT !.owned = owned]
        IN Proceed(p, IF r.boot = NoBoot THEN [r EXCEPT !.pc = "listing"] ELSE Planned(r, r.boot))
  <2>1. \/ Read(OwnedByOthers(u))
        \/ Read({}) /\ unread' = unread \cup {t \in Tasks : Contend(u, t)}
    BY DEF ReadOwners
  <2> HIDE DEF Read
  <2>2. \E owned \in SUBSET Issues :
          Read(owned) /\ (\/ owned = OwnedByOthers(u)
                          \/ unread' = unread \cup {t \in Tasks : Contend(u, t)})
    BY <1>2, <2>1
  <2> QED BY <2>2 DEF Read
<1> DEFINE r == [q EXCEPT !.owned = owned]
<1>4. /\ r \in Invocations /\ r.cur = u /\ r.todo = q.todo /\ r.known = q.known /\ r.rows = q.rows
      /\ r.boot = q.boot /\ r.owned = owned /\ r.boot \in Boots \cup {None}
  <2> HIDE DEF q
  <2> QED BY <1>0 DEF Invocations
<1>5. Proceed(p, IF r.boot = NoBoot THEN [r EXCEPT !.pc = "listing"] ELSE Planned(r, r.boot))
  BY <1>3
<1>6. ASSUME NEW new \in Invocations, InHand(new), proj' = [proj EXCEPT ![p] = new],
             new.todo = q.todo, new.cur = u, new.pc \in {"listing", "upsert"},
             KinInvocation(new), Stands(new),
             owned = OwnedByOthers(u) => NoOtherHolder(new),
             \A i \in Issues : Keyless(i) => KeylessInvocation(new, i)
      PROVE  WriterInv'
  <2>1. CASE owned = OwnedByOthers(u)
    BY <1>1, <1>6, <2>1, SameBoardProceeds
  <2>2. CASE unread' = unread \cup {t \in Tasks : Contend(u, t)}
    <3>1. NoOtherHolder(new)'
      BY <1>1, <1>6, <2>2, UnreadHolder
    <3>2. Stands(new)'
      BY <1>0, <1>1, <1>6 DEF Stands, SameBoard
    <3> QED BY <1>1, <1>6, <3>1, <3>2, SameBoardWriter
  <2> QED BY <1>3, <2>1, <2>2
<1>7. /\ q.known.rid # None => Kin(scenario.key[u], q.known.rid)
      /\ q.known.rid # None /\ Live(q.known.rid, issue) => ~HeldByOther(u, q.known.rid)
  BY <1>0 DEF KinInvocation, NoOtherHolder
<1> HIDE DEF r, q
<1>8. CASE r.boot = NoBoot
  <2> DEFINE new == [r EXCEPT !.pc = "listing"]
  <2>1. /\ new \in Invocations /\ new.pc = "listing" /\ new.cur = u /\ new.todo = q.todo
        /\ new.known = q.known /\ new.owned = owned /\ new.rows = q.rows /\ new.boot = NoBoot
    BY <1>4, <1>8 DEF Invocations, ProjectorPcs
  <2>2. proj' = [proj EXCEPT ![p] = new]
    BY <1>5, <1>8 DEF Proceed
  <2> HIDE DEF new
  <2>3. InHand(new)
    BY <1>0, <2>1 DEF InHand, AtWork
  <2>4. KinInvocation(new) /\ Stands(new)
    BY <1>0, <1>7, <2>1 DEF KinInvocation, Stands
  <2>5. owned = OwnedByOthers(u) => NoOtherHolder(new)
    BY <1>2, <1>7, <2>1 DEF NoOtherHolder
  <2>6. ASSUME NEW i \in Issues, Keyless(i) PROVE KeylessInvocation(new, i)
    BY <1>0, <2>1, <2>6 DEF KeylessInvocation
  <2> QED BY <1>6, <2>1, <2>2, <2>3, <2>4, <2>5, <2>6
<1>9. CASE r.boot # NoBoot
  <2>1. r.boot \in Boots
    BY <1>4, <1>9 DEF NoBoot
  <2> DEFINE new == Planned(r, r.boot)
  <2>2. proj' = [proj EXCEPT ![p] = new]
    BY <1>5, <1>9 DEF Proceed
  <2>3. /\ new \in Invocations /\ InHand(new) /\ new.cur = u /\ new.todo = q.todo /\ new.pc = "upsert"
    BY <1>0, <1>4, <2>1, PlannedTypes
  <2>4. \A k \in Keys : r.boot.ext[k] # None => Kin(k, r.boot.ext[k])
    BY <1>0, <1>4, <1>9 DEF KinInvocation
  <2>5. \A i \in Issues : Keyless(i) =>
          /\ Live(i, r.boot.at) /\ r.boot.at[i].key = None /\ r.boot.at[i].body = Prose
          /\ \A k \in Keys : r.boot.ext[k] # i
          /\ \A t \in r.todo : scenario.declared[t] = i => r.rows[t].body # Prose
          /\ r.known.rid = i <=> RidOf(link[r.cur]) = i
    BY <1>0, <1>4, <1>9 DEF KeylessInvocation
  <2>6. /\ KinInvocation(new) /\ Stands(new)
        /\ \A i \in Issues : Keyless(i) => KeylessInvocation(new, i)
        /\ (\A t \in Tasks \ {u} : Clear(t) /\ Contend(t, u) => RidOf(link[t]) \in owned \cup {None})
           => NoOtherHolder(new)
    BY <1>0, <1>4, <1>7, <2>1, <2>4, <2>5, PlanWriter
  <2> HIDE DEF new
  <2> QED BY <1>2, <1>6, <2>2, <2>3, <2>6
<1> QED BY <1>8, <1>9

LEMMA FetchBootWriter ==
  ASSUME TypeInv, TypeInv', WriterInv, NEW p \in Projections, FetchBoot(p)
  PROVE  WriterInv'
<1> DEFINE q == proj[p]
           u == q.cur
<1>0. /\ q \in Invocations /\ u \in q.todo /\ q.known \in Links /\ q.pc = "listing"
      /\ Typed /\ KinInvocation(q) /\ NoOtherHolder(q) /\ link[u] # None
      /\ \A i \in Issues : Keyless(i) => KeylessInvocation(q, i)
  BY DEF TypeInv, Typed, FetchBoot, InHand, AtWork, Invocations, WriterInv, IssuesAreKin,
         KeylessIsUntouched, LinksStand, Stands
<1>1. SameBoard
  BY DEF FetchBoot, SameBoard, history
<1>2. PICK b \in Listings : Proceed(p, Planned(q, b))
  BY DEF FetchBoot
<1>3. /\ q.known.rid # None => Kin(scenario.key[u], q.known.rid)
      /\ q.known.rid # None /\ Live(q.known.rid, issue) => ~HeldByOther(u, q.known.rid)
      /\ \A t \in Tasks \ {u} : Clear(t) /\ Contend(t, u) => RidOf(link[t]) \in q.owned \cup {None}
  BY <1>0 DEF KinInvocation, NoOtherHolder
<1> HIDE DEF q
<1> DEFINE new == Planned(q, b)
<1>4. /\ b \in Boots /\ \A k \in Keys : b.ext[k] # None => Kin(k, b.ext[k])
      /\ \A i \in Issues : Keyless(i) =>
           /\ Live(i, b.at) /\ b.at[i].key = None /\ b.at[i].body = Prose
           /\ \A k \in Keys : b.ext[k] # i
           /\ \A t \in q.todo : scenario.declared[t] = i => q.rows[t].body # Prose
           /\ q.known.rid = i <=> RidOf(link[q.cur]) = i
  BY <1>0, ListingFacts DEF KeylessInvocation
<1>5. new \in Invocations /\ InHand(new) /\ new.todo = q.todo
  BY <1>0, <1>4, PlannedTypes
<1>6. /\ KinInvocation(new) /\ Stands(new) /\ NoOtherHolder(new)
      /\ \A i \in Issues : Keyless(i) => KeylessInvocation(new, i)
  BY <1>0, <1>3, <1>4, PlanWriter
<1>7. proj' = [proj EXCEPT ![p] = new]
  BY <1>2 DEF Proceed
<1> HIDE DEF new
<1> QED BY <1>1, <1>5, <1>6, <1>7, SameBoardProceeds DEF q

\* The batch goes on with what is left, or is over.
LEMMA FinishFacts ==
  ASSUME TypeInv, NEW p \in Projections, Finish(p)
  PROVE  \E new \in Invocations :
           /\ InHand(new) /\ proj' = [proj EXCEPT ![p] = new]
           /\ new.pc \in {"idle", "link"} /\ new.todo = proj[p].todo \ {proj[p].cur}
           /\ new.pc = "idle" => new.todo = {}
           /\ new.boot \in {NoBoot, proj[p].boot}
           /\ \A t \in new.todo : new.rows[t] = proj[p].rows[t]
<1> DEFINE q == proj[p]
           left == q.todo \ {q.cur}
           rows == [t \in Tasks |-> IF t \in left THEN q.rows[t] ELSE NoRow]
           next == [q EXCEPT !.pc = "link", !.todo = left, !.cur = None, !.rows = rows, !.plan = None]
<1>0. q \in Invocations
  BY DEF TypeInv, Typed
<1>1. CASE left = {}
  <2>1. IdleProjection.pc = "idle" /\ IdleProjection.todo = {} /\ IdleProjection.boot = NoBoot
    BY DEF IdleProjection
  <2>2. proj' = [proj EXCEPT ![p] = IdleProjection]
    BY <1>1 DEF Finish, Proceed
  <2> HIDE DEF IdleProjection
  <2> QED BY <1>1, <2>1, <2>2, IdleTypes
<1>2. CASE left # {}
  <2>1. proj' = [proj EXCEPT ![p] = next]
    BY <1>0, <1>2 DEF Finish, Proceed, Invocations
  <2>2. left \subseteq Tasks /\ rows \in [Tasks -> Rows] /\ left \subseteq q.todo
    BY <1>0, IdleTypes DEF Invocations
  <2>3. \A t \in left : rows[t] = q.rows[t]
    BY <2>2
  <2> HIDE DEF left, rows, q
  <2>4. /\ next \in Invocations /\ next.pc = "link" /\ next.todo = left /\ next.boot = q.boot
        /\ next.rows = rows
    BY <1>0, <2>2 DEF Invocations, ProjectorPcs
  <2> HIDE DEF next
  <2>5. InHand(next)
    BY <2>4 DEF InHand, AtWork
  <2> QED BY <2>1, <2>2, <2>3, <2>4, <2>5 DEF q, left
<1> QED BY <1>1, <1>2

LEMMA FinishWriter ==
  ASSUME TypeInv, TypeInv', WriterInv, NEW p \in Projections, Finish(p), ProjectorEffect(p),
         \A t \in Tasks : link[t] # None => link'[t] # None
  PROVE  WriterInv'
<1>1. PICK new \in Invocations :
        /\ InHand(new) /\ proj' = [proj EXCEPT ![p] = new]
        /\ new.pc \in {"idle", "link"} /\ new.todo \subseteq proj[p].todo
        /\ new.boot \in {NoBoot, proj[p].boot}
        /\ \A t \in new.todo : new.rows[t] = proj[p].rows[t]
  BY FinishFacts
<1>2. IssuesEvolve /\ Noted /\ SameHolders /\ UNCHANGED scenario
  BY DEF ProjectorEffect, Noted
<1>3. KinInvocation(new)'
  <2>1. KinInvocation(new)
    BY <1>1 DEF WriterInv, IssuesAreKin, KinInvocation
  <2> QED BY <1>1, <1>2, <2>1, KinInvocationStable
<1>4. ASSUME NEW i \in Issues, Keyless(i)' PROVE KeylessInvocation(new, i)'
  <2>1. Keyless(i)
    BY <1>2, <1>4 DEF IssuesEvolve, Keyless, Live
  <2>2. KeylessInvocation(proj[p], i)
    BY <2>1 DEF WriterInv, KeylessIsUntouched
  <2>3. KeylessInvocation(new, i)
    BY <1>1, <2>2 DEF KeylessInvocation
  <2> QED BY <1>1, <1>2, <1>4, <2>3, KeylessInvocationStable
<1>5. NoOtherHolder(new)' /\ Stands(new)'
  BY <1>1, BetweenRows
<1>6. LinksStand'
  BY <1>1, <1>2, <1>5, LinksStandStep DEF WriterInv
<1> QED BY <1>1, <1>3, <1>4, <1>5, <1>6, ProjectorWriter

\* What an invocation knows when it writes.
LEMMA UpsertFacts ==
  ASSUME TypeInv, WriterInv, NEW p \in Projections, proj[p].pc = "upsert"
  PROVE  LET q == proj[p]
         IN /\ q \in Invocations /\ q.cur \in q.todo /\ q.cur \in Tasks /\ q.plan \in Plans /\ InHand(q)
            /\ KinInvocation(q) /\ NoOtherHolder(q) /\ Stands(q) /\ link[q.cur] # None
            /\ scenario.key[q.cur] \in Keys /\ q.plan.target \in Issues \cup {None}
            /\ \A i \in Issues : Keyless(i) => KeylessInvocation(q, i)
            /\ q.plan.same => /\ q.plan.target \in Issues /\ ~q.plan.refuses /\ q.plan.seeded = None
<1> DEFINE q == proj[p]
<1>1. /\ q \in Invocations /\ q.cur \in q.todo /\ q.cur \in Tasks /\ q.plan \in Plans /\ InHand(q)
      /\ KinInvocation(q) /\ NoOtherHolder(q) /\ Stands(q)
      /\ \A i \in Issues : Keyless(i) => KeylessInvocation(q, i)
  BY DEF TypeInv, Typed, InHand, AtWork, Invocations, WriterInv, IssuesAreKin, KeylessIsUntouched,
         LinksStand
<1>2. scenario.key[q.cur] \in Keys
  BY <1>1, ScenarioType DEF TypeInv
<1>3. q.plan.target \in Issues \cup {None}
  BY <1>1 DEF Plans
<1>4. link[q.cur] # None
  BY <1>1 DEF Stands
<1>5. q.plan.same => q.plan.target \in Issues /\ ~q.plan.refuses /\ q.plan.seeded = None
  BY <1>1 DEF Stands, InHand
<1> QED BY <1>1, <1>2, <1>3, <1>4, <1>5

\* The issue i is the row's, and is the one its invocation found, if it found one.
Wrote(u, i) == issue[i].taker = u /\ issue[i].key = scenario.key[u] /\ issue[i].key # None
Found(q, i) == q.plan.target # None => i = q.plan.target

\* The issue that is written is the row's: nobody else holds it.
LEMMA WriteEffect ==
  ASSUME TypeInv, TypeInv', WriterInv, NEW p \in Projections, proj[p].pc = "upsert",
         NEW u \in Tasks, u = proj[p].cur,
         ~proj[p].plan.refuses, NEW i \in Targets(proj[p]),
         issue' = [issue EXCEPT ![i] = Projection(proj[p], i)],
         UNCHANGED <<scenario, task, link, inb, raced, unread>>
  PROVE  /\ ProjectorEffect(p) /\ i \in Issues /\ Live(i, issue') /\ Kin(scenario.key[u], i)'
         /\ ~HeldByOther(u, i)' /\ Wrote(u, i)' /\ Found(proj[p], i)
<1> DEFINE q == proj[p]
<1>1. /\ q \in Invocations /\ u \in q.todo /\ q.plan \in Plans /\ InHand(q)
      /\ KinInvocation(q) /\ NoOtherHolder(q) /\ scenario.key[u] \in Keys
  BY UpsertFacts
<1>2. /\ i \in Issues /\ issue \in Snapshots
      /\ \/ q.plan.target = None /\ i \notin Written /\ issue[i] = Unborn
         \/ i = q.plan.target /\ i # None /\ Live(i, issue)
  BY NullsAssumption DEF Targets, TypeInv, Typed
<1>3. /\ Projection(q, i) \in IssueRows /\ Projection(q, i).key = scenario.key[u]
      /\ Projection(q, i).taker = u
  <2>1. Projection(q, i) \in IssueRows
    BY <1>1, <1>2, ProjectionTypes DEF TypeInv, InHand
  <2> QED BY <2>1 DEF Projection
<1>4. /\ issue'[i].key = scenario.key[u] /\ issue'[i].taker = u /\ Live(i, issue')
      /\ issue'[i].key # None /\ issue'[i] # Unborn
      /\ \A j \in Issues \ {i} : issue'[j] = issue[j]
  BY <1>1, <1>2, <1>3, NullsAssumption DEF Snapshots, Live
<1>5. i = q.plan.target => Kin(scenario.key[u], i)
  BY <1>1, <1>2, NullsAssumption DEF KinInvocation
<1>6. IssuesEvolve
  <2>1. i \notin Written /\ Live(i, issue) => issue[i].key = scenario.key[u]
    BY <1>2, <1>5 DEF Kin, Live
  <2>2. ASSUME NEW j \in Issues
        PROVE  /\ issue[j] # Unborn => issue'[j] # Unborn
               /\ Live(j, issue') => Live(j, issue) \/ (j \notin Written /\ issue[j] = Unborn)
               /\ j \notin Written /\ Live(j, issue) /\ Live(j, issue') => issue'[j].key = issue[j].key
               /\ Live(j, issue') /\ issue'[j].key = None => Keyless(j) /\ issue'[j].body = issue[j].body
    <3>1. CASE j = i
      BY <1>2, <1>4, <2>1, <3>1
    <3>2. CASE j # i
      BY <1>4, <3>2 DEF Live, Keyless
    <3> QED BY <3>1, <3>2
  <2> QED BY <2>2 DEF IssuesEvolve
<1>7. Kin(scenario.key[u], i)'
  <2>1. CASE i = q.plan.target
    <3>1. PICK k : k = scenario.key[u]
      OBVIOUS
    <3>2. Kin(k, i)'
      BY <1>2, <1>5, <1>6, <2>1, <3>1, KinStable
    <3> QED BY <3>1, <3>2
  <2>2. CASE i # q.plan.target
    BY <1>2, <1>4, <2>2 DEF Kin
  <2> QED BY <2>1, <2>2
<1>8. ~HeldByOther(u, i)
  <2>1. CASE i = q.plan.target /\ Live(i, issue)
    BY <1>1, <1>2, <2>1, NullsAssumption DEF NoOtherHolder
  <2>2. CASE i \notin Written /\ issue[i] = Unborn
    BY <1>2, <2>2, NullsAssumption DEF HeldByOther, RidOf, WriterInv, IssuesAreKin, Kin
  <2> QED BY <1>2, <2>1, <2>2
<1>9. ~HeldByOther(u, i)'
  BY <1>8 DEF HeldByOther, Clear
<1>10. \A j \in Issues : Keyless(j)' => Keyless(j) /\ j # i
  BY <1>4, <1>6 DEF IssuesEvolve, Keyless
<1>11. ProjectorEffect(p)
  <2>1. Noted /\ SameHolders
    BY DEF Noted, SameHolders
  <2>2. \A j \in Issues : Live(j, issue') /\ issue'[j] # issue[j] => j = i
    BY <1>4
  <2>3. \A t \in Tasks, j \in Issues : Keyless(j)' /\ scenario.declared[t] = j => task'[t].body # Prose
    BY <1>10 DEF WriterInv, KeylessIsUntouched
  <2>4. \A j \in Issues : Keyless(j)' => issue'[j].taker = issue[j].taker
    BY <1>4, <1>10
  <2> QED BY <1>1, <1>4, <1>6, <1>7, <1>9, <2>1, <2>2, <2>3, <2>4 DEF ProjectorEffect
<1>12. Wrote(u, i)' /\ Found(q, i)
  BY <1>2, <1>4 DEF Wrote, Found
<1> QED BY <1>2, <1>4, <1>7, <1>9, <1>11, <1>12

\* The write is answered: the issue is the row's.
LEMMA WrittenWriter ==
  ASSUME TypeInv, TypeInv', WriterInv, NEW p \in Projections, proj[p].pc = "upsert",
         ~proj[p].plan.refuses, NEW i \in Targets(proj[p]),
         issue' = [issue EXCEPT ![i] = Projection(proj[p], i)], Answered(p, i, TRUE),
         UNCHANGED <<scenario, task, link, inb, raced, unread>>
  PROVE  WriterInv'
<1> DEFINE q == proj[p]
<1>0. PICK u \in Tasks : u = q.cur
  BY UpsertFacts
<1>1. /\ q \in Invocations /\ u \in q.todo /\ q.plan \in Plans /\ InHand(q)
      /\ KinInvocation(q) /\ Stands(q) /\ link[u] # None /\ scenario.key[u] \in Keys
      /\ \A j \in Issues : Keyless(j) => KeylessInvocation(q, j)
  BY <1>0, UpsertFacts
<1>2. /\ ProjectorEffect(p) /\ i \in Issues /\ Live(i, issue') /\ Kin(scenario.key[u], i)'
      /\ ~HeldByOther(u, i)' /\ issue'[i].taker = u /\ issue'[i].key # None
      /\ q.plan.target # None => i = q.plan.target
  <2>1. /\ ProjectorEffect(p) /\ i \in Issues /\ Live(i, issue') /\ Kin(scenario.key[u], i)'
        /\ ~HeldByOther(u, i)' /\ Wrote(u, i)' /\ Found(proj[p], i)
    BY <1>0, WriteEffect
  <2> QED BY <2>1 DEF Wrote, Found
<1>3. PICK new \in Invocations :
        /\ InHand(new) /\ proj' = [proj EXCEPT ![p] = new]
        /\ new.pc = IF q.plan.seeded = None THEN "persist" ELSE "seed"
        /\ new.todo = q.todo /\ new.rows = q.rows /\ new.cur = u
        /\ new.plan = [q.plan EXCEPT !.target = i]
        /\ new.boot = IF q.boot = NoBoot THEN q.boot
                      ELSE [at |-> [q.boot.at EXCEPT ![i] = Projection(q, i)],
                            ext |-> [q.boot.ext EXCEPT ![scenario.key[u]] = i]]
  <2>1. PICK new \in Invocations :
          InHand(new) /\ proj' = [proj EXCEPT ![p] = new] /\ HasAnswer(q, i, TRUE, new)
    BY <1>0, <1>1, <1>2, AnsweredTypes DEF TypeInv
  <2> HIDE DEF q
  <2> QED BY <1>0, <2>1 DEF HasAnswer
<1>4. new.plan.target = i /\ new.plan.seeded = q.plan.seeded
  BY <1>1, <1>3 DEF Plans
<1>5. IssuesEvolve /\ Noted /\ SameHolders /\ UNCHANGED scenario
  BY <1>2 DEF ProjectorEffect, Noted
<1>6. q.boot # NoBoot => q.boot \in Boots
  BY <1>1 DEF Invocations, NoBoot
<1>7. KinInvocation(new)'
  <2>1. ASSUME new.boot # NoBoot, NEW k \in Keys, new.boot.ext[k] # None
        PROVE  Kin(k, new.boot.ext[k])'
    <3>1. q.boot # NoBoot /\ q.boot.ext \in [Keys -> Issues \cup {None}]
      BY <1>3, <1>6, <2>1 DEF Boots
    <3>2. CASE k = scenario.key[u]
      <4>1. new.boot.ext[k] = i
        BY <1>3, <3>1, <3>2
      <4>2. Kin(k, i)'
        BY <1>2, <1>5, <3>2
      <4> QED BY <4>1, <4>2
    <3>3. CASE k # scenario.key[u]
      <4>1. new.boot.ext[k] = q.boot.ext[k]
        BY <1>3, <3>1, <3>3
      <4>2. PICK j \in Issues : j = new.boot.ext[k]
        BY <2>1, <3>1, <4>1
      <4>3. Kin(k, j)
        BY <1>1, <2>1, <3>1, <4>1, <4>2 DEF KinInvocation
      <4>4. Kin(k, j)'
        BY <1>5, <4>3, KinStable
      <4> QED BY <4>2, <4>4
    <3> QED BY <3>2, <3>3
  <2>2. Kin(scenario.key[new.cur], new.plan.target)'
    BY <1>2, <1>3, <1>4
  <2> QED BY <1>3, <2>1, <2>2 DEF KinInvocation
<1>8. NoOtherHolder(new)'
  BY <1>2, <1>3, <1>4 DEF NoOtherHolder
<1>9. LinksStand'
  <2>1. Stands(new)'
    <3>1. q.plan.seeded # None => i = scenario.declared[u] /\ i # None
      BY <1>0, <1>1, <1>2 DEF Stands
    <3>2. link' = link /\ scenario' = scenario
      BY <1>5
    <3> QED BY <1>1, <1>3, <1>4, <3>1, <3>2 DEF Stands
  <2> QED BY <1>3, <1>5, <2>1, LinksStandStep DEF WriterInv
<1>10. ASSUME NEW j \in Issues, Keyless(j)' PROVE KeylessInvocation(new, j)'
  <2>1. j # i /\ Keyless(j)
    BY <1>2, <1>5, <1>10 DEF IssuesEvolve, Keyless
  <2>2. KeylessInvocation(q, j)
    BY <1>1, <2>1
  <2>3. RidOf(link[u]) # j
    <3>1. RidOf(link[u]) = j => q.plan.target = j
      BY <1>0, <2>2 DEF KeylessInvocation
    <3> QED BY <1>2, <2>1, <3>1, NullsAssumption
  <2>4. new.boot # NoBoot => /\ Live(j, new.boot.at) /\ new.boot.at[j].key = None
                             /\ new.boot.at[j].body = Prose /\ \A k \in Keys : new.boot.ext[k] # j
    <3>1. CASE q.boot = NoBoot
      BY <1>3, <3>1
    <3>2. CASE q.boot # NoBoot
      <4>1. new.boot.at[j] = q.boot.at[j]
        BY <1>3, <1>6, <2>1, <3>2 DEF Boots, Snapshots
      <4>2. \A k \in Keys : new.boot.ext[k] \in {q.boot.ext[k], i}
        BY <1>3, <1>6, <3>2 DEF Boots
      <4> QED BY <2>1, <2>2, <3>2, <4>1, <4>2 DEF KeylessInvocation, Live
    <3> QED BY <3>1, <3>2
  <2>5. \A t \in new.todo : scenario.declared[t] = j => new.rows[t].body # Prose
    BY <1>3, <2>2 DEF KeylessInvocation
  <2>6. KeylessInvocation(new, j)
    BY <1>3, <1>4, <2>1, <2>3, <2>4, <2>5 DEF KeylessInvocation
  <2> QED BY <1>3, <1>5, <1>10, <2>6, KeylessInvocationStable
<1> QED BY <1>2, <1>3, <1>7, <1>8, <1>9, <1>10, ProjectorWriter

\* The issue is as the row wants it: it is the row's without a write.
LEMMA SameWriter ==
  ASSUME TypeInv, TypeInv', WriterInv, NEW p \in Projections, proj[p].pc = "upsert",
         proj[p].plan.same, Answered(p, proj[p].plan.target, FALSE),
         issue' = [issue EXCEPT ![proj[p].plan.target] =
                     IF Live(proj[p].plan.target, issue) THEN [@ EXCEPT !.taker = proj[p].cur] ELSE @],
         UNCHANGED <<scenario, task, link, inb, raced, unread>>
  PROVE  WriterInv'
<1> DEFINE q == proj[p]
<1>0. PICK u \in Tasks, i \in Issues : u = q.cur /\ i = q.plan.target
  BY UpsertFacts
<1>1. /\ q \in Invocations /\ u \in q.todo /\ q.plan \in Plans /\ InHand(q) /\ ~q.plan.refuses
      /\ KinInvocation(q) /\ NoOtherHolder(q) /\ link[u] # None /\ q.plan.seeded = None
      /\ \A j \in Issues : Keyless(j) => KeylessInvocation(q, j)
  BY <1>0, UpsertFacts
<1>2. Kin(scenario.key[u], i) /\ (Live(i, issue) => ~HeldByOther(u, i)) /\ i # None
  BY <1>0, <1>1, NullsAssumption DEF KinInvocation, NoOtherHolder
<1>3. /\ \A j \in Issues \ {i} : issue'[j] = issue[j]
      /\ ~Live(i, issue) => issue'[i] = issue[i]
      /\ Live(i, issue) => issue'[i] \in IssueRows /\ issue'[i] = [issue[i] EXCEPT !.taker = u]
  <2>1. Live(i, issue) => issue[i] \in IssueRows
    BY LiveIsRow DEF TypeInv, Typed
  <2>2. \A r \in IssueRows : [r EXCEPT !.taker = u] \in IssueRows
    BY DEF IssueRows
  <2>3. issue' = [issue EXCEPT ![i] = IF Live(i, issue) THEN [issue[i] EXCEPT !.taker = u] ELSE issue[i]]
    BY <1>0 DEF TypeInv, Typed, Snapshots
  <2> QED BY <2>1, <2>2, <2>3 DEF TypeInv, Typed, Snapshots
<1>4. Live(i, issue) => /\ Live(i, issue') /\ issue'[i].taker = u /\ issue'[i] # Unborn
                        /\ issue'[i].key = issue[i].key /\ issue'[i].body = issue[i].body
  <2>1. \A r \in IssueRows : LET s == [r EXCEPT !.taker = u]
                             IN s.taker = u /\ s.key = r.key /\ s.body = r.body
    BY DEF IssueRows
  <2>2. Live(i, issue) => issue[i] \in IssueRows
    BY LiveIsRow DEF TypeInv, Typed
  <2> QED BY <1>3, <2>1, <2>2, NullsAssumption DEF Live
<1>5. IssuesEvolve
  <2>1. ASSUME NEW j \in Issues
        PROVE  /\ issue[j] # Unborn => issue'[j] # Unborn
               /\ Live(j, issue') => Live(j, issue) \/ (j \notin Written /\ issue[j] = Unborn)
               /\ j \notin Written /\ Live(j, issue) /\ Live(j, issue') => issue'[j].key = issue[j].key
               /\ Live(j, issue') /\ issue'[j].key = None => Keyless(j) /\ issue'[j].body = issue[j].body
    <3>1. CASE j = i /\ Live(i, issue)
      BY <1>4, <3>1 DEF Keyless
    <3>2. CASE j # i \/ ~Live(i, issue)
      <4>1. issue'[j] = issue[j]
        BY <1>3, <3>2
      <4> QED BY <4>1 DEF Live, Keyless
    <3> QED BY <3>1, <3>2
  <2> QED BY <2>1 DEF IssuesEvolve
<1>6. Kin(scenario.key[u], i)'
  <2>1. PICK k : k = scenario.key[u]
    OBVIOUS
  <2>2. Kin(k, i)'
    BY <1>2, <1>5, <2>1, KinStable
  <2> QED BY <2>1, <2>2
<1>7. Live(i, issue') => Live(i, issue) /\ ~HeldByOther(u, i)'
  BY <1>2, <1>3 DEF HeldByOther, Clear, Live
<1>8. \A j \in Issues : Keyless(j)' => Keyless(j)
  BY <1>5 DEF IssuesEvolve, Keyless
<1>9. ProjectorEffect(p)
  <2>1. Noted /\ SameHolders
    BY DEF Noted, SameHolders
  <2>2. \A j \in Issues : issue'[j] # issue[j] => j = i
    BY <1>3
  <2>3. \A t \in Tasks, j \in Issues : Keyless(j)' /\ scenario.declared[t] = j => task'[t].body # Prose
    BY <1>8 DEF WriterInv, KeylessIsUntouched
  <2>4. ASSUME NEW j \in Issues, Keyless(j)', issue'[j].taker # issue[j].taker
        PROVE  RidOf(link[issue'[j].taker]) = j
    <3>1. j = i /\ Live(i, issue) /\ Keyless(j)
      BY <1>8, <2>2, <2>4 DEF Keyless
    <3>2. RidOf(link[u]) = i
      BY <1>0, <1>1, <3>1 DEF KeylessInvocation
    <3> QED BY <1>4, <3>1, <3>2
  <2> QED BY <1>1, <1>4, <1>5, <1>6, <1>7, <2>1, <2>2, <2>3, <2>4 DEF ProjectorEffect
<1>10. PICK new \in Invocations :
        /\ InHand(new) /\ proj' = [proj EXCEPT ![p] = new]
        /\ new.pc = IF q.plan.seeded = None THEN "persist" ELSE "seed"
        /\ new.todo = q.todo /\ new.rows = q.rows /\ new.cur = u
        /\ new.plan = [q.plan EXCEPT !.target = i] /\ new.boot = q.boot
  <2>1. PICK new \in Invocations :
          InHand(new) /\ proj' = [proj EXCEPT ![p] = new] /\ HasAnswer(q, i, FALSE, new)
    BY <1>0, <1>1, AnsweredTypes DEF TypeInv
  <2> HIDE DEF q
  <2> QED BY <1>0, <2>1 DEF HasAnswer
<1>11. new.plan.target = i /\ new.pc = "persist"
  BY <1>1, <1>10 DEF Plans
<1>12. /\ Noted /\ SameHolders /\ UNCHANGED scenario
  BY <1>9 DEF ProjectorEffect, Noted
<1>13. KinInvocation(new)'
  <2>1. KinInvocation(new)
    BY <1>1, <1>2, <1>10, <1>11 DEF KinInvocation
  <2> QED BY <1>5, <1>10, <1>12, <2>1, KinInvocationStable
<1>14. NoOtherHolder(new)'
  BY <1>4, <1>7, <1>10, <1>11 DEF NoOtherHolder
<1>15. LinksStand'
  <2>1. Stands(new)'
    BY <1>1, <1>10, <1>11 DEF Stands
  <2> QED BY <1>10, <1>12, <2>1, LinksStandStep DEF WriterInv
<1>16. ASSUME NEW j \in Issues, Keyless(j)' PROVE KeylessInvocation(new, j)'
  <2>1. KeylessInvocation(q, j)
    BY <1>1, <1>8, <1>16
  <2>2. KeylessInvocation(new, j)
    BY <1>0, <1>10, <1>11, <2>1 DEF KeylessInvocation
  <2> QED BY <1>5, <1>10, <1>12, <1>16, <2>2, KeylessInvocationStable
<1> QED BY <1>9, <1>10, <1>13, <1>14, <1>15, <1>16, ProjectorWriter

LEMMA UpsertWriter ==
  ASSUME TypeInv, TypeInv', WriterInv, NEW p \in Projections, Upsert(p)
  PROVE  WriterInv'
<1> DEFINE q == proj[p]
<1>1. q.pc = "upsert" /\ UNCHANGED <<scenario, task, link, inb, raced, unread>>
  BY DEF Upsert
<1>2. ASSUME NEW i \in Targets(q), ~q.plan.refuses, issue' = [issue EXCEPT ![i] = Projection(q, i)],
             Answered(p, i, TRUE) \/ Finish(p)
      PROVE  WriterInv'
  <2>1. CASE Answered(p, i, TRUE)
    BY <1>1, <1>2, <2>1, WrittenWriter
  <2>2. CASE Finish(p)
    <3>1. PICK u \in Tasks : u = q.cur
      BY <1>1, UpsertFacts
    <3>2. ProjectorEffect(p)
      BY <1>1, <1>2, <3>1, WriteEffect
    <3> QED BY <1>1, <2>2, <3>2, FinishWriter
  <2> QED BY <1>2, <2>1, <2>2
<1>3. CASE Finish(p) /\ UNCHANGED issue
  <2>1. ProjectorEffect(p)
    BY <1>1, <1>3, SameBoardEffect DEF SameBoard
  <2> QED BY <1>1, <1>3, <2>1, FinishWriter
<1>4. CASE /\ q.plan.same /\ Answered(p, q.plan.target, FALSE)
           /\ issue' = [issue EXCEPT ![q.plan.target] = IF Live(q.plan.target, issue)
                                                        THEN [@ EXCEPT !.taker = q.cur] ELSE @]
  BY <1>1, <1>4, SameWriter
<1> QED BY <1>2, <1>3, <1>4 DEF Upsert

\* The body of the issue is stored in a row that adopted it, whose issue has a footer by now.
LEMMA SeedWriter ==
  ASSUME TypeInv, TypeInv', WriterInv, NEW p \in Projections, Seed(p)
  PROVE  WriterInv'
<1> DEFINE q == proj[p]
           next == [q EXCEPT !.pc = "persist"]
<1>0. /\ q \in Invocations /\ q.cur \in q.todo /\ q.cur \in Tasks /\ q.plan \in Plans /\ q.pc = "seed"
      /\ InHand(q) /\ KinInvocation(q) /\ NoOtherHolder(q) /\ link[q.cur] # None
      /\ q.plan.target = scenario.declared[q.cur] /\ q.plan.target \in Issues
      /\ \A i \in Issues : Keyless(i) => KeylessInvocation(q, i)
  <2>1. /\ q \in Invocations /\ q.pc = "seed" /\ InHand(q) /\ KinInvocation(q) /\ NoOtherHolder(q)
        /\ Stands(q) /\ \A i \in Issues : Keyless(i) => KeylessInvocation(q, i)
    BY DEF TypeInv, Typed, Seed, WriterInv, IssuesAreKin, KeylessIsUntouched, LinksStand
  <2>2. /\ q.cur \in q.todo /\ q.cur \in Tasks /\ q.plan \in Plans /\ q.plan.target \in Issues
        /\ q.plan.seeded # None
    BY <2>1, NullsAssumption DEF InHand, AtWork, Invocations
  <2> HIDE DEF q
  <2> QED BY <2>1, <2>2 DEF Stands
<1>1. UNCHANGED <<scenario, link, issue, inb, raced, unread>>
  BY DEF Seed
<1>2. PICK new : new = next
  OBVIOUS
<1>3. proj' = [proj EXCEPT ![p] = new]
  BY <1>2 DEF Seed, Proceed
<1>4. /\ new \in Invocations /\ new.pc = "persist" /\ new.todo = q.todo /\ new.rows = q.rows
      /\ new.boot = q.boot /\ new.cur = q.cur /\ new.plan = q.plan
  <2> HIDE DEF q
  <2> QED BY <1>0, <1>2 DEF Invocations, ProjectorPcs
<1>5. IssuesEvolve /\ Noted /\ SameHolders
  BY <1>1, SameIssuesEvolve DEF Noted, SameHolders
<1>6. \A i \in Issues : Keyless(i)' <=> Keyless(i)
  BY <1>1 DEF Keyless, Live
<1>7. ASSUME NEW t \in Tasks, NEW i \in Issues, Keyless(i)', scenario.declared[t] = i
      PROVE  task'[t].body # Prose
  <2>1. Keyless(i) /\ task[t].body # Prose
    BY <1>6, <1>7 DEF WriterInv, KeylessIsUntouched
  <2>2. t # q.cur
    BY <1>0, <1>7, <2>1 DEF KeylessInvocation
  <2>3. task' = task \/ task' = [task EXCEPT ![q.cur].body = q.plan.seeded]
    BY DEF Seed
  <2> QED BY <2>1, <2>2, <2>3 DEF TypeInv, Typed
<1>8. ProjectorEffect(p)
  <2>1. \A i \in Issues : issue'[i] = issue[i]
    BY <1>1
  <2> QED BY <1>1, <1>5, <1>7, <2>1 DEF ProjectorEffect
<1>9. InHand(new)
  BY <1>0, <1>4 DEF InHand, AtWork
<1>10. KinInvocation(new) /\ NoOtherHolder(new)
  <2>1. ASSUME Live(q.plan.target, issue)
        PROVE  /\ ~HeldByOther(q.cur, q.plan.target)
               /\ Clear(q.cur) => issue[q.plan.target].taker = q.cur
    BY <1>0, <2>1, NullsAssumption DEF NoOtherHolder
  <2> QED BY <1>0, <1>4, <2>1 DEF KinInvocation, NoOtherHolder
<1>11. KinInvocation(new)'
  BY <1>1, <1>4, <1>5, <1>9, <1>10, KinInvocationStable
<1>12. NoOtherHolder(new)'
  <2>1. NewHoldersApart(new.cur)
    BY <1>1 DEF NewHoldersApart
  <2> QED BY <1>1, <1>4, <1>5, <1>9, <1>10, <2>1, NoOtherHolderStable
<1>13. LinksStand'
  <2>1. Stands(new)'
    BY <1>0, <1>1, <1>4 DEF Stands
  <2> QED BY <1>1, <1>3, <2>1, LinksStandStep DEF WriterInv
<1>14. ASSUME NEW i \in Issues, Keyless(i)' PROVE KeylessInvocation(new, i)'
  <2>1. KeylessInvocation(q, i)
    BY <1>0, <1>6, <1>14
  <2>2. KeylessInvocation(new, i)
    BY <1>0, <1>4, <2>1 DEF KeylessInvocation
  <2> QED BY <1>4, <1>5, <1>9, <1>14, <2>2, KeylessInvocationStable
<1> QED BY <1>3, <1>4, <1>8, <1>11, <1>12, <1>13, <1>14, ProjectorWriter

\* The issue that a link records was last taken for the row, if nothing ran over it.
LEMMA PersistWriter ==
  ASSUME TypeInv, TypeInv', WriterInv, NEW p \in Projections, Persist(p)
  PROVE  WriterInv'
<1> DEFINE q == proj[p]
<1>0. /\ q \in Invocations /\ q.cur \in q.todo /\ q.cur \in Tasks /\ q.plan \in Plans
      /\ q.pc = "persist" /\ KinInvocation(q) /\ NoOtherHolder(q)
      /\ q.plan.target \in Issues /\ link \in [Tasks -> Links \cup {None}]
      /\ \A i \in Issues : Keyless(i) => KeylessInvocation(q, i)
  BY DEF TypeInv, Typed, Persist, InHand, AtWork, Invocations, WriterInv, IssuesAreKin,
         KeylessIsUntouched, Plans
<1>1. UNCHANGED <<scenario, task, issue, inb, raced, unread>> /\ Finish(p)
  BY DEF Persist
<1>2. CASE UNCHANGED link
  <2>1. ProjectorEffect(p)
    BY <1>1, <1>2, SameBoardEffect DEF SameBoard
  <2> QED BY <1>1, <1>2, <2>1, FinishWriter
<1>3. CASE link' = [link EXCEPT ![q.cur] = Recorded(q)]
  <2>1. PICK u \in Tasks, i \in Issues : u = q.cur /\ i = q.plan.target
    BY <1>0
  <2>2. Recorded(q) \in Links /\ Recorded(q).rid = i
    BY <1>0, <2>1, RecordedTypes
  <2>3. RidOf(link'[u]) = i /\ link'[u] # None /\ \A t \in Tasks \ {u} : link'[t] = link[t]
    BY <1>0, <1>3, <2>1, <2>2, NullsAssumption DEF RidOf
  <2>4. \A t \in Tasks : link[t] # None => link'[t] # None
    BY <2>3
  <2>5. Kin(scenario.key[u], i)
    BY <1>0, <2>1, NullsAssumption DEF KinInvocation
  <2>6. IssuesEvolve /\ Noted
    BY <1>1, SameIssuesEvolve DEF Noted
  <2>7. Kin(scenario.key[u], i)'
    BY <1>1, <2>5 DEF Kin, KeyClaims, Claims, Live
  <2>8. Clear(u)' /\ Live(i, issue') => issue'[i].taker = u
    BY <1>0, <1>1, <2>1 DEF NoOtherHolder, Clear, Live
  <2>9. SameHolders
    <3>1. SUFFICES ASSUME NEW j \in Issues, NEW t \in Tasks, Keyless(j)'
                   PROVE  RidOf(link'[t]) = j <=> RidOf(link[t]) = j
      BY DEF SameHolders
    <3>2. Keyless(j)
      BY <1>1, <3>1 DEF Keyless, Live
    <3>3. i = j <=> RidOf(link[u]) = j
      BY <1>0, <2>1, <3>2 DEF KeylessInvocation
    <3> QED BY <2>3, <3>3 DEF RidOf
  <2>10. ProjectorEffect(p)
    <3>1. \A j \in Issues : issue'[j] = issue[j] /\ (Keyless(j)' => Keyless(j))
      BY <1>1 DEF Keyless, Live
    <3>2. \A t \in Tasks, j \in Issues : Keyless(j)' /\ scenario.declared[t] = j => task'[t].body # Prose
      BY <1>1, <3>1 DEF WriterInv, KeylessIsUntouched
    <3>3. \A t \in Tasks : RidOf(link'[t]) # RidOf(link[t]) => t = u
      BY <2>3 DEF RidOf
    <3>4. ASSUME NEW t \in Tasks, NEW j \in Issues, RidOf(link'[t]) = j, RidOf(link[t]) # j
          PROVE  /\ Kin(scenario.key[t], j)'
                 /\ Clear(t)' /\ Live(j, issue') => issue'[j].taker \in {t, None}
      <4>1. t = u /\ j = i
        BY <2>3, <3>3, <3>4
      <4> QED BY <2>7, <2>8, <4>1
    <3> QED BY <1>0, <1>1, <2>1, <2>6, <2>9, <3>1, <3>2, <3>3, <3>4 DEF ProjectorEffect
  <2> QED BY <1>1, <2>4, <2>10, FinishWriter
<1> QED BY <1>2, <1>3 DEF Persist

\* A step that leaves the invocations alone: it takes issues for rows that contend with
\* no row at work, or that meet one and have been noticed.
Elsewhere ==
  /\ UNCHANGED proj /\ Noted /\ IssuesEvolve
  /\ \A t \in Tasks : link[t] # None => link'[t] # None
  /\ \A t \in Tasks, i \in Issues : RidOf(link'[t]) = i /\ RidOf(link[t]) # i
       => Kin(scenario.key[t], i)' /\ (Clear(t)' => \A u \in Projected : ~Contend(t, u))
  /\ \A i \in Issues : Live(i, issue') => \/ Live(i, issue) /\ issue'[i].key = issue[i].key
                                          \/ issue'[i].key # None /\ Kin(issue[i].key, i)'
  /\ \A i \in Issues : Live(i, issue) /\ Live(i, issue') /\ issue'[i].taker # issue[i].taker
       => \E t \in Tasks : Kin(scenario.key[t], i) /\ \A u \in Projected : Contend(t, u) => u \in raced

LEMMA ElsewhereHolder ==
  ASSUME TypeInv, TypeInv', WriterInv, Elsewhere, NEW p \in Projections
  PROVE  NoOtherHolder(proj[p])'
<1>1. PICK s \in Invocations : s = proj[p]
  BY DEF TypeInv, Typed
<1>2. /\ InHand(s) /\ KinInvocation(s) /\ NoOtherHolder(s) /\ proj'[p] = s
      /\ IssuesEvolve /\ Noted
  BY <1>1 DEF TypeInv, WriterInv, IssuesAreKin, Elsewhere
<1>3. SUFFICES NoOtherHolder(s)'
  BY <1>2
<1>4. CASE s.pc \in {"idle", "prepare", "link", "insert"}
  BY <1>4, BetweenRows
<1>5. CASE s.pc \in {"owners", "listing", "upsert", "seed", "persist"}
  <2>1. s.cur \in Tasks /\ s.cur \in Projected
    BY <1>1, <1>2, <1>5 DEF InHand, AtWork, Invocations, Projected
  <2>2. NewHoldersApart(s.cur)
    BY <2>1 DEF NewHoldersApart, Elsewhere
  <2>3. ASSUME s.pc \in {"seed", "persist"}, Clear(s.cur)',
               Live(s.plan.target, issue), Live(s.plan.target, issue')
        PROVE  issue'[s.plan.target].taker \in {issue[s.plan.target].taker, s.cur}
    <3>1. PICK i \in Issues : i = s.plan.target
      BY <1>2, <2>3 DEF InHand
    <3>2. CASE issue'[i].taker # issue[i].taker
      <4>1. PICK t \in Tasks : Kin(scenario.key[t], i) /\ \A u \in Projected : Contend(t, u) => u \in raced
        BY <2>3, <3>1, <3>2 DEF Elsewhere
      <4>2. Kin(scenario.key[s.cur], i)
        BY <1>2, <2>3, <3>1, NullsAssumption DEF KinInvocation
      <4>3. Contend(t, s.cur)
        BY <2>1, <2>3, <3>1, <4>1, <4>2, KinContend
      <4> QED BY <1>2, <2>1, <2>3, <4>1, <4>3 DEF Clear, Noted
    <3> QED BY <3>1, <3>2
  <2> QED BY <1>2, <2>2, <2>3, NoOtherHolderStable
<1> QED BY <1>1, <1>4, <1>5 DEF Invocations, ProjectorPcs

LEMMA ElsewhereWriter ==
  ASSUME TypeInv, TypeInv', WriterInv, Elsewhere, OverlapsAreRaced', KeylessIsUntouched',
         AdoptionInv', OneWriter'
  PROVE  WriterInv'
<1>0. UNCHANGED proj /\ UNCHANGED scenario /\ IssuesEvolve
  BY DEF Elsewhere, Noted
<1>1. IssuesAreKin'
  <2>1. /\ \A t \in Tasks, i \in Issues :
              RidOf(link'[t]) = i => RidOf(link[t]) = i \/ Kin(scenario.key[t], i)'
        /\ \A i \in Issues : Live(i, issue') =>
             \/ Live(i, issue) /\ issue'[i].key = issue[i].key
             \/ issue'[i].key # None /\ Kin(issue[i].key, i)'
    BY DEF Elsewhere
  <2>2. link' \in [Tasks -> Links \cup {None}] /\ proj' \in [Projections -> Invocations]
    BY DEF TypeInv, Typed
  <2>3. \A p \in Projections, q \in Invocations :
           proj'[p] = q => q = proj[p] \/ KinInvocation(q)'
    BY <1>0
  <2> QED BY <1>0, <2>1, <2>2, <2>3, KinStep DEF WriterInv
<1>2. LinksStand'
  <2>1. \A t \in Tasks : link[t] # None => link'[t] # None
    BY DEF Elsewhere
  <2>2. \A p \in Projections : proj[p].pc \in {"owners", "listing", "upsert", "seed", "persist"}
                                 => proj[p].cur \in Tasks
    BY DEF TypeInv, Typed, InHand, AtWork, Invocations
  <2> QED BY <1>0, <2>1, <2>2 DEF WriterInv, LinksStand, Stands
<1>3. \A p \in Projections : NoOtherHolder(proj[p])'
  BY ElsewhereHolder
<1> QED BY <1>1, <1>2, <1>3 DEF WriterInv

\* The rows that hold an issue without a footer are the same, and its taker.
LEMMA ElsewhereKeyless ==
  ASSUME TypeInv, TypeInv', WriterInv, Noted, IssuesEvolve, UNCHANGED proj, SameHolders,
         \A i \in Issues : Keyless(i)' => issue'[i].taker = issue[i].taker,
         \A t \in Tasks, i \in Issues : Keyless(i)' /\ scenario.declared[t] = i => task'[t].body # Prose
  PROVE  KeylessIsUntouched'
<1>1. \A p \in Projections, q \in Invocations, i \in Issues :
         Keyless(i)' /\ proj'[p] = q => q = proj[p] \/ KeylessInvocation(q, i)'
  OBVIOUS
<1> QED BY <1>1, KeylessStep DEF WriterInv

\* Rows of the same takers stay written for by one.
LEMMA SameTakers ==
  ASSUME TypeInv, OneWriter, Noted, \A t \in Tasks : RidOf(link'[t]) = RidOf(link[t]),
         \A i \in Issues : Live(i, issue') => Live(i, issue) /\ issue'[i].taker = issue[i].taker
  PROVE  OneWriter'
<1>1. SUFFICES ASSUME NEW t \in Tasks, Clear(t)', RidOf(link'[t]) # None, Live(RidOf(link'[t]), issue')
               PROVE  issue'[link'[t].rid].taker \in {t, None}
  BY DEF OneWriter, Clear, Live
<1>2. /\ RidOf(link[t]) \in Issues /\ RidOf(link'[t]) = RidOf(link[t])
      /\ link'[t].rid = RidOf(link[t]) /\ link[t].rid = RidOf(link[t])
  BY <1>1, RidTypes DEF RidOf
<1>3. Clear(t)
  BY <1>1 DEF Clear, Noted
<1> QED BY <1>1, <1>2, <1>3 DEF OneWriter, Clear

\* A step of the pass that writes nothing but the status of a row and what its link records.
QuietPass ==
  /\ UNCHANGED <<scenario, issue, proj, unread>> /\ raced \subseteq raced'
  /\ \A t \in Tasks : /\ RidOf(link'[t]) = RidOf(link[t]) /\ task'[t].body = task[t].body
                      /\ link[t] # None => link'[t] # None

LEMMA QuietPassWriter ==
  ASSUME TypeInv, TypeInv', WriterInv, QuietPass, OverlapsAreRaced', AdoptionInv'
  PROVE  WriterInv'
<1>0. /\ UNCHANGED <<scenario, issue, proj, unread>> /\ raced \subseteq raced'
      /\ \A t \in Tasks : /\ RidOf(link'[t]) = RidOf(link[t]) /\ task'[t].body = task[t].body
                          /\ link[t] # None => link'[t] # None
  BY DEF QuietPass
<1>1. Noted /\ IssuesEvolve /\ SameHolders
  BY <1>0, SameIssuesEvolve DEF Noted, SameHolders
<1>2. Elsewhere
  <2>1. \A i \in Issues : issue'[i] = issue[i] /\ (Live(i, issue') => Live(i, issue))
    BY <1>0 DEF Live
  <2> QED BY <1>0, <1>1, <2>1 DEF Elsewhere
<1>3. OneWriter'
  BY <1>0, <1>1, SameTakers DEF WriterInv, Live
<1>4. KeylessIsUntouched'
  <2>1. \A i \in Issues : Keyless(i)' => Keyless(i) /\ issue'[i].taker = issue[i].taker
    BY <1>0 DEF Keyless, Live
  <2>2. \A t \in Tasks, i \in Issues : Keyless(i)' /\ scenario.declared[t] = i => task'[t].body # Prose
    BY <1>0, <2>1 DEF WriterInv, KeylessIsUntouched
  <2> QED BY <1>0, <1>1, <2>1, <2>2, ElsewhereKeyless
<1> QED BY <1>2, <1>3, <1>4, ElsewhereWriter

\* Adoption sees the same of an issue whose footer and holders stay.
LEMMA SameAdoptable ==
  ASSUME UNCHANGED scenario, NEW t \in Tasks, Adoptable(t), IssuesEvolve,
         scenario.mirror[t] \in Issues \cup {None},
         \A u \in Tasks : RidOf(link'[u]) = RidOf(link[u]) \/ RidOf(link[u]) = None,
         \A i \in Issues : Live(i, issue') /\ i \in Written => Live(i, issue) /\ issue'[i].key = issue[i].key,
         scenario.mirror[t] # None => scenario.mirror[t] \in Written, scenario.mirror[t] # None
  PROVE  Adoptable(t)'
<1>1. PICK i \in Issues : i = scenario.mirror[t] /\ i \in Written /\ i # None
  OBVIOUS
<1>2. SUFFICES ASSUME Live(i, issue')
               PROVE  \/ Keyless(i)'
                      \/ \E u \in Tasks \ {t} : scenario.mirror[u] = i /\ RidOf(link'[u]) = i
  BY <1>1 DEF Adoptable, Live
<1>3. Live(i, issue) /\ issue'[i].key = issue[i].key
  BY <1>1, <1>2
<1>4. CASE Keyless(i)
  BY <1>2, <1>3, <1>4 DEF Keyless, Live
<1>5. CASE \E u \in Tasks \ {t} : scenario.mirror[u] = i /\ RidOf(link[u]) = i
  BY <1>1, <1>5
<1> QED BY <1>1, <1>3, <1>4, <1>5 DEF Adoptable

LEMMA SameAdoption ==
  ASSUME TypeInv, TypeInv', AdoptionInv, IssuesEvolve, Noted, UNCHANGED inb,
         \A u \in Tasks : RidOf(link'[u]) = RidOf(link[u]),
         \A i \in Issues : Live(i, issue') /\ i \in Written => Live(i, issue) /\ issue'[i].key = issue[i].key
  PROVE  AdoptionInv'
<1>1. UNCHANGED scenario
  BY DEF Noted
<1>2. ASSUME NEW t \in Tasks, scenario.mirror[t] # None, Adoptable(t)
      PROVE  Adoptable(t)'
  <2>1. scenario.mirror[t] \in Issues \cup {None} /\ scenario.mirror[t] \in Written
    BY <1>2, ScenarioType DEF TypeInv
  <2> QED BY <1>1, <1>2, <2>1, SameAdoptable
<1>3. inb.pc = "footer" => NewHoldersApart(inb.cur)
  BY DEF NewHoldersApart
<1>4. inb.pc = "footer" => inb.cur \in Tasks
  BY DEF TypeInv, PassInHand
<1> QED BY <1>2, <1>3, <1>4, AdoptionStable

\* Members and people on the board.
LEMMA EditWriter ==
  ASSUME TypeInv, TypeInv', WriterInv, NEW t \in Tasks, Edit(t)
  PROVE  WriterInv'
<1>1. UNCHANGED <<scenario, link, issue, proj, inb, raced, unread>>
  BY DEF Edit, history
<1>2. Noted /\ IssuesEvolve /\ SameHolders
  BY <1>1, SameIssuesEvolve DEF Noted, SameHolders
<1>3. \A i \in Issues : issue'[i] = issue[i] /\ (Live(i, issue') <=> Live(i, issue))
  BY <1>1 DEF Live
<1>4. Elsewhere
  BY <1>1, <1>2, <1>3 DEF Elsewhere
<1>5. OverlapsAreRaced'
  <2>1. Passed' = Passed
    BY <1>1 DEF Passed
  <2> QED BY <1>1, <2>1, OverlapsStable DEF WriterInv
<1>6. KeylessIsUntouched'
  <2>1. ASSUME NEW u \in Tasks, NEW i \in Issues, Keyless(i)', scenario.declared[u] = i
        PROVE  task'[u].body # Prose
    <3>1. Keyless(i) /\ task[u].body # Prose
      BY <1>1, <2>1 DEF WriterInv, KeylessIsUntouched, Keyless, Live
    <3>2. \/ \E s \in Statuses : task' = [task EXCEPT ![t].status = s]
          \/ \E x \in Texts : task' = [task EXCEPT ![t].body = x]
      BY DEF Edit
    <3>3. \A x \in Texts : x # Prose
      BY PmAssumption
    <3>4. CASE \E s \in Statuses : task' = [task EXCEPT ![t].status = s]
      <4>1. PICK s \in Statuses : task' = [task EXCEPT ![t].status = s]
        BY <3>4
      <4>2. \A r \in Rows : [r EXCEPT !.status = s].body = r.body
        BY DEF Rows
      <4> QED BY <3>1, <4>1, <4>2 DEF TypeInv, Typed
    <3>5. CASE \E x \in Texts : task' = [task EXCEPT ![t].body = x]
      <4>1. PICK x \in Texts : task' = [task EXCEPT ![t].body = x]
        BY <3>5
      <4>2. \A r \in Rows : [r EXCEPT !.body = x].body = x
        BY DEF Rows
      <4> QED BY <3>1, <3>3, <4>1, <4>2 DEF TypeInv, Typed
    <3> QED BY <3>2, <3>4, <3>5
  <2>2. \A i \in Issues : Keyless(i)' => issue'[i].taker = issue[i].taker
    BY <1>3
  <2> QED BY <1>1, <1>2, <2>1, <2>2, ElsewhereKeyless
<1>7. AdoptionInv' /\ OneWriter'
  BY <1>1, <1>2, <1>3, SameAdoption, SameTakers DEF WriterInv
<1> QED BY <1>4, <1>5, <1>6, <1>7, ElsewhereWriter

\* A person leaves the footers, the takers and the bodies of the issues as they are.
LEMMA MoveLeaves ==
  ASSUME TypeInv, NEW i \in Issues, Move(i)
  PROVE  /\ UNCHANGED <<scenario, task, link, proj, inb, raced, unread, lost, kept>> /\ IssuesEvolve
         /\ \A j \in Issues : Live(j, issue') =>
              /\ Live(j, issue) /\ issue'[j].key = issue[j].key /\ issue'[j].taker = issue[j].taker
              /\ issue'[j].body = issue[j].body /\ (issue'[j].by = "person" \/ issue'[j] = issue[j])
<1>1. UNCHANGED <<scenario, task, link, proj, inb, raced, unread, lost, kept>>
  BY DEF Move, history
<1>2. ASSUME NEW j \in Issues, Live(j, issue')
      PROVE  /\ Live(j, issue) /\ issue'[j].key = issue[j].key /\ issue'[j].taker = issue[j].taker
             /\ issue'[j].body = issue[j].body /\ (issue'[j].by = "person" \/ issue'[j] = issue[j])
  <2>1. issue \in Snapshots
    BY DEF TypeInv, Typed
  <2>2. issue[i] \in IssueRows /\ Live(i, issue)
    BY <2>1, LiveIsRow DEF Move
  <2>3. CASE issue' = [issue EXCEPT ![i] = Gone]
    BY <1>2, <2>1, <2>3 DEF Live, Snapshots
  <2>4. CASE \E x \in Board \ {issue[i].state} : issue' = [issue EXCEPT ![i].state = x, ![i].by = "person"]
    <3>1. PICK x \in Board : issue' = [issue EXCEPT ![i].state = x, ![i].by = "person"]
      BY <2>4
    <3>2. \A r \in IssueRows : LET s == [r EXCEPT !.state = x, !.by = "person"]
                               IN s.key = r.key /\ s.taker = r.taker /\ s.body = r.body /\ s.by = "person"
      BY DEF IssueRows
    <3>3. issue' = [issue EXCEPT ![i] = [issue[i] EXCEPT !.state = x, !.by = "person"]]
      BY <2>1, <3>1 DEF Snapshots
    <3>4. CASE j = i
      BY <2>1, <2>2, <3>2, <3>3, <3>4 DEF Snapshots
    <3>5. CASE j # i
      BY <1>2, <2>1, <3>3, <3>5 DEF Snapshots, Live
    <3> QED BY <3>4, <3>5
  <2> QED BY <2>3, <2>4 DEF Move
<1>3. IssuesEvolve
  <2>1. ASSUME NEW j \in Issues, issue[j] # Unborn PROVE issue'[j] # Unborn
    <3>1. CASE j = i
      <4>1. issue'[i] # Unborn
        <5>1. issue' = [issue EXCEPT ![i] = Gone] => issue'[i] = Gone
          BY DEF TypeInv, Typed, Snapshots
        <5>2. issue' # [issue EXCEPT ![i] = Gone] => issue'[i] \in IssueRows
          <6>1. issue \in Snapshots /\ issue[i] \in IssueRows
            BY LiveIsRow DEF Move, TypeInv, Typed
          <6>2. SUFFICES ASSUME NEW x \in Board, issue' = [issue EXCEPT ![i].state = x, ![i].by = "person"]
                         PROVE  issue'[i] \in IssueRows
            BY DEF Move
          <6>3. \A r \in IssueRows : [r EXCEPT !.state = x, !.by = "person"] \in IssueRows
            BY DEF IssueRows
          <6>4. issue' = [issue EXCEPT ![i] = [issue[i] EXCEPT !.state = x, !.by = "person"]]
            BY <6>1, <6>2 DEF Snapshots
          <6> QED BY <6>1, <6>3, <6>4 DEF Snapshots
        <5> QED BY <5>1, <5>2, NullsAssumption
      <4> QED BY <3>1, <4>1
    <3>2. CASE j # i
      BY <2>1, <3>2 DEF Move, TypeInv, Typed, Snapshots
    <3> QED BY <3>1, <3>2
  <2> QED BY <1>2, <2>1 DEF IssuesEvolve, Keyless
<1> QED BY <1>1, <1>2, <1>3

LEMMA MoveWriter ==
  ASSUME TypeInv, TypeInv', WriterInv, NEW i \in Issues, Move(i)
  PROVE  WriterInv'
<1>1. UNCHANGED <<scenario, task, link, proj, inb, raced, unread>>
  BY MoveLeaves
<1>2. ASSUME NEW j \in Issues, Live(j, issue')
      PROVE  /\ Live(j, issue) /\ issue'[j].key = issue[j].key /\ issue'[j].taker = issue[j].taker
             /\ issue'[j].body = issue[j].body
  BY <1>2, MoveLeaves
<1>3. Noted /\ SameHolders
  BY <1>1 DEF Noted, SameHolders
<1>4. IssuesEvolve
  BY MoveLeaves
<1>5. Elsewhere
  BY <1>1, <1>2, <1>3, <1>4 DEF Elsewhere
<1>6. OverlapsAreRaced'
  <2>1. Passed' = Passed
    BY <1>1 DEF Passed
  <2> QED BY <1>1, <2>1, OverlapsStable DEF WriterInv
<1>7. KeylessIsUntouched'
  <2>1. \A j \in Issues : Keyless(j)' => Keyless(j) /\ issue'[j].taker = issue[j].taker
    BY <1>2 DEF Keyless
  <2>2. \A u \in Tasks, j \in Issues : Keyless(j)' /\ scenario.declared[u] = j => task'[u].body # Prose
    BY <1>1, <2>1 DEF WriterInv, KeylessIsUntouched
  <2> QED BY <1>1, <1>3, <1>4, <2>1, <2>2, ElsewhereKeyless
<1>8. AdoptionInv' /\ OneWriter'
  BY <1>1, <1>2, <1>3, <1>4, SameAdoption, SameTakers DEF WriterInv
<1> QED BY <1>5, <1>6, <1>7, <1>8, ElsewhereWriter

\* A new invocation meets those at work, and is noticed.
LEMMA BeginOverlaps ==
  ASSUME TypeInv, OverlapsAreRaced, NEW p \in Projections, NEW T \in SUBSET Tasks,
         NEW new, proj' = [proj EXCEPT ![p] = new], new.todo = T,
         raced' = raced \cup Meet(T, Projected \cup Passed), UNCHANGED <<scenario, inb>>
  PROVE  OverlapsAreRaced'
<1>1. \A r \in Projections : proj'[r] = IF r = p THEN new ELSE proj[r]
  BY DEF TypeInv, Typed
<1>2. \A t, u : Contend(t, u)' <=> Contend(t, u)
  BY DEF Contend, KeyClaims, Claims
<1>3. Passed' = Passed /\ \A u \in Projected' : u \in T \/ u \in Projected
  BY <1>1 DEF Passed, Projected
<1>4. ASSUME NEW t \in T, NEW u \in Projected \cup Passed, Contend(t, u) \/ Contend(u, t)
      PROVE  t \in raced' /\ u \in raced'
  BY <1>4, ContendSymmetric DEF Meet
<1>5. ASSUME NEW q \in Projections, NEW r \in Projections, q # r,
             NEW t \in proj'[q].todo, NEW u \in proj'[r].todo, Contend(t, u)
      PROVE  t \in raced'
  <2>1. CASE q # p /\ r # p
    BY <1>1, <1>5, <2>1 DEF OverlapsAreRaced
  <2>2. CASE q = p
    BY <1>1, <1>4, <1>5, <2>2 DEF Projected
  <2>3. CASE r = p
    BY <1>1, <1>4, <1>5, <2>3 DEF Projected
  <2> QED BY <2>1, <2>2, <2>3
<1>6. ASSUME NEW t \in Passed, NEW u \in Projected', Contend(t, u)
      PROVE  t \in raced' /\ u \in raced'
  BY <1>3, <1>4, <1>6 DEF OverlapsAreRaced
<1> QED BY <1>2, <1>3, <1>5, <1>6 DEF OverlapsAreRaced

LEMMA BeginWriter ==
  ASSUME TypeInv, TypeInv', WriterInv, NEW p \in Projections, NEW T \in SUBSET Tasks,
         NEW pc \in {"link", "prepare"}, Begin(p, T, pc),
         UNCHANGED <<scenario, task, link, issue, inb, unread>>
  PROVE  WriterInv'
<1> DEFINE rows == [t \in Tasks |-> IF t \in T THEN task[t] ELSE NoRow]
<1>1. PICK new : new = [IdleProjection EXCEPT !.pc = pc, !.todo = T, !.rows = rows]
  OBVIOUS
<1>2. proj' = [proj EXCEPT ![p] = new] /\ raced' = raced \cup Meet(T, Projected \cup Passed)
  BY <1>1 DEF Begin, Proceed
<1>3. \A r \in Projections : proj'[r] = IF r = p THEN new ELSE proj[r]
  BY <1>2 DEF TypeInv, Typed
<1>4. /\ new \in Invocations /\ new.pc = pc /\ new.todo = T /\ new.boot = NoBoot
      /\ \A t \in T : new.rows[t] = task[t]
  <2>1. new \in Invocations
    BY <1>3 DEF TypeInv, Typed
  <2> QED BY <1>1, <2>1 DEF IdleProjection
<1>5. Noted /\ IssuesEvolve /\ SameHolders
  BY <1>2, SameIssuesEvolve DEF Noted, SameHolders
<1>6. \A i \in Issues : issue'[i] = issue[i] /\ (Live(i, issue') <=> Live(i, issue))
                        /\ (Keyless(i)' <=> Keyless(i))
  BY DEF Live, Keyless
<1>7. OverlapsAreRaced'
  BY <1>2, <1>4, BeginOverlaps DEF WriterInv
<1>8. IssuesAreKin'
  <2>1. KinInvocation(new)'
    BY <1>4 DEF KinInvocation
  <2>2. \A r \in Projections, q \in Invocations : proj'[r] = q => q = proj[r] \/ KinInvocation(q)'
    BY <1>3, <2>1
  <2>3. link' \in [Tasks -> Links \cup {None}] /\ proj' \in [Projections -> Invocations]
    BY DEF TypeInv, Typed
  <2> QED BY <1>5, <1>6, <2>2, <2>3, KinStep DEF WriterInv
<1>9. KeylessIsUntouched'
  <2>1. ASSUME NEW i \in Issues, Keyless(i)' PROVE KeylessInvocation(new, i)'
    <3>1. \A t \in T : scenario.declared[t] = i => task[t].body # Prose
      BY <1>6, <2>1 DEF WriterInv, KeylessIsUntouched
    <3> QED BY <1>4, <3>1 DEF KeylessInvocation
  <2>2. \A r \in Projections, q \in Invocations, i \in Issues :
           Keyless(i)' /\ proj'[r] = q => q = proj[r] \/ KeylessInvocation(q, i)'
    BY <1>3, <2>1
  <2>3. \A t \in Tasks, i \in Issues : Keyless(i)' /\ scenario.declared[t] = i => task'[t].body # Prose
    BY <1>6 DEF WriterInv, KeylessIsUntouched
  <2> QED BY <1>5, <1>6, <2>2, <2>3, KeylessStep DEF WriterInv
<1>10. LinksStand'
  <2>1. Stands(new)'
    BY <1>4, BetweenRows
  <2> QED BY <1>2, <2>1, LinksStandStep DEF WriterInv
<1>11. AdoptionInv' /\ OneWriter'
  BY <1>5, <1>6, SameAdoption, SameTakers DEF WriterInv
<1>12. ASSUME NEW r \in Projections PROVE NoOtherHolder(proj[r])'
  <2>1. CASE r = p
    <3>1. NoOtherHolder(new)'
      BY <1>4, BetweenRows
    <3> QED BY <1>3, <2>1, <3>1
  <2>2. CASE r # p
    <3>1. PICK s \in Invocations : s = proj[r]
      BY DEF TypeInv, Typed
    <3>2. InHand(s) /\ KinInvocation(s) /\ NoOtherHolder(s) /\ proj'[r] = s
      BY <1>3, <2>2, <3>1 DEF TypeInv, WriterInv, IssuesAreKin
    <3>3. NewHoldersApart(s.cur)
      BY DEF NewHoldersApart
    <3>4. NoOtherHolder(s)'
      BY <1>5, <3>2, <3>3, NoOtherHolderStable
    <3> QED BY <3>2, <3>4
  <2> QED BY <2>1, <2>2
<1> QED BY <1>7, <1>8, <1>9, <1>10, <1>11, <1>12 DEF WriterInv

LEMMA CallbackWriter ==
  ASSUME TypeInv, TypeInv', WriterInv, NEW p \in Projections, NEW t \in Tasks, Callback(p, t)
  PROVE  WriterInv'
BY BeginWriter DEF Callback

LEMMA ProjectBoardWriter ==
  ASSUME TypeInv, TypeInv', WriterInv, NEW p \in Projections, NEW j \in Projects, ProjectBoard(p, j)
  PROVE  WriterInv'
<1>1. PICK T \in SUBSET Tasks : Begin(p, T, "prepare")
  <2>1. {t \in scenario.rows : scenario.project[t] = j} \subseteq Tasks
    BY ScenarioType DEF Scenario, TypeInv
  <2> QED BY <2>1 DEF ProjectBoard
<1> QED BY <1>1, BeginWriter DEF ProjectBoard

\* The pass begins, and meets every invocation.
LEMMA StartPassWriter ==
  ASSUME TypeInv, TypeInv', WriterInv, StartPass
  PROVE  WriterInv'
<1>1. /\ UNCHANGED <<scenario, task, link, issue, proj, unread>>
      /\ inb' = [IdlePass EXCEPT !.pc = "listed", !.seen = issue]
      /\ raced' = raced \cup Meet(Tasks, Projected)
  BY DEF StartPass, Continue
<1>2. inb'.pc = "listed" /\ inb' \in Passes
  BY <1>1 DEF IdlePass, TypeInv, Typed
<1>3. QuietPass
  BY <1>1 DEF QuietPass
<1>4. OverlapsAreRaced'
  <2>1. \A t, u : Contend(t, u)' <=> Contend(t, u)
    BY <1>1 DEF Contend, KeyClaims, Claims
  <2>2. Projected' = Projected /\ Passed' \subseteq Tasks
    <3>1. Projected' = Projected
      BY <1>1 DEF Projected
    <3>2. inb'.left \subseteq Tasks
      BY <1>2 DEF Passes
    <3>3. Passed' \subseteq Tasks
      BY <3>2 DEF Passed
    <3> QED BY <3>1, <3>3
  <2>3. ASSUME NEW t \in Tasks, NEW u \in Projected, Contend(t, u)
        PROVE  t \in raced' /\ u \in raced'
    BY <1>1, <2>3, ContendSymmetric DEF Meet
  <2> QED BY <1>1, <2>1, <2>2, <2>3 DEF WriterInv, OverlapsAreRaced
<1>5. AdoptionInv'
  BY <1>2 DEF AdoptionInv
<1> QED BY <1>3, <1>4, <1>5, QuietPassWriter

\* The pass goes on to fewer rows.
LEMMA PassOverlaps ==
  ASSUME OverlapsAreRaced, UNCHANGED <<scenario, proj>>, raced \subseteq raced', Passed' \subseteq Passed
  PROVE  OverlapsAreRaced'
BY OverlapsStable

LEMMA LoadingWriter ==
  ASSUME TypeInv, TypeInv', WriterInv, LoadLinks \/ LoadTasks
  PROVE  WriterInv'
<1>1. UNCHANGED <<scenario, task, link, issue, proj, unread, raced>>
  BY DEF LoadLinks, LoadTasks, history
<1>2. QuietPass
  BY <1>1 DEF QuietPass
<1>3. inb'.pc \in {"linked", "applying"} /\ inb.pc \in {"listed", "linked"} /\ inb' \in Passes
  BY DEF LoadLinks, LoadTasks, Continue, TypeInv, Typed, Passes
<1>4. Passed' \subseteq Passed
  BY <1>1, <1>3 DEF Passed, Passes
<1>5. AdoptionInv'
  BY <1>3 DEF AdoptionInv
<1> QED BY <1>1, <1>2, <1>4, <1>5, PassOverlaps, QuietPassWriter DEF WriterInv

\* A row that is applied keeps its body and its issue.
LEMMA ApplyRowLeaves ==
  ASSUME TypeInv, NEW t \in Tasks, ApplyRow(t)
  PROVE  /\ UNCHANGED <<scenario, issue, due, proj, raced, lost, unread, kept, overtaken>>
         /\ \A u \in Tasks : /\ RidOf(link'[u]) = RidOf(link[u]) /\ task'[u].body = task[u].body
                             /\ link[u] # None => link'[u] # None
<1>1. /\ UNCHANGED <<scenario, issue, due, proj, raced, lost, unread, kept, overtaken>>
      /\ t \in inb.left /\ inb.pc = "applying"
  BY DEF ApplyRow
<1>2. inb \in Passes
  BY DEF TypeInv, Typed
<1>3. link[t] \in Links /\ inb.links[t].rid \in Issues
  <2>1. RidOf(inb.links[t]) # None /\ inb.links[t] \in Links \cup {None}
    BY <1>1, <1>2 DEF TypeInv, PassInHand, Passes
  <2>2. link[t] # None
    BY <1>1, <2>1 DEF TypeInv, PassInHand, RidOf
  <2> QED BY <2>1, <2>2 DEF TypeInv, Typed, RidOf, Links
<1>4. ASSUME NEW u \in Tasks
      PROVE  /\ RidOf(link'[u]) = RidOf(link[u]) /\ task'[u].body = task[u].body
             /\ link[u] # None => link'[u] # None
  <2> DEFINE i == inb.links[t].rid
             state == inb.seen[i].state
  <2>1. CASE UNCHANGED <<task, link>>
    BY <2>1
  <2>2. CASE Live(i, inb.seen) /\ StatusOf(state) # None /\ ApplyStatus(t, state)
    <3>1. RidOf(link'[u]) = RidOf(link[u]) /\ (link[u] # None => link'[u] # None)
      BY <1>3, <2>2, ApplyStatusTypes DEF TypeInv
    <3>2. PICK st : task' = [task EXCEPT ![t].status = st]
      BY <2>2 DEF ApplyStatus
    <3>3. \A r \in Rows : [r EXCEPT !.status = st].body = r.body
      BY DEF Rows
    <3>4. task'[u].body = task[u].body
      BY <3>2, <3>3 DEF TypeInv, Typed
    <3> QED BY <3>1, <3>4
  <2> QED BY <2>1, <2>2 DEF ApplyRow
<1> QED BY <1>1, <1>4

LEMMA ApplyRowWriter ==
  ASSUME TypeInv, TypeInv', WriterInv, NEW t \in Tasks, ApplyRow(t)
  PROVE  WriterInv'
<1>1. UNCHANGED <<scenario, issue, proj, unread, raced>> /\ inb.pc = "applying" /\ t \in inb.left
  BY DEF ApplyRow, history
<1>2. inb'.pc = "applying" /\ inb'.left = inb.left \ {t} /\ inb \in Passes
  BY <1>1 DEF ApplyRow, Continue, TypeInv, Typed, Passes
<1>3. \A u \in Tasks : /\ RidOf(link'[u]) = RidOf(link[u]) /\ task'[u].body = task[u].body
                       /\ link[u] # None => link'[u] # None
  BY ApplyRowLeaves
<1>4. QuietPass
  BY <1>1, <1>3 DEF QuietPass
<1>5. Passed' \subseteq Passed
  BY <1>1, <1>2 DEF Passed
<1>6. AdoptionInv'
  BY <1>2 DEF AdoptionInv
<1> QED BY <1>1, <1>4, <1>5, <1>6, PassOverlaps, QuietPassWriter DEF WriterInv

\* The pass fetches the team and reads what links own: rows that are seen without a
\* footer may be adopted.
LEMMA FetchTeamWriter ==
  ASSUME TypeInv, TypeInv', WriterInv, FetchTeam
  PROVE  WriterInv'
<1>1. UNCHANGED <<scenario, task, link, issue, proj, unread, raced>> /\ inb.pc = "applying"
  BY DEF FetchTeam, history
<1>2. inb' = [IdlePass EXCEPT !.pc = "fetched", !.seen = issue]
  BY DEF FetchTeam, Continue
<1>3. inb'.pc = "fetched" /\ inb'.seen = issue /\ inb'.left = {}
  BY <1>2 DEF IdlePass
<1>4. QuietPass
  BY <1>1 DEF QuietPass
<1>5. Passed' \subseteq Passed
  BY <1>1, <1>3 DEF Passed
<1>6. AdoptionInv'
  <2>1. ASSUME NEW t \in Tasks, Candidate(t)' PROVE Adoptable(t)'
    BY <1>1, <1>3, <2>1 DEF Candidate, Adoptable, Keyless, Live
  <2> QED BY <1>3, <2>1 DEF AdoptionInv
<1> QED BY <1>1, <1>4, <1>5, <1>6, PassOverlaps, QuietPassWriter DEF WriterInv

LEMMA ReadOwnedWriter ==
  ASSUME TypeInv, TypeInv', WriterInv, ReadOwned
  PROVE  WriterInv'
<1>1. UNCHANGED <<scenario, task, link, issue, proj, unread, raced>> /\ inb.pc = "fetched"
  BY DEF ReadOwned, history
<1>2. PICK left \in SUBSET {t \in Tasks : Candidate(t)} :
        inb' = [inb EXCEPT !.pc = "adopting", !.left = left]
  <2> DEFINE owned == {RidOf(link[t]) : t \in Tasks}
             candidate(t) == LET i == scenario.mirror[t]
                             IN i # None /\ Live(i, inb.seen) /\ inb.seen[i].key = None /\ i \notin owned
  <2>1. inb' = [inb EXCEPT !.pc = "adopting", !.left = {t \in Tasks : candidate(t)}]
    BY DEF ReadOwned, Continue
  <2>2. {t \in Tasks : candidate(t)} \subseteq {t \in Tasks : Candidate(t)}
    BY DEF Candidate
  <2> QED BY <2>1, <2>2
<1>3. inb'.pc = "adopting" /\ inb'.left = left
  BY <1>2 DEF TypeInv, Typed, Passes
<1>4. QuietPass
  BY <1>1 DEF QuietPass
<1>5. Passed' \subseteq Passed
  BY <1>1, <1>2, <1>3 DEF Passed, Candidate
<1>6. AdoptionInv'
  <2>1. ASSUME NEW t \in left \ raced PROVE Adoptable(t)
    BY <1>1, <1>2, <2>1 DEF WriterInv, AdoptionInv
  <2>2. ASSUME NEW t \in left \ raced PROVE Adoptable(t)'
    BY <1>1, <2>1, <2>2 DEF Adoptable, Keyless, Live
  <2> QED BY <1>1, <1>3, <2>2 DEF AdoptionInv
<1> QED BY <1>1, <1>4, <1>5, <1>6, PassOverlaps, QuietPassWriter DEF WriterInv

LEMMA ReadMirrorWriter ==
  ASSUME TypeInv, TypeInv', WriterInv, NEW t \in Tasks, ReadMirror(t)
  PROVE  WriterInv'
<1>1. UNCHANGED <<scenario, task, link, issue, proj, unread, raced>> /\ inb.pc = "adopting" /\ t \in inb.left
  BY DEF ReadMirror, history
<1>2. inb'.pc = "mirror" /\ inb'.left = inb.left \ {t} /\ inb'.cur = t
  BY <1>1 DEF ReadMirror, Continue, TypeInv, Typed, Passes
<1>3. QuietPass
  BY <1>1 DEF QuietPass
<1>4. Passed' \subseteq Passed
  BY <1>1, <1>2 DEF Passed
<1>5. AdoptionInv'
  <2>1. ASSUME NEW u \in inb.left \ raced PROVE Adoptable(u)
    BY <1>1, <2>1 DEF WriterInv, AdoptionInv
  <2>2. ASSUME NEW u \in inb.left \ raced PROVE Adoptable(u)'
    BY <1>1, <2>1, <2>2 DEF Adoptable, Keyless, Live
  <2> QED BY <1>1, <1>2, <2>2 DEF AdoptionInv
<1> QED BY <1>1, <1>3, <1>4, <1>5, PassOverlaps, QuietPassWriter DEF WriterInv

\* The link by which the adopting transaction ties t to its issue.
AdoptingLink(t) ==
  [rid |-> scenario.mirror[t], fp |-> FingerprintOf(Adopted(t)),
   lps |-> inb.seen[scenario.mirror[t]].state, lpb |-> Adopted(t).status]

LEMMA AdoptedLink ==
  ASSUME TypeInv, Adopt, scenario.mirror[inb.cur] \notin OwnedByOthers(inb.cur),
         link' = [link EXCEPT ![inb.cur] = AdoptingLink(inb.cur)]
  PROVE  /\ inb.cur \in Tasks /\ scenario.mirror[inb.cur] \in Issues
         /\ RidOf(link'[inb.cur]) = scenario.mirror[inb.cur] /\ link'[inb.cur] # None
         /\ \A t \in Tasks \ {inb.cur} : link'[t] = link[t] /\ RidOf(link[t]) # scenario.mirror[inb.cur]
<1> DEFINE u == inb.cur
           i == scenario.mirror[u]
           new == AdoptingLink(u)
<1>1. u \in Tasks /\ i \in Issues /\ inb.seen[i] \in IssueRows /\ Adopted(u) \in Rows
  BY MirrorTypes DEF Adopt
<1>2. link' = [link EXCEPT ![u] = new]
  OBVIOUS
<1>3. new \in Links /\ new.rid = i
  <2>1. FingerprintOf(Adopted(u)) \in Fingerprints
    BY <1>1, FingerprintType DEF FingerprintOf, Rows
  <2> QED BY <1>1, <2>1, PmAssumption DEF AdoptingLink, Links, IssueRows, Rows
<1>4. \A t \in Tasks \ {u} : RidOf(link[t]) # i
  BY <1>1, NullsAssumption DEF OwnedByOthers
<1> HIDE DEF new
<1> QED BY <1>1, <1>2, <1>3, <1>4, NullsAssumption DEF RidOf, TypeInv, Typed

LEMMA AdoptWriter ==
  ASSUME TypeInv, TypeInv', WriterInv, Adopt
  PROVE  WriterInv'
<1>1. UNCHANGED <<scenario, issue, proj, unread, raced>> /\ inb.pc = "mirror"
  BY DEF Adopt
<1>2. PICK u \in Tasks, i \in Issues : /\ u = inb.cur /\ i = scenario.mirror[u] /\ i \in Written
                                       /\ i # None
  <2>1. inb.cur \in Tasks /\ scenario.mirror[inb.cur] \in Issues
    BY <1>1, MirrorTypes
  <2>2. scenario.mirror[inb.cur] \in Written
    BY <2>1, ScenarioType, NullsAssumption DEF TypeInv
  <2> QED BY <2>1, <2>2, NullsAssumption
<1>3. Noted /\ IssuesEvolve
  BY <1>1, SameIssuesEvolve DEF Noted
<1>4. \A j \in Issues : issue'[j] = issue[j] /\ (Live(j, issue') <=> Live(j, issue))
                        /\ (Keyless(j)' <=> Keyless(j))
  BY <1>1 DEF Live, Keyless
<1>5. CASE /\ inb' = [inb EXCEPT !.pc = "adopting", !.cur = None]
           /\ UNCHANGED <<link, task>>
  <2>1. inb'.pc = "adopting" /\ inb'.left = inb.left
    BY <1>5 DEF TypeInv, Typed, Passes
  <2>2. QuietPass
    BY <1>1, <1>5 DEF QuietPass
  <2>3. Passed' \subseteq Passed
    BY <1>1, <2>1 DEF Passed
  <2>4. AdoptionInv'
    <3>1. ASSUME NEW t \in inb.left \ raced PROVE Adoptable(t)
      BY <1>1, <3>1 DEF WriterInv, AdoptionInv
    <3>2. ASSUME NEW t \in inb.left \ raced PROVE Adoptable(t)'
      BY <1>1, <1>5, <3>1, <3>2 DEF Adoptable, Keyless, Live
    <3> QED BY <1>1, <2>1, <3>2 DEF AdoptionInv
  <2> QED BY <1>1, <2>2, <2>3, <2>4, PassOverlaps, QuietPassWriter DEF WriterInv
<1>6. CASE /\ link[u] = None /\ i \notin OwnedByOthers(u) /\ link' = [link EXCEPT ![u] = AdoptingLink(u)]
           /\ inb' = [inb EXCEPT !.pc = "footer"] /\ task' = [task EXCEPT ![u] = Adopted(u)]
  <2>1. /\ RidOf(link'[u]) = i /\ link'[u] # None
        /\ \A t \in Tasks \ {u} : link'[t] = link[t] /\ RidOf(link[t]) # i
    BY <1>2, <1>6, AdoptedLink
  <2>2. inb'.pc = "footer" /\ inb'.left = inb.left /\ inb'.cur = u
    BY <1>2, <1>6 DEF TypeInv, Typed, Passes
  <2>3. RidOf(link[u]) = None /\ scenario.declared[u] = None
    BY <1>6 DEF RidOf, WriterInv, LinksStand
  <2>4. \A t \in Projected : Contend(u, t) => u \in raced
    <3>1. u \in Passed
      BY <1>1, <1>2, MirrorsPassed
    <3> QED BY <3>1 DEF WriterInv, OverlapsAreRaced
  <2>5. Kin(scenario.key[u], i)'
    <3>1. Kin(scenario.key[u], i)
      BY <1>2, MirrorKin DEF TypeInv
    <3> QED BY <1>1, <3>1 DEF Kin, KeyClaims, Claims, Live
  <2>6. Elsewhere
    <3>1. \A t \in Tasks : link[t] # None => link'[t] # None
      BY <2>1
    <3>2. ASSUME NEW t \in Tasks, NEW j \in Issues, RidOf(link'[t]) = j, RidOf(link[t]) # j
          PROVE  Kin(scenario.key[t], j)' /\ (Clear(t)' => \A v \in Projected : ~Contend(t, v))
      <4>1. t = u /\ j = i
        BY <2>1, <3>2
      <4> QED BY <1>1, <2>4, <2>5, <4>1 DEF Clear
    <3> QED BY <1>1, <1>3, <1>4, <3>1, <3>2 DEF Elsewhere
  <2>7. OverlapsAreRaced'
    <3>1. Passed' \subseteq Passed
      BY <1>1, <2>2 DEF Passed
    <3> QED BY <1>1, <3>1, PassOverlaps DEF WriterInv
  <2>8. ASSUME NEW j \in Issues, Keyless(j)
        PROVE  (/\ issue[j].body = Prose
                /\ issue[j].taker # None => RidOf(link[issue[j].taker]) = j
                /\ \A t \in Tasks : /\ scenario.declared[t] = j => task[t].body # Prose
                                    /\ RidOf(link[t]) = j => scenario.declared[t] = None
                /\ \A p \in Projections : KeylessInvocation(proj[p], j))'
    <3>1. /\ issue[j].body = Prose
          /\ issue[j].taker # None => RidOf(link[issue[j].taker]) = j
          /\ \A t \in Tasks : /\ scenario.declared[t] = j => task[t].body # Prose
                              /\ RidOf(link[t]) = j => scenario.declared[t] = None
          /\ \A p \in Projections : KeylessInvocation(proj[p], j)
      BY <2>8 DEF WriterInv, KeylessIsUntouched
    <3>2. ASSUME issue'[j].taker # None PROVE RidOf(link'[issue'[j].taker]) = j
      <4>1. issue[j] \in IssueRows
        BY <2>8, LiveIsRow DEF Keyless, TypeInv, Typed
      <4>2. PICK t \in Tasks : t = issue[j].taker
        BY <1>4, <3>2, <4>1 DEF IssueRows
      <4>3. RidOf(link[t]) = j
        BY <1>4, <3>1, <3>2, <4>2
      <4>4. t # u
        BY <2>3, <4>3, NullsAssumption
      <4> QED BY <1>4, <2>1, <4>2, <4>3, <4>4
    <3>3. ASSUME NEW t \in Tasks
          PROVE  /\ scenario'.declared[t] = j => task'[t].body # Prose
                 /\ RidOf(link'[t]) = j => scenario'.declared[t] = None
      <4>1. CASE t = u
        BY <1>1, <2>3, <4>1, <2>8, NullsAssumption
      <4>2. CASE t # u
        <5>1. task'[t] = task[t] /\ link'[t] = link[t]
          BY <1>6, <2>1, <4>2 DEF TypeInv, Typed
        <5> QED BY <1>1, <3>1, <5>1
      <4> QED BY <4>1, <4>2
    <3>4. ASSUME NEW p \in Projections PROVE KeylessInvocation(proj[p], j)'
      <4>1. PICK s \in Invocations : s = proj[p]
        BY DEF TypeInv, Typed
      <4>2. proj'[p] = s /\ KeylessInvocation(s, j) /\ InHand(s) /\ Stands(s)
        BY <1>1, <3>1, <4>1 DEF TypeInv, WriterInv, LinksStand
      <4>3. s.pc \in {"owners", "listing", "upsert", "seed", "persist"} => s.cur \in Tasks \ {u}
        BY <1>6, <4>2 DEF Stands, InHand, AtWork, Invocations
      <4>4. s.pc \in {"owners", "listing", "upsert", "seed", "persist"} => link'[s.cur] = link[s.cur]
        BY <2>1, <4>3
      <4>5. KeylessInvocation(s, j)'
        BY <1>1, <4>2, <4>4 DEF KeylessInvocation, Live
      <4> QED BY <4>2, <4>5
    <3> QED BY <1>4, <3>1, <3>2, <3>3, <3>4
  <2>9. KeylessIsUntouched'
    BY <1>4, <2>8 DEF KeylessIsUntouched
  <2>10. AdoptionInv'
    <3>1. ASSUME NEW t \in inb.left, t \notin raced PROVE Adoptable(t)'
      <4>1. Adoptable(t) /\ t \in Tasks /\ scenario.mirror[t] # None
        <5>1. Candidate(t) /\ t \in Tasks
          BY <1>1, <3>1 DEF TypeInv, PassInHand, Typed, Passes
        <5>2. Adoptable(t)
          BY <1>1, <3>1 DEF WriterInv, AdoptionInv
        <5> QED BY <5>1, <5>2 DEF Candidate
      <4>2. \A v \in Tasks : RidOf(link'[v]) = RidOf(link[v]) \/ RidOf(link[v]) = None
        BY <2>1, <2>3
      <4>3. scenario.mirror[t] \in Issues \cup {None} /\ scenario.mirror[t] \in Written
        BY <4>1, ScenarioType DEF TypeInv
      <4> QED BY <1>1, <1>3, <1>4, <4>1, <4>2, <4>3, SameAdoptable
    <3>2. ~HeldByOther(u, i)'
      BY <2>1 DEF HeldByOther
    <3>3. inb.cur \notin inb.left
      BY <1>1 DEF WriterInv, AdoptionInv
    <3> QED BY <1>1, <1>2, <2>1, <2>2, <3>1, <3>2, <3>3 DEF AdoptionInv
  <2>11. OneWriter'
    <3>1. SUFFICES ASSUME NEW t \in Tasks, Clear(t)', RidOf(link'[t]) # None, Live(RidOf(link'[t]), issue')
                   PROVE  issue'[link'[t].rid].taker \in {t, None}
      BY DEF OneWriter, Clear, Live
    <3>2. CASE t # u
      <4>1. link'[t] = link[t]
        BY <2>1, <3>2
      <4> QED BY <1>1, <3>1, <4>1 DEF WriterInv, OneWriter, Clear, Live
    <3>3. CASE t = u
      <4>1. Live(i, issue) /\ u \notin raced /\ link'[u].rid = i
        BY <1>1, <1>2, <2>1, <3>1, <3>3 DEF Clear, RidOf, Live
      <4>2. Adoptable(u)
        BY <1>1, <1>2, <4>1 DEF WriterInv, AdoptionInv
      <4>3. Keyless(i)
        BY <1>2, <2>1, <4>1, <4>2 DEF Adoptable
      <4>4. issue[i].taker # None => RidOf(link[issue[i].taker]) = i
        BY <4>3 DEF WriterInv, KeylessIsUntouched
      <4>5. issue[i].taker \in Tasks \cup {None}
        BY <4>1, LiveIsRow DEF TypeInv, Typed, IssueRows
      <4>6. issue[i].taker \in {u, None}
        BY <2>1, <4>4, <4>5
      <4> QED BY <1>1, <3>3, <4>1, <4>6
    <3> QED BY <3>2, <3>3
  <2> QED BY <2>6, <2>7, <2>9, <2>10, <2>11, ElsewhereWriter
<1> QED BY <1>2, <1>5, <1>6 DEF Adopt, Continue, AdoptingLink

\* The footer of issue i is written for its mirror u.
Footed(u, i) ==
  /\ inb.pc = "footer" /\ u = inb.cur /\ i = scenario.mirror[u] /\ Live(i, issue)
  /\ issue' = [issue EXCEPT ![i].body = inb.seen[i].body, ![i].key = scenario.key[u], ![i].taker = u]

\* Its issue is taken, and stays in its state; every other issue stays as it is.
LEMMA FooterLeaves ==
  ASSUME TypeInv, TypeInv', NEW u \in Tasks, NEW i \in Issues, Footed(u, i)
  PROVE  /\ issue'[i].key = scenario.key[u] /\ issue'[i].taker = u /\ issue'[i].body = inb.seen[i].body
         /\ issue'[i].state = issue[i].state /\ issue'[i].by = issue[i].by
         /\ Live(i, issue') /\ IssuesEvolve
         /\ \A j \in Issues \ {i} : issue'[j] = issue[j]
<1>f. /\ inb.pc = "footer" /\ u = inb.cur /\ i = scenario.mirror[u] /\ Live(i, issue)
      /\ issue' = [issue EXCEPT ![i].body = inb.seen[i].body, ![i].key = scenario.key[u], ![i].taker = u]
  BY DEF Footed
<1>0. i \in Written
  <2>1. scenario.mirror[u] \in Written \cup {None}
    BY ScenarioType DEF TypeInv
  <2> QED BY <1>f, <2>1, NullsAssumption
<1>1. /\ issue' \in Snapshots /\ issue \in Snapshots /\ issue[i] \in IssueRows
      /\ scenario.key[u] \in Keys
  BY <1>f, LiveIsRow, ScenarioType DEF TypeInv, Typed
<1>2. /\ issue'[i].key = scenario.key[u] /\ issue'[i].taker = u /\ issue'[i].body = inb.seen[i].body
      /\ issue'[i].state = issue[i].state /\ issue'[i].by = issue[i].by /\ Live(i, issue')
      /\ \A j \in Issues \ {i} : issue'[j] = issue[j]
  <2>1. PICK x : x = inb.seen[i].body
    OBVIOUS
  <2>2. PICK k \in Keys : k = scenario.key[u]
    BY <1>1
  <2>3. issue' = [issue EXCEPT ![i] = [issue[i] EXCEPT !.body = x, !.key = k, !.taker = u]]
    BY <1>1, <1>f, <2>1, <2>2 DEF Snapshots
  <2>4. x \in Bodies
    <3>1. inb.seen[i] \in IssueRows
      BY <1>f, MirrorTypes
    <3> QED BY <2>1, <3>1 DEF IssueRows
  <2>5. \A r \in IssueRows : LET s == [r EXCEPT !.body = x, !.key = k, !.taker = u]
                             IN /\ s \in IssueRows /\ s.key = k /\ s.taker = u /\ s.body = x
                                /\ s.state = r.state /\ s.by = r.by
    BY <2>4 DEF IssueRows
  <2>6. issue'[i] = [issue[i] EXCEPT !.body = x, !.key = k, !.taker = u]
        /\ \A j \in Issues \ {i} : issue'[j] = issue[j]
    BY <1>1, <2>3 DEF Snapshots
  <2>7. /\ issue'[i] \in IssueRows /\ issue'[i].key = k /\ issue'[i].taker = u /\ issue'[i].body = x
        /\ issue'[i].state = issue[i].state /\ issue'[i].by = issue[i].by
    BY <1>1, <2>5, <2>6
  <2> QED BY <2>1, <2>2, <2>6, <2>7, NullsAssumption DEF Live
<1>3. IssuesEvolve
  <2>1. ASSUME NEW j \in Issues
        PROVE  /\ issue[j] # Unborn => issue'[j] # Unborn
               /\ Live(j, issue') => Live(j, issue) \/ (j \notin Written /\ issue[j] = Unborn)
               /\ j \notin Written /\ Live(j, issue) /\ Live(j, issue') => issue'[j].key = issue[j].key
               /\ Live(j, issue') /\ issue'[j].key = None => Keyless(j) /\ issue'[j].body = issue[j].body
    <3>1. CASE j = i
      <4>1. issue'[i].key # None
        BY <1>1, <1>2, NullsAssumption
      <4>2. Live(i, issue) /\ Live(i, issue')
        BY <1>f, <1>2
      <4>3. issue'[i] # Unborn
        BY <4>2 DEF Live
      <4> QED BY <1>0, <3>1, <4>1, <4>2, <4>3
    <3>2. CASE j # i
      BY <1>2, <3>2 DEF Live, Keyless
    <3> QED BY <3>1, <3>2
  <2> QED BY <2>1 DEF IssuesEvolve
<1> QED BY <1>2, <1>3

\* The footer is written over an issue that no other row holds, and whose other mirrors
\* can be adopted no more.
LEMMA StampFooterWriter ==
  ASSUME TypeInv, TypeInv', WriterInv, StampFooter
  PROVE  WriterInv'
<1>1. /\ UNCHANGED <<scenario, task, link, proj, unread, raced>> /\ inb.pc = "footer"
      /\ inb' = [inb EXCEPT !.pc = "adopting", !.cur = None]
  BY DEF StampFooter, Continue, history
<1>2. PICK u \in Tasks, i \in Issues : /\ u = inb.cur /\ i = scenario.mirror[u] /\ i \in Written
                                       /\ i # None
  <2>1. inb.cur \in Tasks /\ scenario.mirror[inb.cur] \in Issues
    BY <1>1, MirrorTypes
  <2>2. scenario.mirror[inb.cur] \in Written
    BY <2>1, ScenarioType, NullsAssumption DEF TypeInv
  <2> QED BY <2>1, <2>2, NullsAssumption
<1>3. inb'.pc = "adopting" /\ inb'.left = inb.left
  BY <1>1 DEF TypeInv, Typed, Passes
<1>4. OverlapsAreRaced'
  <2>1. Passed' \subseteq Passed
    BY <1>1, <1>3 DEF Passed
  <2> QED BY <1>1, <2>1, PassOverlaps DEF WriterInv
<1>5. ASSUME NEW t \in inb.left, t \notin raced
      PROVE  /\ t \in Tasks /\ t # u /\ scenario.mirror[t] \in Written /\ scenario.mirror[t] # None
             /\ Adoptable(t)
  <2>1. Candidate(t) /\ t \in Tasks
    BY <1>1, <1>5 DEF TypeInv, PassInHand, Typed, Passes
  <2>2. Adoptable(t) /\ inb.cur \notin inb.left
    BY <1>1, <1>5 DEF WriterInv, AdoptionInv
  <2>3. scenario.mirror[t] \in Written
    BY <2>1, ScenarioType DEF Candidate, TypeInv
  <2> QED BY <1>2, <1>5, <2>1, <2>2, <2>3 DEF Candidate
<1>6. CASE UNCHANGED issue
  <2>1. QuietPass
    BY <1>1, <1>6 DEF QuietPass
  <2>2. AdoptionInv'
    <3>1. ASSUME NEW t \in inb.left \ raced PROVE Adoptable(t)'
      BY <1>1, <1>5, <1>6, <3>1 DEF Adoptable, Keyless, Live
    <3> QED BY <1>1, <1>3, <3>1 DEF AdoptionInv
  <2> QED BY <1>4, <2>1, <2>2, QuietPassWriter
<1>7. CASE /\ Live(i, issue)
           /\ issue' = [issue EXCEPT ![i].body = inb.seen[i].body, ![i].key = scenario.key[u],
                          ![i].taker = u]
  <2>1. /\ issue' \in Snapshots /\ issue \in Snapshots /\ issue[i] \in IssueRows
        /\ scenario.key[u] \in Keys
    BY <1>7, LiveIsRow, ScenarioType DEF TypeInv, Typed
  <2>0. Footed(u, i)
    BY <1>1, <1>2, <1>7 DEF Footed
  <2>2. issue'[i].key = scenario.key[u] /\ issue'[i].taker = u /\ Live(i, issue')
        /\ \A j \in Issues \ {i} : issue'[j] = issue[j]
    BY <2>0, FooterLeaves
  <2>3. Kin(scenario.key[u], i)
    BY <1>2, MirrorKin DEF TypeInv
  <2>4. IssuesEvolve
    BY <2>0, FooterLeaves
  <2>5. Kin(scenario.key[u], i)'
    <3>1. PICK k : k = scenario.key[u]
      OBVIOUS
    <3>2. Kin(k, i)'
      BY <1>1, <2>3, <2>4, <3>1, KinStable
    <3> QED BY <1>1, <3>1, <3>2
  <2>6. \A t \in Projected : Contend(u, t) => t \in raced
    <3>1. u \in Passed
      BY <1>1, <1>2, MirrorsPassed
    <3> QED BY <3>1 DEF WriterInv, OverlapsAreRaced
  <2>7. Noted /\ SameHolders
    BY <1>1 DEF Noted, SameHolders
  <2>8. Elsewhere
    <3>1. ASSUME NEW j \in Issues, Live(j, issue')
          PROVE  \/ Live(j, issue) /\ issue'[j].key = issue[j].key
                 \/ issue'[j].key # None /\ Kin(issue[j].key, j)'
      <4>1. CASE j = i
        <5>1. PICK k : k = scenario.key[u]
          OBVIOUS
        <5>2. Kin(k, i)' /\ issue'[i].key = k /\ k # None
          BY <1>1, <2>1, <2>2, <2>5, <5>1, NullsAssumption
        <5> QED BY <4>1, <5>2
      <4>2. CASE j # i
        BY <2>2, <3>1, <4>2 DEF Live
      <4> QED BY <4>1, <4>2
    <3>2. \A j \in Issues : Live(j, issue) /\ Live(j, issue') /\ issue'[j].taker # issue[j].taker => j = i
      BY <2>2
    <3> QED BY <1>1, <2>3, <2>4, <2>6, <2>7, <3>1, <3>2 DEF Elsewhere
  <2>9. \A j \in Issues : Keyless(j)' => Keyless(j) /\ j # i
    BY <2>1, <2>2, <2>4, NullsAssumption DEF IssuesEvolve, Keyless
  <2>10. KeylessIsUntouched'
    <3>1. \A j \in Issues : Keyless(j)' => issue'[j].taker = issue[j].taker
      BY <2>2, <2>9
    <3>2. \A t \in Tasks, j \in Issues : Keyless(j)' /\ scenario.declared[t] = j => task'[t].body # Prose
      BY <1>1, <2>9 DEF WriterInv, KeylessIsUntouched
    <3> QED BY <1>1, <2>4, <2>7, <3>1, <3>2, ElsewhereKeyless
  <2>11. AdoptionInv'
    <3>1. ASSUME NEW t \in inb.left, t \notin raced PROVE Adoptable(t)'
      <4>1. t \in Tasks /\ t # u /\ scenario.mirror[t] \in Issues /\ Adoptable(t)
        BY <1>5, <3>1, PmAssumption
      <4>2. CASE scenario.mirror[t] = i
        <5>1. RidOf(link[u]) = i
          BY <1>1, <1>2, <3>1, <4>1, <4>2 DEF WriterInv, AdoptionInv
        <5> QED BY <1>1, <1>2, <4>1, <4>2, <5>1 DEF Adoptable
      <4>3. CASE scenario.mirror[t] # i
        <5>1. issue'[scenario.mirror[t]] = issue[scenario.mirror[t]]
          BY <2>2, <4>1, <4>3
        <5> QED BY <1>1, <4>1, <5>1 DEF Adoptable, Keyless, Live
      <4> QED BY <4>2, <4>3
    <3> QED BY <1>1, <1>3, <3>1 DEF AdoptionInv
  <2>12. OneWriter'
    <3>1. SUFFICES ASSUME NEW t \in Tasks, Clear(t)', RidOf(link'[t]) # None, Live(RidOf(link'[t]), issue')
                   PROVE  issue'[link'[t].rid].taker \in {t, None}
      BY DEF OneWriter, Clear, Live
    <3>2. /\ Clear(t) /\ link'[t] = link[t] /\ RidOf(link[t]) = link[t].rid
          /\ RidOf(link[t]) \in Issues
      BY <1>1, <3>1, RidTypes DEF Clear, RidOf
    <3>3. CASE link[t].rid = i
      <4>1. ~HeldByOther(u, i)
        BY <1>1, <1>2, <1>7 DEF WriterInv, AdoptionInv
      <4>2. t = u
        BY <3>2, <3>3, <4>1 DEF HeldByOther
      <4> QED BY <2>2, <3>2, <3>3, <4>2
    <3>4. CASE link[t].rid # i
      <4>1. issue'[link[t].rid] = issue[link[t].rid]
        BY <2>2, <3>2, <3>4
      <4> QED BY <3>1, <3>2, <4>1 DEF WriterInv, OneWriter, Clear, Live
    <3> QED BY <3>3, <3>4
  <2> QED BY <1>4, <2>8, <2>10, <2>11, <2>12, ElsewhereWriter
<1> QED BY <1>2, <1>6, <1>7 DEF StampFooter

LEMMA EndPassWriter ==
  ASSUME TypeInv, TypeInv', WriterInv, EndPass
  PROVE  WriterInv'
<1>1. UNCHANGED <<scenario, task, link, issue, proj, unread, raced>>
  BY DEF EndPass, history
<1>2. inb'.pc = "idle"
  BY DEF EndPass, Continue, IdlePass
<1>3. QuietPass
  BY <1>1 DEF QuietPass
<1>4. Passed' \subseteq Passed
  BY <1>2 DEF Passed
<1>5. AdoptionInv'
  BY <1>2 DEF AdoptionInv
<1> QED BY <1>1, <1>3, <1>4, <1>5, PassOverlaps, QuietPassWriter DEF WriterInv

\* After a crash nothing is at work.
LEMMA CrashWriter ==
  ASSUME TypeInv, TypeInv', WriterInv, Crash
  PROVE  WriterInv'
<1>1. /\ UNCHANGED <<scenario, task, link, issue, unread, raced>>
      /\ inb' = IdlePass /\ proj' = [p \in Projections |-> IdleProjection]
  BY DEF Crash
<1>2. PICK idle : idle = IdleProjection
  OBVIOUS
<1>3. /\ idle \in Invocations /\ idle.pc = "idle" /\ idle.todo = {} /\ idle.boot = NoBoot
      /\ \A p \in Projections : proj'[p] = idle
  <2>1. IdleProjection.pc = "idle" /\ IdleProjection.todo = {} /\ IdleProjection.boot = NoBoot
    BY DEF IdleProjection
  <2> QED BY <1>1, <1>2, <2>1, IdleTypes
<1>4. inb'.pc = "idle"
  BY <1>1 DEF IdlePass
<1>5. Noted /\ IssuesEvolve /\ SameHolders
  BY <1>1, SameIssuesEvolve DEF Noted, SameHolders
<1>6. \A i \in Issues : issue'[i] = issue[i] /\ (Live(i, issue') <=> Live(i, issue))
                        /\ (Keyless(i)' <=> Keyless(i))
  BY <1>1 DEF Live, Keyless
<1>7. OverlapsAreRaced'
  <2>1. Passed' = {}
    BY <1>4 DEF Passed
  <2>2. \A p \in Projections : proj'[p].todo \subseteq proj[p].todo
    BY <1>3
  <2> QED BY <1>1, <2>1, <2>2, OverlapsStable DEF WriterInv
<1>8. IssuesAreKin'
  <2>1. \A p \in Projections, q \in Invocations : proj'[p] = q => q = proj[p] \/ KinInvocation(q)'
    BY <1>3 DEF KinInvocation
  <2>2. link' \in [Tasks -> Links \cup {None}] /\ proj' \in [Projections -> Invocations]
    BY DEF TypeInv, Typed
  <2> QED BY <1>1, <1>5, <1>6, <2>1, <2>2, KinStep DEF WriterInv
<1>9. KeylessIsUntouched'
  <2>1. \A p \in Projections, q \in Invocations, i \in Issues :
           Keyless(i)' /\ proj'[p] = q => q = proj[p] \/ KeylessInvocation(q, i)'
    BY <1>3 DEF KeylessInvocation
  <2>2. \A t \in Tasks, i \in Issues : Keyless(i)' /\ scenario.declared[t] = i => task'[t].body # Prose
    BY <1>1, <1>6 DEF WriterInv, KeylessIsUntouched
  <2> QED BY <1>5, <1>6, <2>1, <2>2, KeylessStep DEF WriterInv
<1>10. LinksStand'
  BY <1>1, <1>3 DEF WriterInv, LinksStand, Stands
<1>11. AdoptionInv'
  BY <1>4 DEF AdoptionInv
<1>12. OneWriter'
  BY <1>1, <1>5, <1>6, SameTakers DEF WriterInv
<1>13. \A p \in Projections : NoOtherHolder(proj[p])'
  BY <1>3 DEF NoOtherHolder
<1> QED BY <1>7, <1>8, <1>9, <1>10, <1>11, <1>12, <1>13 DEF WriterInv

\* At first only what people wrote is on the board, and no link holds an issue.
LEMMA InitWriter ==
  ASSUME Init
  PROVE  WriterInv
<1>0. TypeInv
  BY InitTypeInv
<1>1. PICK idle : idle = IdleProjection
  OBVIOUS
<1>2. /\ idle \in Invocations /\ idle.pc = "idle" /\ idle.todo = {} /\ idle.boot = NoBoot
      /\ \A p \in Projections : proj[p] = idle
  <2>1. IdleProjection.pc = "idle" /\ IdleProjection.todo = {} /\ IdleProjection.boot = NoBoot
    BY DEF IdleProjection
  <2> QED BY <1>1, <2>1, IdleTypes DEF Init
<1>3. inb.pc = "idle"
  BY DEF Init, IdlePass
<1>4. \A t \in Tasks : RidOf(link[t]) = None /\ (scenario.declared[t] # None => link[t] # None)
  BY DeclaredLinkType, NullsAssumption DEF Init, RidOf
<1>5. ASSUME NEW i \in Issues, Live(i, issue)
      PROVE  /\ issue[i].key = None /\ issue[i].body = Prose /\ issue[i].taker = None /\ i \in Written
  <2>1. i \in UNION {Claims(t) : t \in scenario.rows} /\ issue[i] = NewIssue
    BY <1>5 DEF Init, Live
  <2>2. i \in Written
    BY <1>0, <2>1, ScenarioType DEF Claims, TypeInv, Scenario
  <2> QED BY <2>1, <2>2 DEF NewIssue
<1>6. OverlapsAreRaced
  BY <1>2, <1>3 DEF OverlapsAreRaced, Passed
<1>7. IssuesAreKin
  BY <1>2, <1>4, <1>5 DEF IssuesAreKin, KinInvocation
<1>8. KeylessIsUntouched
  <2>1. \A t \in Tasks : task[t].body = Blank
    BY DEF Init
  <2>2. Blank # Prose
    BY PmAssumption
  <2>3. \A p \in Projections, i \in Issues : KeylessInvocation(proj[p], i)
    BY <1>2 DEF KeylessInvocation
  <2> QED BY <1>4, <1>5, <2>1, <2>2, <2>3, NullsAssumption DEF KeylessIsUntouched, Keyless
<1>9. LinksStand
  BY <1>2, <1>4 DEF LinksStand, Stands
<1>10. AdoptionInv /\ OneWriter
  BY <1>3, <1>4 DEF AdoptionInv, OneWriter
<1>11. \A p \in Projections : NoOtherHolder(proj[p])
  BY <1>2 DEF NoOtherHolder
<1> QED BY <1>6, <1>7, <1>8, <1>9, <1>10, <1>11 DEF WriterInv

LEMMA NextWriter == TypeInv /\ TypeInv' /\ WriterInv /\ [Next]_vars => WriterInv'
<1> SUFFICES ASSUME TypeInv, TypeInv', WriterInv, [Next]_vars PROVE WriterInv'
  OBVIOUS
<1>1. ASSUME NEW t \in Tasks, Edit(t) PROVE WriterInv'
  BY <1>1, EditWriter
<1>2. ASSUME NEW i \in Issues, Move(i) PROVE WriterInv'
  BY <1>2, MoveWriter
<1>3. ASSUME NEW p \in Projections, NEW t \in Tasks, Callback(p, t) PROVE WriterInv'
  BY <1>3, CallbackWriter
<1>4. ASSUME NEW p \in Projections, NEW j \in Projects, ProjectBoard(p, j) PROVE WriterInv'
  BY <1>4, ProjectBoardWriter
<1>5. ASSUME NEW p \in Projections, NEW t \in Tasks, FindLink(p, t) PROVE WriterInv'
  BY <1>5, FindLinkWriter
<1>6. ASSUME NEW p \in Projections, Prepare(p) \/ InsertLink(p) \/ ReadOwners(p) \/ FetchBoot(p)
      PROVE  WriterInv'
  BY <1>6, PrepareWriter, InsertLinkWriter, ReadOwnersWriter, FetchBootWriter
<1>7. ASSUME NEW p \in Projections, Upsert(p) \/ Seed(p) \/ Persist(p) PROVE WriterInv'
  BY <1>7, UpsertWriter, SeedWriter, PersistWriter
<1>8. ASSUME NEW t \in Tasks, ApplyRow(t) \/ ReadMirror(t) PROVE WriterInv'
  BY <1>8, ApplyRowWriter, ReadMirrorWriter
<1>9. CASE StartPass \/ LoadLinks \/ LoadTasks \/ EndPass \/ Crash
  BY <1>9, StartPassWriter, LoadingWriter, EndPassWriter, CrashWriter
<1>10. CASE FetchTeam \/ ReadOwned \/ Adopt \/ StampFooter
  BY <1>10, FetchTeamWriter, ReadOwnedWriter, AdoptWriter, StampFooterWriter
<1>11. CASE UNCHANGED vars
  <2>1. UNCHANGED <<scenario, task, link, issue, proj, inb, raced, unread>>
    BY <1>11 DEF vars
  <2>2. QuietPass
    BY <2>1 DEF QuietPass
  <2>3. Passed' \subseteq Passed
    BY <2>1 DEF Passed
  <2>4. Noted /\ IssuesEvolve
    BY <2>1, SameIssuesEvolve DEF Noted
  <2>5. AdoptionInv'
    BY <2>1, <2>4, SameAdoption DEF WriterInv, Live
  <2> QED BY <2>1, <2>2, <2>3, <2>5, PassOverlaps, QuietPassWriter DEF WriterInv
<1> QED
  BY <1>1, <1>2, <1>3, <1>4, <1>5, <1>6, <1>7, <1>8, <1>9, <1>10, <1>11 DEF Next

\* Two rows never write one issue in turns without anybody noticing: whatever claims rows
\* share, and whatever answers, records and processes are lost, an issue that the link of
\* a row holds was last written for that row or for none -- unless an activity of the row
\* ran over another that contends with it, or met a projection whose reading of the
\* owners failed.
THEOREM WritersStandApart == Spec => []OneWriter
<1>1. Init => TypeInv /\ WriterInv
  BY InitTypeInv, InitWriter
<1>2. TypeInv /\ WriterInv /\ [Next]_vars => (TypeInv /\ WriterInv)'
  BY NextTypeInv, NextWriter
<1>3. TypeInv /\ WriterInv => OneWriter
  BY DEF WriterInv
<1> QED BY <1>1, <1>2, <1>3, PTL DEF Spec

-----------------------------------------------------------------------------
(* Edits arrive. *)

\* No call has failed, no process has died and nobody has touched the board.
Calm == \A b \in {"faults", "moves"} : budget[b] = scenario.bound[b]

\* A row as it was read is still the row, or the callback of a later edit is to come.
Shown(t, row) == row = task[t] \/ due[t] > 0

\* The row a projection stands for once its seed has been stored.
Sent(q) == [status |-> q.rows[q.cur].status, body |-> SentBody(q)]

\* Nothing that an invocation goes for is gone from the board.
StillThere(q) ==
  /\ q.boot # NoBoot => /\ \A i \in Issues : Live(i, q.boot.at) => Live(i, issue)
                        /\ \A k \in Keys : q.boot.ext[k] # None => Live(q.boot.ext[k], issue)
  /\ q.pc = "upsert" /\ ~q.plan.refuses /\ q.plan.target # None => Live(q.plan.target, issue)
  /\ q.pc \in {"seed", "persist"} => Live(q.plan.target, issue)

\* What an invocation has read of its rows, and knows of their links.
Fresh(q) ==
  /\ \A t \in q.todo \ raced :
       /\ Shown(t, IF q.pc = "persist" /\ t = q.cur THEN Sent(q) ELSE q.rows[t])
       /\ q.boot # NoBoot /\ RidOf(link[t]) # None => Live(RidOf(link[t]), q.boot.at)
  /\ q.pc = "idle" => q.todo = {}
  /\ q.pc = "insert" /\ q.cur \notin raced => link[q.cur] = None
  /\ q.pc \in {"owners", "listing"} /\ q.cur \notin raced => link[q.cur] = q.known
  /\ q.pc = "upsert" /\ q.cur \notin raced /\ RidOf(link[q.cur]) # None
       => IF q.plan.refuses THEN StateFor(q.rows[q.cur].status) = None
                            ELSE q.plan.target = RidOf(link[q.cur])
  /\ q.pc \in {"upsert", "seed"} /\ q.cur \notin raced /\ q.plan.seeded # None
       => RidOf(link[q.cur]) = None

\* The last edit of a row is recorded, or on its way.
Arrived(t) ==
  t \notin raced \cup lost /\ RidOf(link[t]) # None /\ StateFor(task[t].status) # None
    => \/ link[t].fp = FingerprintOf(task[t])
       \/ due[t] > 0
       \/ \E p \in Projections : proj[p].todo = {t}

EditInv ==
  /\ unread = {}
  /\ \A t \in Tasks : RidOf(link[t]) # None => Live(RidOf(link[t]), issue)
  /\ \A i \in Issues : Live(i, inb.seen) => Live(i, issue)
  /\ \A p \in Projections : StillThere(proj[p]) /\ Fresh(proj[p])
  /\ inb.pc = "applying" => \A t \in inb.left \ raced : Shown(t, inb.tasks[t])
  /\ \A t \in Tasks : Arrived(t)

\* A failed call, a crash and a move are on record.
LEMMA FaultIsNoCalm ==
  ASSUME TypeInv, TypeInv', UNCHANGED scenario, Fault
  PROVE  ~Calm'
<1>1. budget \in Budgets /\ budget.faults <= scenario.bound.faults /\ scenario.bound \in Budgets
  BY ScenarioType DEF TypeInv, Typed, WithinBounds, Budgets, Scenario
<1>2. budget'.faults = budget.faults - 1
  BY <1>1 DEF Fault, Budgets
<1>3. budget.faults \in Nat /\ scenario.bound.faults \in Nat
  BY <1>1 DEF Budgets
<1> QED BY <1>1, <1>2, <1>3 DEF Calm

LEMMA MoveIsNoCalm ==
  ASSUME TypeInv, NEW i \in Issues, Move(i)
  PROVE  ~Calm'
<1>1. budget \in Budgets /\ budget.moves <= scenario.bound.moves /\ scenario.bound \in Budgets
  BY ScenarioType DEF TypeInv, Typed, WithinBounds, Budgets, Scenario
<1>2. budget'.moves = budget.moves - 1 /\ UNCHANGED scenario
  BY <1>1 DEF Move, Budgets
<1>3. budget.moves \in Nat /\ scenario.bound.moves \in Nat
  BY <1>1 DEF Budgets
<1> QED BY <1>1, <1>2, <1>3 DEF Calm

\* A row of which nothing has been written, and whose callbacks stay.
SameRow(t) == task'[t] = task[t] /\ link'[t] = link[t] /\ (due[t] > 0 => due'[t] > 0)

LEMMA ShownStable ==
  ASSUME NEW t, NEW row, SameRow(t), Shown(t, row)
  PROVE  Shown(t, row)'
BY DEF Shown, SameRow

\* What is live stays live.
LivesOn == \A i \in Issues : Live(i, issue) => Live(i, issue')

LEMMA StillThereStable ==
  ASSUME TypeInv, LivesOn, NEW q \in Invocations, InHand(q), StillThere(q)
  PROVE  StillThere(q)'
<1>1. q.pc \in {"upsert", "seed", "persist"} => q.plan.target \in Issues \cup {None}
  BY DEF InHand, Plans
<1>2. q.boot # NoBoot => \A k \in Keys : q.boot.ext[k] \in Issues \cup {None}
  BY DEF Invocations, NoBoot, Boots
<1>3. q.pc \in {"seed", "persist"} => q.plan.target \in Issues
  BY DEF InHand
<1> QED BY <1>1, <1>2, <1>3 DEF StillThere, LivesOn, Live

\* An invocation keeps what it knows of rows that nothing else touches.
LEMMA FreshStable ==
  ASSUME TypeInv, NEW q \in Invocations, InHand(q), Fresh(q), raced \subseteq raced',
         \A t \in q.todo \ raced' : SameRow(t)
  PROVE  Fresh(q)'
<1>1. q.pc \in {"insert", "owners", "listing", "upsert", "seed", "persist"} => q.cur \in q.todo
  BY DEF InHand, AtWork
<1>2. ASSUME NEW t \in q.todo \ raced'
      PROVE  /\ Shown(t, IF q.pc = "persist" /\ t = q.cur THEN Sent(q) ELSE q.rows[t])'
             /\ q.boot # NoBoot /\ RidOf(link'[t]) # None => Live(RidOf(link'[t]), q.boot.at)
  <2>1. t \in q.todo \ raced /\ SameRow(t)
    BY <1>2
  <2>2. /\ Shown(t, IF q.pc = "persist" /\ t = q.cur THEN Sent(q) ELSE q.rows[t])
        /\ q.boot # NoBoot /\ RidOf(link[t]) # None => Live(RidOf(link[t]), q.boot.at)
    BY <2>1 DEF Fresh
  <2> QED BY <2>1, <2>2 DEF Shown, SameRow, Sent, SentBody
<1>3. ASSUME q.cur \in q.todo, q.cur \notin raced'
      PROVE  link'[q.cur] = link[q.cur] /\ q.cur \notin raced
  BY <1>3 DEF SameRow
<1> QED BY <1>1, <1>2, <1>3 DEF Fresh

\* A row whose callbacks stay, and whose own invocation does too, stays on its way.
LEMMA ArrivedStable ==
  ASSUME NEW t \in Tasks, SameRow(t), lost \subseteq lost', raced \subseteq raced', Arrived(t),
         \A p \in Projections : proj[p].todo = {t} => proj'[p].todo = {t}
  PROVE  Arrived(t)'
BY DEF Arrived, SameRow

\* What an invocation may change when nothing fails: the rows it has to do.
CalmStep(p, new) ==
  /\ proj' = [proj EXCEPT ![p] = new] /\ new.todo \subseteq proj[p].todo
  /\ UNCHANGED <<scenario, inb, due, raced, unread>> /\ lost \subseteq lost' /\ LivesOn
  /\ \A t \in Tasks \ proj[p].todo : task'[t] = task[t] /\ link'[t] = link[t]
  /\ \A t \in Tasks : RidOf(link'[t]) # None => Live(RidOf(link'[t]), issue')
  /\ \A t \in Tasks : \/ Arrived(t)'
                      \/ /\ task'[t] = task[t] /\ link'[t] = link[t]
                         /\ proj[p].todo = {t} => new.todo = {t}

LEMMA ProjectorEdits ==
  ASSUME TypeInv, OverlapsAreRaced, EditInv, NEW p \in Projections, NEW new \in Invocations,
         CalmStep(p, new), StillThere(new)', Fresh(new)'
  PROVE  EditInv'
<1>0. /\ UNCHANGED <<scenario, inb, due, raced, unread>> /\ lost \subseteq lost' /\ LivesOn
      /\ \A r \in Projections : proj'[r] = IF r = p THEN new ELSE proj[r]
      /\ proj[p].todo \subseteq Tasks /\ proj[p].todo \subseteq Projected
  BY DEF CalmStep, TypeInv, Typed, Invocations, Projected
<1>1. \A t \in Tasks \ proj[p].todo : SameRow(t)
  BY <1>0 DEF CalmStep, SameRow
<1>2. ASSUME NEW r \in Projections
      PROVE  StillThere(proj[r])' /\ Fresh(proj[r])'
  <2>1. CASE r = p
    BY <1>0, <2>1
  <2>2. CASE r # p
    <3>1. PICK q \in Invocations : q = proj[r]
      BY DEF TypeInv, Typed
    <3>2. InHand(q) /\ StillThere(q) /\ Fresh(q) /\ proj'[r] = q /\ q.todo \subseteq Tasks
      BY <1>0, <2>2, <3>1 DEF TypeInv, EditInv, Invocations
    <3>3. ASSUME NEW t \in q.todo, t \in proj[p].todo PROVE t \in raced
      BY <2>2, <3>1, <3>3, ContendReflexive DEF OverlapsAreRaced
    <3>4. \A t \in q.todo \ raced' : SameRow(t)
      BY <1>0, <1>1, <3>2, <3>3
    <3>5. StillThere(q)' /\ Fresh(q)'
      BY <1>0, <3>2, <3>4, StillThereStable, FreshStable
    <3> QED BY <3>2, <3>5
  <2> QED BY <2>1, <2>2
<1>3. ASSUME inb.pc = "applying", NEW t \in inb.left \ raced
      PROVE  Shown(t, inb.tasks[t])'
  <2>1. t \in Passed /\ t \in Tasks
    BY <1>3 DEF Passed, TypeInv, Typed, Passes
  <2>2. t \notin proj[p].todo
    BY <1>0, <1>3, <2>1, ContendReflexive DEF OverlapsAreRaced
  <2>3. Shown(t, inb.tasks[t])
    BY <1>3 DEF EditInv
  <2> QED BY <1>0, <1>1, <2>1, <2>2, <2>3 DEF Shown, SameRow
<1>4. ASSUME NEW t \in Tasks PROVE Arrived(t)'
  <2>1. CASE /\ task'[t] = task[t] /\ link'[t] = link[t]
             /\ proj[p].todo = {t} => new.todo = {t}
    <3>1. SameRow(t) /\ Arrived(t)
      BY <1>0, <2>1 DEF SameRow, EditInv
    <3> QED BY <1>0, <2>1, <3>1, ArrivedStable
  <2> QED BY <2>1 DEF CalmStep
<1>5. \A i \in Issues : Live(i, inb.seen) => Live(i, issue')
  BY <1>0 DEF EditInv, LivesOn
<1>6. \A t \in Tasks : RidOf(link'[t]) # None => Live(RidOf(link'[t]), issue')
  BY DEF CalmStep
<1> QED BY <1>0, <1>2, <1>3, <1>4, <1>5, <1>6 DEF EditInv, Live

\* The same of the pass, and of members: what is written is no row of an invocation.
LEMMA PassEdits ==
  ASSUME TypeInv, EditInv, UNCHANGED <<scenario, proj, lost, unread>>, raced \subseteq raced',
         LivesOn, \A t \in Projected : t \in raced' \/ SameRow(t),
         \A t \in Tasks : SameRow(t) \/ Arrived(t)',
         \A t \in Tasks : RidOf(link'[t]) # None => Live(RidOf(link'[t]), issue'),
         \A i \in Issues : Live(i, inb'.seen) => Live(i, issue'),
         inb'.pc = "applying" => \A t \in inb'.left \ raced' : Shown(t, inb.tasks[t])'
  PROVE  EditInv'
<1>1. ASSUME NEW r \in Projections
      PROVE  StillThere(proj[r])' /\ Fresh(proj[r])'
  <2>1. PICK q \in Invocations : q = proj[r]
    BY DEF TypeInv, Typed
  <2>2. InHand(q) /\ StillThere(q) /\ Fresh(q) /\ proj'[r] = q /\ q.todo \subseteq Projected
    BY <2>1 DEF TypeInv, EditInv, Projected
  <2>3. StillThere(q)' /\ Fresh(q)'
    BY <2>2, StillThereStable, FreshStable
  <2> QED BY <2>2, <2>3
<1>2. ASSUME NEW t \in Tasks PROVE Arrived(t)'
  <2>1. CASE SameRow(t)
    <3>1. Arrived(t)
      BY DEF EditInv
    <3> QED BY <2>1, <3>1, ArrivedStable
  <2> QED BY <2>1
<1> QED BY <1>1, <1>2 DEF EditInv, Live

\* A pass that only reads.
LEMMA ReadingEdits ==
  ASSUME TypeInv, EditInv, UNCHANGED <<scenario, task, link, issue, due, proj, lost, unread>>,
         raced \subseteq raced', \A i \in Issues : Live(i, inb'.seen) => Live(i, inb.seen) \/ Live(i, issue),
         inb'.pc = "applying" => inb'.tasks = task
  PROVE  EditInv'
<1>1. \A t \in Tasks : SameRow(t)
  BY DEF SameRow
<1>2. Projected \subseteq Tasks
  BY DEF Projected, TypeInv, Typed, Invocations
<1>3. \A i \in Issues : Live(i, inb'.seen) => Live(i, issue')
  BY DEF EditInv, Live
<1>4. inb'.pc = "applying" => \A t \in inb'.left \ raced' : Shown(t, inb.tasks[t])'
  BY DEF Shown
<1>5. LivesOn /\ \A t \in Tasks : RidOf(link'[t]) # None => Live(RidOf(link'[t]), issue')
  BY DEF LivesOn, EditInv, Live
<1> QED BY <1>1, <1>2, <1>3, <1>4, <1>5, PassEdits

LEMMA EditEdits ==
  ASSUME TypeInv, EditInv, NEW t \in Tasks, Edit(t)
  PROVE  EditInv'
<1>1. /\ UNCHANGED <<scenario, link, issue, proj, inb, raced, lost, unread>>
      /\ due' = [due EXCEPT ![t] = @ + 1] /\ due \in [Tasks -> Nat] /\ task \in [Tasks -> Rows]
      /\ \E row : task' = [task EXCEPT ![t] = row]
  <2>1. UNCHANGED <<scenario, link, issue, proj, inb, raced, lost, unread>>
        /\ due' = [due EXCEPT ![t] = @ + 1]
    BY DEF Edit, history
  <2>2. \E row : task' = [task EXCEPT ![t] = row]
    BY DEF Edit
  <2> QED BY <2>1, <2>2 DEF TypeInv, Typed
<1>2. due'[t] > 0 /\ \A u \in Tasks \ {t} : SameRow(u)
  BY <1>1 DEF SameRow
<1>3. Arrived(t)' /\ \A u \in Tasks \ {t} : Arrived(u)'
  <2>1. Arrived(t)'
    BY <1>2 DEF Arrived
  <2>2. ASSUME NEW u \in Tasks \ {t} PROVE Arrived(u)'
    BY <1>1, <1>2, ArrivedStable DEF EditInv
  <2> QED BY <2>1, <2>2
<1>4. ASSUME NEW u \in Tasks, NEW row, Shown(u, row) PROVE Shown(u, row)'
  <2>1. CASE u = t
    BY <1>2, <2>1 DEF Shown
  <2>2. CASE u # t
    BY <1>2, <1>4, <2>2, ShownStable
  <2> QED BY <2>1, <2>2
<1>5. ASSUME NEW r \in Projections
      PROVE  StillThere(proj[r])' /\ Fresh(proj[r])'
  <2>1. PICK q \in Invocations : q = proj[r]
    BY DEF TypeInv, Typed
  <2>2. InHand(q) /\ StillThere(q) /\ Fresh(q) /\ proj'[r] = q /\ q.todo \subseteq Tasks
    BY <1>1, <2>1 DEF TypeInv, EditInv, Invocations
  <2>3. StillThere(q)'
    BY <1>1, <2>2 DEF StillThere, Live
  <2>4. ASSUME NEW u \in q.todo \ raced
        PROVE  /\ Shown(u, IF q.pc = "persist" /\ u = q.cur THEN Sent(q) ELSE q.rows[u])'
               /\ q.boot # NoBoot /\ RidOf(link[u]) # None => Live(RidOf(link[u]), q.boot.at)
    <3>1. PICK row : row = IF q.pc = "persist" /\ u = q.cur THEN Sent(q) ELSE q.rows[u]
      OBVIOUS
    <3>2. Shown(u, row)' /\ (q.boot # NoBoot /\ RidOf(link[u]) # None => Live(RidOf(link[u]), q.boot.at))
      BY <1>4, <2>2, <2>4, <3>1 DEF Fresh
    <3>3. row = (IF q.pc = "persist" /\ u = q.cur THEN Sent(q) ELSE q.rows[u])'
      BY <3>1 DEF Sent, SentBody
    <3> QED BY <3>1, <3>2, <3>3 DEF Shown
  <2>5. Fresh(q)'
    BY <1>1, <2>2, <2>4 DEF Fresh
  <2> QED BY <2>2, <2>3, <2>5
<1>6. inb.pc = "applying" => \A u \in inb.left \ raced : Shown(u, inb.tasks[u])'
  <2>1. inb.left \subseteq Tasks
    BY DEF TypeInv, Typed, Passes
  <2>2. ASSUME inb.pc = "applying", NEW u \in inb.left \ raced PROVE Shown(u, inb.tasks[u])'
    <3>1. PICK row : row = inb.tasks[u]
      OBVIOUS
    <3>2. Shown(u, row)'
      BY <1>4, <2>1, <2>2, <3>1 DEF EditInv
    <3> QED BY <1>1, <3>1, <3>2 DEF Shown
  <2> QED BY <2>2
<1> QED BY <1>1, <1>3, <1>5, <1>6 DEF EditInv, Live

\* An invocation that begins has read its rows; whoever had them in hand is noticed.
LEMMA BeginEdits ==
  ASSUME TypeInv, TypeInv', OverlapsAreRaced, EditInv, NEW p \in Projections, NEW T \in SUBSET Tasks,
         NEW pc \in {"link", "prepare"}, Begin(p, T, pc),
         UNCHANGED <<scenario, task, link, issue, inb, lost, unread>>,
         \A t \in Tasks : (due[t] > 0 => due'[t] > 0) \/ T = {t}
  PROVE  EditInv'
<1> DEFINE rows == [t \in Tasks |-> IF t \in T THEN task[t] ELSE NoRow]
<1>1. PICK new : new = [IdleProjection EXCEPT !.pc = pc, !.todo = T, !.rows = rows]
  OBVIOUS
<1>2. /\ proj' = [proj EXCEPT ![p] = new] /\ raced' = raced \cup Meet(T, Projected \cup Passed)
      /\ proj[p].pc = "idle"
  BY <1>1 DEF Begin, Proceed
<1>3. \A r \in Projections : proj'[r] = IF r = p THEN new ELSE proj[r]
  BY <1>2 DEF TypeInv, Typed
<1>4. /\ new \in Invocations /\ new.pc = pc /\ new.todo = T /\ new.boot = NoBoot
      /\ \A t \in T : new.rows[t] = task[t]
  <2>1. new \in Invocations
    BY <1>3 DEF TypeInv, Typed
  <2> QED BY <1>1, <2>1 DEF IdleProjection
<1>5. \A t \in T : t \in Projected \cup Passed => t \in raced'
  BY <1>2, ContendReflexive DEF Meet
<1>6. \A t \in Tasks : SameRow(t) \/ T = {t}
  BY DEF SameRow
<1>7. proj[p].todo = {}
  BY <1>2 DEF EditInv, Fresh
<1>8. StillThere(new)' /\ Fresh(new)'
  <2>1. StillThere(new)'
    BY <1>4 DEF StillThere
  <2>2. \A t \in T : Shown(t, new.rows[t])'
    BY <1>4 DEF Shown
  <2> QED BY <1>4, <2>1, <2>2 DEF Fresh
<1>9. ASSUME NEW r \in Projections
      PROVE  StillThere(proj[r])' /\ Fresh(proj[r])'
  <2>1. CASE r = p
    BY <1>3, <1>8, <2>1
  <2>2. CASE r # p
    <3>1. PICK q \in Invocations : q = proj[r]
      BY DEF TypeInv, Typed
    <3>2. /\ InHand(q) /\ StillThere(q) /\ Fresh(q) /\ proj'[r] = q
          /\ q.todo \subseteq Projected /\ q.todo \subseteq Tasks
      BY <1>3, <2>2, <3>1 DEF TypeInv, EditInv, Projected, Invocations
    <3>3. \A t \in q.todo \ raced' : SameRow(t)
      BY <1>5, <1>6, <3>2
    <3>4. StillThere(q)' /\ Fresh(q)'
      BY <1>2, <3>2, <3>3, StillThereStable, FreshStable DEF LivesOn, Live
    <3> QED BY <3>2, <3>4
  <2> QED BY <2>1, <2>2
<1>10. ASSUME inb.pc = "applying", NEW t \in inb.left \ raced'
       PROVE  Shown(t, inb.tasks[t])'
  <2>1. t \in Passed /\ t \in Tasks /\ t \notin raced
    BY <1>2, <1>10 DEF Passed, TypeInv, Typed, Passes
  <2>2. SameRow(t) /\ Shown(t, inb.tasks[t])
    BY <1>5, <1>6, <1>10, <2>1 DEF EditInv
  <2> QED BY <2>2 DEF Shown, SameRow
<1>11. ASSUME NEW t \in Tasks PROVE Arrived(t)'
  <2>1. CASE T = {t}
    <3>1. proj'[p].todo = {t}
      BY <1>3, <1>4, <2>1
    <3> QED BY <3>1 DEF Arrived
  <2>2. CASE SameRow(t)
    <3>1. \A r \in Projections : proj[r].todo = {t} => proj'[r].todo = {t}
      BY <1>3, <1>7
    <3> QED BY <1>2, <2>2, <3>1, ArrivedStable DEF EditInv
  <2> QED BY <1>6, <2>1, <2>2
<1> QED BY <1>9, <1>10, <1>11 DEF EditInv, Live

LEMMA CallbackEdits ==
  ASSUME TypeInv, TypeInv', OverlapsAreRaced, EditInv, NEW p \in Projections, NEW t \in Tasks,
         Callback(p, t)
  PROVE  EditInv'
<1>1. \A u \in Tasks : (due[u] > 0 => due'[u] > 0) \/ {t} = {u}
  BY DEF Callback, TypeInv, Typed
<1> QED BY <1>1, BeginEdits DEF Callback

LEMMA ProjectBoardEdits ==
  ASSUME TypeInv, TypeInv', OverlapsAreRaced, EditInv, NEW p \in Projections, NEW j \in Projects,
         ProjectBoard(p, j)
  PROVE  EditInv'
<1>1. PICK T \in SUBSET Tasks : Begin(p, T, "prepare")
  <2>1. {t \in scenario.rows : scenario.project[t] = j} \subseteq Tasks
    BY ScenarioType DEF Scenario, TypeInv
  <2> QED BY <2>1 DEF ProjectBoard
<1>2. UNCHANGED <<scenario, task, link, issue, due, inb, lost, unread>>
  BY DEF ProjectBoard
<1> QED BY <1>1, <1>2, BeginEdits

LEMMA StartPassEdits ==
  ASSUME TypeInv, EditInv, StartPass
  PROVE  EditInv'
<1>1. /\ UNCHANGED <<scenario, task, link, issue, due, proj, lost, unread>> /\ raced \subseteq raced'
      /\ inb' = [IdlePass EXCEPT !.pc = "listed", !.seen = issue]
  BY DEF StartPass, Continue
<1>2. inb'.seen = issue /\ inb'.pc = "listed"
  BY <1>1 DEF IdlePass
<1> QED BY <1>1, <1>2, ReadingEdits

LEMMA LoadingEdits ==
  ASSUME TypeInv, EditInv, LoadLinks \/ LoadTasks
  PROVE  EditInv'
<1>1. UNCHANGED <<scenario, task, link, issue, due, proj, lost, unread, raced>>
  BY DEF LoadLinks, LoadTasks, history
<1>2. inb'.seen = inb.seen /\ (inb'.pc = "applying" => inb'.tasks = task)
  BY DEF LoadLinks, LoadTasks, Continue, TypeInv, Typed, Passes
<1> QED BY <1>1, <1>2, ReadingEdits

\* A row takes its status from the board as it was read, or has a callback to come.
LEMMA ApplyRowEdits ==
  ASSUME TypeInv, OverlapsAreRaced, EditInv, NEW t \in Tasks, ApplyRow(t)
  PROVE  EditInv'
<1> DEFINE i == inb.links[t].rid
           state == inb.seen[i].state
<1>0. /\ UNCHANGED <<scenario, issue, due, proj, raced, lost, unread>>
      /\ inb.pc = "applying" /\ t \in inb.left /\ inb \in Passes /\ t \in Passed
      /\ link \in [Tasks -> Links \cup {None}] /\ task \in [Tasks -> Rows]
  BY DEF ApplyRow, history, TypeInv, Typed, Passed
<1>1. inb.links[t] \in Links /\ i \in Issues /\ link[t] \in Links
  <2>1. RidOf(inb.links[t]) # None /\ inb.links[t] \in Links \cup {None}
    BY <1>0 DEF TypeInv, PassInHand, Passes
  <2>2. inb.links[t] \in Links /\ i # None
    BY <2>1 DEF RidOf
  <2>3. link[t] # None
    BY <1>0, <2>1 DEF TypeInv, PassInHand, RidOf
  <2> QED BY <1>0, <2>2, <2>3 DEF Links
<1>2. /\ inb'.pc = "applying" /\ inb'.left = inb.left \ {t}
      /\ inb'.seen = [inb.seen EXCEPT ![i] = Unborn]
      /\ \A u \in Tasks \ {t} : inb'.tasks[u] = inb.tasks[u]
  <2>1. inb' = [inb EXCEPT !.left = @ \ {t}, !.links[t] = None, !.tasks[t] = NoRow, !.seen[i] = Unborn]
    BY DEF ApplyRow, Continue
  <2> HIDE DEF i
  <2> QED BY <1>0, <2>1 DEF Passes
<1>3. \A j \in Issues : Live(j, inb'.seen) => Live(j, issue')
  <2>1. inb.seen \in Snapshots
    BY <1>0 DEF Passes
  <2>2. \A j \in Issues : Live(j, inb'.seen) => Live(j, inb.seen)
    BY <1>1, <1>2, <2>1 DEF Live, Snapshots
  <2> QED BY <1>0, <2>2 DEF EditInv, Live
<1>4. \A u \in Tasks : RidOf(link'[u]) = RidOf(link[u])
  <2>1. CASE UNCHANGED <<task, link>>
    BY <2>1
  <2>2. CASE Live(i, inb.seen) /\ StatusOf(state) # None /\ ApplyStatus(t, state)
    BY <1>1, <2>2, ApplyStatusTypes DEF TypeInv
  <2> QED BY <2>1, <2>2 DEF ApplyRow
<1>5. \A u \in Tasks \ {t} : SameRow(u)
  <2>1. \A u \in Tasks \ {t} : task'[u] = task[u] /\ link'[u] = link[u]
    BY <1>0 DEF ApplyRow, ApplyStatus
  <2> QED BY <1>0, <2>1 DEF SameRow
<1>6. SameRow(t) \/ Arrived(t)'
  <2>1. CASE UNCHANGED <<task, link>>
    BY <1>0, <2>1 DEF SameRow
  <2>2. CASE ApplyStatus(t, state)
    <3>1. PICK st : st = StatusOf(state)
      OBVIOUS
    <3>2. PICK fp : fp = Fingerprint(st, inb.tasks[t].body)
      OBVIOUS
    <3>3. link' = [link EXCEPT ![t] = [link[t] EXCEPT !.fp = fp, !.lps = state, !.lpb = st]]
      BY <1>0, <2>2, <3>1, <3>2 DEF ApplyStatus
    <3>4. link'[t].fp = fp
      <4>1. \A l \in Links : [l EXCEPT !.fp = fp, !.lps = state, !.lpb = st].fp = fp
        BY DEF Links
      <4> QED BY <1>0, <1>1, <3>3, <4>1
    <3>5. task'[t].status = st /\ task'[t].body = task[t].body
      <4>1. task' = [task EXCEPT ![t].status = st]
        BY <2>2, <3>1 DEF ApplyStatus
      <4>2. \A r \in Rows : [r EXCEPT !.status = st].status = st /\ [r EXCEPT !.status = st].body = r.body
        BY DEF Rows
      <4> QED BY <1>0, <4>1, <4>2
    <3>6. t \in raced \/ inb.tasks[t] = task[t] \/ due[t] > 0
      BY <1>0 DEF EditInv, Shown
    <3>7. t \in raced \/ due'[t] > 0 \/ link'[t].fp = FingerprintOf(task'[t])
      BY <1>0, <3>2, <3>4, <3>5, <3>6 DEF FingerprintOf
    <3> QED BY <1>0, <3>7 DEF Arrived, FingerprintOf
  <2> QED BY <2>1, <2>2 DEF ApplyRow
<1>7. \A u \in Projected : u \in raced' \/ SameRow(u)
  <2>1. Projected \subseteq Tasks
    BY DEF Projected, TypeInv, Typed, Invocations
  <2>2. t \in Projected => t \in raced
    BY <1>0, ContendReflexive DEF OverlapsAreRaced
  <2> QED BY <1>0, <1>5, <2>1, <2>2
<1>8. \A u \in inb'.left \ raced' : Shown(u, inb.tasks[u])'
  <2>1. ASSUME NEW u \in inb.left \ raced, u # t
        PROVE  Shown(u, inb.tasks[u])'
    <3>1. Shown(u, inb.tasks[u]) /\ u \in Tasks
      BY <1>0, <2>1 DEF EditInv, Passes
    <3> QED BY <1>2, <1>5, <2>1, <3>1 DEF Shown, SameRow
  <2> QED BY <1>0, <1>2, <2>1
<1>9. LivesOn /\ \A u \in Tasks : RidOf(link'[u]) # None => Live(RidOf(link'[u]), issue')
  BY <1>0, <1>4 DEF LivesOn, EditInv, Live
<1> QED BY <1>0, <1>3, <1>5, <1>6, <1>7, <1>8, <1>9, PassEdits

LEMMA ReadTeamEdits ==
  ASSUME TypeInv, EditInv, FetchTeam \/ ReadOwned \/ \E t \in Tasks : ReadMirror(t)
  PROVE  EditInv'
<1>1. UNCHANGED <<scenario, task, link, issue, due, proj, lost, unread, raced>>
  BY DEF FetchTeam, ReadOwned, ReadMirror, history
<1>2. inb'.pc # "applying" /\ inb'.seen \in {inb.seen, issue}
  <2>1. CASE FetchTeam
    BY <2>1 DEF FetchTeam, Continue, IdlePass
  <2>2. CASE ReadOwned
    BY <2>2 DEF ReadOwned, Continue, TypeInv, Typed, Passes
  <2>3. CASE \E t \in Tasks : ReadMirror(t)
    BY <2>3 DEF ReadMirror, Continue, TypeInv, Typed, Passes
  <2> QED BY <2>1, <2>2, <2>3
<1> QED BY <1>1, <1>2, ReadingEdits

LEMMA AdoptEdits ==
  ASSUME TypeInv, OverlapsAreRaced, EditInv, Adopt
  PROVE  EditInv'
<1>1. UNCHANGED <<scenario, issue, due, proj, lost, unread, raced>> /\ inb.pc = "mirror"
  BY DEF Adopt
<1>2. PICK u \in Tasks, i \in Issues : u = inb.cur /\ i = scenario.mirror[u] /\ Live(i, inb.seen) /\ i # None
  BY <1>1, MirrorTypes, NullsAssumption DEF Candidate
<1>3. inb'.pc # "applying" /\ inb'.seen = inb.seen
  BY DEF Adopt, Continue, TypeInv, Typed, Passes
<1>4. CASE UNCHANGED <<link, task>>
  BY <1>1, <1>3, <1>4, ReadingEdits
<1>5. CASE /\ i \notin OwnedByOthers(u) /\ link' = [link EXCEPT ![u] = AdoptingLink(u)]
           /\ task' = [task EXCEPT ![u] = Adopted(u)]
  <2>1. /\ RidOf(link'[u]) = i /\ link'[u] = AdoptingLink(u) /\ task'[u] = Adopted(u)
        /\ \A t \in Tasks \ {u} : link'[t] = link[t] /\ task'[t] = task[t]
    BY <1>2, <1>5, AdoptedLink DEF TypeInv, Typed
  <2>2. link'[u].fp = FingerprintOf(Adopted(u))
    BY <2>1 DEF AdoptingLink
  <2>3. Arrived(u)'
    <3>1. link'[u].fp = FingerprintOf(task'[u])
      BY <2>1, <2>2
    <3> QED BY <3>1 DEF Arrived, FingerprintOf
  <2>4. \A t \in Tasks \ {u} : SameRow(t)
    BY <1>1, <2>1 DEF SameRow
  <2>5. u \in Projected => u \in raced
    <3>1. u \in Passed
      BY <1>1, <1>2, MirrorsPassed
    <3> QED BY <3>1, ContendReflexive DEF OverlapsAreRaced
  <2>6. Projected \subseteq Tasks
    BY DEF Projected, TypeInv, Typed, Invocations
  <2>7. \A t \in Tasks : RidOf(link'[t]) # None => Live(RidOf(link'[t]), issue')
    <3>1. Live(i, issue)
      BY <1>2 DEF EditInv
    <3>2. ASSUME NEW t \in Tasks \ {u} PROVE RidOf(link'[t]) = RidOf(link[t])
      BY <2>1 DEF RidOf
    <3> QED BY <1>1, <2>1, <3>1, <3>2 DEF EditInv, Live
  <2>8. LivesOn /\ \A j \in Issues : Live(j, inb'.seen) => Live(j, issue')
    BY <1>1, <1>3 DEF LivesOn, EditInv, Live
  <2> QED BY <1>1, <1>3, <2>3, <2>4, <2>5, <2>6, <2>7, <2>8, PassEdits
<1> QED BY <1>2, <1>4, <1>5 DEF Adopt, AdoptingLink

LEMMA StampFooterEdits ==
  ASSUME TypeInv, TypeInv', EditInv, Calm', StampFooter
  PROVE  EditInv'
<1>1. /\ UNCHANGED <<scenario, task, link, due, proj, lost, unread, raced>> /\ inb.pc = "footer"
      /\ issue \in Snapshots /\ issue' \in Snapshots
  BY DEF StampFooter, history, TypeInv, Typed
<1>2. inb'.pc # "applying" /\ inb'.seen = inb.seen
  BY DEF StampFooter, Continue, TypeInv, Typed, Passes
<1>3. LivesOn
  <2>1. ~Fault
    BY <1>1, FaultIsNoCalm
  <2>2. CASE UNCHANGED issue
    BY <2>2 DEF LivesOn, Live
  <2>3. CASE Live(scenario.mirror[inb.cur], issue) /\ ~UNCHANGED issue
    <3>1. PICK i \in Issues : i = scenario.mirror[inb.cur]
      BY <1>1, MirrorTypes
    <3>2. PICK k : k = scenario.key[inb.cur]
      OBVIOUS
    <3>3. PICK u : u = inb.cur
      OBVIOUS
    <3>4. PICK b : b = inb.seen[i].body
      OBVIOUS
    <3>5. issue' = [issue EXCEPT ![i] = [issue[i] EXCEPT !.body = b, !.key = k, !.taker = u]]
      BY <1>1, <2>3, <3>1, <3>2, <3>3, <3>4 DEF StampFooter, Snapshots
    <3>6. issue'[i] = [issue[i] EXCEPT !.body = b, !.key = k, !.taker = u]
      BY <1>1, <3>5 DEF Snapshots
    <3>7. issue'[i] \in IssueRows
      <4>1. u \in Tasks /\ k \in Keys /\ b \in Bodies
        BY <1>1, <3>1, <3>2, <3>3, <3>4, MirrorTypes, ScenarioType DEF TypeInv, IssueRows
      <4>2. issue[i] \in IssueRows
        BY <1>1, <2>3, <3>1, LiveIsRow
      <4> QED BY <3>6, <4>1, <4>2 DEF IssueRows
    <3> QED BY <1>1, <3>5, <3>7, NullsAssumption DEF LivesOn, Live, Snapshots
  <2> QED BY <2>1, <2>2, <2>3 DEF StampFooter
<1>4. /\ \A t \in Tasks : SameRow(t) /\ (RidOf(link'[t]) # None => Live(RidOf(link'[t]), issue'))
      /\ \A i \in Issues : Live(i, inb'.seen) => Live(i, issue')
      /\ Projected \subseteq Tasks
  BY <1>1, <1>2, <1>3, RidTypes DEF SameRow, EditInv, LivesOn, Projected, TypeInv, Typed, Invocations
<1> QED BY <1>1, <1>2, <1>3, <1>4, PassEdits

LEMMA EndPassEdits ==
  ASSUME TypeInv, EditInv, EndPass
  PROVE  EditInv'
<1>1. UNCHANGED <<scenario, task, link, issue, due, proj, lost, unread, raced>> /\ inb' = IdlePass
  BY DEF EndPass, history, Continue
<1>2. inb'.pc = "idle" /\ \A i \in Issues : ~Live(i, inb'.seen)
  BY <1>1 DEF IdlePass, NoIssues, Live
<1> QED BY <1>1, <1>2, ReadingEdits

\* An invocation that goes on without writing a row, a link or an issue.
SameState == UNCHANGED <<scenario, task, link, issue, due, inb, raced, unread>> /\ lost \subseteq lost'

LEMMA QuietEdits ==
  ASSUME TypeInv, OverlapsAreRaced, EditInv, NEW p \in Projections, SameState,
         NEW new \in Invocations, proj' = [proj EXCEPT ![p] = new], new.todo \subseteq proj[p].todo,
         StillThere(new), Fresh(new),
         \A t \in Tasks : proj[p].todo = {t} /\ new.todo # {t} => Arrived(t)'
  PROVE  EditInv'
<1>1. StillThere(new)'
  BY DEF SameState, StillThere, Live
<1>2. Fresh(new)'
  BY DEF SameState, Fresh, Shown, Sent, SentBody
<1>3. LivesOn /\ \A t \in Tasks : RidOf(link'[t]) # None => Live(RidOf(link'[t]), issue')
  BY DEF SameState, LivesOn, EditInv, Live
<1>4. \A t \in Tasks : task'[t] = task[t] /\ link'[t] = link[t]
  BY DEF SameState
<1>5. CalmStep(p, new)
  BY <1>3, <1>4 DEF CalmStep, SameState
<1> QED BY <1>1, <1>2, <1>5, ProjectorEdits

LEMMA IdleEdits ==
  StillThere(IdleProjection) /\ Fresh(IdleProjection)
  /\ StillThere(IdleProjection)' /\ Fresh(IdleProjection)'
<1>1. /\ IdleProjection.pc = "idle" /\ IdleProjection.todo = {} /\ IdleProjection.boot = NoBoot
  BY DEF IdleProjection
<1> HIDE DEF IdleProjection
<1> QED BY <1>1 DEF StillThere, Fresh

\* A fetched board has every issue that a link holds.
LEMMA ListingLive ==
  ASSUME TypeInv, EditInv, NEW b \in Listings
  PROVE  /\ b \in Boots /\ b.at = issue
         /\ \A k \in Keys : b.ext[k] # None => Live(b.ext[k], issue)
         /\ \A t \in Tasks : RidOf(link[t]) # None => Live(RidOf(link[t]), b.at)
<1>1. b \in Boots /\ b.at = issue
  BY ListingTypes DEF TypeInv, Listings
<1>2. \A k \in Keys : b.ext[k] # None => Live(b.ext[k], issue)
  BY DEF Listings
<1> QED BY <1>1, <1>2 DEF EditInv

LEMMA PrepareEdits ==
  ASSUME TypeInv, TypeInv', OverlapsAreRaced, EditInv, Calm', NEW p \in Projections, Prepare(p)
  PROVE  EditInv'
<1>1. SameState /\ UNCHANGED scenario
  BY DEF Prepare, SameState, history
<1>2. PICK b \in Listings : Proceed(p, [proj[p] EXCEPT !.pc = "link", !.boot = b])
  BY <1>1, FaultIsNoCalm DEF Prepare
<1> DEFINE q == proj[p]
           new == [q EXCEPT !.pc = "link", !.boot = b]
<1>3. /\ q \in Invocations /\ q.pc = "prepare" /\ Fresh(q) /\ q.todo \subseteq Tasks
      /\ proj' = [proj EXCEPT ![p] = new]
  BY <1>2 DEF Prepare, Proceed, TypeInv, Typed, EditInv, Invocations
<1>4. b \in Boots
  BY ListingLive
<1> HIDE DEF q
<1>5. /\ new \in Invocations /\ new.pc = "link" /\ new.todo = q.todo /\ new.rows = q.rows
      /\ new.boot = b
  BY <1>3, <1>4 DEF Invocations, ProjectorPcs
<1> HIDE DEF new
<1>6. StillThere(new)
  BY <1>5, ListingLive DEF StillThere
<1>7. Fresh(new)
  <2>1. \A t \in q.todo \ raced : Shown(t, q.rows[t])
    BY <1>3 DEF Fresh
  <2> QED BY <1>3, <1>5, <2>1, ListingLive DEF Fresh
<1> QED BY <1>1, <1>3, <1>5, <1>6, <1>7, QuietEdits DEF q

\* A row that its link already records is left out: its last edit has arrived.
LEMMA FindLinkEdits ==
  ASSUME TypeInv, OverlapsAreRaced, EditInv, NEW p \in Projections, NEW t \in Tasks, FindLink(p, t)
  PROVE  EditInv'
<1> DEFINE q == proj[p]
           here == [q EXCEPT !.cur = t, !.known = link[t]]
           left == q.todo \ {t}
           rest == [q EXCEPT !.todo = left, !.rows[t] = NoRow]
           unchanged == RidOf(link[t]) # None /\ link[t].fp = FingerprintOf(q.rows[t])
<1>0. /\ q \in Invocations /\ link[t] \in Links \cup {None} /\ t \in q.todo /\ q.pc = "link"
      /\ Fresh(q) /\ StillThere(q)
  BY DEF TypeInv, Typed, FindLink, EditInv
<1>1. SameState
  BY DEF FindLink, SameState, history
<1>2. \/ Proceed(p, [here EXCEPT !.pc = "insert"]) /\ link[t] = None
      \/ Proceed(p, [here EXCEPT !.pc = "owners"])
      \/ unchanged /\ left # {} /\ Proceed(p, rest)
      \/ unchanged /\ left = {} /\ Proceed(p, IdleProjection)
  BY DEF FindLink
<1>3. ASSUME unchanged, NEW u \in Tasks, q.todo = {u} PROVE Arrived(u)'
  <2>1. u = t /\ (t \in raced \/ q.rows[t] = task[t] \/ due[t] > 0)
    BY <1>0, <1>3 DEF Fresh, Shown
  <2>2. t \in raced \/ link[t].fp = FingerprintOf(task[t]) \/ due[t] > 0
    BY <1>3, <2>1
  <2> QED BY <1>1, <2>1, <2>2 DEF SameState, Arrived, FingerprintOf
<1>4. CASE unchanged /\ left # {} /\ Proceed(p, rest)
  <2>1. [q.rows EXCEPT ![t] = NoRow] \in [Tasks -> Rows]
    BY <1>0, IdleTypes DEF Invocations
  <2>2. rest = [q EXCEPT !.todo = left, !.rows = [q.rows EXCEPT ![t] = NoRow]]
    BY <1>0 DEF Invocations
  <2>3. /\ left \subseteq q.todo /\ t \notin left /\ proj' = [proj EXCEPT ![p] = rest]
        /\ \A u \in Tasks : q.todo = {u} => Arrived(u)'
    BY <1>0, <1>3, <1>4 DEF Proceed
  <2> HIDE DEF q, left, rest, unchanged
  <2>4. /\ rest \in Invocations /\ rest.pc = "link" /\ rest.todo = left /\ rest.boot = q.boot
        /\ \A u \in left : rest.rows[u] = q.rows[u]
    BY <1>0, <2>1, <2>2, <2>3 DEF Invocations
  <2>5. StillThere(rest) /\ Fresh(rest)
    BY <1>0, <2>3, <2>4 DEF StillThere, Fresh
  <2>6. rest.todo \subseteq proj[p].todo /\ \A u \in Tasks : proj[p].todo = {u} => Arrived(u)'
    BY <2>3, <2>4 DEF q
  <2> QED BY <1>1, <2>3, <2>4, <2>5, <2>6, QuietEdits
<1>5. CASE unchanged /\ left = {} /\ Proceed(p, IdleProjection)
  <2>1. \A u \in Tasks : proj[p].todo = {u} => Arrived(u)'
    BY <1>3, <1>5
  <2>2. IdleProjection.todo = {} /\ proj' = [proj EXCEPT ![p] = IdleProjection]
    BY <1>5 DEF IdleProjection, Proceed
  <2> HIDE DEF IdleProjection, unchanged
  <2> QED BY <1>1, <2>1, <2>2, IdleTypes, IdleEdits, QuietEdits
<1>6. ASSUME NEW pc \in {"insert", "owners"}, pc = "insert" => link[t] = None,
             Proceed(p, [here EXCEPT !.pc = pc])
      PROVE  EditInv'
  <2> DEFINE new == [here EXCEPT !.pc = pc]
  <2>0. proj' = [proj EXCEPT ![p] = new]
    BY <1>6 DEF Proceed
  <2> HIDE DEF q
  <2>1. /\ new \in Invocations /\ new.pc = pc /\ new.cur = t /\ new.todo = q.todo
        /\ new.known = link[t] /\ new.boot = q.boot /\ new.rows = q.rows
    BY <1>0, <1>6 DEF Invocations, ProjectorPcs
  <2> HIDE DEF new
  <2>2. StillThere(new) /\ Fresh(new)
    BY <1>0, <1>6, <2>1 DEF StillThere, Fresh
  <2> QED BY <1>1, <2>0, <2>1, <2>2, QuietEdits DEF q
<1> HIDE DEF here, rest, unchanged, left
<1> QED BY <1>2, <1>4, <1>5, <1>6

\* A row gets a link without an issue; a row that has one by then has been noticed.
LEMMA InsertLinkEdits ==
  ASSUME TypeInv, TypeInv', OverlapsAreRaced, EditInv, Calm', NEW p \in Projections, InsertLink(p)
  PROVE  EditInv'
<1>0. PICK q \in Invocations, u \in Tasks : q = proj[p] /\ u = q.cur
  BY DEF TypeInv, Typed, InsertLink, InHand, AtWork, Invocations
<1>1. PICK new : new = [q EXCEPT !.pc = "owners", !.known = DeclaredLink]
  OBVIOUS
<1>2. /\ q.pc = "insert" /\ link \in [Tasks -> Links \cup {None}] /\ q.todo \subseteq Tasks
      /\ Fresh(q) /\ StillThere(q) /\ u \in q.todo
  BY <1>0 DEF TypeInv, Typed, InsertLink, InHand, AtWork, Invocations, EditInv
<1>3. UNCHANGED <<scenario, task, issue, due, inb, raced, lost, unread>>
  BY DEF InsertLink, history
<1>4. CASE link[u] # None /\ proj' = [proj EXCEPT ![p] = IdleProjection] /\ UNCHANGED link
  <2>1. u \in raced
    BY <1>0, <1>2, <1>4 DEF Fresh
  <2>2. Arrived(u)' /\ \A t \in Tasks : q.todo = {t} => t = u
    BY <1>2, <1>3, <2>1 DEF Arrived
  <2>3. \A t \in Tasks : proj[p].todo = {t} => Arrived(t)'
    BY <1>0, <2>2
  <2>4. SameState /\ IdleProjection.todo = {}
    BY <1>3, <1>4 DEF SameState, IdleProjection
  <2> HIDE DEF IdleProjection
  <2> QED BY <1>4, <2>3, <2>4, IdleTypes, IdleEdits, QuietEdits
<1>5. CASE link[u] = None /\ link' = [link EXCEPT ![u] = DeclaredLink] /\ proj' = [proj EXCEPT ![p] = new]
  <2>1. /\ RidOf(link[u]) = None /\ RidOf(link'[u]) = None /\ link'[u] = DeclaredLink
        /\ \A t \in Tasks \ {u} : link'[t] = link[t]
    BY <1>2, <1>5, DeclaredLinkType DEF RidOf
  <2>2. /\ new \in Invocations /\ new.pc = "owners" /\ new.cur = u /\ new.todo = q.todo
        /\ new.known = DeclaredLink /\ new.boot = q.boot /\ new.rows = q.rows
    BY <1>0, <1>1, DeclaredLinkType DEF Invocations, ProjectorPcs
  <2>3. Arrived(u)'
    BY <2>1 DEF Arrived
  <2>4. \A t \in Tasks : RidOf(link'[t]) # None => RidOf(link'[t]) = RidOf(link[t])
    <3>1. ASSUME NEW t \in Tasks, RidOf(link'[t]) # None PROVE RidOf(link'[t]) = RidOf(link[t])
      <4>1. t # u
        BY <2>1, <3>1
      <4> QED BY <2>1, <4>1 DEF RidOf
    <3> QED BY <3>1
  <2>5. LivesOn /\ \A t \in Tasks : RidOf(link'[t]) # None => Live(RidOf(link'[t]), issue')
    BY <1>3, <2>4 DEF LivesOn, EditInv, Live
  <2>6. CalmStep(p, new)
    <3>1. \A t \in Tasks : t # u => task'[t] = task[t] /\ link'[t] = link[t]
      BY <1>3, <2>1
    <3>2. \A t \in Tasks : Arrived(t)' \/ (task'[t] = task[t] /\ link'[t] = link[t])
      BY <2>3, <3>1
    <3> QED BY <1>0, <1>2, <1>3, <1>5, <2>2, <2>5, <3>1, <3>2 DEF CalmStep
  <2>7. StillThere(new)'
    BY <1>2, <1>3, <2>2 DEF StillThere, Live
  <2>8. Fresh(new)'
    <3>1. ASSUME NEW t \in q.todo \ raced
          PROVE  /\ new.rows[t] = task'[t] \/ due'[t] > 0
                 /\ q.boot # NoBoot /\ RidOf(link'[t]) # None => Live(RidOf(link'[t]), q.boot.at)
      <4>1. Shown(t, q.rows[t]) /\ (q.boot # NoBoot /\ RidOf(link[t]) # None => Live(RidOf(link[t]), q.boot.at))
        BY <1>2, <3>1 DEF Fresh
      <4>2. t \in Tasks
        BY <1>2, <3>1
      <4> QED BY <1>3, <2>2, <2>4, <4>1, <4>2 DEF Shown, Live
    <3>2. NoBoot' = NoBoot
      BY DEF NoBoot
    <3> QED BY <1>3, <2>1, <2>2, <3>1, <3>2 DEF Fresh, Shown
  <2> QED BY <2>2, <2>6, <2>7, <2>8, ProjectorEdits
<1>6. ~Fault
  BY <1>3, FaultIsNoCalm
<1> QED BY <1>0, <1>1, <1>4, <1>5, <1>6 DEF InsertLink, Proceed

LEMMA RefusalFacts ==
  ASSUME NEW q, NEW boot, ByResourceId(q, boot) # None, Plan(q, boot).refuses
  PROVE  StateFor(q.rows[q.cur].status) = None
<1> DEFINE known == ByResourceId(q, boot)
           adopts == known = None /\ scenario.declared[q.cur] # None
           refuses == StateFor(q.rows[q.cur].status) = None
                      \/ (adopts /\ ~MayAdopt(q, boot, scenario.declared[q.cur]))
<1>1. Plan(q, boot).refuses = refuses
  BY DEF Plan
<1> QED BY <1>1

\* An invocation that chooses its issue finds the one that its link holds.
LEMMA PlannedEdits ==
  ASSUME TypeInv, OverlapsAreRaced, EditInv, SameState, NEW p \in Projections,
         NEW q \in Invocations, NEW boot \in Boots, q.cur \in q.todo, q.known \in Links,
         q.todo = proj[p].todo, \A t \in q.todo \ raced : Shown(t, q.rows[t]),
         q.cur \notin raced => link[q.cur] = q.known,
         \A i \in Issues : Live(i, boot.at) => Live(i, issue),
         \A k \in Keys : boot.ext[k] # None => Live(boot.ext[k], issue),
         \A t \in q.todo \ raced : RidOf(link[t]) # None => Live(RidOf(link[t]), boot.at),
         proj' = [proj EXCEPT ![p] = Planned(q, boot)]
  PROVE  EditInv'
<1> DEFINE new == Planned(q, boot)
           plan == Plan(q, boot)
           byId == ByResourceId(q, boot)
           byFooter == ByFooter(q, boot)
           adopts == byId = None /\ byFooter = None /\ scenario.declared[q.cur] # None
<1>0. Typed /\ q.cur \in Tasks /\ scenario.key[q.cur] \in Keys /\ q.known.rid \in Issues \cup {None}
  BY ScenarioType DEF TypeInv, Invocations, Links
<1>1. /\ new \in Invocations /\ InHand(new) /\ new.plan = plan /\ new.cur = q.cur
      /\ new.todo = q.todo /\ new.rows = q.rows /\ new.pc = "upsert"
      /\ new.boot = IF q.todo = {q.cur} THEN NoBoot ELSE boot
  BY <1>0, PlannedTypes
<1>2. /\ adopts => /\ plan.target = scenario.declared[q.cur]
                   /\ ~plan.refuses => MayAdopt(q, boot, plan.target)
      /\ ~adopts => plan.target = IF byId # None THEN byId ELSE byFooter
      /\ plan.seeded # None => adopts
  BY PlanFacts
<1>3. q.cur \notin raced /\ RidOf(link[q.cur]) # None => byId = RidOf(link[q.cur]) /\ byId # None
  BY <1>0 DEF ByResourceId, RidOf
<1>4. plan.refuses /\ byId # None => StateFor(q.rows[q.cur].status) = None
  BY RefusalFacts
<1>5. ~plan.refuses /\ plan.target # None => Live(plan.target, issue)
  <2>1. CASE adopts
    <3>1. scenario.declared[q.cur] \in Issues \cup {None}
      BY <1>0, ScenarioType
    <3> QED BY <1>2, <2>1, <3>1 DEF MayAdopt
  <2>2. CASE byId # None
    BY <1>0, <1>2, <2>2 DEF ByResourceId
  <2>3. CASE ~adopts /\ byId = None
    BY <1>0, <1>2, <2>3 DEF ByFooter
  <2> QED BY <2>1, <2>2, <2>3
<1> HIDE DEF new, plan, byId, byFooter
<1>6. StillThere(new)
  BY <1>1, <1>5 DEF StillThere
<1>7. Fresh(new)
  BY <1>0, <1>1, <1>2, <1>3, <1>4 DEF Fresh
<1> QED BY <1>1, <1>6, <1>7, QuietEdits DEF new

LEMMA FetchBootEdits ==
  ASSUME TypeInv, OverlapsAreRaced, EditInv, NEW p \in Projections, FetchBoot(p)
  PROVE  EditInv'
<1>0. PICK q \in Invocations : q = proj[p]
  BY DEF TypeInv, Typed
<1>1. PICK b \in Listings : proj' = [proj EXCEPT ![p] = Planned(q, b)]
  BY <1>0 DEF FetchBoot, Proceed
<1>2. /\ q.pc = "listing" /\ q.cur \in q.todo /\ q.known \in Links /\ Fresh(q) /\ q.todo \subseteq Tasks
      /\ q.todo = proj[p].todo
  BY <1>0 DEF FetchBoot, TypeInv, InHand, AtWork, EditInv, Invocations
<1>3. SameState
  BY DEF FetchBoot, SameState, history
<1>4. /\ \A t \in q.todo \ raced : Shown(t, q.rows[t])
      /\ q.cur \notin raced => link[q.cur] = q.known
  BY <1>2 DEF Fresh
<1>5. /\ b \in Boots /\ \A i \in Issues : Live(i, b.at) => Live(i, issue)
      /\ \A k \in Keys : b.ext[k] # None => Live(b.ext[k], issue)
      /\ \A t \in q.todo \ raced : RidOf(link[t]) # None => Live(RidOf(link[t]), b.at)
  BY <1>2, ListingLive
<1> QED BY <1>1, <1>2, <1>3, <1>4, <1>5, PlannedEdits

LEMMA ReadOwnersEdits ==
  ASSUME TypeInv, TypeInv', OverlapsAreRaced, EditInv, Calm', NEW p \in Projections, ReadOwners(p)
  PROVE  EditInv'
<1>0. PICK q \in Invocations : q = proj[p]
  BY DEF TypeInv, Typed
<1>1. PICK owned \in SUBSET Issues : owned = OwnedByOthers(q.cur)
  BY RidTypes DEF OwnedByOthers
<1>2. PICK s : s = [q EXCEPT !.owned = owned]
  OBVIOUS
<1>3. PICK r : r = [s EXCEPT !.pc = "listing"]
  OBVIOUS
<1>4. /\ q.pc = "owners" /\ q.cur \in q.todo /\ q.known \in Links /\ Fresh(q) /\ StillThere(q)
      /\ q.todo \subseteq Tasks /\ q.todo = proj[p].todo
  BY <1>0 DEF ReadOwners, TypeInv, InHand, AtWork, EditInv, Invocations
<1>5. SameState /\ proj' = [proj EXCEPT ![p] = IF s.boot = NoBoot THEN r ELSE Planned(s, s.boot)]
  <2>1. UNCHANGED scenario
    BY DEF ReadOwners
  <2>2. ~Fault
    BY <2>1, FaultIsNoCalm
  <2> QED BY <1>0, <1>1, <1>2, <1>3, <2>2 DEF ReadOwners, SameState, Proceed
<1>6. /\ s \in Invocations /\ s.pc = "owners" /\ s.cur = q.cur /\ s.todo = q.todo /\ s.rows = q.rows
      /\ s.known = q.known /\ s.boot = q.boot
  BY <1>2, <1>4 DEF Invocations
<1>7. /\ \A t \in q.todo \ raced : Shown(t, q.rows[t])
      /\ q.cur \notin raced => link[q.cur] = q.known
  BY <1>4 DEF Fresh
<1>8. CASE s.boot = NoBoot
  <2>1. /\ r \in Invocations /\ r.pc = "listing" /\ r.cur = q.cur /\ r.todo = q.todo /\ r.rows = q.rows
        /\ r.known = q.known /\ r.boot = NoBoot
    BY <1>3, <1>6, <1>8 DEF Invocations, ProjectorPcs
  <2>2. StillThere(r) /\ Fresh(r)
    BY <1>4, <1>7, <2>1 DEF StillThere, Fresh
  <2> QED BY <1>4, <1>5, <1>8, <2>1, <2>2, QuietEdits
<1>9. CASE s.boot # NoBoot
  <2>1. s.boot \in Boots
    BY <1>6, <1>9 DEF Invocations, NoBoot
  <2>2. /\ \A i \in Issues : Live(i, s.boot.at) => Live(i, issue)
        /\ \A k \in Keys : s.boot.ext[k] # None => Live(s.boot.ext[k], issue)
    BY <1>4, <1>6, <1>9 DEF StillThere
  <2>3. \A t \in q.todo \ raced : RidOf(link[t]) # None => Live(RidOf(link[t]), s.boot.at)
    BY <1>4, <1>6, <1>9 DEF Fresh
  <2> QED BY <1>4, <1>5, <1>6, <1>7, <1>9, <2>1, <2>2, <2>3, PlannedEdits
<1> QED BY <1>8, <1>9

\* An invocation is done with a row whose last edit has arrived.
LEMMA FinishEdits ==
  ASSUME TypeInv, OverlapsAreRaced, EditInv, NEW p \in Projections, Finish(p), NEW u \in Tasks,
         u = proj[p].cur, u \in proj[p].todo,
         UNCHANGED <<scenario, inb, due, raced, unread>>, lost \subseteq lost', LivesOn,
         \A t \in Tasks \ {u} : task'[t] = task[t] /\ link'[t] = link[t],
         \A t \in Tasks : RidOf(link'[t]) # None => Live(RidOf(link'[t]), issue'), Arrived(u)'
  PROVE  EditInv'
<1>0. PICK q \in Invocations : q = proj[p]
  BY DEF TypeInv, Typed
<1>1. PICK new \in Invocations :
        /\ InHand(new) /\ proj' = [proj EXCEPT ![p] = new]
        /\ new.pc \in {"idle", "link"} /\ new.todo = q.todo \ {u}
        /\ new.pc = "idle" => new.todo = {}
        /\ new.boot \in {NoBoot, q.boot}
        /\ \A t \in new.todo : new.rows[t] = q.rows[t]
  BY <1>0, FinishFacts
<1>2. Fresh(q) /\ StillThere(q) /\ q.todo \subseteq Tasks /\ u \in q.todo /\ u = q.cur
  BY <1>0 DEF EditInv, Invocations
<1>3. CalmStep(p, new)
  <2>1. \A t \in Tasks : Arrived(t)' \/ (t # u /\ task'[t] = task[t] /\ link'[t] = link[t])
    OBVIOUS
  <2>2. \A t \in Tasks \ q.todo : task'[t] = task[t] /\ link'[t] = link[t]
    BY <1>2
  <2>3. \A t \in Tasks : t # u => q.todo # {t}
    BY <1>2
  <2> QED BY <1>0, <1>1, <2>1, <2>2, <2>3 DEF CalmStep
<1>4. StillThere(new)'
  BY <1>1, <1>2 DEF StillThere, LivesOn, Live, Invocations, Boots, NoBoot
<1>5. Fresh(new)'
  <2>1. ASSUME NEW t \in new.todo \ raced
        PROVE  /\ new.rows[t] = task'[t] \/ due'[t] > 0
               /\ new.boot # NoBoot /\ RidOf(link'[t]) # None => Live(RidOf(link'[t]), new.boot.at)
    <3>1. t \in q.todo \ raced /\ t \in Tasks \ {u} /\ new.rows[t] = q.rows[t]
      BY <1>1, <1>2, <2>1
    <3>2. /\ Shown(t, q.rows[t])
          /\ q.boot # NoBoot /\ RidOf(link[t]) # None => Live(RidOf(link[t]), q.boot.at)
      BY <1>2, <3>1 DEF Fresh
    <3> QED BY <1>1, <3>1, <3>2 DEF Shown
  <2>2. NoBoot' = NoBoot
    BY DEF NoBoot
  <2> QED BY <1>1, <2>1, <2>2 DEF Fresh, Shown
<1> QED BY <1>1, <1>3, <1>4, <1>5, ProjectorEdits

\* The board has answered: the issue is there, and the row is as it was sent.
LEMMA AnsweredEdits ==
  ASSUME TypeInv, OverlapsAreRaced, EditInv, NEW p \in Projections, NEW new \in Invocations,
         InHand(new), NEW i \in Issues, NEW written \in BOOLEAN,
         proj[p].pc = "upsert", HasAnswer(proj[p], i, written, new),
         proj' = [proj EXCEPT ![p] = new], UNCHANGED <<scenario, task, link, inb, due, raced, lost, unread>>,
         LivesOn, Live(i, issue'), written => Projection(proj[p], i) \in IssueRows
  PROVE  EditInv'
<1>0. PICK q \in Invocations : q = proj[p]
  BY DEF TypeInv, Typed
<1>1. /\ Fresh(q) /\ StillThere(q) /\ q.todo \subseteq Tasks /\ q.cur \in q.todo /\ q.plan \in Plans
      /\ q.pc = "upsert" /\ scenario.key[q.cur] \in Keys
  BY <1>0, ScenarioType DEF TypeInv, EditInv, Invocations, InHand, AtWork
<1>2. /\ new.pc = IF q.plan.seeded = None THEN "persist" ELSE "seed"
      /\ new.todo = q.todo /\ new.rows = q.rows /\ new.cur = q.cur
      /\ new.plan = [q.plan EXCEPT !.target = i]
      /\ new.boot = IF q.boot = NoBoot \/ ~written THEN q.boot
                    ELSE [at |-> [q.boot.at EXCEPT ![i] = Projection(q, i)],
                          ext |-> [q.boot.ext EXCEPT ![scenario.key[q.cur]] = i]]
  BY <1>0 DEF HasAnswer
<1>3. new.plan.target = i /\ new.plan.seeded = q.plan.seeded
  BY <1>1, <1>2 DEF Plans
<1>4. CalmStep(p, new)
  <2>1. \A t \in Tasks : RidOf(link'[t]) # None => Live(RidOf(link'[t]), issue')
    BY RidTypes DEF LivesOn, EditInv
  <2> QED BY <1>0, <1>2, <2>1 DEF CalmStep
<1>5. q.boot # NoBoot =>
        /\ q.boot \in Boots
        /\ \A j \in Issues : Live(j, q.boot.at) => Live(j, new.boot.at)
        /\ \A j \in Issues : Live(j, new.boot.at) => Live(j, q.boot.at) \/ j = i
        /\ \A k \in Keys : new.boot.ext[k] \in {q.boot.ext[k], i}
  <2>1. SUFFICES ASSUME q.boot # NoBoot
                 PROVE  /\ q.boot \in Boots
                        /\ \A j \in Issues : Live(j, q.boot.at) => Live(j, new.boot.at)
                        /\ \A j \in Issues : Live(j, new.boot.at) => Live(j, q.boot.at) \/ j = i
                        /\ \A k \in Keys : new.boot.ext[k] \in {q.boot.ext[k], i}
    OBVIOUS
  <2>2. q.boot \in Boots
    BY <2>1 DEF Invocations, NoBoot
  <2>3. CASE ~written
    BY <1>2, <2>1, <2>2, <2>3
  <2>4. CASE written
    <3>1. Projection(q, i) \in IssueRows
      BY <1>0, <2>4
    <3>2. /\ new.boot.at = [q.boot.at EXCEPT ![i] = Projection(q, i)]
          /\ new.boot.ext = [q.boot.ext EXCEPT ![scenario.key[q.cur]] = i]
      BY <1>2, <2>1, <2>4
    <3> QED BY <2>2, <3>1, <3>2, NullsAssumption DEF Boots, Snapshots, Live
  <2> QED BY <2>2, <2>3, <2>4
<1>6. new.boot # NoBoot => q.boot # NoBoot
  BY <1>2
<1>7. StillThere(new)'
  <2>1. new.boot # NoBoot => /\ \A j \in Issues : Live(j, new.boot.at) => Live(j, issue')
                             /\ \A k \in Keys : new.boot.ext[k] # None => Live(new.boot.ext[k], issue')
    BY <1>1, <1>5, <1>6 DEF StillThere, LivesOn, Boots
  <2>2. NoBoot' = NoBoot
    BY DEF NoBoot
  <2> QED BY <1>2, <1>3, <2>1, <2>2 DEF StillThere, Live
<1>8. Fresh(new)'
  <2>1. ASSUME NEW t \in q.todo \ raced
        PROVE  /\ q.rows[t] = task[t] \/ due[t] > 0
               /\ new.boot # NoBoot /\ RidOf(link[t]) # None => Live(RidOf(link[t]), new.boot.at)
    <3>1. /\ Shown(t, q.rows[t])
          /\ q.boot # NoBoot /\ RidOf(link[t]) # None => Live(RidOf(link[t]), q.boot.at)
      BY <1>1, <2>1 DEF Fresh
    <3>2. RidOf(link[t]) \in Issues \cup {None}
      BY <1>1, <2>1, RidTypes
    <3> QED BY <1>5, <1>6, <3>1, <3>2 DEF Shown
  <2>2. new.pc = "persist" => Sent(new) = q.rows[q.cur]
    <3>1. q.rows[q.cur] \in Rows
      BY <1>1 DEF Invocations
    <3> QED BY <1>2, <1>3, <3>1 DEF Sent, SentBody, Rows
  <2>3. q.cur \notin raced /\ q.plan.seeded # None => RidOf(link[q.cur]) = None
    BY <1>1 DEF Fresh
  <2>4. NoBoot' = NoBoot /\ Sent(new)' = Sent(new)
    BY DEF NoBoot, Sent, SentBody
  <2> QED BY <1>2, <1>3, <2>1, <2>2, <2>3, <2>4 DEF Fresh, Shown
<1> QED BY <1>4, <1>7, <1>8, ProjectorEdits

LEMMA UpsertEdits ==
  ASSUME TypeInv, TypeInv', OverlapsAreRaced, EditInv, Calm', NEW p \in Projections, Upsert(p)
  PROVE  EditInv'
<1>0. PICK q \in Invocations, u \in Tasks : q = proj[p] /\ u = q.cur
  BY DEF TypeInv, Typed, Upsert, InHand, AtWork, Invocations
<1>1. /\ InHand(q) /\ Fresh(q) /\ StillThere(q) /\ u \in q.todo /\ q.pc = "upsert" /\ q.plan \in Plans
      /\ q.plan.target \in Issues \cup {None} /\ issue \in Snapshots /\ Typed
  BY <1>0 DEF TypeInv, Typed, Upsert, InHand, AtWork, EditInv, Plans
<1>2. UNCHANGED <<scenario, task, link, due, inb, raced, unread>>
  BY DEF Upsert
<1>3. ~Fault
  BY <1>2, FaultIsNoCalm
<1>4. ASSUME NEW i \in Issues, NEW written \in BOOLEAN, UNCHANGED lost, LivesOn, Live(i, issue'),
             Answered(p, i, written), written => Projection(q, i) \in IssueRows /\ ~q.plan.refuses
      PROVE  EditInv'
  <2>1. PICK new \in Invocations :
          InHand(new) /\ proj' = [proj EXCEPT ![p] = new] /\ HasAnswer(proj[p], i, written, new)
    BY <1>0, <1>1, <1>4, AnsweredTypes
  <2> QED BY <1>0, <1>1, <1>2, <1>4, <2>1, AnsweredEdits
<1>5. ASSUME NEW i \in Targets(q), ~q.plan.refuses, issue' = [issue EXCEPT ![i] = Projection(q, i)],
             Answered(p, i, TRUE), UNCHANGED lost
      PROVE  EditInv'
  <2>1. i \in Issues
    BY <1>5 DEF Targets
  <2>2. Projection(q, i) \in IssueRows
    BY <1>0, <1>1, <1>5, <2>1, ProjectionTypes DEF InHand
  <2>3. LivesOn /\ Live(i, issue')
    BY <1>1, <1>5, <2>1, <2>2, NullsAssumption DEF LivesOn, Live, Snapshots
  <2> QED BY <1>4, <1>5, <2>1, <2>2, <2>3
<1>6. ASSUME q.plan.same, Answered(p, q.plan.target, FALSE), UNCHANGED lost,
             issue' = [issue EXCEPT ![q.plan.target] = IF Live(q.plan.target, issue)
                                                       THEN [@ EXCEPT !.taker = q.cur] ELSE @]
      PROVE  EditInv'
  <2>1. PICK i \in Issues : i = q.plan.target
    BY <1>1, <1>6 DEF InHand
  <2>2. ~q.plan.refuses /\ i # None
    BY <1>1, <1>6, <2>1, NullsAssumption DEF InHand
  <2>3. Live(i, issue) /\ issue[i] \in IssueRows
    BY <1>1, <2>1, <2>2, LiveIsRow DEF StillThere
  <2>4. [issue[i] EXCEPT !.taker = u] \in IssueRows
    BY <2>3 DEF IssueRows
  <2>5. issue' = [issue EXCEPT ![i] = [issue[i] EXCEPT !.taker = u]]
    BY <1>0, <1>1, <1>6, <2>1, <2>3 DEF Snapshots
  <2>6. LivesOn /\ Live(i, issue')
    BY <1>1, <2>4, <2>5, NullsAssumption DEF LivesOn, Live, Snapshots
  <2> QED BY <1>4, <1>6, <2>1, <2>6
<1>7. ASSUME Finish(p), UNCHANGED <<issue, lost>>,
             q.plan.refuses \/ (~q.plan.refuses /\ Targets(q) = {})
      PROVE  EditInv'
  <2>1. ~q.plan.refuses => q.plan.target = None \/ ~Live(q.plan.target, issue)
    BY <1>1, <1>7 DEF Targets
  <2>2. q.plan.refuses \/ q.plan.target = None
    BY <1>1, <2>1 DEF StillThere
  <2>3. u \notin raced => Shown(u, q.rows[u])
    BY <1>0, <1>1 DEF Fresh
  <2>4. u \notin raced /\ RidOf(link[u]) # None => StateFor(q.rows[u].status) = None
    BY <1>0, <1>1, <2>2 DEF Fresh
  <2>5. Arrived(u)'
    BY <1>2, <2>3, <2>4 DEF Arrived, Shown
  <2>6. LivesOn /\ \A t \in Tasks : RidOf(link'[t]) # None => Live(RidOf(link'[t]), issue')
    BY <1>2, <1>7 DEF LivesOn, EditInv, Live
  <2> QED BY <1>0, <1>1, <1>2, <1>7, <2>5, <2>6, FinishEdits
<1>8. \/ \E i \in Targets(q) : /\ ~q.plan.refuses /\ issue' = [issue EXCEPT ![i] = Projection(q, i)]
                               /\ Answered(p, i, TRUE) /\ UNCHANGED lost
      \/ /\ q.plan.same /\ Answered(p, q.plan.target, FALSE) /\ UNCHANGED lost
         /\ issue' = [issue EXCEPT ![q.plan.target] = IF Live(q.plan.target, issue)
                                                      THEN [@ EXCEPT !.taker = q.cur] ELSE @]
      \/ /\ Finish(p) /\ UNCHANGED <<issue, lost>>
         /\ q.plan.refuses \/ (~q.plan.refuses /\ Targets(q) = {})
  BY <1>0, <1>3 DEF Upsert
<1> QED BY <1>5, <1>6, <1>7, <1>8

\* A seeded row becomes what was sent.
LEMMA SeedEdits ==
  ASSUME TypeInv, TypeInv', OverlapsAreRaced, EditInv, Calm', NEW p \in Projections, Seed(p)
  PROVE  EditInv'
<1>0. PICK q \in Invocations, u \in Tasks : q = proj[p] /\ u = q.cur
  BY DEF TypeInv, Typed, Seed, InHand, AtWork, Invocations
<1>1. PICK new : new = [q EXCEPT !.pc = "persist"]
  OBVIOUS
<1>2. /\ Fresh(q) /\ StillThere(q) /\ u \in q.todo /\ q.pc = "seed" /\ q.plan \in Plans
      /\ q.plan.seeded # None /\ q.todo \subseteq Tasks /\ q.rows[u] \in Rows /\ task \in [Tasks -> Rows]
  BY <1>0, NullsAssumption DEF TypeInv, Typed, Seed, InHand, AtWork, EditInv, Invocations
<1>3. UNCHANGED <<scenario, link, issue, due, inb, raced, unread>> /\ proj' = [proj EXCEPT ![p] = new]
  BY <1>0, <1>1 DEF Seed, Proceed
<1>4. task' = [task EXCEPT ![u].body = q.plan.seeded] /\ UNCHANGED lost
  BY <1>0, <1>3, FaultIsNoCalm DEF Seed
<1>5. /\ new \in Invocations /\ new.pc = "persist" /\ new.cur = u /\ new.todo = q.todo
      /\ new.rows = q.rows /\ new.plan = q.plan /\ new.boot = q.boot
  BY <1>0, <1>1 DEF Invocations, ProjectorPcs
<1>6. u \in raced \/ RidOf(link[u]) = None
  BY <1>0, <1>2 DEF Fresh
<1>7. LivesOn /\ \A t \in Tasks : RidOf(link'[t]) # None => Live(RidOf(link'[t]), issue')
  BY <1>3 DEF LivesOn, EditInv, Live
<1>8. CalmStep(p, new)
  <2>1. Arrived(u)'
    BY <1>3, <1>6 DEF Arrived
  <2>2. \A t \in Tasks : t # u => task'[t] = task[t] /\ link'[t] = link[t]
    BY <1>2, <1>3, <1>4
  <2>3. \A t \in Tasks : Arrived(t)' \/ (task'[t] = task[t] /\ link'[t] = link[t])
    BY <2>1, <2>2
  <2> QED BY <1>0, <1>2, <1>3, <1>4, <1>5, <1>7, <2>2, <2>3 DEF CalmStep
<1>9. StillThere(new)'
  <2>1. NoBoot' = NoBoot
    BY DEF NoBoot
  <2> QED BY <1>2, <1>3, <1>5, <2>1 DEF StillThere, Live
<1>10. Fresh(new)'
  <2>1. ASSUME NEW t \in q.todo \ raced
        PROVE  /\ Shown(t, q.rows[t])
               /\ q.boot # NoBoot /\ RidOf(link[t]) # None => Live(RidOf(link[t]), q.boot.at)
    BY <1>2, <2>1 DEF Fresh
  <2>2. \A t \in Tasks : t # u => task'[t] = task[t]
    BY <1>2, <1>4
  <2>3. q.rows[u] = task[u] => Sent(new) = task'[u]
    <3>1. task[u] = [status |-> task[u].status, body |-> task[u].body]
      BY <1>2 DEF Rows
    <3>2. task'[u] = [status |-> task[u].status, body |-> q.plan.seeded]
      BY <1>2, <1>4, <3>1
    <3> QED BY <1>2, <1>5, <3>2 DEF Sent, SentBody
  <2>4. NoBoot' = NoBoot /\ Sent(new)' = Sent(new)
    BY DEF NoBoot, Sent, SentBody
  <2> QED BY <1>2, <1>3, <1>5, <2>1, <2>2, <2>3, <2>4 DEF Fresh, Shown
<1> QED BY <1>5, <1>8, <1>9, <1>10, ProjectorEdits

\* A link records what was sent, and that is the row unless a callback is to come.
LEMMA PersistEdits ==
  ASSUME TypeInv, TypeInv', OverlapsAreRaced, EditInv, Calm', NEW p \in Projections, Persist(p)
  PROVE  EditInv'
<1>0. PICK q \in Invocations, u \in Tasks : q = proj[p] /\ u = q.cur
  BY DEF TypeInv, Typed, Persist, InHand, AtWork, Invocations
<1>1. /\ Fresh(q) /\ StillThere(q) /\ u \in q.todo /\ q.pc = "persist" /\ q.plan \in Plans
      /\ q.plan.target \in Issues /\ link \in [Tasks -> Links \cup {None}]
  BY <1>0 DEF TypeInv, Typed, Persist, InHand, AtWork, EditInv
<1>2. UNCHANGED <<scenario, task, issue, due, inb, raced, unread>> /\ Finish(p)
  BY DEF Persist
<1>3. \/ link' = [link EXCEPT ![u] = Recorded(q)] /\ UNCHANGED lost
      \/ lost' = lost \cup {u} /\ UNCHANGED link
  BY <1>0 DEF Persist
<1>4. LivesOn /\ lost \subseteq lost' /\ \A t \in Tasks \ {u} : task'[t] = task[t] /\ link'[t] = link[t]
  BY <1>1, <1>2, <1>3 DEF LivesOn, Live
<1>5. CASE link' = [link EXCEPT ![u] = Recorded(q)] /\ UNCHANGED lost
  <2>1. link'[u] = Recorded(q) /\ Recorded(q) \in Links /\ Recorded(q).rid = q.plan.target
    BY <1>0, <1>1, <1>5, RecordedTypes
  <2>2. RidOf(link'[u]) = q.plan.target
    BY <2>1, NullsAssumption DEF RidOf
  <2>3. Live(q.plan.target, issue')
    BY <1>1, <1>2 DEF StillThere, Live
  <2>4. ASSUME NEW t \in Tasks, RidOf(link'[t]) # None PROVE Live(RidOf(link'[t]), issue')
    <3>1. CASE t = u
      BY <2>2, <2>3, <3>1
    <3>2. CASE t # u
      BY <1>2, <1>4, <2>4, <3>2 DEF EditInv, Live, RidOf
    <3> QED BY <3>1, <3>2
  <2>5. u \notin raced => Shown(u, Sent(q))
    BY <1>0, <1>1 DEF Fresh
  <2>6. Recorded(q).fp = FingerprintOf(Sent(q))
    BY DEF Recorded, FingerprintOf, Sent
  <2>7. Arrived(u)'
    BY <1>2, <2>1, <2>5, <2>6 DEF Arrived, Shown, FingerprintOf
  <2> QED BY <1>0, <1>1, <1>2, <1>4, <2>4, <2>7, FinishEdits
<1>6. CASE lost' = lost \cup {u} /\ UNCHANGED link
  <2>1. Arrived(u)'
    BY <1>6 DEF Arrived
  <2>2. \A t \in Tasks : RidOf(link'[t]) # None => Live(RidOf(link'[t]), issue')
    BY <1>2, <1>6 DEF EditInv, Live
  <2> QED BY <1>0, <1>1, <1>2, <1>4, <2>1, <2>2, FinishEdits
<1> QED BY <1>3, <1>5, <1>6

\* No failure, crash or move is ever undone.
LEMMA CalmBefore ==
  ASSUME TypeInv, TypeInv', [Next]_vars, Calm'
  PROVE  Calm
<1>1. /\ UNCHANGED scenario
      /\ \/ UNCHANGED budget
         \/ Fault
         \/ \E i \in Issues : Move(i)
         \/ \E b \in {"edits", "passes", "batches"} : budget' = [budget EXCEPT ![b] = @ - 1]
  <2>1. CASE \E t \in Tasks : Edit(t) \/ ApplyRow(t) \/ ReadMirror(t)
    BY <2>1 DEF Edit, ApplyRow, ReadMirror
  <2>2. CASE \E i \in Issues : Move(i)
    BY <2>2 DEF Move
  <2>3. CASE \E p \in Projections, t \in Tasks : Callback(p, t) \/ FindLink(p, t)
    BY <2>3 DEF Callback, FindLink
  <2>4. CASE \E p \in Projections, j \in Projects : ProjectBoard(p, j)
    BY <2>4 DEF ProjectBoard
  <2>5. CASE \E p \in Projections : Prepare(p) \/ InsertLink(p) \/ ReadOwners(p) \/ FetchBoot(p)
    BY <2>5 DEF Prepare, InsertLink, ReadOwners, FetchBoot
  <2>6. CASE \E p \in Projections : Upsert(p) \/ Seed(p) \/ Persist(p)
    BY <2>6 DEF Upsert, Seed, Persist
  <2>7. CASE StartPass \/ LoadLinks \/ LoadTasks \/ FetchTeam
    BY <2>7 DEF StartPass, LoadLinks, LoadTasks, FetchTeam
  <2>8. CASE ReadOwned \/ Adopt \/ StampFooter \/ EndPass \/ Crash
    BY <2>8 DEF ReadOwned, Adopt, StampFooter, EndPass, Crash
  <2>9. CASE UNCHANGED vars
    BY <2>9 DEF vars
  <2> QED BY <2>1, <2>2, <2>3, <2>4, <2>5, <2>6, <2>7, <2>8, <2>9 DEF Next
<1>2. ~Fault /\ ~\E i \in Issues : Move(i)
  BY <1>1, FaultIsNoCalm, MoveIsNoCalm
<1>3. budget'.faults = budget.faults /\ budget'.moves = budget.moves
  BY <1>1, <1>2 DEF TypeInv, Typed, Budgets
<1> QED BY <1>1, <1>3 DEF Calm

LEMMA InitEdits ==
  ASSUME Init
  PROVE  EditInv
<1>1. \A p \in Projections : proj[p] = IdleProjection
  BY DEF Init
<1>2. unread = {} /\ inb.pc = "idle" /\ \A i \in Issues : ~Live(i, inb.seen)
  BY DEF Init, IdlePass, NoIssues, Live
<1>3. \A t \in Tasks : RidOf(link[t]) = None
  BY DeclaredLinkType DEF Init, RidOf
<1> QED BY <1>1, <1>2, <1>3, IdleEdits DEF EditInv, Arrived

LEMMA NextEdits ==
  ASSUME TypeInv, TypeInv', WriterInv, EditInv, [Next]_vars, Calm'
  PROVE  EditInv'
<1>0. OverlapsAreRaced
  BY DEF WriterInv
<1>1. ASSUME NEW t \in Tasks, Edit(t) \/ ApplyRow(t) \/ ReadMirror(t) PROVE EditInv'
  BY <1>0, <1>1, EditEdits, ApplyRowEdits, ReadTeamEdits
<1>2. ~\E i \in Issues : Move(i)
  BY MoveIsNoCalm
<1>3. ASSUME NEW p \in Projections, NEW t \in Tasks, Callback(p, t) \/ FindLink(p, t) PROVE EditInv'
  BY <1>0, <1>3, CallbackEdits, FindLinkEdits
<1>4. ASSUME NEW p \in Projections, NEW j \in Projects, ProjectBoard(p, j) PROVE EditInv'
  BY <1>0, <1>4, ProjectBoardEdits
<1>5. ASSUME NEW p \in Projections, Prepare(p) \/ InsertLink(p) \/ ReadOwners(p) \/ FetchBoot(p)
      PROVE  EditInv'
  BY <1>0, <1>5, PrepareEdits, InsertLinkEdits, ReadOwnersEdits, FetchBootEdits
<1>6. ASSUME NEW p \in Projections, Upsert(p) \/ Seed(p) \/ Persist(p) PROVE EditInv'
  BY <1>0, <1>6, UpsertEdits, SeedEdits, PersistEdits
<1>7. CASE StartPass \/ LoadLinks \/ LoadTasks \/ EndPass
  BY <1>7, StartPassEdits, LoadingEdits, EndPassEdits
<1>8. CASE FetchTeam \/ ReadOwned \/ Adopt \/ StampFooter
  BY <1>0, <1>8, ReadTeamEdits, AdoptEdits, StampFooterEdits
<1>9. ~Crash
  BY FaultIsNoCalm DEF Crash
<1>10. CASE UNCHANGED vars
  <2>1. UNCHANGED <<scenario, task, link, issue, due, proj, lost, unread, raced, inb>>
    BY <1>10 DEF vars
  <2>2. inb.pc = "applying" => \A t \in inb.left \ raced : Shown(t, inb.tasks[t])'
    BY <2>1 DEF EditInv, Shown
  <2>3. Projected \subseteq Tasks /\ \A t \in Tasks : SameRow(t)
    BY <2>1 DEF Projected, TypeInv, Typed, Invocations, SameRow
  <2> QED BY <2>1, <2>2, <2>3, PassEdits DEF EditInv, LivesOn, Live
<1> QED
  BY <1>1, <1>2, <1>3, <1>4, <1>5, <1>6, <1>7, <1>8, <1>9, <1>10 DEF Next

\* An edit arrives: as long as no call fails, no process dies and nobody moves an issue, a
\* row that is linked, whose callbacks are done and of which nothing runs is what its
\* member last made of it, and its link records it, however edits, callbacks, batches and
\* passes interleave -- unless its activities ran over each other, the board has no state
\* for it, or an edit fell between the load of the row and the unguarded write of a seed
\* or an adoption, which then wrote over it.
THEOREM EditsReach == Spec => []EditsArrive
<1> DEFINE Inv == TypeInv /\ SaidInv /\ WriterInv /\ (Calm => EditInv)
<1>1. Init => Inv
  BY InitTypeInv, InitSaid, InitWriter, InitEdits
<1>2. Inv /\ [Next]_vars => Inv'
  <2>1. SUFFICES ASSUME Inv, [Next]_vars PROVE Inv'
    OBVIOUS
  <2>2. TypeInv' /\ SaidInv' /\ WriterInv'
    BY <2>1, NextTypeInv, NextSaid, NextWriter
  <2>3. Calm' => EditInv'
    BY <2>1, <2>2, CalmBefore, NextEdits
  <2> QED BY <2>2, <2>3
<1>3. Inv => EditsArrive
  <2>1. SUFFICES ASSUME SaidInv, EditInv, NEW t \in Tasks, Settled(t), Quiet(t), due[t] = 0,
                        RidOf(link[t]) # None, StateFor(task[t].status) # None
                 PROVE  link[t].fp = FingerprintOf(task[t]) /\ (t \notin overtaken => AsSaid(t))
    BY DEF EditsArrive, Calm
  <2>2. \A p \in Projections : proj[p].todo # {t}
    BY <2>1 DEF Quiet, Projected
  <2>3. t \notin overtaken => AsSaid(t)
    BY <2>1 DEF SaidInv
  <2> QED BY <2>1, <2>2, <2>3 DEF EditInv, Arrived, Settled
<1> QED BY <1>1, <1>2, <1>3, PTL DEF Spec
=============================================================================
