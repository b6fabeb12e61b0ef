------------------------- MODULE PmSyncBoard_proofs -------------------------
(***************************************************************************)
(* For any rows, projections, faults and bounds, what the board shows:     *)
(* what a person wrote in Linear keeps its body as long as the rows that   *)
(* claim it met nothing else (WriteUpsSurvive); rows whose activities did  *)
(* not run over each other have at most one issue each (OneIssueEach); a   *)
(* row whose fingerprint is recorded may be skipped, for its issue is as   *)
(* the row wants it or as a person left it (SkippingIsSafe); and an        *)
(* inbound pass takes only a person's move for a move                      *)
(* (OnlyMovesAreApplied).                                                  *)
(***************************************************************************)
EXTENDS PmSync_proofs, FiniteSetTheorems

-----------------------------------------------------------------------------
(* Write-ups survive. *)

\* An issue on the board, none of whose claimants met another activity or a failure.
Watched(i) == Live(i, issue) /\ \A t \in Tasks : i \in Claims(t) => Settled(t)

\* A claimant holds the issue, or is about to record that it does.
Taken(i) ==
  \E t \in Tasks :
    /\ i \in Claims(t)
    /\ \/ RidOf(link[t]) = i
       \/ \E p \in Projections : /\ proj[p].pc \in {"seed", "persist"}
                                 /\ proj[p].cur = t /\ proj[p].plan.target = i

HeldWithBody(i) == \A t \in Tasks : RidOf(link[t]) = i => i \in Claims(t) /\ task[t].body # Blank

\* A row that had a body when it was read has one, and a seed is a body.
Bodied(q) ==
  /\ \A t \in q.todo \ raced : q.rows[t].body # Blank => task[t].body # Blank
  /\ q.pc \in {"upsert", "seed", "persist"} => q.plan.seeded # Blank

\* An invocation goes for the issue i with a body, and only for a claimant of i.
Spares(q, i) ==
  /\ q.boot # NoBoot => Live(i, q.boot.at) /\ q.boot.at[i].body # Blank
  /\ \A t \in q.todo : RidOf(link[t]) = i => q.rows[t].body # Blank
  /\ q.pc \in {"owners", "listing"} => (q.known.rid = i <=> RidOf(link[q.cur]) = i)
  /\ q.pc \in {"upsert", "seed", "persist"} /\ (q.pc = "upsert" => ~q.plan.refuses) =>
       /\ RidOf(link[q.cur]) = i => q.plan.target = i
       /\ q.plan.target = i => i \in Claims(q.cur) /\ SentBody(q) # Blank
  /\ q.pc = "persist" /\ q.plan.target = i => task[q.cur].body # Blank

\* The board's part: the issue has a body, and is as it was written or somebody's.
Standing(i) == issue[i].body # Blank /\ (Keyless(i) \/ Taken(i)) /\ HeldWithBody(i)

WrittenUp(i) ==
  /\ Standing(i)
  /\ Live(i, inb.seen) => inb.seen[i].body # Blank
  /\ \A p \in Projections : Spares(proj[p], i)

WriteUpInv ==
  /\ \A p \in Projections : Bodied(proj[p])
  /\ \A i \in Written : Watched(i) => WrittenUp(i)

\* What every step does: nothing noticed is forgotten, and nothing written comes back.
Recalled ==
  /\ UNCHANGED scenario /\ raced \subseteq raced' /\ unread \subseteq unread' /\ lost \subseteq lost'
  /\ \A i \in Written : Live(i, issue') => Live(i, issue)

LEMMA WatchedBefore ==
  ASSUME Recalled, NEW i \in Written, Watched(i)'
  PROVE  /\ Watched(i) /\ \A t \in Tasks : Claims(t)' = Claims(t)
         /\ \A t \in Tasks : i \in Claims(t) => t \notin raced' \cup lost' \cup unread'
<1>1. \A t \in Tasks : Claims(t)' = Claims(t)
  BY DEF Recalled, Claims
<1>2. Live(i, issue)
  BY DEF Watched, Recalled
<1>3. \A t \in Tasks : i \in Claims(t) => Settled(t)' /\ Settled(t)
  BY <1>1 DEF Watched, Recalled, Settled
<1> QED BY <1>1, <1>2, <1>3 DEF Watched, Settled

\* The row still holds what it held, and has not lost its body.
RowStands(t) == RidOf(link'[t]) = RidOf(link[t]) /\ (task'[t].body = Blank => task[t].body = Blank)

LEMMA BodiedStable ==
  ASSUME NEW q, Bodied(q), raced \subseteq raced', \A t \in q.todo \ raced' : RowStands(t)
  PROVE  Bodied(q)'
BY DEF Bodied, RowStands

LEMMA SparesStable ==
  ASSUME Recalled, NEW i \in Written, Watched(i)', HeldWithBody(i), HeldWithBody(i)',
         NEW q \in Invocations, AtWork(q), Spares(q, i), \A t \in q.todo \ raced' : RowStands(t)
  PROVE  Spares(q, i)'
<1>1. /\ \A t \in Tasks : Claims(t)' = Claims(t)
      /\ \A t \in Tasks : i \in Claims(t) => t \notin raced'
  BY WatchedBefore
<1>2. q.todo \subseteq Tasks /\ (q.pc \in {"owners", "listing", "upsert", "seed", "persist"} => q.cur \in q.todo)
  BY DEF Invocations, AtWork
<1>3. \A t \in q.todo : RidOf(link'[t]) = i <=> RidOf(link[t]) = i
  BY <1>1, <1>2 DEF HeldWithBody, RowStands
<1>4. \A t \in q.todo : i \in Claims(t) /\ task[t].body # Blank => task'[t].body # Blank
  BY <1>1, <1>2 DEF RowStands
<1>5. q.boot # NoBoot => Live(i, q.boot.at) /\ q.boot.at[i].body # Blank
  BY DEF Spares
<1>6. \A t \in q.todo : RidOf(link'[t]) = i => q.rows[t].body # Blank
  BY <1>3 DEF Spares
<1>7. q.pc \in {"owners", "listing"} => (q.known.rid = i <=> RidOf(link'[q.cur]) = i)
  BY <1>2, <1>3 DEF Spares
<1>8. q.pc \in {"upsert", "seed", "persist"} /\ (q.pc = "upsert" => ~q.plan.refuses) =>
        /\ RidOf(link'[q.cur]) = i => q.plan.target = i
        /\ q.plan.target = i => i \in Claims(q.cur) /\ SentBody(q) # Blank
  BY <1>2, <1>3 DEF Spares
<1>9. q.pc = "persist" /\ q.plan.target = i => task'[q.cur].body # Blank
  BY <1>2, <1>4, <1>8 DEF Spares
<1>10. NoBoot' = NoBoot /\ SentBody(q)' = SentBody(q)
  BY DEF NoBoot, SentBody
<1>11. Claims(q.cur)' = Claims(q.cur)
  BY DEF Claims, Recalled
<1> QED BY <1>5, <1>6, <1>7, <1>8, <1>9, <1>10, <1>11 DEF Spares, Live

\* A step of an invocation: what is new is its own doing.
SparingStep(p, new) ==
  /\ proj' = [proj EXCEPT ![p] = new] /\ Recalled /\ UNCHANGED inb
  /\ \A t \in Tasks \ proj[p].todo : RowStands(t)
  /\ Bodied(new)' /\ \A i \in Written : Watched(i)' => Standing(i)' /\ Spares(new, i)'

LEMMA ProjectorSpares ==
  ASSUME TypeInv, OverlapsAreRaced, WriteUpInv, NEW p \in Projections, NEW new \in Invocations,
         SparingStep(p, new)
  PROVE  WriteUpInv'
<1>1. /\ \A r \in Projections : proj'[r] = IF r = p THEN new ELSE proj[r]
      /\ Recalled /\ UNCHANGED inb
  BY DEF SparingStep, TypeInv, Typed
<1>2. ASSUME NEW r \in Projections \ {p}, NEW q \in Invocations, q = proj[r]
      PROVE  AtWork(q) /\ Bodied(q) /\ \A t \in q.todo \ raced' : RowStands(t)
  <2>1. q.todo \subseteq Tasks /\ AtWork(q) /\ Bodied(q)
    BY <1>2 DEF Invocations, TypeInv, InHand, WriteUpInv
  <2>2. \A t \in q.todo : t \in proj[p].todo => t \in raced'
    BY <1>1, <1>2, ContendReflexive DEF OverlapsAreRaced, Recalled
  <2> QED BY <2>1, <2>2 DEF SparingStep
<1>3. ASSUME NEW r \in Projections PROVE Bodied(proj[r])'
  <2>1. PICK q \in Invocations : q = proj[r]
    BY DEF TypeInv, Typed
  <2>2. CASE r = p
    BY <1>1, <2>2 DEF SparingStep
  <2>3. CASE r # p
    <3>1. Bodied(q)'
      BY <1>1, <1>2, <2>1, <2>3, BodiedStable DEF Recalled
    <3> QED BY <1>1, <2>1, <2>3, <3>1
  <2> QED BY <2>2, <2>3
<1>4. ASSUME NEW i \in Written, Watched(i)' PROVE WrittenUp(i)'
  <2>1. Watched(i) /\ WrittenUp(i) /\ Standing(i)' /\ Spares(new, i)'
    BY <1>1, <1>4, WatchedBefore DEF WriteUpInv, SparingStep
  <2>2. ASSUME NEW r \in Projections PROVE Spares(proj[r], i)'
    <3>1. PICK q \in Invocations : q = proj[r]
      BY DEF TypeInv, Typed
    <3>2. CASE r = p
      BY <1>1, <2>1, <3>2
    <3>3. CASE r # p
      <4>1. Spares(q, i) /\ HeldWithBody(i) /\ HeldWithBody(i)'
        BY <2>1, <3>1 DEF WrittenUp, Standing
      <4>2. Spares(q, i)'
        BY <1>1, <1>2, <1>4, <3>1, <3>3, <4>1, SparesStable
      <4> QED BY <1>1, <3>1, <3>3, <4>2
    <3> QED BY <3>2, <3>3
  <2>3. Live(i, inb'.seen) => inb'.seen[i].body # Blank
    BY <1>1, <2>1 DEF WrittenUp
  <2> QED BY <2>1, <2>2, <2>3 DEF WrittenUp, Live
<1> QED BY <1>3, <1>4 DEF WriteUpInv

\* The same of the pass, and of members and people.
LEMMA ElsewhereSpares ==
  ASSUME TypeInv, WriteUpInv, Recalled, UNCHANGED proj,
         \A t \in Projected : t \in raced' \/ RowStands(t),
         \A i \in Written : Watched(i)' =>
           Standing(i)' /\ (Live(i, inb'.seen) => inb'.seen[i].body # Blank)
  PROVE  WriteUpInv'
<1>1. ASSUME NEW r \in Projections
      PROVE  Bodied(proj[r])' /\ \A i \in Written : Watched(i)' => Spares(proj[r], i)'
  <2>1. PICK q \in Invocations : q = proj[r]
    BY DEF TypeInv, Typed
  <2>2. /\ AtWork(q) /\ Bodied(q) /\ proj'[r] = q /\ raced \subseteq raced'
        /\ \A t \in q.todo \ raced' : RowStands(t)
    BY <2>1 DEF TypeInv, InHand, WriteUpInv, Projected, Recalled
  <2>3. Bodied(q)'
    BY <2>2, BodiedStable
  <2>4. ASSUME NEW i \in Written, Watched(i)' PROVE Spares(q, i)'
    <3>1. WrittenUp(i)
      BY <2>4, WatchedBefore DEF WriteUpInv
    <3>2. Spares(q, i) /\ HeldWithBody(i) /\ HeldWithBody(i)'
      BY <2>1, <2>4, <3>1 DEF WrittenUp, Standing
    <3> QED BY <2>2, <2>4, <3>2, SparesStable
  <2> QED BY <2>2, <2>3, <2>4
<1>2. ASSUME NEW i \in Written, Watched(i)' PROVE WrittenUp(i)'
  BY <1>1, <1>2 DEF WrittenUp, Live
<1> QED BY <1>1, <1>2 DEF WriteUpInv

\* An issue that was somebody's is, as long as the claimants keep what they hold.
LEMMA TakenStable ==
  ASSUME NEW i, Taken(i), UNCHANGED scenario,
         \A t \in Tasks : i \in Claims(t) /\ RidOf(link[t]) = i => RidOf(link'[t]) = i,
         \A p \in Projections, t \in Tasks :
           /\ i \in Claims(t) /\ proj[p].pc \in {"seed", "persist"}
           /\ proj[p].cur = t /\ proj[p].plan.target = i
           => \/ RidOf(link'[t]) = i
              \/ /\ proj'[p].pc \in {"seed", "persist"}
                 /\ proj'[p].cur = t /\ proj'[p].plan.target = i
  PROVE  Taken(i)'
<1>1. PICK t \in Tasks :
        /\ i \in Claims(t)
        /\ \/ RidOf(link[t]) = i
           \/ \E p \in Projections : /\ proj[p].pc \in {"seed", "persist"}
                                     /\ proj[p].cur = t /\ proj[p].plan.target = i
  BY DEF Taken
<1>2. i \in Claims(t)'
  BY <1>1 DEF Claims
<1>3. \/ RidOf(link'[t]) = i
      \/ \E p \in Projections : /\ proj'[p].pc \in {"seed", "persist"}
                                /\ proj'[p].cur = t /\ proj'[p].plan.target = i
  BY <1>1
<1> QED BY <1>2, <1>3 DEF Taken

\* A board that nobody touches stands.
LEMMA SameStanding ==
  ASSUME UNCHANGED <<scenario, issue, proj>>, NEW i \in Written, Standing(i),
         \A t \in Tasks : RidOf(link'[t]) = RidOf(link[t]) /\ (RidOf(link[t]) = i => task'[t].body # Blank)
  PROVE  Standing(i)'
<1>1. Keyless(i) => Keyless(i)'
  BY DEF Keyless, Live
<1>2. Taken(i) => Taken(i)'
  BY TakenStable
<1>3. HeldWithBody(i)'
  BY DEF Standing, HeldWithBody, Claims
<1> QED BY <1>1, <1>2, <1>3 DEF Standing

-----------------------------------------------------------------------------
(* Members, people and the pass *)

\* A step that reads the board, or nothing.
LEMMA ReadingSpares ==
  ASSUME TypeInv, WriteUpInv, Recalled, UNCHANGED <<task, link, issue, proj>>,
         \A i \in Issues : Live(i, inb'.seen) => inb'.seen[i] \in {inb.seen[i], issue[i]}
  PROVE  WriteUpInv'
<1>1. \A t \in Tasks : RowStands(t)
  BY DEF RowStands
<1>2. Projected \subseteq Tasks /\ Written \subseteq Issues /\ UNCHANGED scenario
  BY PmAssumption DEF Projected, TypeInv, Typed, Invocations, Recalled
<1>3. ASSUME NEW i \in Written, Watched(i)'
      PROVE  Standing(i)' /\ (Live(i, inb'.seen) => inb'.seen[i].body # Blank)
  <2>1. WrittenUp(i) /\ Live(i, issue)
    BY <1>3, WatchedBefore DEF WriteUpInv, Watched
  <2>2. Standing(i)'
    BY <1>2, <2>1, SameStanding DEF WrittenUp, Standing, HeldWithBody
  <2>3. Live(i, inb'.seen) => inb'.seen[i].body # Blank
    BY <1>2, <2>1 DEF WrittenUp, Standing, Live
  <2> QED BY <2>2, <2>3
<1> QED BY <1>1, <1>2, <1>3, ElsewhereSpares

\* Members write bodies.
LEMMA EditSpares ==
  ASSUME TypeInv, WriteUpInv, NEW t \in Tasks, Edit(t)
  PROVE  WriteUpInv'
<1>1. UNCHANGED <<scenario, link, issue, proj, inb, raced, lost, unread>> /\ task \in [Tasks -> Rows]
  BY DEF Edit, history, TypeInv, Typed
<1>2. \A u \in Tasks : task'[u].body = Blank => task[u].body = Blank
  <2>1. CASE \E s \in Statuses : task' = [task EXCEPT ![t].status = s]
    BY <1>1, <2>1 DEF Rows
  <2>2. CASE \E x \in Texts : task' = [task EXCEPT ![t].body = x]
    BY <1>1, <2>2, PmAssumption DEF Rows
  <2> QED BY <2>1, <2>2 DEF Edit
<1>3. Recalled
  BY <1>1 DEF Recalled, Live
<1>4. \A u \in Tasks : RowStands(u)
  BY <1>1, <1>2 DEF RowStands
<1>5. ASSUME NEW i \in Written, Watched(i)'
      PROVE  Standing(i)' /\ (Live(i, inb'.seen) => inb'.seen[i].body # Blank)
  <2>1. WrittenUp(i)
    BY <1>3, <1>5, WatchedBefore DEF WriteUpInv
  <2>2. Standing(i)'
    BY <1>1, <1>2, <2>1, SameStanding DEF WrittenUp, Standing, HeldWithBody
  <2> QED BY <1>1, <2>1, <2>2 DEF WrittenUp
<1>6. Projected \subseteq Tasks
  BY DEF Projected, TypeInv, Typed, Invocations
<1> QED BY <1>1, <1>3, <1>4, <1>5, <1>6, ElsewhereSpares

\* A person leaves the body as it is.
LEMMA MoveSpares ==
  ASSUME TypeInv, WriteUpInv, NEW j \in Issues, Move(j)
  PROVE  WriteUpInv'
<1>1. UNCHANGED <<scenario, task, link, proj, inb, raced, lost, unread>> /\ issue \in Snapshots
      /\ Live(j, issue)
  BY DEF Move, history, TypeInv, Typed
<1>2. \A i \in Issues : issue'[i] = issue[i] \/ i = j
  BY <1>1 DEF Move, Snapshots
<1>3. ASSUME Live(j, issue')
      PROVE  issue'[j].body = issue[j].body /\ issue'[j].key = issue[j].key
  BY <1>3, MoveLeaves
<1>4. Recalled /\ Written \subseteq Issues
  BY <1>1, <1>2, PmAssumption DEF Recalled, Live
<1>5. \A t \in Tasks : RowStands(t)
  BY <1>1 DEF RowStands
<1>6. ASSUME NEW i \in Written, Watched(i)'
      PROVE  Standing(i)' /\ (Live(i, inb'.seen) => inb'.seen[i].body # Blank)
  <2>1. WrittenUp(i) /\ Live(i, issue') /\ Live(i, issue)
    BY <1>4, <1>6, WatchedBefore DEF WriteUpInv, Watched
  <2>2. issue'[i].body = issue[i].body /\ issue'[i].key = issue[i].key
    BY <1>2, <1>3, <1>4, <2>1
  <2>3. Taken(i) => Taken(i)'
    BY <1>1, TakenStable
  <2>4. Standing(i)'
    BY <1>1, <2>1, <2>2, <2>3 DEF WrittenUp, Standing, HeldWithBody, Claims, Keyless, Live
  <2> QED BY <1>1, <2>1, <2>4 DEF WrittenUp
<1>7. Projected \subseteq Tasks
  BY DEF Projected, TypeInv, Typed, Invocations
<1> QED BY <1>1, <1>4, <1>5, <1>6, <1>7, ElsewhereSpares

LEMMA ReadPassSpares ==
  ASSUME TypeInv, WriteUpInv,
         \/ StartPass \/ LoadLinks \/ LoadTasks \/ FetchTeam \/ ReadOwned \/ EndPass
         \/ \E t \in Tasks : ReadMirror(t)
  PROVE  WriteUpInv'
<1>1. UNCHANGED <<scenario, task, link, issue, proj, lost, unread>> /\ raced \subseteq raced'
  BY DEF StartPass, LoadLinks, LoadTasks, FetchTeam, ReadOwned, ReadMirror, EndPass, history
<1>2. Recalled
  BY <1>1 DEF Recalled, Live
<1>3. inb \in Passes
  BY DEF TypeInv, Typed
<1>4. inb'.seen \in {inb.seen, issue} \/ inb'.seen = NoIssues
  <2>1. CASE StartPass \/ FetchTeam
    BY <2>1 DEF StartPass, FetchTeam, Continue, IdlePass
  <2>2. CASE LoadLinks \/ LoadTasks
    BY <1>3, <2>2 DEF LoadLinks, LoadTasks, Continue, Passes
  <2>3. CASE ReadOwned \/ \E t \in Tasks : ReadMirror(t)
    BY <1>3, <2>3 DEF ReadOwned, ReadMirror, Continue, Passes
  <2>4. CASE EndPass
    BY <2>4 DEF EndPass, Continue, IdlePass
  <2> QED BY <2>1, <2>2, <2>3, <2>4
<1>5. \A i \in Issues : Live(i, inb'.seen) => inb'.seen[i] \in {inb.seen[i], issue[i]}
  BY <1>4 DEF NoIssues, Live
<1> QED BY <1>1, <1>2, <1>5, ReadingSpares

\* A status that is taken over leaves the body.
LEMMA ApplyRowSpares ==
  ASSUME TypeInv, WriteUpInv, NEW t \in Tasks, ApplyRow(t)
  PROVE  WriteUpInv'
<1>1. UNCHANGED <<scenario, issue, proj, raced, lost, unread>> /\ inb \in Passes /\ task \in [Tasks -> Rows]
      /\ link \in [Tasks -> Links \cup {None}] /\ t \in inb.left
  BY DEF ApplyRow, history, TypeInv, Typed
<1>4. \A u \in Tasks : task'[u].body = task[u].body /\ RidOf(link'[u]) = RidOf(link[u])
  BY ApplyRowLeaves
<1>5. Recalled /\ Written \subseteq Issues /\ \A u \in Tasks : RowStands(u)
  BY <1>1, <1>4, PmAssumption DEF Recalled, Live, RowStands
<1>6. \A i \in Issues : Live(i, inb'.seen) => inb'.seen[i] = inb.seen[i]
  BY <1>1 DEF ApplyRow, Continue, Passes, Snapshots, Live
<1>7. ASSUME NEW i \in Written, Watched(i)'
      PROVE  Standing(i)' /\ (Live(i, inb'.seen) => inb'.seen[i].body # Blank)
  <2>1. WrittenUp(i)
    BY <1>5, <1>7, WatchedBefore DEF WriteUpInv
  <2>2. Standing(i)'
    BY <1>1, <1>4, <2>1, SameStanding DEF WrittenUp, Standing, HeldWithBody
  <2> QED BY <1>5, <1>6, <2>1, <2>2 DEF WrittenUp, Live
<1>8. Projected \subseteq Tasks
  BY DEF Projected, TypeInv, Typed, Invocations
<1> QED BY <1>1, <1>5, <1>7, <1>8, ElsewhereSpares

\* The mirror takes the issue with the write-up, unless it has a body of its own.
LEMMA AdoptSpares ==
  ASSUME TypeInv, WriterInv, WriteUpInv, Adopt
  PROVE  WriteUpInv'
<1>0. /\ UNCHANGED <<scenario, issue, proj, raced, lost, unread>> /\ inb.pc = "mirror" /\ inb \in Passes
      /\ task \in [Tasks -> Rows]
  BY DEF Adopt, TypeInv, Typed
<1>1. PICK u \in Tasks, j \in Written : u = inb.cur /\ j = scenario.mirror[u]
  <2>1. inb.cur \in Tasks /\ scenario.mirror[inb.cur] \in Issues
    BY <1>0, MirrorTypes
  <2>2. scenario.mirror[inb.cur] \in Written
    BY <2>1, ScenarioType, NullsAssumption DEF TypeInv
  <2> QED BY <2>1, <2>2
<1>2. Recalled /\ Written \subseteq Issues
  BY <1>0, PmAssumption DEF Recalled, Live
<1>3. inb'.seen = inb.seen
  BY <1>0 DEF Adopt, Continue, Passes
<1>4. CASE UNCHANGED <<link, task>>
  BY <1>0, <1>2, <1>3, <1>4, ReadingSpares
<1>5. CASE /\ link[u] = None /\ j \notin OwnedByOthers(u) /\ link' = [link EXCEPT ![u] = AdoptingLink(u)]
           /\ task' = [task EXCEPT ![u] = Adopted(u)]
  <2>1. RidOf(link'[u]) = j /\ \A t \in Tasks \ {u} : link'[t] = link[t] /\ task'[t] = task[t]
    BY <1>0, <1>1, <1>5, AdoptedLink
  <2>2. u \in Passed /\ Live(j, inb.seen) /\ j # None /\ j \in Claims(u)
    <3>1. Candidate(u)
      BY <1>0, <1>1 DEF TypeInv, PassInHand
    <3> QED BY <1>0, <1>1, <3>1, MirrorsPassed DEF Candidate, Claims
  <2>3. task'[u] = Adopted(u) /\ (inb.seen[j].body # Blank => Adopted(u).body # Blank)
    BY <1>0, <1>1, <1>5 DEF Adopted
  <2>4. \A t \in Projected : t \in raced' \/ RowStands(t)
    <3>1. u \in Projected => u \in raced
      BY <2>2, ContendReflexive DEF WriterInv, OverlapsAreRaced
    <3>2. Projected \subseteq Tasks
      BY DEF Projected, TypeInv, Typed, Invocations
    <3> QED BY <1>0, <2>1, <3>1, <3>2 DEF RowStands
  <2>5. ASSUME NEW i \in Written, Watched(i)'
        PROVE  Standing(i)' /\ (Live(i, inb'.seen) => inb'.seen[i].body # Blank)
    <3>1. WrittenUp(i) /\ \A t \in Tasks : Claims(t)' = Claims(t)
      BY <1>2, <2>5, WatchedBefore DEF WriteUpInv
    <3>2. RidOf(link[u]) = None /\ i # None
      BY <1>2, <1>5, NullsAssumption DEF RidOf
    <3>3. Keyless(i) => Keyless(i)'
      BY <1>0 DEF Keyless, Live
    <3>4. Taken(i) => Taken(i)'
      BY <1>0, <2>1, <3>2, TakenStable
    <3>5. HeldWithBody(i)'
      <4>1. ASSUME NEW t \in Tasks, RidOf(link'[t]) = i
            PROVE  i \in Claims(t) /\ task'[t].body # Blank
        <5>1. CASE t = u
          BY <2>1, <2>2, <2>3, <3>1, <4>1, <5>1 DEF WrittenUp
        <5>2. CASE t # u
          BY <2>1, <3>1, <4>1, <5>2 DEF WrittenUp, Standing, HeldWithBody
        <5> QED BY <5>1, <5>2
      <4> QED BY <3>1, <4>1 DEF HeldWithBody
    <3> QED BY <1>0, <1>3, <3>1, <3>3, <3>4, <3>5 DEF Standing, WrittenUp
  <2> QED BY <1>0, <1>2, <2>4, <2>5, ElsewhereSpares
<1>6. \/ UNCHANGED <<link, task>>
      \/ /\ link[u] = None /\ j \notin OwnedByOthers(u) /\ link' = [link EXCEPT ![u] = AdoptingLink(u)]
         /\ task' = [task EXCEPT ![u] = Adopted(u)]
  BY <1>1 DEF Adopt, AdoptingLink
<1> QED BY <1>4, <1>5, <1>6

\* The footer is written with the write-up that was fetched, on an issue that is the row's.
LEMMA StampFooterSpares ==
  ASSUME TypeInv, WriterInv, WriteUpInv, StampFooter
  PROVE  WriteUpInv'
<1>0. /\ UNCHANGED <<scenario, task, link, proj, raced, lost, unread>> /\ inb.pc = "footer" /\ inb \in Passes
      /\ issue \in Snapshots
  BY DEF StampFooter, history, TypeInv, Typed
<1>1. PICK u \in Tasks, j \in Written : u = inb.cur /\ j = scenario.mirror[u]
  <2>1. inb.cur \in Tasks /\ scenario.mirror[inb.cur] \in Issues
    BY <1>0, MirrorTypes
  <2>2. scenario.mirror[inb.cur] \in Written
    BY <2>1, ScenarioType, NullsAssumption DEF TypeInv
  <2> QED BY <2>1, <2>2
<1>2. Written \subseteq Issues /\ j # None /\ Live(j, inb.seen) /\ j \in Claims(u)
  <2>1. Candidate(u)
    BY <1>0, <1>1 DEF TypeInv, PassInHand
  <2> QED BY <1>1, <2>1, PmAssumption DEF Candidate, Claims
<1>3. inb'.seen = inb.seen
  BY <1>0 DEF StampFooter, Continue, Passes
<1>4. CASE UNCHANGED issue
  <2>1. Recalled
    BY <1>0, <1>4 DEF Recalled, Live
  <2> QED BY <1>0, <1>3, <1>4, <2>1, ReadingSpares
<1>5. CASE /\ Live(j, issue)
           /\ issue' = [issue EXCEPT ![j].body = inb.seen[j].body, ![j].key = scenario.key[u],
                          ![j].taker = u]
  <2>1. \A i \in Issues \ {j} : issue'[i] = issue[i]
    BY <1>0, <1>5 DEF Snapshots
  <2>2. issue'[j].body = inb.seen[j].body
    <3>1. issue[j] \in IssueRows
      BY <1>0, <1>2, <1>5, LiveIsRow
    <3> QED BY <1>0, <1>2, <1>5, <3>1 DEF Snapshots, IssueRows
  <2>3. Recalled
    BY <1>0, <1>2, <1>5, <2>1 DEF Recalled, Live
  <2>4. \A t \in Tasks : RowStands(t)
    BY <1>0 DEF RowStands
  <2>5. ASSUME NEW i \in Written, Watched(i)'
        PROVE  Standing(i)' /\ (Live(i, inb'.seen) => inb'.seen[i].body # Blank)
    <3>1. WrittenUp(i) /\ \A t \in Tasks : i \in Claims(t) => t \notin raced
      BY <1>0, <2>3, <2>5, WatchedBefore DEF WriteUpInv
    <3>2. Taken(i) => Taken(i)'
      BY <1>0, TakenStable
    <3>3. HeldWithBody(i)'
      BY <1>0, <3>1 DEF WrittenUp, Standing, HeldWithBody, Claims
    <3>4. CASE i # j
      BY <1>2, <1>3, <2>1, <3>1, <3>2, <3>3, <3>4 DEF WrittenUp, Standing, Keyless, Live
    <3>5. CASE i = j
      <4>1. RidOf(link[u]) = j
        BY <1>0, <1>1, <1>2, <3>1, <3>5 DEF WriterInv, AdoptionInv
      <4>2. Taken(i)
        BY <1>2, <3>5, <4>1 DEF Taken
      <4> QED BY <1>2, <1>3, <2>2, <3>1, <3>2, <3>3, <3>5, <4>2 DEF WrittenUp, Standing
    <3> QED BY <3>4, <3>5
  <2>6. Projected \subseteq Tasks
    BY DEF Projected, TypeInv, Typed, Invocations
  <2> QED BY <1>0, <2>3, <2>4, <2>5, <2>6, ElsewhereSpares
<1>6. \/ UNCHANGED issue
      \/ /\ Live(j, issue)
         /\ issue' = [issue EXCEPT ![j].body = inb.seen[j].body, ![j].key = scenario.key[u],
                        ![j].taker = u]
  BY <1>1 DEF StampFooter
<1> QED BY <1>4, <1>5, <1>6

-----------------------------------------------------------------------------
(* The projector *)

\* A step that writes no issue and no row, and changes no holder.
Unwritten ==
  /\ UNCHANGED <<scenario, issue, task, inb>>
  /\ raced \subseteq raced' /\ unread \subseteq unread' /\ lost \subseteq lost'
  /\ \A t \in Tasks : RidOf(link'[t]) = RidOf(link[t])

LEMMA QuietSpares ==
  ASSUME TypeInv, OverlapsAreRaced, WriteUpInv, Unwritten, NEW p \in Projections,
         proj[p].pc \notin {"seed", "persist"},
         NEW new \in Invocations, AtWork(new), proj' = [proj EXCEPT ![p] = new], Bodied(new),
         \A i \in Written : Watched(i)' /\ Watched(i) /\ WrittenUp(i) => Spares(new, i)
  PROVE  WriteUpInv'
<1>1. UNCHANGED <<scenario, issue, task, inb>> /\ \A t \in Tasks : RidOf(link'[t]) = RidOf(link[t])
  BY DEF Unwritten
<1>2. Recalled /\ \A t \in Tasks : RowStands(t)
  BY DEF Unwritten, Recalled, Live, RowStands
<1>3. \A r \in Projections \ {p} : proj'[r] = proj[r]
  BY DEF TypeInv, Typed
<1>4. Bodied(new)'
  BY <1>2, BodiedStable DEF Recalled, Invocations
<1>5. ASSUME NEW i \in Written, Watched(i)' PROVE Standing(i)' /\ Spares(new, i)'
  <2>1. Watched(i) /\ WrittenUp(i) /\ Standing(i)
    BY <1>2, <1>5, WatchedBefore DEF WriteUpInv, WrittenUp
  <2>2. Keyless(i) => Keyless(i)'
    BY <1>1 DEF Keyless, Live
  <2>3. Taken(i) => Taken(i)'
    BY <1>1, <1>3, TakenStable
  <2>4. HeldWithBody(i)'
    BY <1>1, <2>1 DEF Standing, HeldWithBody, Claims
  <2>5. Spares(new, i) /\ HeldWithBody(i)
    BY <1>5, <2>1 DEF Standing
  <2>6. Spares(new, i)'
    BY <1>2, <1>5, <2>4, <2>5, SparesStable DEF Invocations
  <2> QED BY <1>1, <2>1, <2>2, <2>3, <2>4, <2>6 DEF Standing
<1>6. SparingStep(p, new)
  BY <1>1, <1>2, <1>4, <1>5 DEF SparingStep
<1> QED BY <1>6, ProjectorSpares

\* An invocation with nothing in hand, or between rows.
LEMMA IdleSpares ==
  /\ Bodied(IdleProjection)
  /\ AtWork(IdleProjection) /\ \A i : Spares(IdleProjection, i)
<1>1. IdleProjection.pc = "idle" /\ IdleProjection.todo = {} /\ IdleProjection.boot = NoBoot
  BY DEF IdleProjection
<1> HIDE DEF IdleProjection
<1> QED BY <1>1 DEF Bodied, AtWork, Spares

LEMMA BetweenSpares ==
  ASSUME NEW q, NEW new, new.pc \in {"idle", "prepare", "link", "insert"}, new.todo \subseteq q.todo,
         \A t \in new.todo : new.rows[t] = q.rows[t]
  PROVE  /\ Bodied(q) => Bodied(new)
         /\ new.boot \in {NoBoot, q.boot} => \A i : Spares(q, i) => Spares(new, i)
BY DEF Bodied, Spares

LEMMA BeginSpares ==
  ASSUME TypeInv, TypeInv', OverlapsAreRaced, WriteUpInv, NEW p \in Projections, NEW T \in SUBSET Tasks,
         NEW pc \in {"link", "prepare"}, Begin(p, T, pc),
         UNCHANGED <<scenario, task, link, issue, inb, lost, unread>>
  PROVE  WriteUpInv'
<1> DEFINE rows == [t \in Tasks |-> IF t \in T THEN task[t] ELSE NoRow]
<1>1. PICK new : new = [IdleProjection EXCEPT !.pc = pc, !.todo = T, !.rows = rows]
  OBVIOUS
<1>2. /\ proj' = [proj EXCEPT ![p] = new] /\ raced \subseteq raced' /\ proj[p].pc = "idle"
  BY <1>1 DEF Begin, Proceed
<1>3. /\ new.pc = pc /\ new.todo = T /\ new.boot = NoBoot /\ \A t \in T : new.rows[t] = task[t]
  BY <1>1 DEF IdleProjection
<1>4. new \in Invocations
  BY <1>2 DEF TypeInv, Typed
<1>5. Unwritten
  BY <1>2 DEF Unwritten
<1>6. Bodied(new) /\ AtWork(new)
  BY <1>3 DEF Bodied, AtWork
<1>7. ASSUME NEW i \in Written, WrittenUp(i) PROVE Spares(new, i)
  BY <1>3, <1>7 DEF Spares, WrittenUp, Standing, HeldWithBody
<1> QED BY <1>2, <1>4, <1>5, <1>6, <1>7, QuietSpares

LEMMA CallbackSpares ==
  ASSUME TypeInv, TypeInv', OverlapsAreRaced, WriteUpInv, NEW p \in Projections, NEW t \in Tasks,
         Callback(p, t)
  PROVE  WriteUpInv'
BY BeginSpares DEF Callback

LEMMA ProjectBoardSpares ==
  ASSUME TypeInv, TypeInv', OverlapsAreRaced, WriteUpInv, NEW p \in Projections, NEW j \in Projects,
         ProjectBoard(p, j)
  PROVE  WriteUpInv'
<1>1. {t \in scenario.rows : scenario.project[t] = j} \in SUBSET Tasks
  BY ScenarioType DEF TypeInv, Scenario
<1> QED BY <1>1, BeginSpares DEF ProjectBoard

\* A fetched board has every issue with the body it has.
LEMMA PrepareSpares ==
  ASSUME TypeInv, OverlapsAreRaced, WriteUpInv, NEW p \in Projections, Prepare(p)
  PROVE  WriteUpInv'
<1>1. Unwritten /\ proj[p].pc = "prepare"
  BY DEF Prepare, Unwritten, history
<1>2. CASE Proceed(p, IdleProjection)
  BY <1>1, <1>2, IdleTypes, IdleSpares, QuietSpares DEF Proceed
<1>3. ASSUME NEW b \in Listings, Proceed(p, [proj[p] EXCEPT !.pc = "link", !.boot = b])
      PROVE  WriteUpInv'
  <2>0. PICK q \in Invocations : q = proj[p]
    BY DEF TypeInv, Typed
  <2>1. PICK new : new = [q EXCEPT !.pc = "link", !.boot = b]
    OBVIOUS
  <2>2. b \in Boots /\ b.at = issue
    BY ListingTypes DEF TypeInv, Listings
  <2>3. /\ new \in Invocations /\ new.pc = "link" /\ new.todo = q.todo /\ new.rows = q.rows
        /\ new.boot = b /\ proj' = [proj EXCEPT ![p] = new]
    BY <1>3, <2>0, <2>1, <2>2 DEF Invocations, ProjectorPcs, Proceed
  <2>4. AtWork(new) /\ Bodied(new)
    <3>1. Bodied(q)
      BY <2>0 DEF WriteUpInv
    <3> QED BY <2>3, <3>1, BetweenSpares DEF AtWork
  <2>5. ASSUME NEW i \in Written, Watched(i), WrittenUp(i) PROVE Spares(new, i)
    <3>1. Spares(q, i)
      BY <2>0, <2>5 DEF WrittenUp
    <3> QED BY <2>2, <2>3, <2>5, <3>1 DEF Spares, WrittenUp, Standing, Watched, Live
  <2> QED BY <1>1, <2>3, <2>4, <2>5, QuietSpares
<1> QED BY <1>2, <1>3 DEF Prepare

LEMMA FindLinkSpares ==
  ASSUME TypeInv, OverlapsAreRaced, WriteUpInv, NEW p \in Projections, NEW t \in Tasks, FindLink(p, t)
  PROVE  WriteUpInv'
<1> DEFINE q == proj[p]
           here == [q EXCEPT !.cur = t, !.known = link[t]]
           left == q.todo \ {t}
           rest == [q EXCEPT !.todo = left, !.rows[t] = NoRow]
<1>0. /\ q \in Invocations /\ link[t] \in Links \cup {None} /\ t \in q.todo /\ q.pc = "link" /\ Bodied(q)
      /\ \A i \in Issues : i # None
  BY NullsAssumption DEF TypeInv, Typed, FindLink, WriteUpInv
<1>1. Unwritten
  BY DEF FindLink, Unwritten, history
<1>2. \/ Proceed(p, [here EXCEPT !.pc = "insert"])
      \/ link[t] # None /\ Proceed(p, [here EXCEPT !.pc = "owners"])
      \/ Proceed(p, rest)
      \/ Proceed(p, IdleProjection)
  BY DEF FindLink
<1>3. CASE Proceed(p, rest)
  <2>1. PICK new : new = rest
    OBVIOUS
  <2>2. [q.rows EXCEPT ![t] = NoRow] \in [Tasks -> Rows]
    BY <1>0, IdleTypes DEF Invocations
  <2>3. rest = [q EXCEPT !.todo = left, !.rows = [q.rows EXCEPT ![t] = NoRow]]
    BY <1>0 DEF Invocations
  <2>4. left \subseteq q.todo /\ t \notin left /\ proj' = [proj EXCEPT ![p] = new]
    BY <1>3, <2>1 DEF Proceed
  <2> HIDE DEF q, left
  <2>5. /\ new \in Invocations /\ new.pc = "link" /\ new.todo = left /\ new.boot = q.boot
        /\ \A u \in left : new.rows[u] = q.rows[u]
    BY <1>0, <2>1, <2>2, <2>3, <2>4 DEF Invocations
  <2>6. AtWork(new) /\ Bodied(new) /\ \A i : Spares(q, i) => Spares(new, i)
    BY <1>0, <2>4, <2>5, BetweenSpares DEF AtWork
  <2> QED BY <1>0, <1>1, <2>4, <2>5, <2>6, QuietSpares DEF q, WrittenUp
<1>4. CASE Proceed(p, IdleProjection)
  BY <1>0, <1>1, <1>4, IdleTypes, IdleSpares, QuietSpares DEF Proceed
<1>5. ASSUME NEW pc \in {"insert", "owners"}, pc = "owners" => link[t] # None,
             Proceed(p, [here EXCEPT !.pc = pc])
      PROVE  WriteUpInv'
  <2>1. PICK new : new = [here EXCEPT !.pc = pc]
    OBVIOUS
  <2>2. proj' = [proj EXCEPT ![p] = new]
    BY <1>5, <2>1 DEF Proceed
  <2> HIDE DEF q
  <2>3. /\ new \in Invocations /\ new.pc = pc /\ new.cur = t /\ new.todo = q.todo
        /\ new.known = link[t] /\ new.boot = q.boot /\ new.rows = q.rows
    BY <1>0, <1>5, <2>1 DEF Invocations, ProjectorPcs
  <2>4. AtWork(new) /\ Bodied(new)
    BY <1>0, <1>5, <2>3 DEF AtWork, Bodied
  <2>5. ASSUME NEW i, Spares(q, i) PROVE Spares(new, i)
    BY <1>5, <2>3, <2>5 DEF Spares, RidOf
  <2> QED BY <1>0, <1>1, <2>2, <2>3, <2>4, <2>5, QuietSpares DEF q, WrittenUp
<1> HIDE DEF here, rest, left
<1> QED BY <1>2, <1>3, <1>4, <1>5

LEMMA InsertLinkSpares ==
  ASSUME TypeInv, OverlapsAreRaced, WriteUpInv, NEW p \in Projections, InsertLink(p)
  PROVE  WriteUpInv'
<1>0. PICK q \in Invocations, u \in Tasks : q = proj[p] /\ u = q.cur
  BY DEF TypeInv, Typed, InsertLink, InHand, AtWork, Invocations
<1>1. /\ UNCHANGED <<scenario, task, issue, inb, raced, lost, unread>> /\ q.pc = "insert" /\ u \in q.todo
      /\ link \in [Tasks -> Links \cup {None}]
  BY <1>0 DEF InsertLink, history, TypeInv, Typed, InHand, AtWork
<1>2. CASE UNCHANGED link /\ Proceed(p, IdleProjection)
  <2>1. Unwritten
    BY <1>1, <1>2 DEF Unwritten
  <2> QED BY <1>0, <1>1, <1>2, <2>1, IdleTypes, IdleSpares, QuietSpares DEF Proceed
<1>3. CASE /\ link[u] = None /\ link' = [link EXCEPT ![u] = DeclaredLink]
           /\ Proceed(p, [q EXCEPT !.pc = "owners", !.known = DeclaredLink])
  <2>1. PICK new : new = [q EXCEPT !.pc = "owners", !.known = DeclaredLink]
    OBVIOUS
  <2>2. /\ new \in Invocations /\ new.pc = "owners" /\ new.cur = u /\ new.todo = q.todo
        /\ new.known = DeclaredLink /\ new.boot = q.boot /\ new.rows = q.rows
        /\ proj' = [proj EXCEPT ![p] = new]
    BY <1>0, <1>3, <2>1, DeclaredLinkType DEF Invocations, ProjectorPcs, Proceed
  <2>3. RidOf(link[u]) = None /\ DeclaredLink.rid = None
    BY <1>3 DEF RidOf, DeclaredLink
  <2>4. Unwritten
    BY <1>1, <1>3, <2>3, DeclaredLinkType DEF Unwritten
  <2>5. AtWork(new) /\ Bodied(new)
    BY <1>0, <1>1, <2>2 DEF AtWork, Bodied, WriteUpInv
  <2>6. ASSUME NEW i \in Written, WrittenUp(i) PROVE Spares(new, i)
    <3>1. Spares(q, i) /\ i # None
      BY <1>0, <2>6, PmAssumption, NullsAssumption DEF WrittenUp
    <3> QED BY <2>2, <2>3, <3>1 DEF Spares
  <2> QED BY <1>0, <1>1, <2>2, <2>4, <2>5, <2>6, QuietSpares
<1> QED BY <1>0, <1>2, <1>3 DEF InsertLink

LEMMA SeedIsBody ==
  ASSUME NEW q, NEW boot
  PROVE  Plan(q, boot).seeded # Blank
<1>1. None # Blank
  BY NullsAssumption DEF Bodies
<1> QED BY <1>1 DEF Plan

\* The issue an invocation chooses is a claimant's, and goes with a body.
LEMMA PlanSpares ==
  ASSUME TypeInv, WriterInv, NEW p \in Projections, proj[p].pc \in {"owners", "listing"},
         NEW q \in Invocations, q.todo = proj[p].todo, q.cur \in q.todo, q.known \in Links,
         NEW boot \in Boots, NEW i \in Written, Watched(i), WrittenUp(i),
         Live(i, boot.at), boot.at[i].body # Blank,
         \A t \in q.todo : RidOf(link[t]) = i => q.rows[t].body # Blank,
         q.known.rid = i <=> RidOf(link[q.cur]) = i,
         \A k \in Keys : boot.ext[k] = i => Kin(k, i) /\ ~Keyless(i),
         \A t \in Tasks \ {q.cur} :
           i \in Claims(t) /\ Contend(t, q.cur) /\ RidOf(link[t]) = i => i \in q.owned
  PROVE  Spares(Planned(q, boot), i)
<1> DEFINE u == q.cur
           plan == Plan(q, boot)
           byId == ByResourceId(q, boot)
           byFooter == ByFooter(q, boot)
           adopts == byId = None /\ byFooter = None /\ scenario.declared[u] # None
<1>1. /\ u \in Tasks /\ Typed /\ scenario.key[u] \in Keys /\ i \in Issues /\ i # None
      /\ boot.at[i].body \in Bodies
  <2>1. u \in Tasks /\ Typed /\ i \in Issues /\ i # None
    BY PmAssumption, NullsAssumption DEF TypeInv, Invocations
  <2>2. scenario.key[u] \in Keys /\ boot.at[i] \in IssueRows
    BY <2>1, ScenarioType, LiveIsRow DEF Boots
  <2> QED BY <2>1, <2>2 DEF IssueRows
<1>2. /\ Planned(q, boot).plan = plan /\ Planned(q, boot).cur = u /\ Planned(q, boot).todo = q.todo
      /\ Planned(q, boot).rows = q.rows /\ Planned(q, boot).pc = "upsert"
      /\ Planned(q, boot).boot \in {NoBoot, boot}
  BY <1>1, PlannedTypes
<1>3. /\ ~adopts => plan.target = (IF byId # None THEN byId ELSE byFooter)
      /\ adopts => plan.target = scenario.declared[u]
      /\ plan.seeded # None => adopts
      /\ plan.seeded = None /\ adopts /\ ~plan.refuses /\ q.rows[u].body = Blank
           => boot.at[plan.target].body \in {Blank, None}
  BY PlanFacts
<1>4. plan.seeded # Blank
  BY SeedIsBody
<1>5. byId # None => byId = q.known.rid
  BY DEF ByResourceId
<1>6. q.known.rid = i => byId = i
  BY <1>1 DEF ByResourceId
<1>7. byFooter = i => boot.ext[scenario.key[u]] = i /\ i \notin q.owned
  BY <1>1 DEF ByFooter
<1>8. HeldWithBody(i) /\ \A t \in Tasks : i \in Claims(t) => t \notin raced
  BY DEF WrittenUp, Standing, Watched, Settled
<1>9. ASSUME byFooter = i, q.known.rid # i PROVE FALSE
  <2>1. i \in KeyClaims(scenario.key[u]) /\ Taken(i)
    BY <1>1, <1>7, <1>9 DEF Kin, Watched, WrittenUp, Standing
  <2>2. PICK t \in Tasks :
          /\ i \in Claims(t)
          /\ \/ RidOf(link[t]) = i
             \/ \E r \in Projections : /\ proj[r].pc \in {"seed", "persist"}
                                       /\ proj[r].cur = t /\ proj[r].plan.target = i
    BY <2>1 DEF Taken
  <2>3. Contend(t, u)
    <3>1. i \in KeyClaims(scenario.key[t])
      BY <2>2 DEF KeyClaims
    <3> QED BY <2>1, <3>1 DEF Contend
  <2>4. RidOf(link[t]) # i
    BY <1>7, <1>9, <2>2, <2>3
  <2>5. PICK r \in Projections : proj[r].pc \in {"seed", "persist"} /\ proj[r].cur = t
    BY <2>2, <2>4
  <2>6. t \in proj[r].todo /\ r # p
    BY <2>5 DEF TypeInv, InHand, AtWork
  <2>7. t \in raced
    BY <2>3, <2>6 DEF WriterInv, OverlapsAreRaced
  <2> QED BY <1>8, <2>2, <2>7
<1> HIDE DEF plan, byId, byFooter
<1>10. RidOf(link[u]) = i => plan.target = i
  BY <1>1, <1>3, <1>6
<1>11. ASSUME ~plan.refuses, plan.target = i
       PROVE  /\ i \in Claims(u)
              /\ (IF plan.seeded # None THEN plan.seeded ELSE q.rows[u].body) # Blank
  <2>1. CASE adopts
    <3>1. i \in Claims(u)
      BY <1>1, <1>3, <1>11, <2>1 DEF Claims
    <3>2. plan.seeded = None => q.rows[u].body # Blank
      BY <1>1, <1>3, <1>11, <2>1, NullsAssumption
    <3> QED BY <1>4, <3>1, <3>2
  <2>2. CASE ~adopts
    <3>1. q.known.rid = i
      BY <1>3, <1>5, <1>9, <1>11, <2>2
    <3>2. RidOf(link[u]) = i /\ i \in Claims(u) /\ q.rows[u].body # Blank
      BY <1>1, <1>8, <3>1 DEF HeldWithBody
    <3> QED BY <1>3, <2>2, <3>2
  <2> QED BY <2>1, <2>2
<1> DEFINE new == Planned(q, boot)
<1> HIDE DEF new
<1>12. /\ new.plan = plan /\ new.cur = u /\ new.todo = q.todo /\ new.rows = q.rows
       /\ new.pc = "upsert" /\ new.boot \in {NoBoot, boot}
  BY <1>2 DEF new
<1>13. SentBody(new) = IF plan.seeded # None THEN plan.seeded ELSE q.rows[u].body
  BY <1>12 DEF SentBody
<1> QED BY <1>10, <1>11, <1>12, <1>13 DEF Spares, new

LEMMA PlannedBodied ==
  ASSUME Typed, NEW q \in Invocations, NEW boot \in Boots, q.cur \in q.todo, q.known \in Links,
         \A t \in q.todo \ raced : q.rows[t].body # Blank => task[t].body # Blank
  PROVE  Bodied(Planned(q, boot))
<1>1. /\ Planned(q, boot).plan = Plan(q, boot) /\ Planned(q, boot).todo = q.todo
      /\ Planned(q, boot).rows = q.rows
  BY PlannedTypes
<1> QED BY <1>1, SeedIsBody DEF Bodied

LEMMA FetchBootSpares ==
  ASSUME TypeInv, WriterInv, WriteUpInv, NEW p \in Projections, FetchBoot(p)
  PROVE  WriteUpInv'
<1>0. PICK q \in Invocations : q = proj[p]
  BY DEF TypeInv, Typed
<1>1. PICK b \in Listings : proj' = [proj EXCEPT ![p] = Planned(q, b)]
  BY <1>0 DEF FetchBoot, Proceed
<1>2. /\ q.pc = "listing" /\ q.cur \in q.todo /\ q.known \in Links /\ q.cur \in Tasks
      /\ Typed /\ Bodied(q) /\ NoOtherHolder(q) /\ q.todo = proj[p].todo
  BY <1>0 DEF FetchBoot, TypeInv, InHand, AtWork, Invocations, WriterInv, WriteUpInv
<1>3. Unwritten
  BY DEF FetchBoot, Unwritten, history
<1>4. /\ b \in Boots /\ b.at = issue
      /\ \A k \in Keys : b.ext[k] # None => Kin(k, b.ext[k])
      /\ \A i \in Issues : Keyless(i) => \A k \in Keys : b.ext[k] # i
  BY ListingFacts DEF Listings
<1>5. PICK new : new = Planned(q, b)
  OBVIOUS
<1>6. new \in Invocations /\ AtWork(new) /\ Bodied(new)
  BY <1>2, <1>4, <1>5, PlannedTypes, PlannedBodied DEF InHand, Bodied
<1>7. ASSUME NEW i \in Written, Watched(i), WrittenUp(i) PROVE Spares(new, i)
  <2>1. Spares(q, i) /\ i \in Issues /\ i # None
    BY <1>0, <1>7, PmAssumption, NullsAssumption DEF WrittenUp
  <2>2. \A k \in Keys : b.ext[k] = i => Kin(k, i) /\ ~Keyless(i)
    BY <1>4, <2>1
  <2>3. ASSUME NEW t \in Tasks \ {q.cur}, i \in Claims(t), Contend(t, q.cur), RidOf(link[t]) = i
        PROVE  i \in q.owned
    <3>1. Clear(t)
      BY <1>7, <2>3 DEF Watched, Settled, Clear
    <3> QED BY <1>2, <2>1, <2>3, <3>1 DEF NoOtherHolder
  <2>4. Live(i, b.at) /\ b.at[i].body # Blank
    BY <1>4, <1>7 DEF Watched, WrittenUp, Standing
  <2>5. /\ \A t \in q.todo : RidOf(link[t]) = i => q.rows[t].body # Blank
        /\ q.known.rid = i <=> RidOf(link[q.cur]) = i
    BY <1>2, <2>1 DEF Spares
  <2>6. proj[p].pc \in {"owners", "listing"}
    BY <1>0, <1>2
  <2> QED BY <1>2, <1>4, <1>5, <1>7, <2>2, <2>3, <2>4, <2>5, <2>6, PlanSpares
<1>8. proj[p].pc \notin {"seed", "persist"} /\ OverlapsAreRaced /\ proj' = [proj EXCEPT ![p] = new]
  BY <1>0, <1>1, <1>2, <1>5 DEF WriterInv
<1> QED BY <1>3, <1>6, <1>7, <1>8, QuietSpares

\* Whose owners could not be read contends with no claimant of a watched issue.
LEMMA ReadOwnersSpares ==
  ASSUME TypeInv, WriterInv, WriteUpInv, NEW p \in Projections, ReadOwners(p)
  PROVE  WriteUpInv'
<1>0. PICK q \in Invocations : q = proj[p]
  BY DEF TypeInv, Typed
<1>1. /\ q.pc = "owners" /\ q.cur \in q.todo /\ q.known \in Links /\ q.cur \in Tasks
      /\ Typed /\ Bodied(q) /\ KinInvocation(q) /\ q.todo = proj[p].todo
      /\ \A i \in Issues : Keyless(i) => KeylessInvocation(q, i)
  BY <1>0 DEF ReadOwners, TypeInv, InHand, AtWork, Invocations, WriterInv, WriteUpInv, IssuesAreKin,
              KeylessIsUntouched
<1>2. Unwritten
  BY DEF ReadOwners, Unwritten
<1>3. OwnedByOthers(q.cur) \in SUBSET Issues
  BY RidTypes DEF OwnedByOthers
<1>4. PICK owned \in SUBSET Issues :
        /\ LET s == [q EXCEPT !.owned = owned]
           IN Proceed(p, IF s.boot = NoBoot THEN [s EXCEPT !.pc = "listing"] ELSE Planned(s, s.boot))
        /\ \/ owned = OwnedByOthers(q.cur)
           \/ unread' = unread \cup {t \in Tasks : Contend(q.cur, t)}
  <2> DEFINE Read(owned) ==
        LET s == [q EXCEPT !.owned = owned]
        IN Proceed(p, IF s.boot = NoBoot THEN [s EXCEPT !.pc = "listing"] ELSE Planned(s, s.boot))
  <2>1. \/ Read(OwnedByOthers(q.cur))
        \/ Read({}) /\ unread' = unread \cup {t \in Tasks : Contend(q.cur, t)}
    BY <1>0 DEF ReadOwners
  <2> HIDE DEF Read
  <2>2. \E owned \in SUBSET Issues :
          Read(owned) /\ (\/ owned = OwnedByOthers(q.cur)
                          \/ unread' = unread \cup {t \in Tasks : Contend(q.cur, t)})
    BY <1>3, <2>1
  <2> QED BY <2>2 DEF Read
<1>5. PICK s : s = [q EXCEPT !.owned = owned]
  OBVIOUS
<1>6. /\ s \in Invocations /\ s.cur = q.cur /\ s.todo = q.todo /\ s.known = q.known /\ s.rows = q.rows
      /\ s.boot = q.boot /\ s.owned = owned /\ s.pc = "owners" /\ s.boot \in Boots \cup {None}
  BY <1>1, <1>5 DEF Invocations
<1>7. proj[p].pc \in {"owners", "listing"} /\ OverlapsAreRaced
  BY <1>0, <1>1 DEF WriterInv
<1>8. CASE s.boot = NoBoot
  <2>1. PICK new : new = [s EXCEPT !.pc = "listing"]
    OBVIOUS
  <2>2. proj' = [proj EXCEPT ![p] = new]
    BY <1>4, <1>5, <1>8, <2>1 DEF Proceed
  <2>3. /\ new \in Invocations /\ new.pc = "listing" /\ new.cur = q.cur /\ new.todo = q.todo
        /\ new.known = q.known /\ new.rows = q.rows /\ new.boot = NoBoot
    BY <1>6, <1>8, <2>1 DEF Invocations, ProjectorPcs
  <2>4. AtWork(new) /\ Bodied(new)
    BY <1>1, <2>3 DEF AtWork, Bodied
  <2>5. ASSUME NEW i \in Written, WrittenUp(i) PROVE Spares(new, i)
    <3>1. Spares(q, i)
      BY <1>0, <2>5 DEF WrittenUp
    <3> QED BY <1>1, <2>3, <3>1 DEF Spares
  <2>6. proj[p].pc \notin {"seed", "persist"}
    BY <1>0, <1>1
  <2> QED BY <1>2, <1>7, <2>2, <2>3, <2>4, <2>5, <2>6, QuietSpares
<1>9. CASE s.boot # NoBoot
  <2>1. PICK new : new = Planned(s, s.boot)
    OBVIOUS
  <2>2. s.boot \in Boots /\ proj' = [proj EXCEPT ![p] = new]
    BY <1>4, <1>5, <1>6, <1>9, <2>1 DEF NoBoot, Proceed
  <2>3. new \in Invocations /\ AtWork(new) /\ Bodied(new)
    BY <1>1, <1>6, <2>1, <2>2, PlannedTypes, PlannedBodied DEF InHand, Bodied
  <2>4. ASSUME NEW i \in Written, Watched(i)', Watched(i), WrittenUp(i) PROVE Spares(new, i)
    <3>1. Spares(q, i) /\ i \in Issues /\ i # None
      BY <1>0, <2>4, PmAssumption, NullsAssumption DEF WrittenUp
    <3>2. \A k \in Keys : s.boot.ext[k] = i => Kin(k, i) /\ ~Keyless(i)
      BY <1>1, <1>6, <1>9, <3>1 DEF KinInvocation, KeylessInvocation
    <3>3. ASSUME NEW t \in Tasks \ {s.cur}, i \in Claims(t), Contend(t, s.cur), RidOf(link[t]) = i
          PROVE  i \in s.owned
      <4>1. t \notin unread'
        <5>1. i \in Claims(t)'
          BY <1>2, <3>3 DEF Unwritten, Claims
        <5> QED BY <2>4, <5>1 DEF Watched, Settled
      <4>2. owned = OwnedByOthers(q.cur)
        BY <1>4, <1>6, <3>3, <4>1, ContendSymmetric
      <4> QED BY <1>6, <3>1, <3>3, <4>2 DEF OwnedByOthers
    <3>4. Live(i, s.boot.at) /\ s.boot.at[i].body # Blank
      BY <1>6, <1>9, <3>1 DEF Spares
    <3>5. /\ \A t \in s.todo : RidOf(link[t]) = i => s.rows[t].body # Blank
          /\ s.known.rid = i <=> RidOf(link[s.cur]) = i
      BY <1>1, <1>6, <3>1 DEF Spares
    <3> QED BY <1>1, <1>6, <1>7, <2>1, <2>2, <2>4, <3>2, <3>3, <3>4, <3>5, PlanSpares
  <2>5. proj[p].pc \notin {"seed", "persist"}
    BY <1>0, <1>1
  <2> QED BY <1>2, <1>7, <2>2, <2>3, <2>4, <2>5, QuietSpares
<1> QED BY <1>8, <1>9

\* The batch goes on, or is over.
LEMMA FinishSpares ==
  ASSUME TypeInv, OverlapsAreRaced, WriteUpInv, NEW p \in Projections, Finish(p), Recalled, UNCHANGED inb,
         proj[p].cur \in proj[p].todo, \A t \in Tasks \ {proj[p].cur} : RowStands(t),
         \A i \in Written : Watched(i)' /\ WrittenUp(i) => Standing(i)'
  PROVE  WriteUpInv'
<1>0. PICK q \in Invocations : q = proj[p]
  BY DEF TypeInv, Typed
<1>1. PICK new \in Invocations :
        /\ InHand(new) /\ proj' = [proj EXCEPT ![p] = new]
        /\ new.pc \in {"idle", "link"} /\ new.todo = q.todo \ {q.cur}
        /\ new.boot \in {NoBoot, q.boot}
        /\ \A t \in new.todo : new.rows[t] = q.rows[t]
  BY <1>0, FinishFacts
<1>2. AtWork(new) /\ \A t \in new.todo : RowStands(t)
  BY <1>0, <1>1 DEF InHand, Invocations
<1>3. Bodied(new)'
  <2>1. Bodied(q)
    BY <1>0 DEF WriteUpInv
  <2>2. Bodied(new)
    BY <1>1, <2>1, BetweenSpares
  <2> QED BY <1>2, <2>2, BodiedStable DEF Recalled
<1>4. ASSUME NEW i \in Written, Watched(i)' PROVE Standing(i)' /\ Spares(new, i)'
  <2>1. WrittenUp(i)
    BY <1>4, WatchedBefore DEF WriteUpInv
  <2>2. Standing(i)' /\ HeldWithBody(i) /\ HeldWithBody(i)' /\ Spares(q, i)
    BY <1>0, <1>4, <2>1 DEF WrittenUp, Standing
  <2>3. Spares(new, i)
    BY <1>1, <2>2, BetweenSpares
  <2> QED BY <1>2, <1>4, <2>2, <2>3, SparesStable
<1>5. SparingStep(p, new)
  BY <1>0, <1>1, <1>3, <1>4 DEF SparingStep
<1> QED BY <1>5, ProjectorSpares

\* The provider's answer: an issue that was written is the claimant's, with a body.
LEMMA AnsweredSpares ==
  ASSUME TypeInv, OverlapsAreRaced, WriteUpInv, NEW p \in Projections,
         NEW q \in Invocations, q = proj[p], q.pc = "upsert", q.cur \in q.todo, q.plan \in Plans,
         ~q.plan.refuses, NEW j \in Issues, j \in Written => j = q.plan.target,
         q.plan.target # None => j = q.plan.target,
         NEW written \in BOOLEAN, NEW new \in Invocations, proj' = [proj EXCEPT ![p] = new],
         HasAnswer(q, j, written, new), written => Projection(q, j) \in IssueRows,
         UNCHANGED <<task, link, inb>>, Recalled,
         \A i \in Written : Watched(i)' /\ WrittenUp(i) =>
           issue'[i].body # Blank /\ (i # j /\ Keyless(i) => Keyless(i)')
  PROVE  WriteUpInv'
<1>1. /\ new.pc = IF q.plan.seeded = None THEN "persist" ELSE "seed"
      /\ new.todo = q.todo /\ new.rows = q.rows /\ new.cur = q.cur
      /\ new.plan.target = j /\ new.plan.seeded = q.plan.seeded
      /\ new.boot = IF q.boot = NoBoot \/ ~written THEN q.boot
                    ELSE [at |-> [q.boot.at EXCEPT ![j] = Projection(q, j)],
                          ext |-> [q.boot.ext EXCEPT ![scenario.key[q.cur]] = j]]
  BY DEF HasAnswer, Plans
<1>2. /\ Bodied(q) /\ q.cur \in Tasks /\ Written \subseteq Issues /\ SentBody(new) = SentBody(q)
      /\ \A r \in Projections : proj'[r] = IF r = p THEN new ELSE proj[r]
  BY <1>1, PmAssumption DEF WriteUpInv, Invocations, SentBody, TypeInv, Typed
<1>3. \A t \in Tasks : RowStands(t)
  BY DEF RowStands
<1>4. Bodied(new)'
  BY <1>1, <1>2 DEF Bodied, Recalled
<1>5. ASSUME NEW i \in Written, Watched(i)' PROVE Standing(i)' /\ Spares(new, i)'
  <2>1. /\ Watched(i) /\ WrittenUp(i) /\ \A t \in Tasks : Claims(t)' = Claims(t)
        /\ \A t \in Tasks : i \in Claims(t) => t \notin raced
    BY <1>5, WatchedBefore DEF WriteUpInv, Recalled
  <2>2. Spares(q, i) /\ HeldWithBody(i) /\ (Keyless(i) \/ Taken(i)) /\ i \in Issues /\ i # None
    BY <1>2, <2>1, NullsAssumption DEF WrittenUp, Standing
  <2>3. /\ RidOf(link[q.cur]) = i => j = i
        /\ j = i => i \in Claims(q.cur) /\ SentBody(q) # Blank
    BY <2>2 DEF Spares
  <2>4. HeldWithBody(i)'
    BY <2>1, <2>2 DEF HeldWithBody
  <2>5. Keyless(i)' \/ Taken(i)'
    <3>1. CASE i = j
      <4>1. i \in Claims(q.cur)' /\ proj'[p] = new
        BY <1>2, <2>1, <2>3, <3>1
      <4>2. new.pc \in {"seed", "persist"} /\ new.cur = q.cur /\ new.plan.target = i
        BY <1>1, <3>1
      <4> QED BY <1>2, <4>1, <4>2 DEF Taken
    <3>2. CASE i # j /\ Keyless(i)
      BY <1>5, <2>1, <3>2
    <3>3. CASE Taken(i)
      <4>1. \A r \in Projections : proj[r].pc \in {"seed", "persist"} => proj'[r] = proj[r]
        BY <1>2
      <4>2. UNCHANGED scenario
        BY DEF Recalled
      <4> QED BY <3>3, <4>1, <4>2, TakenStable
    <3> QED BY <2>2, <3>1, <3>2, <3>3
  <2>6. new.boot # NoBoot => Live(i, new.boot.at) /\ new.boot.at[i].body # Blank
    <3>1. CASE q.boot = NoBoot \/ ~written
      BY <1>1, <2>2, <3>1 DEF Spares
    <3>2. CASE q.boot # NoBoot /\ written
      <4>1. Live(i, q.boot.at) /\ q.boot.at[i].body # Blank /\ q.boot.at \in Snapshots
        BY <2>2, <3>2 DEF Spares, Invocations, Boots, NoBoot
      <4>2. new.boot.at = [q.boot.at EXCEPT ![j] = Projection(q, j)]
        BY <1>1, <3>2
      <4>3. CASE i # j
        BY <2>2, <4>1, <4>2, <4>3 DEF Live, Snapshots
      <4>4. CASE i = j
        <5>1. new.boot.at[i] = Projection(q, j) /\ Projection(q, j) \in IssueRows
          BY <2>2, <3>2, <4>1, <4>2, <4>4 DEF Snapshots
        <5>2. Projection(q, j).body = SentBody(q)
          BY DEF Projection
        <5> QED BY <2>3, <4>4, <5>1, <5>2, NullsAssumption DEF Live
      <4> QED BY <4>3, <4>4
    <3> QED BY <3>1, <3>2
  <2>7. j = i /\ q.plan.seeded = None => task[q.cur].body # Blank
    BY <1>2, <2>1, <2>3 DEF Bodied, SentBody
  <2>8. \A t \in q.todo : RidOf(link[t]) = i => q.rows[t].body # Blank
    BY <2>2 DEF Spares
  <2>9. Spares(new, i)
    BY <1>1, <1>2, <2>3, <2>6, <2>7, <2>8 DEF Spares
  <2>10. Spares(new, i)'
    BY <1>1, <1>2, <1>3, <1>5, <2>2, <2>4, <2>9, SparesStable DEF AtWork, Invocations
  <2> QED BY <1>5, <2>1, <2>4, <2>5, <2>10 DEF Standing
<1>6. SparingStep(p, new)
  BY <1>3, <1>4, <1>5 DEF SparingStep
<1> QED BY <1>6, ProjectorSpares

LEMMA UpsertSpares ==
  ASSUME TypeInv, OverlapsAreRaced, WriteUpInv, NEW p \in Projections, Upsert(p)
  PROVE  WriteUpInv'
<1>0. PICK q \in Invocations, u \in Tasks : q = proj[p] /\ u = q.cur
  BY DEF TypeInv, Typed, Upsert, InHand, AtWork, Invocations
<1>1. /\ InHand(q) /\ u \in q.todo /\ q.pc = "upsert" /\ q.plan \in Plans /\ issue \in Snapshots /\ Typed
      /\ q.plan.target \in Issues \cup {None} /\ Written \subseteq Issues
      /\ \A i \in Written : WrittenUp(i) => Spares(q, i)
  BY <1>0, PmAssumption DEF TypeInv, Typed, Upsert, InHand, AtWork, Plans, WrittenUp
<1>2. UNCHANGED <<scenario, task, link, inb, raced, unread>> /\ lost \subseteq lost'
  BY DEF Upsert
<1>3. \A t \in Tasks : RowStands(t)
  BY <1>2 DEF RowStands
<1>4. ASSUME NEW i \in Issues, NEW written \in BOOLEAN, Answered(p, i, written),
             written => Projection(q, i) \in IssueRows, ~q.plan.refuses
      PROVE  \E new \in Invocations :
               /\ proj' = [proj EXCEPT ![p] = new] /\ HasAnswer(q, i, written, new)
  BY <1>0, <1>1, <1>4, AnsweredTypes
<1>5. ASSUME NEW j \in Targets(q), ~q.plan.refuses, issue' = [issue EXCEPT ![j] = Projection(q, j)],
             Answered(p, j, TRUE) \/ (Finish(p) /\ lost' = lost \cup {u})
      PROVE  WriteUpInv'
  <2>1. /\ j \in Issues /\ Projection(q, j) \in IssueRows
        /\ j \in Written => j = q.plan.target
        /\ q.plan.target # None => j = q.plan.target
    <3>1. j \in Issues
      BY <1>5 DEF Targets
    <3> QED BY <1>0, <1>1, <1>5, <3>1, ProjectionTypes DEF InHand, Targets
  <2>2. issue'[j].body = SentBody(q) /\ \A i \in Issues \ {j} : issue'[i] = issue[i]
    BY <1>1, <1>5, <2>1 DEF Snapshots, Projection
  <2>3. Recalled
    <3>1. j \in Written => Live(j, issue)
      BY <1>1, <1>5, <2>1, NullsAssumption DEF Targets
    <3> QED BY <1>1, <1>2, <2>2, <3>1 DEF Recalled, Live
  <2>4. ASSUME NEW i \in Written, WrittenUp(i)
        PROVE  issue'[i].body # Blank /\ (i # j /\ Keyless(i) => Keyless(i)')
    <3>1. CASE i = j
      BY <1>1, <1>5, <2>1, <2>2, <2>4, <3>1 DEF Spares
    <3>2. CASE i # j
      BY <1>1, <2>2, <2>4, <3>2 DEF WrittenUp, Standing, Keyless, Live
    <3> QED BY <3>1, <3>2
  <2>5. CASE Answered(p, j, TRUE)
    <3>1. PICK new \in Invocations : proj' = [proj EXCEPT ![p] = new] /\ HasAnswer(q, j, TRUE, new)
      BY <1>4, <1>5, <2>1, <2>5
    <3> QED BY <1>0, <1>1, <1>2, <1>5, <2>1, <2>3, <2>4, <3>1, AnsweredSpares
  <2>6. CASE Finish(p) /\ lost' = lost \cup {u}
    <3>1. ASSUME NEW i \in Written, Watched(i)', WrittenUp(i) PROVE Standing(i)'
      <4>1. i \notin Claims(u) /\ \A t \in Tasks : Claims(t)' = Claims(t)
        BY <2>3, <2>6, <3>1, WatchedBefore
      <4>2. i # j
        BY <1>0, <1>1, <1>5, <2>1, <3>1, <4>1 DEF Spares
      <4>3. Taken(i) => Taken(i)'
        <5>1. \A r \in Projections : proj[r].pc \in {"seed", "persist"} => proj'[r] = proj[r]
          BY <1>0, <1>1, <2>6, FinishFacts DEF TypeInv, Typed
        <5> QED BY <1>2, <5>1, TakenStable
      <4> QED BY <1>2, <2>4, <3>1, <4>1, <4>2, <4>3 DEF Standing, WrittenUp, HeldWithBody
    <3> QED BY <1>0, <1>1, <1>2, <1>3, <2>3, <2>6, <3>1, FinishSpares
  <2> QED BY <1>5, <2>5, <2>6
<1>6. ASSUME q.plan.same, Answered(p, q.plan.target, FALSE),
             issue' = [issue EXCEPT ![q.plan.target] = IF Live(q.plan.target, issue)
                                                       THEN [@ EXCEPT !.taker = q.cur] ELSE @]
      PROVE  WriteUpInv'
  <2>1. PICK j \in Issues : j = q.plan.target
    BY <1>1, <1>6 DEF InHand
  <2>2. ~q.plan.refuses /\ j # None
    BY <1>1, <1>6, <2>1, NullsAssumption DEF InHand
  <2>3. \A i \in Issues : /\ Live(i, issue') => Live(i, issue)
                          /\ Live(i, issue) => issue'[i].body = issue[i].body /\ issue'[i].key = issue[i].key
    <3>1. ASSUME NEW i \in Issues, Live(i, issue)
          PROVE  issue'[i].body = issue[i].body /\ issue'[i].key = issue[i].key
      <4>1. issue[i] \in IssueRows
        BY <1>1, <3>1, LiveIsRow
      <4> QED BY <1>1, <1>6, <2>1, <3>1, <4>1 DEF Snapshots, IssueRows
    <3>2. ASSUME NEW i \in Issues, ~Live(i, issue) PROVE issue'[i] = issue[i]
      BY <1>1, <1>6, <2>1, <3>2 DEF Snapshots
    <3> QED BY <3>1, <3>2 DEF Live
  <2>4. Recalled
    BY <1>1, <1>2, <2>3 DEF Recalled
  <2>5. ASSUME NEW i \in Written, Watched(i)', WrittenUp(i)
        PROVE  issue'[i].body # Blank /\ (Keyless(i) => Keyless(i)')
    <3>1. Live(i, issue') /\ Live(i, issue) /\ issue[i].body # Blank
      BY <2>4, <2>5, WatchedBefore DEF Watched, WrittenUp, Standing
    <3> QED BY <1>1, <2>3, <3>1 DEF Keyless, Live
  <2>6. PICK new \in Invocations : proj' = [proj EXCEPT ![p] = new] /\ HasAnswer(q, j, FALSE, new)
    BY <1>4, <1>6, <2>1, <2>2
  <2> QED BY <1>0, <1>1, <1>2, <2>1, <2>2, <2>4, <2>5, <2>6, AnsweredSpares
<1>7. ASSUME Finish(p), UNCHANGED issue PROVE WriteUpInv'
  <2>1. Recalled
    BY <1>2, <1>7 DEF Recalled, Live
  <2>2. ASSUME NEW i \in Written, Watched(i)', WrittenUp(i) PROVE Standing(i)'
    <3>1. Taken(i) => Taken(i)'
      <4>1. \A r \in Projections : proj[r].pc \in {"seed", "persist"} => proj'[r] = proj[r]
        BY <1>0, <1>1, <1>7, FinishFacts DEF TypeInv, Typed
      <4> QED BY <1>2, <4>1, TakenStable
    <3> QED BY <1>2, <1>7, <2>2, <3>1 DEF Standing, WrittenUp, HeldWithBody, Claims, Keyless, Live
  <2> QED BY <1>0, <1>1, <1>2, <1>3, <1>7, <2>1, <2>2, FinishSpares
<1>8. \/ \E j \in Targets(q) : /\ ~q.plan.refuses /\ issue' = [issue EXCEPT ![j] = Projection(q, j)]
                               /\ Answered(p, j, TRUE) \/ (Finish(p) /\ lost' = lost \cup {u})
      \/ /\ q.plan.same /\ Answered(p, q.plan.target, FALSE)
         /\ issue' = [issue EXCEPT ![q.plan.target] = IF Live(q.plan.target, issue)
                                                      THEN [@ EXCEPT !.taker = q.cur] ELSE @]
      \/ Finish(p) /\ UNCHANGED issue
  BY <1>0 DEF Upsert
<1> QED BY <1>5, <1>6, <1>7, <1>8

\* A seed is a body: the row that takes a write-up over has one from now on.
LEMMA SeedSpares ==
  ASSUME TypeInv, OverlapsAreRaced, WriteUpInv, NEW p \in Projections, Seed(p)
  PROVE  WriteUpInv'
<1>0. PICK q \in Invocations, u \in Tasks : q = proj[p] /\ u = q.cur
  BY DEF TypeInv, Typed, Seed, InHand, AtWork, Invocations
<1>1. PICK new : new = [q EXCEPT !.pc = "persist"]
  OBVIOUS
<1>2. /\ Bodied(q) /\ u \in q.todo /\ q.pc = "seed" /\ q.plan \in Plans /\ q.todo \subseteq Tasks
      /\ q.plan.seeded # None /\ q.plan.seeded # Blank /\ task \in [Tasks -> Rows]
  BY <1>0, NullsAssumption DEF TypeInv, Typed, Seed, InHand, AtWork, WriteUpInv, Bodied, Invocations
<1>3. /\ UNCHANGED <<scenario, link, issue, inb, raced, unread>> /\ lost \subseteq lost'
      /\ proj' = [proj EXCEPT ![p] = new]
  BY <1>0, <1>1 DEF Seed, Proceed
<1>4. \/ task' = [task EXCEPT ![u].body = q.plan.seeded]
      \/ UNCHANGED task /\ u \in lost'
  BY <1>0 DEF Seed
<1>5. /\ new \in Invocations /\ new.pc = "persist" /\ new.cur = u /\ new.todo = q.todo
      /\ new.rows = q.rows /\ new.plan = q.plan /\ new.boot = q.boot /\ AtWork(new)
  BY <1>0, <1>1, <1>2 DEF Invocations, ProjectorPcs, AtWork
<1>6. Recalled
  BY <1>3 DEF Recalled, Live
<1>7. \A t \in Tasks : RowStands(t)
  <2>1. task'[u].body = q.plan.seeded \/ UNCHANGED task
    BY <1>2, <1>4 DEF Rows
  <2>2. \A t \in Tasks : t # u => task'[t] = task[t]
    BY <1>2, <1>4
  <2> QED BY <1>2, <1>3, <2>1, <2>2 DEF RowStands
<1>8. Bodied(new)'
  <2>1. Bodied(new)
    BY <1>2, <1>5 DEF Bodied
  <2> QED BY <1>2, <1>3, <1>5, <1>7, <2>1, BodiedStable
<1>9. ASSUME NEW i \in Written, Watched(i)' PROVE Standing(i)' /\ Spares(new, i)'
  <2>1. /\ WrittenUp(i) /\ \A t \in Tasks : Claims(t)' = Claims(t)
        /\ \A t \in Tasks : i \in Claims(t) => t \notin lost'
    BY <1>6, <1>9, WatchedBefore DEF WriteUpInv
  <2>2. Spares(q, i) /\ HeldWithBody(i) /\ (Keyless(i) \/ Taken(i)) /\ issue[i].body # Blank
    BY <1>0, <2>1 DEF WrittenUp, Standing
  <2>3. HeldWithBody(i)'
    BY <1>3, <1>7, <2>1, <2>2 DEF HeldWithBody, RowStands
  <2>4. Keyless(i) => Keyless(i)'
    BY <1>3 DEF Keyless, Live
  <2>5. Taken(i) => Taken(i)'
    <3>1. /\ proj'[p] = new
          /\ \A r \in Projections \ {p} : proj'[r] = proj[r]
      BY <1>3 DEF TypeInv, Typed
    <3>2. \A r \in Projections : proj[r].pc \in {"seed", "persist"} =>
            proj'[r].pc \in {"seed", "persist"} /\ proj'[r].cur = proj[r].cur /\ proj'[r].plan = proj[r].plan
      BY <1>0, <1>5, <3>1
    <3> QED BY <1>3, <3>2, TakenStable
  <2>6. q.plan.target = i => task'[u].body # Blank
    <3>1. q.plan.target = i => i \in Claims(u)
      BY <1>0, <1>2, <2>2 DEF Spares
    <3> QED BY <1>2, <1>4, <2>1, <3>1 DEF Rows
  <2>7. NoBoot' = NoBoot /\ SentBody(new)' = SentBody(q) /\ Claims(u)' = Claims(u)
    BY <1>0, <1>5, <2>1 DEF NoBoot, SentBody
  <2>8. Spares(new, i)'
    BY <1>0, <1>2, <1>3, <1>5, <2>2, <2>6, <2>7 DEF Spares, Live
  <2> QED BY <1>3, <2>2, <2>3, <2>4, <2>5, <2>8 DEF Standing
<1>10. SparingStep(p, new)
  BY <1>3, <1>6, <1>7, <1>8, <1>9 DEF SparingStep
<1> QED BY <1>5, <1>10, ProjectorSpares

\* What a projection wrote is recorded, and the row it is recorded for has a body.
LEMMA PersistSpares ==
  ASSUME TypeInv, OverlapsAreRaced, WriteUpInv, NEW p \in Projections, Persist(p)
  PROVE  WriteUpInv'
<1>0. PICK q \in Invocations, u \in Tasks : q = proj[p] /\ u = q.cur
  BY DEF TypeInv, Typed, Persist, InHand, AtWork, Invocations
<1>1. /\ u \in q.todo /\ q.pc = "persist" /\ q.plan \in Plans /\ link \in [Tasks -> Links \cup {None}]
  BY <1>0 DEF TypeInv, Typed, Persist, InHand, AtWork
<1>2. UNCHANGED <<scenario, task, issue, inb, raced, unread>> /\ lost \subseteq lost' /\ Finish(p)
  BY DEF Persist
<1>3. \/ link' = [link EXCEPT ![u] = Recorded(q)]
      \/ UNCHANGED link /\ u \in lost'
  BY <1>0 DEF Persist
<1>4. Recalled
  BY <1>2 DEF Recalled, Live
<1>5. \A t \in Tasks \ {u} : link'[t] = link[t] /\ RowStands(t)
  BY <1>1, <1>2, <1>3 DEF RowStands
<1>6. RidOf(link'[u]) = q.plan.target \/ (UNCHANGED link /\ u \in lost')
  <2>1. CASE link' = [link EXCEPT ![u] = Recorded(q)]
    <3>1. link'[u] = Recorded(q) /\ Recorded(q) \in Links /\ Recorded(q).rid = q.plan.target
      BY <1>0, <1>1, <2>1, RecordedTypes
    <3> QED BY <3>1, NullsAssumption DEF RidOf
  <2> QED BY <1>3, <2>1
<1>7. ASSUME NEW i \in Written, Watched(i)', WrittenUp(i) PROVE Standing(i)'
  <2>1. /\ \A t \in Tasks : Claims(t)' = Claims(t)
        /\ i \in Claims(u) => u \notin lost'
    BY <1>4, <1>7, WatchedBefore
  <2>2. Spares(q, i) /\ HeldWithBody(i) /\ (Keyless(i) \/ Taken(i)) /\ issue[i].body # Blank
    BY <1>0, <1>7 DEF WrittenUp, Standing
  <2>3. /\ RidOf(link[u]) = i => q.plan.target = i
        /\ q.plan.target = i => i \in Claims(u) /\ task[u].body # Blank
    BY <1>0, <1>1, <2>2 DEF Spares
  <2>4. HeldWithBody(i)'
    <3>1. ASSUME NEW t \in Tasks, RidOf(link'[t]) = i PROVE i \in Claims(t) /\ task[t].body # Blank
      BY <1>5, <1>6, <2>2, <2>3, <3>1 DEF HeldWithBody
    <3> QED BY <1>2, <2>1, <3>1 DEF HeldWithBody
  <2>5. Keyless(i) => Keyless(i)'
    BY <1>2 DEF Keyless, Live
  <2>6. Taken(i) => Taken(i)'
    <3>1. \A r \in Projections \ {p} : proj'[r] = proj[r]
      BY <1>0, <1>2, FinishFacts DEF TypeInv, Typed
    <3>2. \A t \in Tasks : i \in Claims(t) /\ RidOf(link[t]) = i => RidOf(link'[t]) = i
      BY <1>5, <1>6, <2>3
    <3>3. i \in Claims(u) /\ q.plan.target = i => RidOf(link'[u]) = i
      BY <1>6, <2>1
    <3> QED BY <1>0, <1>2, <3>1, <3>2, <3>3, TakenStable
  <2> QED BY <1>2, <2>2, <2>4, <2>5, <2>6 DEF Standing
<1> QED BY <1>0, <1>1, <1>2, <1>4, <1>5, <1>7, FinishSpares

\* A crash leaves no invocation, and a record that it took is a loss.
LEMMA CrashSpares ==
  ASSUME TypeInv, WriteUpInv, Crash
  PROVE  WriteUpInv'
<1>1. /\ UNCHANGED <<scenario, task, link, issue, unread, raced>>
      /\ inb' = IdlePass /\ proj' = [p \in Projections |-> IdleProjection]
      /\ lost' = lost \cup {proj[p].cur : p \in {p \in Projections : proj[p].pc \in {"seed", "persist"}}}
  BY DEF Crash
<1>2. Recalled
  BY <1>1 DEF Recalled, Live
<1>3. PICK idle : idle = IdleProjection /\ idle.todo = {} /\ idle.pc = "idle" /\ idle.boot = NoBoot
  <2>1. IdleProjection.todo = {} /\ IdleProjection.pc = "idle" /\ IdleProjection.boot = NoBoot
    BY DEF IdleProjection
  <2> QED BY <2>1
<1>4. \A p \in Projections : proj'[p] = idle
  <2>1. IdleProjection' = IdleProjection
    BY DEF IdleProjection, NoBoot, NoRow
  <2> QED BY <1>1, <1>3
<1>5. /\ Bodied(idle)' /\ \A i \in Written : Spares(idle, i)'
  <2>1. NoBoot' = NoBoot
    BY DEF NoBoot
  <2> QED BY <1>3, <2>1 DEF Bodied, Spares
<1>6. ASSUME NEW i \in Written, Watched(i)' PROVE WrittenUp(i)'
  <2>1. /\ WrittenUp(i) /\ \A t \in Tasks : Claims(t)' = Claims(t)
        /\ \A t \in Tasks : i \in Claims(t) => t \notin lost'
    BY <1>2, <1>6, WatchedBefore DEF WriteUpInv
  <2>2. Taken(i) => Taken(i)'
    <3>1. \A p \in Projections : proj[p].pc \in {"seed", "persist"} => proj[p].cur \in lost'
      BY <1>1
    <3> QED BY <1>1, <2>1, <3>1 DEF Taken
  <2>3. Keyless(i) => Keyless(i)'
    BY <1>1 DEF Keyless, Live
  <2>4. Standing(i)'
    BY <1>1, <2>1, <2>2, <2>3 DEF WrittenUp, Standing, HeldWithBody
  <2>5. ~Live(i, inb'.seen)
    <3>1. i \in Issues
      BY PmAssumption
    <3> QED BY <1>1, <3>1 DEF IdlePass, NoIssues, Live
  <2> QED BY <1>4, <1>5, <2>4, <2>5 DEF WrittenUp, Live
<1> QED BY <1>4, <1>5, <1>6 DEF WriteUpInv

\* At first every issue on the board is as a person wrote it, and nobody's.
LEMMA InitSpares ==
  ASSUME Init
  PROVE  WriteUpInv
<1>1. \A p \in Projections : Bodied(proj[p]) /\ \A i : Spares(proj[p], i)
  BY IdleSpares DEF Init
<1>2. \A t \in Tasks : RidOf(link[t]) = None
  BY DeclaredLinkType, NullsAssumption DEF Init, RidOf
<1>3. ASSUME NEW i \in Written, Watched(i) PROVE WrittenUp(i)
  <2>1. i \in Issues /\ i # None
    BY PmAssumption, NullsAssumption
  <2>2. issue[i] = NewIssue /\ Live(i, issue)
    BY <1>3, <2>1 DEF Init, Live, Watched
  <2>3. issue[i].body # Blank /\ Keyless(i)
    BY <2>2, PmAssumption DEF NewIssue, Keyless
  <2>4. ~Live(i, inb.seen)
    BY <2>1 DEF Init, IdlePass, NoIssues, Live
  <2> QED BY <1>1, <1>2, <2>1, <2>3, <2>4 DEF WrittenUp, Standing, HeldWithBody
<1> QED BY <1>1, <1>3 DEF WriteUpInv

LEMMA NextSpares ==
  ASSUME TypeInv, TypeInv', WriterInv, WriteUpInv, [Next]_vars
  PROVE  WriteUpInv'
<1>0. OverlapsAreRaced
  BY DEF WriterInv
<1>1. ASSUME NEW t \in Tasks, Edit(t) \/ ApplyRow(t) \/ ReadMirror(t) PROVE WriteUpInv'
  BY <1>1, EditSpares, ApplyRowSpares, ReadPassSpares
<1>2. ASSUME NEW i \in Issues, Move(i) PROVE WriteUpInv'
  BY <1>2, MoveSpares
<1>3. ASSUME NEW p \in Projections, NEW t \in Tasks, Callback(p, t) \/ FindLink(p, t) PROVE WriteUpInv'
  BY <1>0, <1>3, CallbackSpares, FindLinkSpares
<1>4. ASSUME NEW p \in Projections, NEW j \in Projects, ProjectBoard(p, j) PROVE WriteUpInv'
  BY <1>0, <1>4, ProjectBoardSpares
<1>5. ASSUME NEW p \in Projections, Prepare(p) \/ InsertLink(p) \/ ReadOwners(p) \/ FetchBoot(p)
      PROVE  WriteUpInv'
  BY <1>0, <1>5, PrepareSpares, InsertLinkSpares, ReadOwnersSpares, FetchBootSpares
<1>6. ASSUME NEW p \in Projections, Upsert(p) \/ Seed(p) \/ Persist(p) PROVE WriteUpInv'
  BY <1>0, <1>6, UpsertSpares, SeedSpares, PersistSpares
<1>7. CASE StartPass \/ LoadLinks \/ LoadTasks \/ FetchTeam \/ ReadOwned \/ EndPass
  BY <1>7, ReadPassSpares
<1>8. CASE Adopt \/ StampFooter
  BY <1>8, AdoptSpares, StampFooterSpares
<1>9. CASE Crash
  BY <1>9, CrashSpares
<1>10. CASE UNCHANGED vars
  <2>1. UNCHANGED <<scenario, task, link, issue, proj, lost, unread, raced, inb>>
    BY <1>10 DEF vars
  <2>2. Recalled
    BY <2>1 DEF Recalled, Live
  <2> QED BY <2>1, <2>2, ReadingSpares
<1> QED
  BY <1>1, <1>2, <1>3, <1>4, <1>5, <1>6, <1>7, <1>8, <1>9, <1>10 DEF Next

\* What a person wrote in Linear is never erased: as long as the issue is on the board and no
\* row that claims it met another activity, a failed write or a failed reading of the owners,
\* it has a body, however many rows, callbacks, batches, adoptions and edits go over it.
THEOREM WriteUpsSurvive == Spec => []WriteUpSurvives
<1> DEFINE Inv == TypeInv /\ WriterInv /\ WriteUpInv
<1>1. Init => Inv
  BY InitTypeInv, InitWriter, InitSpares
<1>2. Inv /\ [Next]_vars => Inv'
  <2>1. SUFFICES ASSUME Inv, [Next]_vars PROVE Inv'
    OBVIOUS
  <2>2. TypeInv' /\ WriterInv'
    BY <2>1, NextTypeInv, NextWriter
  <2> QED BY <2>1, <2>2, NextSpares
<1>3. Inv => WriteUpSurvives
  BY DEF WriteUpInv, WriteUpSurvives, Watched, WrittenUp, Standing
<1> QED BY <1>1, <1>2, <1>3, PTL DEF Spec

-----------------------------------------------------------------------------
(* No duplicates. *)

\* No other row has the key of t.
Single(t) == \A u \in Tasks : scenario.key[u] = scenario.key[t] => u = t
Keyed(k, i) == Live(i, issue) /\ issue[i].key = k

\* The issues a row's link holds, and is about to hold.
AimsAt(q, t, i) == q.pc \in {"seed", "persist"} /\ q.cur = t /\ q.plan.target = i
Keeps(t, i) == RidOf(link[t]) = i \/ \E p \in Projections : AimsAt(proj[p], t, i)

\* A row keeps one issue on the board at a time; if no record of a row with the key was
\* lost, the issues with the key are kept; and whatever was lost, a row that alone has its
\* key finds the one issue there is.
KeepsOne(t) == \A i, j \in Issues : Live(i, issue) /\ Live(j, issue) /\ Keeps(t, i) /\ Keeps(t, j) => i = j
AllKept(k) == \A i \in Issues : Keyed(k, i) => \E t \in Tasks : scenario.key[t] = k /\ Keeps(t, i)
NoneLost(k) == \A t \in Tasks : scenario.key[t] = k => t \notin lost
OnlyOne(t) ==
  \A i \in Issues : Keyed(scenario.key[t], i) =>
    /\ link[t] # None
    /\ \A j \in Issues : Keyed(scenario.key[t], j) \/ (Live(j, issue) /\ Keeps(t, j)) => i = j

\* An issue with the key of t that its link does not hold: it is being written, or the
\* record of it was lost.
Stray(t, i) == Clear(t) /\ Single(t) /\ Keyed(scenario.key[t], i) /\ RidOf(link[t]) # i

\* The rows an invocation has not planned yet.
Pending(q) == {t \in q.todo : q.pc \in {"upsert", "seed", "persist"} => t # q.cur}
Goes(q) == q.pc = "upsert" /\ ~q.plan.refuses

\* For no row but t does an invocation know of i, or take it without writing it.
Unsought(q, t, i) ==
  /\ q.pc \in {"owners", "listing"} /\ q.cur # t => q.known.rid # i
  /\ (q.pc = "upsert" /\ q.plan.same) \/ q.pc \in {"seed", "persist"} => q.cur = t \/ q.plan.target # i
  /\ q.boot # NoBoot => \A u \in Pending(q) \ {t} :
       /\ q.boot.ext[scenario.key[u]] # i
       /\ Live(i, q.boot.at) => q.boot.at[i].key # scenario.key[u]

\* The listing of a batch is out of date only where the batch itself wrote: it has the
\* issues of the rows to do, and leads each to its own.
BootKnows(q) ==
  /\ \A t \in q.todo, i \in Issues :
       Clear(t) /\ RidOf(link[t]) = i /\ Live(i, issue) => Live(i, q.boot.at)
  /\ \A t \in Pending(q), i \in Issues :
       Clear(t) /\ Single(t) =>
         /\ Keyed(scenario.key[t], i) => q.boot.ext[scenario.key[t]] = i
         /\ q.boot.ext[scenario.key[t]] = i =>
              \A j \in Issues : RidOf(link[t]) = j /\ Live(j, q.boot.at) => i = j
BootLeads(q) ==
  /\ \A t \in q.todo, i \in Issues :
       scenario.declared[t] = i /\ Live(i, q.boot.at) /\ q.boot.at[i].key = None
         => q.boot.at[i].body = Prose /\ q.rows[t].body # Prose
  /\ \A t \in Pending(q), i \in Issues : q.boot.ext[scenario.key[t]] = i =>
       /\ Live(i, q.boot.at)
       /\ \A u \in Pending(q) : /\ q.boot.ext[scenario.key[u]] = i => t = u
                                /\ q.boot.at[i].key \in {None, scenario.key[u]} => t = u
BootIsKin(q) ==
  \A i \in Issues : Live(i, q.boot.at) /\ q.boot.at[i].key # None => Kin(q.boot.at[i].key, i)

\* What an invocation that nothing ran over knows of its row.
KnowsLink(q) == q.pc \in {"owners", "listing"} => RidOf(link[q.cur]) = q.known.rid
KnowsHolding(q) ==
  Goes(q) \/ q.pc \in {"seed", "persist"} =>
    \A i \in Issues : RidOf(link[q.cur]) = i /\ Live(i, issue) => q.plan.target = i
SeesOwners(q) ==
  /\ \A t \in Tasks \ {q.cur} : Contend(t, q.cur) => RidOf(link[t]) \in q.owned \cup {None}
  /\ Single(q.cur) => \A i \in Issues : Keyed(scenario.key[q.cur], i) => i \notin q.owned
KnowsOwners(q) == q.pc = "listing" => SeesOwners(q)
KnowsTarget(q) ==
  Goes(q) => \A i \in Issues :
    /\ Single(q.cur) /\ Keyed(scenario.key[q.cur], i) => q.plan.target = i
    /\ q.plan.target = i /\ Live(i, issue) => \A t \in Tasks \ {q.cur} : RidOf(link[t]) # i
    /\ q.plan.target = i /\ Single(q.cur) /\ RidOf(link[q.cur]) # i /\ q.boot # NoBoot =>
         \A t \in q.todo \ {q.cur} :
           /\ q.boot.ext[scenario.key[t]] # i
           /\ Live(i, q.boot.at) => q.boot.at[i].key # scenario.key[t]

Briefed(q) ==
  /\ \A t, u \in q.todo : scenario.key[t] = scenario.key[u] => t = u
  /\ q.boot # NoBoot => BootKnows(q) /\ BootLeads(q) /\ BootIsKin(q)
Knows(q) == KnowsLink(q) /\ KnowsHolding(q) /\ KnowsOwners(q) /\ KnowsTarget(q)
Orderly(q) == Briefed(q) /\ (Clear(q.cur) => Knows(q))

RowsKeepOne == \A t \in Tasks : Clear(t) => KeepsOne(t) /\ (Single(t) => OnlyOne(t))
IssuesKept == \A k \in Keys : Alone(k) /\ NoneLost(k) => AllKept(k)
StraysApart ==
  \A t \in Tasks, i \in Issues : Stray(t, i) =>
    /\ \A u \in Tasks : RidOf(link[u]) # i
    /\ \A p \in Projections : Unsought(proj[p], t, i)
\* A pass does not take a stray for an issue without a footer.
PassSeesStrays ==
  inb.pc \in {"fetched", "adopting", "mirror", "footer"} =>
    \A t, u \in Tasks : LET i == scenario.mirror[u]
                        IN i # None /\ Live(i, inb.seen) /\ inb.seen[i].key = None => ~Stray(t, i)

IssueInv ==
  /\ RowsKeepOne /\ IssuesKept /\ StraysApart /\ PassSeesStrays
  /\ \A p \in Projections : Orderly(proj[p])

\* What a step on behalf of row c, or of no row, does to the board and the links.
BoardStep(c) ==
  /\ Noted /\ IssuesEvolve /\ lost \subseteq lost'
  /\ \A t \in Tasks : /\ link[t] # None => link'[t] # None
                      /\ t # c => RidOf(link'[t]) = RidOf(link[t])
  /\ \A i \in Issues, k \in Keys :
       Keyed(k, i)' => Keyed(k, i) \/ (c \in Tasks /\ k = scenario.key[c] /\ Kin(k, i)')
  /\ \A i \in Issues : c \in Tasks /\ RidOf(link'[c]) = i /\ RidOf(link[c]) # i => Kin(scenario.key[c], i)'

LEMMA OrderlyStable ==
  ASSUME TypeInv, WriterInv, NEW c, BoardStep(c), NEW q \in Invocations, InHand(q), KinInvocation(q),
         Orderly(q), c \in Tasks => \A t \in q.todo : Contend(t, c) => t \in raced'
  PROVE  Orderly(q)'
<1>0. /\ UNCHANGED scenario /\ q.todo \subseteq Tasks /\ NoBoot' = NoBoot
      /\ \A t \in Tasks : scenario.key[t] \in Keys
      /\ q.pc \in {"owners", "listing", "upsert", "seed", "persist"} => q.cur \in q.todo
  BY ScenarioType DEF BoardStep, Noted, TypeInv, Invocations, NoBoot, InHand, AtWork
<1>1. \A t \in q.todo : Clear(t)' => Clear(t) /\ t # c /\ RidOf(link'[t]) = RidOf(link[t])
  <2>1. \A t \in q.todo : Clear(t)' => Clear(t) /\ (t = c => c \notin Tasks)
    BY ContendReflexive DEF BoardStep, Noted, Clear
  <2> QED BY <1>0, <2>1 DEF BoardStep
<1>2. \A t \in Tasks : Single(t)' <=> Single(t)
  BY <1>0 DEF Single
<1>3. ASSUME NEW t \in q.todo, Clear(t)', Single(t), NEW i \in Issues, Keyed(scenario.key[t], i)'
      PROVE  Keyed(scenario.key[t], i)
  BY <1>0, <1>1, <1>3 DEF BoardStep, Single
<1>4. ASSUME NEW t \in Tasks, NEW i \in Issues, RidOf(link[t]) = i, Live(i, issue')
      PROVE  Live(i, issue)
  <2>1. i # None
    BY NullsAssumption
  <2> QED BY <1>4, <2>1 DEF WriterInv, IssuesAreKin, Kin, BoardStep, IssuesEvolve, RidOf
<1>5. q.boot # NoBoot => BootKnows(q)' /\ BootLeads(q)' /\ BootIsKin(q)'
  <2>1. SUFFICES ASSUME q.boot # NoBoot, BootKnows(q), BootLeads(q), BootIsKin(q)
                 PROVE  BootKnows(q)' /\ BootLeads(q)' /\ BootIsKin(q)'
    BY DEF Orderly, Briefed, Knows
  <2>2. Pending(q)' = Pending(q) /\ Pending(q) \subseteq q.todo
    BY DEF Pending
  <2>3. BootKnows(q)'
    <3>1. \A t \in q.todo, i \in Issues :
            Clear(t)' /\ RidOf(link'[t]) = i /\ Live(i, issue') => Live(i, q.boot.at)
      BY <1>0, <1>1, <1>4, <2>1 DEF BootKnows
    <3>2. \A t \in Pending(q), i \in Issues :
            Clear(t)' /\ Single(t)' =>
              /\ Keyed(scenario.key[t], i)' => q.boot.ext[scenario.key[t]] = i
              /\ q.boot.ext[scenario.key[t]] = i =>
                   \A j \in Issues : RidOf(link'[t]) = j /\ Live(j, q.boot.at) => i = j
      BY <1>0, <1>1, <1>2, <1>3, <2>1, <2>2 DEF BootKnows
    <3> QED BY <1>0, <2>2, <3>1, <3>2 DEF BootKnows, Live
  <2>4. BootLeads(q)'
    BY <1>0, <2>1, <2>2 DEF BootLeads, Live
  <2>5. BootIsKin(q)'
    <3>1. ASSUME NEW i \in Issues, Live(i, q.boot.at), q.boot.at[i].key # None
          PROVE  Kin(q.boot.at[i].key, i)'
      BY <1>0, <2>1, <3>1, KinStable DEF BootIsKin, BoardStep
    <3> QED BY <3>1 DEF BootIsKin, Live
  <2> QED BY <2>3, <2>4, <2>5
<1>6. ASSUME Clear(q.cur)', q.pc \in {"owners", "listing", "upsert", "seed", "persist"}
      PROVE  KnowsLink(q)' /\ KnowsHolding(q)' /\ KnowsOwners(q)' /\ KnowsTarget(q)'
  <2>1. PICK u \in q.todo : u = q.cur
    BY <1>0, <1>6
  <2>2. /\ u \in Tasks /\ Clear(u)' /\ Clear(u) /\ RidOf(link'[u]) = RidOf(link[u]) /\ u # c
        /\ KnowsLink(q) /\ KnowsHolding(q) /\ KnowsOwners(q) /\ KnowsTarget(q)
    BY <1>0, <1>1, <1>6, <2>1 DEF Orderly, Briefed, Knows
  <2>3. KnowsLink(q)'
    BY <2>1, <2>2 DEF KnowsLink
  <2>7. KnowsHolding(q)'
    <3>1. \A i \in Issues : RidOf(link'[u]) = i /\ Live(i, issue') => RidOf(link[u]) = i /\ Live(i, issue)
      BY <1>4, <2>2
    <3> QED BY <2>1, <2>2, <3>1 DEF KnowsHolding, Goes
  <2>4. c \in Tasks => ~Contend(c, u)
    BY <2>1, <2>2, ContendSymmetric DEF Clear
  <2>5. KnowsOwners(q)'
    <3>1. SUFFICES ASSUME q.pc = "listing" PROVE KnowsOwners(q)'
      BY DEF KnowsOwners, SeesOwners
    <3>2. \A t \in Tasks \ {u} : Contend(t, u)' => Contend(t, u) /\ RidOf(link'[t]) = RidOf(link[t])
      <4>1. \A t \in Tasks : Contend(t, u)' <=> Contend(t, u)
        BY <1>0 DEF Contend, KeyClaims, Claims
      <4> QED BY <2>4, <4>1 DEF BoardStep
    <3>3. \A t \in Tasks \ {u} : Contend(t, u)' => RidOf(link'[t]) \in q.owned \cup {None}
      BY <2>1, <2>2, <3>1, <3>2 DEF KnowsOwners, SeesOwners
    <3>4. Single(u)' => \A i \in Issues : Keyed(scenario.key[u], i)' => i \notin q.owned
      BY <1>2, <1>3, <2>1, <2>2, <3>1 DEF KnowsOwners, SeesOwners
    <3> QED BY <1>0, <2>1, <3>3, <3>4 DEF KnowsOwners, SeesOwners
  <2>6. KnowsTarget(q)'
    <3>1. SUFFICES ASSUME q.pc = "upsert", ~q.plan.refuses PROVE KnowsTarget(q)'
      BY DEF KnowsTarget, Goes
    <3>2. \A i \in Issues :
               Single(u)' /\ Keyed(scenario.key[u], i)' => q.plan.target = i
      BY <1>2, <1>3, <1>4, <2>1, <2>2, <3>1 DEF KnowsTarget, Goes
    <3>3. ASSUME NEW i \in Issues, q.plan.target = i, Live(i, issue'), NEW t \in Tasks \ {u}, RidOf(link'[t]) = i
          PROVE  FALSE
      <4>1. Kin(scenario.key[u], i) /\ Live(i, issue) /\ i # None
        <5>1. i # None
          BY NullsAssumption
        <5>2. Kin(scenario.key[u], i)
          BY <2>1, <3>1, <3>3, <5>1 DEF KinInvocation
        <5> QED BY <3>3, <5>1, <5>2 DEF BoardStep, IssuesEvolve, Kin
      <4>2. RidOf(link[t]) # i
        BY <2>1, <2>2, <3>1, <3>3, <4>1 DEF KnowsTarget, Goes
      <4>3. t = c /\ Kin(scenario.key[c], i)'
        BY <3>3, <4>2 DEF BoardStep
      <4>4. Kin(scenario.key[t], i)
        BY <1>0, <3>3, <4>1, <4>3, KinBefore DEF BoardStep
      <4> QED BY <2>2, <2>4, <4>1, <4>3, <4>4, KinContend
    <3>4. ASSUME NEW i \in Issues, q.plan.target = i, Single(u)', RidOf(link'[u]) # i, q.boot # NoBoot,
                 NEW t \in q.todo \ {u}
          PROVE  /\ q.boot.ext[scenario.key[t]] # i
                 /\ Live(i, q.boot.at) => q.boot.at[i].key # scenario.key[t]
      BY <1>2, <2>1, <2>2, <3>1, <3>4 DEF KnowsTarget, Goes
    <3> QED BY <1>0, <2>1, <3>2, <3>3, <3>4 DEF KnowsTarget, Goes, Live
  <2> QED BY <2>3, <2>5, <2>6, <2>7
<1>7. q.pc \notin {"owners", "listing", "upsert", "seed", "persist"} => KnowsLink(q)' /\ KnowsHolding(q)' /\ KnowsOwners(q)' /\ KnowsTarget(q)'
  BY DEF KnowsLink, KnowsHolding, KnowsOwners, KnowsTarget, Goes
<1> QED BY <1>0, <1>5, <1>6, <1>7 DEF Orderly, Briefed, Knows

\* An invocation none of whose rows contend with a row knows nothing of its issues.
LEMMA UnsoughtApart ==
  ASSUME TypeInv', NEW q \in Invocations, InHand(q), KinInvocation(q)',
         q.boot # NoBoot => BootIsKin(q)', NEW c \in Tasks, NEW i \in Issues,
         Live(i, issue'), Kin(scenario.key[c], i)', \A t \in q.todo : ~Contend(t, c)'
  PROVE  Unsought(q, c, i)'
<1>0. /\ q.todo \subseteq Tasks /\ i # None /\ NoBoot' = NoBoot
      /\ \A t \in Tasks : scenario'.key[t] \in Keys
      /\ q.pc \in {"owners", "listing", "upsert", "seed", "persist"} => q.cur \in q.todo
  <2>1. \A t \in Tasks : scenario'.key[t] \in Keys
    <3>1. scenario' \in Scenario
      BY PmAssumption DEF TypeInv, Typed
    <3> QED BY <3>1 DEF Scenario
  <2> QED BY <2>1, NullsAssumption DEF Invocations, NoBoot, InHand, AtWork
<1>1. \A t \in q.todo : ~Kin(scenario.key[t], i)'
  <2>1. ASSUME NEW t \in q.todo, Kin(scenario.key[t], i)' PROVE Contend(t, c)'
    BY <1>0, <2>1 DEF Kin, Contend, Live
  <2> QED BY <2>1
<1>2. q.pc \in {"owners", "listing"} => q.known.rid # i
  BY <1>0, <1>1 DEF KinInvocation
<1>3. q.pc \in {"upsert", "seed", "persist"} => q.plan.target # i
  BY <1>0, <1>1 DEF KinInvocation
<1>4. q.boot # NoBoot => \A u \in q.todo : /\ q.boot.ext[scenario'.key[u]] # i
                                           /\ Live(i, q.boot.at) => q.boot.at[i].key # scenario'.key[u]
  <2>1. ASSUME q.boot # NoBoot, NEW u \in q.todo PROVE q.boot.ext[scenario'.key[u]] # i
    BY <1>0, <1>1, <2>1 DEF KinInvocation
  <2>2. ASSUME q.boot # NoBoot, NEW u \in q.todo, Live(i, q.boot.at) PROVE q.boot.at[i].key # scenario'.key[u]
    <3>1. scenario'.key[u] # None
      BY <1>0, NullsAssumption
    <3> QED BY <1>0, <1>1, <2>2, <3>1 DEF BootIsKin, Live
  <2> QED BY <2>1, <2>2
<1> QED BY <1>0, <1>2, <1>3, <1>4 DEF Unsought, Pending, Live

\* What a row keeps is its kin.
LEMMA KeptIsKin ==
  ASSUME TypeInv, IssuesAreKin, NEW t \in Tasks, NEW i \in Issues, Keeps(t, i)
  PROVE  Kin(scenario.key[t], i)
<1>1. i # None
  BY NullsAssumption
<1>2. CASE RidOf(link[t]) = i
  BY <1>1, <1>2 DEF IssuesAreKin, RidOf
<1>3. ASSUME NEW p \in Projections, AimsAt(proj[p], t, i) PROVE Kin(scenario.key[t], i)
  BY <1>1, <1>3 DEF IssuesAreKin, KinInvocation, AimsAt
<1> QED BY <1>2, <1>3 DEF Keeps

\* Only the row on whose behalf a step is taken gets a new stray.
LEMMA NewStrays ==
  ASSUME TypeInv, NEW c, BoardStep(c), NEW t \in Tasks, NEW i \in Issues, Stray(t, i)', ~Stray(t, i)
  PROVE  t = c
<1>1. UNCHANGED scenario /\ Clear(t) /\ Single(t)
  BY DEF BoardStep, Noted, Stray, Clear, Single
<1>2. SUFFICES ASSUME t # c PROVE FALSE
  OBVIOUS
<1>3. RidOf(link[t]) # i /\ Keyed(scenario.key[t], i)'
  BY <1>1, <1>2 DEF BoardStep, Stray
<1>4. ~Keyed(scenario.key[t], i) /\ scenario.key[t] \in Keys
  BY <1>1, <1>3, ScenarioType DEF Stray, TypeInv
<1>5. c \in Tasks /\ scenario.key[t] = scenario.key[c]
  BY <1>1, <1>3, <1>4 DEF BoardStep
<1> QED BY <1>1, <1>2, <1>5 DEF Single

\* What the invocations outside P do not notice of a step on behalf of c.
Apart(c, P) ==
  \A r \in Projections \ P : /\ UNCHANGED proj[r]
                             /\ c \in Tasks => \A t \in proj[r].todo :
                                  Contend(t, c) => t \in raced' /\ c \in raced'
\* What the step makes of the issues the other rows keep.
OthersKeep(c) ==
  \A t \in Tasks, i \in Issues : t # c => /\ Keeps(t, i)' => Keeps(t, i)
                                          /\ Keeps(t, i) => Keeps(t, i)' \/ t \in lost'
\* What it makes of those of c.
Holds(c) ==
  /\ Clear(c)' => KeepsOne(c)' /\ (Single(c) => OnlyOne(c)')
  /\ \A i \in Issues : /\ Clear(c)' /\ c \notin lost' /\ Keyed(scenario.key[c], i)'
                       /\ Keeps(c, i) \/ ~Keyed(scenario.key[c], i)
                       => Keeps(c, i)'
  /\ \A t \in Tasks, i \in Issues : Stray(t, i) /\ Stray(t, i)' => RidOf(link'[c]) # i
\* What it makes of the strays, for the invocations of P.
Avoids(c, P) ==
  /\ \A t \in Tasks, i \in Issues, p \in P : Stray(t, i) /\ Stray(t, i)' => Unsought(proj[p], t, i)'
  /\ c \in Tasks => \A i \in Issues : Stray(c, i)' /\ ~Stray(c, i) =>
       /\ \A u \in Tasks : RidOf(link'[u]) # i
       /\ \A p \in P : Unsought(proj[p], c, i)'

LEMMA IssueStep ==
  ASSUME TypeInv, TypeInv', WriterInv, WriterInv', IssueInv, NEW c \in Tasks \cup {None}, NEW P \in SUBSET Projections,
         BoardStep(c), Apart(c, P), OthersKeep(c), c \in Tasks => Holds(c), Avoids(c, P),
         \A p \in P : Orderly(proj[p])', PassSeesStrays'
  PROVE  IssueInv'
<1>0. /\ UNCHANGED scenario /\ lost \subseteq lost' /\ None \notin Tasks /\ None \notin Issues
      /\ \A t \in Tasks : scenario.key[t] \in Keys /\ (Clear(t)' => Clear(t)) /\ (Single(t)' <=> Single(t))
  <2>1. UNCHANGED scenario /\ lost \subseteq lost' /\ raced \subseteq raced' /\ unread \subseteq unread'
    BY DEF BoardStep, Noted
  <2>2. \A t \in Tasks : (Clear(t)' => Clear(t)) /\ (Single(t)' <=> Single(t))
    BY <2>1 DEF Clear, Single
  <2> QED BY <2>1, <2>2, ScenarioType, NullsAssumption DEF TypeInv
<1>1. ASSUME NEW r \in Projections PROVE Orderly(proj[r])'
  <2>1. CASE r \in P
    BY <2>1
  <2>2. CASE r \notin P
    <3>1. PICK q \in Invocations : q = proj[r]
      BY DEF TypeInv, Typed
    <3>2. InHand(q) /\ KinInvocation(q) /\ Orderly(q) /\ proj'[r] = q
      BY <2>2, <3>1 DEF TypeInv, WriterInv, IssuesAreKin, IssueInv, Apart
    <3>3. c \in Tasks => \A t \in q.todo : Contend(t, c) => t \in raced'
      BY <2>2, <3>1 DEF Apart
    <3>4. Orderly(q)'
      BY <3>2, <3>3, OrderlyStable
    <3> QED BY <3>2, <3>4
  <2> QED BY <2>1, <2>2
<1>2. ASSUME NEW t \in Tasks, t # c, NEW i \in Issues, Keeps(t, i)', Live(i, issue') PROVE Keeps(t, i) /\ Live(i, issue)
  <2>1. Keeps(t, i)
    BY <1>2 DEF OthersKeep
  <2>2. Kin(scenario.key[t], i)
    BY <2>1, KeptIsKin DEF WriterInv
  <2> QED BY <1>2, <2>1, <2>2 DEF Kin, BoardStep, IssuesEvolve
<1>3. RowsKeepOne'
  <2>1. SUFFICES ASSUME NEW t \in Tasks, Clear(t)' PROVE KeepsOne(t)' /\ (Single(t)' => OnlyOne(t)')
    BY DEF RowsKeepOne
  <2>2. CASE t = c
    BY <1>0, <2>1, <2>2 DEF Holds
  <2>3. CASE t # c
    <3>1. KeepsOne(t) /\ (Single(t) => OnlyOne(t))
      BY <1>0, <2>1 DEF IssueInv, RowsKeepOne
    <3>2. KeepsOne(t)'
      <4>1. ASSUME NEW i \in Issues, NEW j \in Issues, Live(i, issue'), Live(j, issue'),
                   Keeps(t, i)', Keeps(t, j)'
            PROVE  i = j
        BY <1>2, <2>3, <3>1, <4>1 DEF KeepsOne
      <4> QED BY <4>1 DEF KeepsOne, Live
    <3>3. ASSUME Single(t) PROVE OnlyOne(t)'
      <4>1. \A i \in Issues : Keyed(scenario.key[t], i)' => Keyed(scenario.key[t], i)
        BY <1>0, <2>3, <3>3 DEF BoardStep, Single
      <4>2. ASSUME NEW i \in Issues, Keyed(scenario.key[t], i)' PROVE link'[t] # None
        BY <3>1, <3>3, <4>1, <4>2 DEF OnlyOne, BoardStep
      <4>3. ASSUME NEW i \in Issues, Keyed(scenario.key[t], i)', NEW j \in Issues,
                   Keyed(scenario.key[t], j)' \/ (Live(j, issue') /\ Keeps(t, j)')
            PROVE  i = j
        <5>1. Keyed(scenario.key[t], j) \/ (Live(j, issue) /\ Keeps(t, j))
          BY <1>2, <2>3, <4>1, <4>3
        <5> QED BY <3>1, <3>3, <4>1, <4>3, <5>1 DEF OnlyOne
      <4> QED BY <1>0, <4>2, <4>3 DEF OnlyOne, Live
    <3> QED BY <1>0, <3>2, <3>3
  <2> QED BY <2>2, <2>3
<1>4. IssuesKept'
  <2>1. SUFFICES ASSUME NEW k \in Keys, Alone(k)', NoneLost(k)', NEW i \in Issues, Keyed(k, i)'
                 PROVE  \E t \in Tasks : scenario.key[t] = k /\ Keeps(t, i)'
    BY <1>0 DEF IssuesKept, AllKept
  <2>2. AllKept(k)
    <3>1. Alone(k) /\ NoneLost(k)
      BY <1>0, <2>1 DEF Alone, NoneLost, BoardStep, Noted
    <3> QED BY <3>1 DEF IssueInv, IssuesKept
  <2>3. \A t \in Tasks : scenario.key[t] = k => Clear(t)' /\ t \notin lost'
    BY <1>0, <2>1 DEF Alone, NoneLost, Clear
  <2>4. CASE ~Keyed(k, i)
    <3>1. c \in Tasks /\ k = scenario.key[c]
      BY <2>1, <2>4 DEF BoardStep
    <3>2. Keyed(scenario.key[c], i)' /\ ~Keyed(scenario.key[c], i) /\ Clear(c)' /\ c \notin lost'
      BY <1>0, <2>1, <2>3, <2>4, <3>1 DEF Keyed, Live
    <3> QED BY <3>1, <3>2 DEF Holds
  <2>5. CASE Keyed(k, i)
    <3>1. PICK t \in Tasks : scenario.key[t] = k /\ Keeps(t, i)
      BY <2>2, <2>5 DEF AllKept
    <3>2. Keyed(scenario.key[t], i)' /\ Clear(t)' /\ t \notin lost'
      BY <1>0, <2>1, <2>3, <3>1 DEF Keyed, Live
    <3>3. CASE t = c
      BY <3>1, <3>2, <3>3 DEF Holds
    <3>4. CASE t # c
      BY <3>1, <3>2, <3>4 DEF OthersKeep
    <3> QED BY <3>1, <3>3, <3>4
  <2> QED BY <2>4, <2>5
<1>5. StraysApart'
  <2>1. SUFFICES ASSUME NEW t \in Tasks, NEW i \in Issues, Stray(t, i)'
                 PROVE  /\ \A u \in Tasks : RidOf(link'[u]) # i
                        /\ \A p \in Projections : Unsought(proj[p], t, i)'
    BY DEF StraysApart
  <2>2. CASE Stray(t, i)
    <3>1. \A u \in Tasks : RidOf(link'[u]) # i
      BY <2>1, <2>2 DEF IssueInv, StraysApart, BoardStep, Holds
    <3>2. ASSUME NEW p \in Projections \ P PROVE Unsought(proj[p], t, i)'
      <4>1. Unsought(proj[p], t, i) /\ UNCHANGED <<scenario, proj[p]>>
        BY <1>0, <2>2, <3>2 DEF IssueInv, StraysApart, Apart
      <4> QED BY <4>1 DEF Unsought, Pending, NoBoot, Live
    <3> QED BY <2>1, <2>2, <3>1, <3>2 DEF Avoids
  <2>3. CASE ~Stray(t, i)
    <3>1. t = c /\ c \in Tasks
      BY <2>1, <2>3, NewStrays
    <3>2. /\ \A u \in Tasks : RidOf(link'[u]) # i
          /\ \A p \in P : Unsought(proj[p], c, i)'
      BY <2>1, <2>3, <3>1 DEF Avoids
    <3>3. ASSUME NEW p \in Projections \ P PROVE Unsought(proj[p], c, i)'
      <4>1. PICK q \in Invocations : q = proj'[p]
        BY DEF TypeInv, Typed
      <4>2. /\ InHand(q) /\ KinInvocation(q)' /\ (q.boot # NoBoot => BootIsKin(q)')
        <5>1. InHand(q)' /\ KinInvocation(q)' /\ Orderly(q)'
          BY <1>1, <4>1 DEF TypeInv, WriterInv, IssuesAreKin
        <5>2. InHand(q)
          BY <5>1 DEF InHand, AtWork
        <5> QED BY <5>1, <5>2 DEF Orderly, Briefed, Knows, NoBoot
      <4>3. Live(i, issue') /\ Kin(scenario.key[c], i)'
        <5>1. Live(i, issue') /\ issue'[i].key = scenario.key[c]
          BY <1>0, <2>1, <3>1 DEF Stray, Keyed, Live
        <5>2. issue'[i].key # None
          BY <1>0, <3>1, <5>1, NullsAssumption
        <5>3. Kin(issue[i].key, i)'
          BY <5>1, <5>2 DEF WriterInv, IssuesAreKin, Live
        <5>4. PICK k : k = scenario'.key[c]
          OBVIOUS
        <5> QED BY <1>0, <5>1, <5>3, <5>4
      <4>4. \A t1 \in q.todo : ~Contend(t1, c)'
        <5>1. \A t1 \in q.todo : ~Contend(t1, c)
          BY <2>1, <3>1, <3>3, <4>1 DEF Apart, Stray, Clear
        <5> QED BY <1>0, <5>1 DEF Contend, KeyClaims, Claims
      <4> QED BY <3>1, <4>1, <4>2, <4>3, <4>4, UnsoughtApart
    <3> QED BY <3>1, <3>2, <3>3
  <2> QED BY <2>2, <2>3
<1> QED BY <1>1, <1>3, <1>4, <1>5 DEF IssueInv

-----------------------------------------------------------------------------
(* The steps of the projector *)

\* Nothing has been written but history, and links without an issue.
BoardStays ==
  /\ UNCHANGED <<scenario, issue, inb>> /\ Noted /\ lost \subseteq lost'
  /\ \A t \in Tasks : RidOf(link'[t]) = RidOf(link[t]) /\ (link[t] # None => link'[t] # None)

LEMMA BoardStaysStep ==
  ASSUME BoardStays
  PROVE  /\ BoardStep(None)
         /\ \A t \in Tasks, i \in Issues : Stray(t, i)' => Stray(t, i)
         /\ PassSeesStrays => PassSeesStrays'
<1>1. None \notin Tasks /\ IssuesEvolve
  BY SameIssuesEvolve, NullsAssumption DEF BoardStays
<1>2. \A i \in Issues, k \in Keys : Keyed(k, i)' <=> Keyed(k, i)
  BY DEF BoardStays, Keyed, Live
<1>3. BoardStep(None)
  BY <1>1, <1>2 DEF BoardStep, BoardStays
<1>4. \A t \in Tasks, i \in Issues : Stray(t, i)' => Stray(t, i)
  BY DEF BoardStays, Noted, Stray, Clear, Single, Keyed, Live
<1>5. PassSeesStrays => PassSeesStrays'
  <2>1. SUFFICES ASSUME PassSeesStrays, inb.pc \in {"fetched", "adopting", "mirror", "footer"},
                        NEW t \in Tasks, NEW u \in Tasks, scenario.mirror[u] # None,
                        Live(scenario.mirror[u], inb.seen), inb.seen[scenario.mirror[u]].key = None,
                        Stray(t, scenario.mirror[u])'
                 PROVE  FALSE
    BY DEF PassSeesStrays, BoardStays, Live
  <2>2. Stray(t, scenario.mirror[u])
    BY <2>1 DEF BoardStays, Noted, Stray, Clear, Single, Keyed, Live
  <2> QED BY <2>1, <2>2 DEF PassSeesStrays
<1> QED BY <1>3, <1>4, <1>5

\* A step on behalf of no row.
LEMMA QuietIssues ==
  ASSUME TypeInv, TypeInv', WriterInv, WriterInv', IssueInv, BoardStays, NEW p \in Projections,
         NEW new \in Invocations, InHand(new), proj' = [proj EXCEPT ![p] = new],
         \A t \in Tasks, i \in Issues : AimsAt(new, t, i) <=> AimsAt(proj[p], t, i),
         Briefed(new), Clear(new.cur)' => Knows(new),
         \A t \in Tasks, i \in Issues : Stray(t, i) => Unsought(new, t, i)
  PROVE  IssueInv'
<1>0. /\ UNCHANGED <<scenario, issue, inb>> /\ raced \subseteq raced' /\ unread \subseteq unread'
      /\ \A t \in Tasks : RidOf(link'[t]) = RidOf(link[t])
      /\ \A r \in Projections : proj'[r] = IF r = p THEN new ELSE proj[r]
      /\ new.todo \subseteq Tasks /\ None \notin Tasks /\ NoBoot' = NoBoot
      /\ new.pc \in {"owners", "listing", "upsert", "seed", "persist"} => new.cur \in Tasks
  BY NullsAssumption DEF BoardStays, Noted, TypeInv, Typed, Invocations, NoBoot, InHand, AtWork
<1>1. Apart(None, {p}) /\ {p} \in SUBSET Projections
  BY <1>0 DEF Apart
<1>2. \A t \in Tasks, i \in Issues : Keeps(t, i)' <=> Keeps(t, i)
  BY <1>0 DEF Keeps, AimsAt
<1>3. OthersKeep(None)
  BY <1>2 DEF OthersKeep
<1>4. Avoids(None, {p})
  <2>1. ASSUME NEW t \in Tasks, NEW i \in Issues, Stray(t, i) PROVE Unsought(proj[p], t, i)'
    <3>1. Unsought(new, t, i)
      BY <2>1
    <3> QED BY <1>0, <3>1 DEF Unsought, Pending, Live
  <2> QED BY <1>0, <2>1 DEF Avoids
<1>5. Orderly(new)'
  <2>1. Briefed(new)'
    <3>1. \A t \in Tasks : Clear(t)' => Clear(t)
      BY <1>0 DEF Clear
    <3>2. new.boot # NoBoot => BootKnows(new)' /\ BootLeads(new)' /\ BootIsKin(new)'
      <4>1. ASSUME new.boot # NoBoot PROVE BootKnows(new)'
        BY <1>0, <3>1, <4>1 DEF Briefed, BootKnows, Pending, Single, Keyed, Live
      <4>2. ASSUME new.boot # NoBoot PROVE BootLeads(new)'
        BY <1>0, <4>2 DEF Briefed, BootLeads, Pending, Live
      <4>3. ASSUME new.boot # NoBoot PROVE BootIsKin(new)'
        BY <1>0, <4>3 DEF Briefed, BootIsKin, Kin, Live, KeyClaims, Claims
      <4> QED BY <4>1, <4>2, <4>3
    <3> QED BY <1>0, <3>2 DEF Briefed
  <2>2. Clear(new.cur)' => Knows(new)'
    <3>1. SUFFICES ASSUME Knows(new) PROVE Knows(new)'
      OBVIOUS
    <3>2. KnowsLink(new)' /\ KnowsHolding(new)'
      BY <1>0, <3>1 DEF Knows, KnowsLink, KnowsHolding, Goes, Live
    <3>3. KnowsOwners(new)'
      BY <1>0, <3>1 DEF Knows, KnowsOwners, SeesOwners, Contend, KeyClaims, Claims, Single, Keyed, Live
    <3>4. KnowsTarget(new)'
      BY <1>0, <3>1 DEF Knows, KnowsTarget, Goes, Single, Keyed, Live
    <3> QED BY <3>2, <3>3, <3>4 DEF Knows
  <2> QED BY <2>1, <2>2 DEF Orderly
<1>6. PassSeesStrays' /\ BoardStep(None)
  BY BoardStaysStep DEF IssueInv
<1>7. \A r \in {p} : Orderly(proj[r])'
  BY <1>0, <1>5
<1> QED BY <1>0, <1>1, <1>3, <1>4, <1>6, <1>7, IssueStep

\* Who else has a row that contends with one in hand has been noticed.
LEMMA InOneHand ==
  ASSUME TypeInv, OverlapsAreRaced, NEW p \in Projections, NEW c \in proj[p].todo
  PROVE  /\ \A r \in Projections \ {p} : \A t \in proj[r].todo : Contend(t, c) => t \in raced /\ c \in raced
         /\ \A t \in Passed : Contend(t, c) => t \in raced /\ c \in raced
         /\ Clear(c) => \A r \in Projections \ {p}, i \in Issues : ~AimsAt(proj[r], c, i)
<1>1. ASSUME NEW r \in Projections \ {p}, NEW t \in proj[r].todo, Contend(t, c) PROVE t \in raced /\ c \in raced
  BY <1>1, ContendSymmetric DEF OverlapsAreRaced
<1>2. ASSUME NEW t \in Passed, Contend(t, c) PROVE t \in raced /\ c \in raced
  BY <1>2 DEF OverlapsAreRaced, Projected
<1>3. ASSUME NEW r \in Projections \ {p}, NEW i \in Issues, AimsAt(proj[r], c, i) PROVE c \in raced
  <2>1. InHand(proj[r])
    BY DEF TypeInv
  <2>2. c \in proj[r].todo
    BY <1>3, <2>1 DEF AimsAt, InHand, AtWork
  <2> QED BY <1>1, <2>2, ContendReflexive
<1> QED BY <1>1, <1>2, <1>3 DEF Clear

\* A step on behalf of the row in hand.
LEMMA ProjectorIssues ==
  ASSUME TypeInv, TypeInv', WriterInv, WriterInv', IssueInv, NEW p \in Projections, NEW c \in proj[p].todo,
         BoardStep(c), UNCHANGED inb,
         NEW new \in Invocations, InHand(new), proj' = [proj EXCEPT ![p] = new], Orderly(new)',
         \A t \in Tasks \ {c}, i \in Issues : ~AimsAt(new, t, i) /\ ~AimsAt(proj[p], t, i), Holds(c),
         \A t \in Tasks, i \in Issues : Stray(t, i) /\ Stray(t, i)' => Unsought(new, t, i)',
         \A i \in Issues : Stray(c, i)' /\ ~Stray(c, i) =>
           Unsought(new, c, i)' /\ \A u \in Tasks : RidOf(link'[u]) # i
  PROVE  IssueInv'
<1>0. /\ UNCHANGED scenario /\ raced \subseteq raced' /\ c \in Tasks
      /\ \A r \in Projections : proj'[r] = IF r = p THEN new ELSE proj[r]
      /\ \A t \in Tasks \ {c} : RidOf(link'[t]) = RidOf(link[t])
  BY DEF BoardStep, Noted, TypeInv, Typed, Invocations
<1>1. Apart(c, {p}) /\ {p} \in SUBSET Projections
  BY <1>0, InOneHand DEF Apart, WriterInv
<1>2. OthersKeep(c)
  <2>1. \A t \in Tasks \ {c}, i \in Issues : Keeps(t, i)' <=> Keeps(t, i)
    BY <1>0 DEF Keeps, AimsAt
  <2> QED BY <2>1 DEF OthersKeep
<1>3. Avoids(c, {p})
  <2>1. \A r \in {p} : proj'[r] = new
    BY <1>0
  <2> QED BY <1>0, <2>1 DEF Avoids
<1>4. PassSeesStrays'
  <2>1. SUFFICES ASSUME inb.pc \in {"fetched", "adopting", "mirror", "footer"},
                        NEW t \in Tasks, NEW u \in Tasks, scenario.mirror[u] # None,
                        Live(scenario.mirror[u], inb.seen), inb.seen[scenario.mirror[u]].key = None,
                        Stray(t, scenario.mirror[u])'
                 PROVE  FALSE
    BY <1>0 DEF PassSeesStrays, Live
  <2>2. PICK i \in Issues : i = scenario.mirror[u] /\ i \in Written
    BY <2>1, ScenarioType, NullsAssumption DEF TypeInv
  <2>3. Stray(t, i)'
    <3>1. scenario'.mirror[u] = i
      BY <1>0, <2>2
    <3> QED BY <2>1, <3>1
  <2>4. ~Stray(t, i)
    BY <2>1, <2>2 DEF IssueInv, PassSeesStrays
  <2>5. t = c /\ Clear(c)'
    BY <2>3, <2>4, NewStrays DEF Stray
  <2>6. i \in KeyClaims(scenario.key[c])
    <3>1. PICK k : k = scenario.key[c]
      OBVIOUS
    <3>2. Live(i, issue') /\ issue'[i].key = k /\ k # None
      <4>1. k \in Keys
        BY <1>0, <3>1, ScenarioType DEF TypeInv
      <4> QED BY <1>0, <2>3, <2>5, <3>1, <4>1, NullsAssumption DEF Stray, Keyed, Live
    <3>3. Kin(k, i)'
      BY <3>2 DEF WriterInv, IssuesAreKin, Live
    <3> QED BY <1>0, <2>2, <3>1, <3>2, <3>3 DEF Kin, KeyClaims, Claims, Live
  <2>7. Contend(u, c) /\ u \in Passed
    BY <1>0, <2>1, <2>2, <2>6, MirrorsContend, MirrorsPassed
  <2>8. c \in raced
    BY <2>7, InOneHand DEF WriterInv
  <2> QED BY <1>0, <2>5, <2>8 DEF Clear
<1>5. \A r \in {p} : Orderly(proj[r])'
  BY <1>0, <1>4
<1> QED BY <1>0, <1>1, <1>2, <1>3, <1>4, <1>5, IssueStep

-----------------------------------------------------------------------------
(* What a listing shows *)

\* A batch whose bootstrap has just been fetched, or a row over its own.
LEMMA ListingOrderly ==
  ASSUME TypeInv, WriterInv, IssueInv, NEW b \in Listings, NEW q \in Invocations, q.boot = b,
         q.pc \notin {"upsert", "seed", "persist"}, \A t, u \in q.todo : scenario.key[t] = scenario.key[u] => t = u,
         \A t \in q.todo, i \in Issues : Keyless(i) /\ scenario.declared[t] = i => q.rows[t].body # Prose
  PROVE  /\ BootKnows(q) /\ BootLeads(q) /\ BootIsKin(q)
         /\ \A t \in Tasks, i \in Issues : Stray(t, i) => \A u \in q.todo \ {t} :
              /\ q.boot.ext[scenario.key[u]] # i
              /\ Live(i, q.boot.at) => q.boot.at[i].key # scenario.key[u]
<1>0. /\ b.at = issue /\ q.todo \subseteq Tasks /\ Pending(q) = q.todo /\ None \notin Issues
      /\ \A t \in Tasks : scenario.key[t] \in Keys /\ scenario.key[t] # None
  BY ScenarioType, NullsAssumption DEF Listings, Invocations, Pending, TypeInv
<1>1. \A k \in Keys, i \in Issues : b.ext[k] = i => Keyed(k, i)
  BY <1>0 DEF Listings, Keyed
<1>2. \A k \in Keys, i \in Issues : Keyed(k, i) => b.ext[k] \in Issues
  <2>1. ASSUME NEW k \in Keys, NEW i \in Issues, Keyed(k, i) PROVE b.ext[k] \in Issues
    <3>1. k # None
      BY NullsAssumption
    <3> QED BY <2>1, <3>1 DEF Listings, Keyed
  <2> QED BY <2>1
<1>3. ASSUME NEW t \in q.todo, Clear(t), Single(t) PROVE OnlyOne(t)
  BY <1>0, <1>3 DEF IssueInv, RowsKeepOne
<1>4. BootKnows(q)
  <2>1. ASSUME NEW t \in q.todo, Clear(t), Single(t), NEW i \in Issues, Keyed(scenario.key[t], i)
        PROVE  b.ext[scenario.key[t]] = i
    BY <1>0, <1>1, <1>2, <1>3, <2>1 DEF OnlyOne
  <2>2. ASSUME NEW t \in q.todo, Clear(t), Single(t), NEW i \in Issues, b.ext[scenario.key[t]] = i,
               NEW j \in Issues, RidOf(link[t]) = j, Live(j, b.at)
        PROVE  i = j
    BY <1>0, <1>1, <1>3, <2>2 DEF OnlyOne, Keeps
  <2> QED BY <1>0, <2>1, <2>2 DEF BootKnows
<1>5. BootLeads(q)
  <2>1. ASSUME NEW t \in q.todo, NEW i \in Issues, scenario.declared[t] = i, Keyless(i)
        PROVE  issue[i].body = Prose /\ q.rows[t].body # Prose
    BY <2>1 DEF WriterInv, KeylessIsUntouched
  <2>2. ASSUME NEW t \in q.todo, NEW i \in Issues, b.ext[scenario.key[t]] = i
        PROVE  /\ Live(i, issue)
               /\ \A u \in q.todo : /\ b.ext[scenario.key[u]] = i => t = u
                                    /\ issue[i].key \in {None, scenario.key[u]} => t = u
    BY <1>0, <1>1, <2>2 DEF Keyed
  <2> QED BY <1>0, <2>1, <2>2 DEF BootLeads, Keyless
<1>6. BootIsKin(q)
  BY <1>0 DEF BootIsKin, WriterInv, IssuesAreKin
<1>7. ASSUME NEW t \in Tasks, NEW i \in Issues, Stray(t, i), NEW u \in q.todo \ {t}
      PROVE  /\ q.boot.ext[scenario.key[u]] # i
             /\ Live(i, q.boot.at) => q.boot.at[i].key # scenario.key[u]
  BY <1>0, <1>1, <1>7 DEF Stray, Single, Keyed
<1> QED BY <1>4, <1>5, <1>6, <1>7

LEMMA IdleIssues ==
  /\ Briefed(IdleProjection) /\ Knows(IdleProjection)
  /\ Briefed(IdleProjection)' /\ Knows(IdleProjection)'
  /\ \A t, i : Unsought(IdleProjection, t, i) /\ ~AimsAt(IdleProjection, t, i)
<1>1. /\ IdleProjection.pc = "idle" /\ IdleProjection.todo = {} /\ IdleProjection.boot = NoBoot
  BY DEF IdleProjection
<1> HIDE DEF IdleProjection
<1>2. Briefed(IdleProjection) /\ Knows(IdleProjection)
  BY <1>1 DEF Briefed, Knows, KnowsLink, KnowsHolding, KnowsOwners, KnowsTarget, Goes
<1>3. Briefed(IdleProjection)' /\ Knows(IdleProjection)'
  BY <1>1 DEF Briefed, Knows, KnowsLink, KnowsHolding, KnowsOwners, KnowsTarget, Goes
<1> QED BY <1>1, <1>2, <1>3 DEF Unsought, AimsAt

\* What the invariants say of an invocation.
LEMMA InvocationFacts ==
  ASSUME TypeInv, WriterInv, IssueInv, NEW p \in Projections
  PROVE  LET q == proj[p]
         IN /\ q \in Invocations /\ InHand(q) /\ KinInvocation(q) /\ NoOtherHolder(q) /\ Stands(q)
            /\ Briefed(q) /\ (Clear(q.cur) => Knows(q)) /\ q.todo \subseteq Tasks
            /\ \A t \in Tasks, i \in Issues : Stray(t, i) => Unsought(q, t, i)
            /\ q.pc \in {"insert", "owners", "listing", "upsert", "seed", "persist"} => q.cur \in q.todo
BY DEF TypeInv, Typed, Invocations, WriterInv, IssuesAreKin, LinksStand, IssueInv, Orderly, StraysApart,
       InHand, AtWork

LEMMA PrepareIssues ==
  ASSUME TypeInv, TypeInv', WriterInv, WriterInv', IssueInv, NEW p \in Projections, Prepare(p)
  PROVE  IssueInv'
<1> DEFINE q == proj[p]
<1>1. BoardStays
  BY DEF Prepare, BoardStays, Noted, history
<1>2. /\ q \in Invocations /\ q.pc = "prepare" /\ Briefed(q)
      /\ \A t \in Tasks, i \in Issues : ~AimsAt(q, t, i)
      /\ \A t \in q.todo, i \in Issues : Keyless(i) /\ scenario.declared[t] = i => q.rows[t].body # Prose
  <2>1. q \in Invocations /\ q.pc = "prepare" /\ Briefed(q)
    BY InvocationFacts DEF Prepare
  <2>2. \A i \in Issues : Keyless(i) => KeylessInvocation(q, i)
    BY DEF WriterInv, KeylessIsUntouched
  <2> QED BY <2>1, <2>2 DEF AimsAt, KeylessInvocation
<1>3. ASSUME NEW b \in Listings, proj' = [proj EXCEPT ![p] = [q EXCEPT !.pc = "link", !.boot = b]]
      PROVE  IssueInv'
  <2> DEFINE new == [q EXCEPT !.pc = "link", !.boot = b]
  <2>1. b \in Boots
    BY ListingTypes DEF TypeInv
  <2> HIDE DEF q
  <2>2. /\ new \in Invocations /\ new.pc = "link" /\ new.boot = b /\ new.todo = q.todo /\ new.rows = q.rows
    BY <1>2, <2>1 DEF Invocations, ProjectorPcs
  <2> HIDE DEF new
  <2>3. InHand(new) /\ Knows(new) /\ \A t \in Tasks, i \in Issues : ~AimsAt(new, t, i)
    BY <2>2 DEF InHand, AtWork, AimsAt, Knows, KnowsLink, KnowsHolding, KnowsOwners, KnowsTarget, Goes
  <2>4. \A t, u \in q.todo : scenario.key[t] = scenario.key[u] => t = u
    BY <1>2 DEF Briefed
  <2>5. /\ BootKnows(new) /\ BootLeads(new) /\ BootIsKin(new)
        /\ \A t \in Tasks, i \in Issues : Stray(t, i) => \A u \in new.todo \ {t} :
             /\ new.boot.ext[scenario.key[u]] # i
             /\ Live(i, new.boot.at) => new.boot.at[i].key # scenario.key[u]
    BY <1>2, <2>2, <2>4, ListingOrderly
  <2>6. Briefed(new) /\ \A t \in Tasks, i \in Issues : Stray(t, i) => Unsought(new, t, i)
    BY <2>2, <2>4, <2>5 DEF Briefed, Unsought, Pending
  <2>7. proj' = [proj EXCEPT ![p] = new]
    BY <1>3 DEF new, q
  <2> QED BY <1>1, <1>2, <2>2, <2>3, <2>6, <2>7, QuietIssues DEF q
<1>4. ASSUME proj' = [proj EXCEPT ![p] = IdleProjection] PROVE IssueInv'
  <2>1. PICK idle : idle = IdleProjection
    OBVIOUS
  <2>2. /\ idle \in Invocations /\ InHand(idle) /\ Briefed(idle) /\ Knows(idle)'
        /\ Knows(idle)
        /\ \A t, i : Unsought(idle, t, i) /\ ~AimsAt(idle, t, i)
    BY <2>1, IdleTypes, IdleIssues
  <2>3. proj' = [proj EXCEPT ![p] = idle]
    BY <1>4, <2>1
  <2> QED BY <1>1, <1>2, <2>2, <2>3, QuietIssues
<1> QED BY <1>3, <1>4 DEF Prepare, Proceed

\* An invocation that ends leaves nothing behind.
LEMMA IdleQuietIssues ==
  ASSUME TypeInv, TypeInv', WriterInv, WriterInv', IssueInv, BoardStays, NEW p \in Projections,
         proj[p].pc \notin {"seed", "persist"}, proj' = [proj EXCEPT ![p] = IdleProjection]
  PROVE  IssueInv'
<1>1. PICK idle : idle = IdleProjection
  OBVIOUS
<1>2. /\ idle \in Invocations /\ InHand(idle) /\ Briefed(idle) /\ Knows(idle)
      /\ \A t, i : Unsought(idle, t, i) /\ ~AimsAt(idle, t, i)
  BY <1>1, IdleTypes, IdleIssues
<1>3. proj' = [proj EXCEPT ![p] = idle]
  BY <1>1
<1>4. \A t \in Tasks, i \in Issues : ~AimsAt(proj[p], t, i)
  BY DEF AimsAt
<1> QED BY <1>2, <1>3, <1>4, QuietIssues

LEMMA FindLinkIssues ==
  ASSUME TypeInv, TypeInv', WriterInv, WriterInv', IssueInv, NEW p \in Projections, NEW t \in Tasks, FindLink(p, t)
  PROVE  IssueInv'
<1> DEFINE q == proj[p]
           here == [q EXCEPT !.cur = t, !.known = link[t]]
           left == q.todo \ {t}
           rest == [q EXCEPT !.todo = left, !.rows[t] = NoRow]
<1>1. BoardStays
  BY DEF FindLink, BoardStays, Noted, history
<1>2. /\ q \in Invocations /\ q.pc = "link" /\ t \in q.todo /\ Briefed(q) /\ link[t] \in Links \cup {None}
      /\ \A u \in Tasks, i \in Issues : ~AimsAt(q, u, i) /\ (Stray(u, i) => Unsought(q, u, i))
  BY InvocationFacts DEF FindLink, AimsAt, TypeInv, Typed
<1>3. \/ Proceed(p, [here EXCEPT !.pc = "insert"])
      \/ link[t] # None /\ Proceed(p, [here EXCEPT !.pc = "owners"])
      \/ Proceed(p, rest)
      \/ Proceed(p, IdleProjection)
  BY DEF FindLink
<1>4. ASSUME NEW new, new \in Invocations, new.todo \subseteq q.todo, new.boot = q.boot,
             \A u \in new.todo : new.rows[u] = q.rows[u], new.pc \in {"link", "insert", "owners"},
             proj' = [proj EXCEPT ![p] = new], InHand(new), Knows(new),
             new.pc = "owners" => \A u \in Tasks, i \in Issues : Stray(u, i) => new.known.rid # i
      PROVE  IssueInv'
  <2>1. Pending(new) \subseteq Pending(q) /\ Pending(new) = new.todo /\ Pending(q) = q.todo
        /\ \A u \in Tasks, i \in Issues : ~AimsAt(new, u, i)
    BY <1>2, <1>4 DEF Pending, AimsAt
  <2> HIDE DEF q
  <2>2. Briefed(new)
    BY <1>2, <1>4, <2>1 DEF Briefed, BootKnows, BootLeads, BootIsKin
  <2>3. \A u \in Tasks, i \in Issues : Stray(u, i) => Unsought(new, u, i)
    BY <1>2, <1>4, <2>1 DEF Unsought
  <2> QED BY <1>1, <1>2, <1>4, <2>1, <2>2, <2>3, QuietIssues DEF q
<1>5. CASE Proceed(p, [here EXCEPT !.pc = "insert"])
  <2> DEFINE new == [q EXCEPT !.cur = t, !.known = link[t], !.pc = "insert"]
  <2>1. proj' = [proj EXCEPT ![p] = new]
    BY <1>5 DEF Proceed
  <2> HIDE DEF q
  <2>2. /\ new \in Invocations /\ new.pc = "insert" /\ new.boot = q.boot /\ new.todo = q.todo
        /\ new.rows = q.rows /\ new.cur = t
    BY <1>2 DEF Invocations, ProjectorPcs
  <2> HIDE DEF new
  <2>3. InHand(new) /\ Knows(new)
    BY <1>2, <2>2 DEF InHand, AtWork, Knows, KnowsLink, KnowsHolding, KnowsOwners, KnowsTarget, Goes
  <2> QED BY <1>4, <2>1, <2>2, <2>3
<1>6. CASE link[t] # None /\ Proceed(p, [here EXCEPT !.pc = "owners"])
  <2> DEFINE new == [q EXCEPT !.cur = t, !.known = link[t], !.pc = "owners"]
  <2>1. proj' = [proj EXCEPT ![p] = new]
    BY <1>6 DEF Proceed
  <2> HIDE DEF q
  <2>2. /\ new \in Invocations /\ new.pc = "owners" /\ new.boot = q.boot /\ new.todo = q.todo
        /\ new.rows = q.rows /\ new.cur = t /\ new.known = link[t]
    BY <1>2 DEF Invocations, ProjectorPcs
  <2> HIDE DEF new
  <2>3. InHand(new) /\ Knows(new)
    BY <1>2, <1>6, <2>2 DEF InHand, AtWork, Knows, KnowsLink, KnowsHolding, KnowsOwners, KnowsTarget, Goes, RidOf
  <2>4. \A u \in Tasks, i \in Issues : Stray(u, i) => new.known.rid # i
    BY <1>2, <1>6, <2>2 DEF IssueInv, StraysApart, RidOf
  <2> QED BY <1>4, <2>1, <2>2, <2>3, <2>4
<1>7. CASE Proceed(p, rest)
  <2>1. [q.rows EXCEPT ![t] = NoRow] \in [Tasks -> Rows]
    BY <1>2, IdleTypes DEF Invocations
  <2>2. rest = [q EXCEPT !.todo = left, !.rows = [q.rows EXCEPT ![t] = NoRow]]
    BY <1>2 DEF Invocations
  <2>3. /\ left \subseteq q.todo /\ t \notin left /\ proj' = [proj EXCEPT ![p] = rest]
    BY <1>7 DEF Proceed
  <2> HIDE DEF q, left, rest
  <2>4. /\ rest \in Invocations /\ rest.pc = "link" /\ rest.todo = left /\ rest.boot = q.boot
        /\ \A u \in left : rest.rows[u] = q.rows[u]
    BY <1>2, <2>1, <2>2, <2>3 DEF Invocations
  <2>5. InHand(rest) /\ Knows(rest)
    BY <2>4 DEF InHand, AtWork, Knows, KnowsLink, KnowsHolding, KnowsOwners, KnowsTarget, Goes
  <2> QED BY <1>4, <2>3, <2>4, <2>5
<1>8. CASE Proceed(p, IdleProjection)
  BY <1>1, <1>2, <1>8, IdleQuietIssues DEF Proceed
<1> HIDE DEF here, rest
<1> QED BY <1>3, <1>5, <1>6, <1>7, <1>8 DEF here

LEMMA InsertLinkIssues ==
  ASSUME TypeInv, TypeInv', WriterInv, WriterInv', IssueInv, NEW p \in Projections, InsertLink(p)
  PROVE  IssueInv'
<1> DEFINE q == proj[p]
           new == [q EXCEPT !.pc = "owners", !.known = DeclaredLink]
<1>1. /\ q \in Invocations /\ q.pc = "insert" /\ q.cur \in q.todo /\ q.cur \in Tasks /\ Briefed(q)
      /\ \A u \in Tasks, i \in Issues : ~AimsAt(q, u, i) /\ (Stray(u, i) => Unsought(q, u, i))
  BY InvocationFacts DEF InsertLink, AimsAt
<1>2. BoardStays
  <2>1. UNCHANGED link \/ (link[q.cur] = None /\ link' = [link EXCEPT ![q.cur] = DeclaredLink])
    BY DEF InsertLink
  <2>2. \A u \in Tasks : RidOf(link'[u]) = RidOf(link[u]) /\ (link[u] # None => link'[u] # None)
    BY <1>1, <2>1, DeclaredLinkType, NullsAssumption DEF TypeInv, Typed, RidOf
  <2> QED BY <2>2 DEF InsertLink, BoardStays, Noted, history
<1>3. CASE link[q.cur] = None /\ Proceed(p, new)
  <2>1. proj' = [proj EXCEPT ![p] = new] /\ DeclaredLink \in Links /\ DeclaredLink.rid = None
    BY <1>3, DeclaredLinkType DEF Proceed, DeclaredLink
  <2>2. RidOf(link[q.cur]) = None /\ None \notin Issues
    BY <1>3, NullsAssumption DEF RidOf
  <2> HIDE DEF q
  <2>3. /\ new \in Invocations /\ new.pc = "owners" /\ new.boot = q.boot /\ new.todo = q.todo
        /\ new.rows = q.rows /\ new.cur = q.cur /\ new.known = DeclaredLink
    BY <1>1, <2>1 DEF Invocations, ProjectorPcs
  <2> HIDE DEF new
  <2>4. /\ InHand(new) /\ Knows(new) /\ Pending(new) = Pending(q)
        /\ \A u \in Tasks, i \in Issues : ~AimsAt(new, u, i)
    BY <1>1, <2>1, <2>2, <2>3 DEF InHand, AtWork, AimsAt, Pending, Knows, KnowsLink, KnowsHolding, KnowsOwners,
                                  KnowsTarget, Goes
  <2>5. Briefed(new)
    BY <1>1, <2>3, <2>4 DEF Briefed, BootKnows, BootLeads, BootIsKin
  <2>6. \A u \in Tasks, i \in Issues : Stray(u, i) => Unsought(new, u, i)
    BY <1>1, <2>1, <2>2, <2>3, <2>4 DEF Unsought
  <2> QED BY <1>1, <1>2, <2>1, <2>3, <2>4, <2>5, <2>6, QuietIssues DEF q
<1>4. CASE Proceed(p, IdleProjection)
  BY <1>1, <1>2, <1>4, IdleQuietIssues DEF Proceed
<1> QED BY <1>3, <1>4 DEF InsertLink

\* What a row plans over a bootstrap: the issue it keeps if there is one, and none that is
\* another's.
LEMMA PlannedIssues ==
  ASSUME TypeInv, WriterInv, IssueInv, NEW q \in Invocations, q.boot \in Boots, q.cur \in q.todo,
         q.pc \in {"owners", "listing"}, q.known \in Links, Clear(q.cur) => KnowsLink(q),
         \A t, u \in q.todo : scenario.key[t] = scenario.key[u] => t = u,
         BootKnows(q), BootLeads(q), BootIsKin(q), KinInvocation(Planned(q, q.boot)),
         \A t \in Tasks, i \in Issues : Stray(t, i) =>
           /\ q.cur # t => q.known.rid # i
           /\ \A u \in q.todo \ {t} : /\ q.boot.ext[scenario.key[u]] # i
                                      /\ Live(i, q.boot.at) => q.boot.at[i].key # scenario.key[u]
  PROVE  LET new == Planned(q, q.boot)
         IN /\ Briefed(new)
            /\ Clear(q.cur) /\ SeesOwners(q) => Knows(new)
            /\ \A t \in Tasks, i \in Issues : Stray(t, i) => Unsought(new, t, i)
<1> DEFINE c == q.cur
           boot == q.boot
           new == Planned(q, boot)
           plan == Plan(q, boot)
<1>0. /\ boot \in Boots /\ c \in Tasks /\ q.todo \subseteq Tasks /\ None \notin Issues
      /\ \A t \in Tasks : scenario.key[t] \in Keys /\ scenario.key[t] # None
      /\ scenario.declared[c] \in Issues \cup {None} /\ Written \subseteq Issues
  BY ScenarioType, NullsAssumption DEF Invocations, NoBoot, TypeInv
<1>1. /\ new \in Invocations /\ new.plan = plan /\ new.cur = c /\ new.todo = q.todo /\ new.rows = q.rows
      /\ new.pc = "upsert" /\ new.boot = (IF q.todo = {c} THEN NoBoot ELSE boot)
  BY <1>0, PlannedTypes DEF TypeInv
<1>2. /\ ByResourceId(q, boot) = IF q.known.rid # None /\ Live(q.known.rid, boot.at) THEN q.known.rid ELSE None
      /\ ByFooter(q, boot) = IF boot.ext[scenario.key[c]] \in q.owned THEN None ELSE boot.ext[scenario.key[c]]
  BY DEF ByResourceId, ByFooter
<1>3. LET byId == ByResourceId(q, boot)
          byFooter == ByFooter(q, boot)
          adopts == byId = None /\ byFooter = None /\ scenario.declared[c] # None
      IN /\ adopts => /\ plan.target = scenario.declared[c]
                      /\ ~plan.refuses => MayAdopt(q, boot, plan.target)
         /\ ~adopts => plan.target = (IF byId # None THEN byId ELSE byFooter)
         /\ plan.same => /\ plan.target # None /\ ~plan.refuses
                         /\ boot.at[plan.target].body = q.rows[c].body
  BY PlanFacts
<1>4. plan.target \in Issues \cup {None} /\ (q.known.rid \in Issues \cup {None})
  BY <1>0, PlanTypes DEF Plans, TypeInv, Links
<1>5. /\ KnowsLink(q) => RidOf(link[c]) = q.known.rid
      /\ BootKnows(q) /\ BootLeads(q) /\ BootIsKin(q) /\ Pending(q) = q.todo
      /\ \A t, u \in q.todo : scenario.key[t] = scenario.key[u] => t = u
  BY DEF KnowsLink, Pending
<1>6. Goes(new) <=> ~plan.refuses
  BY <1>1 DEF Goes
<1>7. Pending(new) = q.todo \ {c}
  BY <1>1 DEF Pending
<1> HIDE DEF c, boot, new, plan
\* The rung an issue comes from.
<1>8. ASSUME NEW i \in Issues, plan.target = i, ~plan.refuses
      PROVE  \/ q.known.rid = i /\ Live(i, boot.at)
             \/ boot.ext[scenario.key[c]] = i /\ i \notin q.owned
             \/ /\ scenario.declared[c] = i /\ Live(i, boot.at) /\ i \notin q.owned
                /\ boot.at[i].key \in {None, scenario.key[c]}
  BY <1>0, <1>2, <1>3, <1>4, <1>8 DEF MayAdopt, c
<1>9. Briefed(new)
  <2>1. SUFFICES ASSUME new.boot # NoBoot PROVE BootKnows(new) /\ BootLeads(new) /\ BootIsKin(new)
    BY <1>1, <1>5 DEF Briefed
  <2>2. new.boot = q.boot
    BY <1>1, <2>1 DEF boot
  <2> QED BY <1>1, <1>5, <1>7, <2>2 DEF BootKnows, BootLeads, BootIsKin
<1>10. ASSUME Clear(c), SeesOwners(q) PROVE Knows(new)
  <2>1. /\ RidOf(link[c]) = q.known.rid
        /\ \A t \in Tasks \ {c} : Contend(t, c) => RidOf(link[t]) \in q.owned \cup {None}
        /\ Single(c) => \A i \in Issues : Keyed(scenario.key[c], i) => i \notin q.owned
    BY <1>5, <1>10 DEF SeesOwners, c
  <2>2. KnowsLink(new) /\ KnowsOwners(new)
    BY <1>1 DEF KnowsLink, KnowsOwners
  <2>3. KnowsHolding(new)
    <3>1. ASSUME NEW i \in Issues, RidOf(link[c]) = i, Live(i, issue), ~plan.refuses PROVE plan.target = i
      <4>1. Live(i, boot.at)
        BY <1>5, <1>10, <3>1 DEF BootKnows, boot, c
      <4> QED BY <1>0, <1>2, <1>3, <2>1, <3>1, <4>1
    <3> QED BY <1>1, <1>6, <3>1 DEF KnowsHolding
  <2>4. ASSUME NEW i \in Issues, Single(c), Keyed(scenario.key[c], i), ~plan.refuses PROVE plan.target = i
    <3>1. boot.ext[scenario.key[c]] = i /\ i \notin q.owned
          /\ \A j \in Issues : RidOf(link[c]) = j /\ Live(j, boot.at) => i = j
      BY <1>5, <1>10, <2>1, <2>4 DEF BootKnows, boot, c
    <3>2. ByFooter(q, boot) = i
      BY <1>2, <3>1
    <3>3. ByResourceId(q, boot) \in {None, i}
      BY <1>2, <1>4, <2>1, <3>1
    <3> QED BY <1>0, <1>3, <3>2, <3>3
  <2>5. ASSUME NEW i \in Issues, plan.target = i, ~plan.refuses, Live(i, issue), NEW t \in Tasks \ {c}
        PROVE  RidOf(link[t]) # i
    <3>1. SUFFICES ASSUME RidOf(link[t]) = i PROVE FALSE
      OBVIOUS
    <3>2. Kin(scenario.key[c], i)
      BY <1>0, <1>1, <2>5 DEF KinInvocation, new, boot
    <3>3. Kin(scenario.key[t], i)
      BY <1>0, <3>1 DEF WriterInv, IssuesAreKin, RidOf
    <3>4. Contend(t, c)
      BY <1>0, <2>5, <3>2, <3>3, KinContend
    <3>5. i \in q.owned
      BY <1>0, <2>1, <3>1, <3>4
    <3>6. RidOf(link[c]) = i
      BY <1>8, <2>1, <2>5, <3>5
    <3> QED BY <1>0, <3>1, <3>6 DEF TypeInv, OneOwner
  <2>6. ASSUME NEW i \in Issues, plan.target = i, ~plan.refuses, Single(c), RidOf(link[c]) # i,
               NEW t \in q.todo \ {c}
        PROVE  /\ boot.ext[scenario.key[t]] # i
               /\ Live(i, boot.at) => boot.at[i].key # scenario.key[t]
    <3>1. c \in q.todo /\ t \in Tasks
      BY <1>0 DEF c
    <3>2. \A u \in q.todo : boot.ext[scenario.key[u]] = i =>
            /\ Live(i, boot.at)
            /\ \A v \in q.todo : /\ boot.ext[scenario.key[v]] = i => u = v
                                 /\ boot.at[i].key \in {None, scenario.key[v]} => u = v
      BY <1>5 DEF BootLeads, boot
    <3>3. CASE boot.ext[scenario.key[c]] = i
      BY <3>1, <3>2, <3>3
    <3>4. CASE Live(i, boot.at) /\ boot.at[i].key \in {None, scenario.key[c]}
      BY <1>0, <1>5, <3>1, <3>2, <3>4
    <3> QED BY <1>8, <2>1, <2>6, <3>3, <3>4
  <2>7. KnowsTarget(new)
    <3>1. new.boot # NoBoot => new.boot = boot
      BY <1>1
    <3> QED BY <1>1, <1>6, <2>4, <2>5, <2>6, <3>1 DEF KnowsTarget
  <2> QED BY <2>2, <2>3, <2>7 DEF Knows
<1>11. ASSUME NEW t \in Tasks, NEW i \in Issues, Stray(t, i) PROVE Unsought(new, t, i)
  <2>1. /\ c # t => q.known.rid # i
        /\ \A u \in q.todo \ {t} : /\ boot.ext[scenario.key[u]] # i
                                   /\ Live(i, boot.at) => boot.at[i].key # scenario.key[u]
    BY <1>5, <1>11 DEF boot, c
  <2>2. ASSUME plan.same, c # t, plan.target = i PROVE FALSE
    <3>1. c \in q.todo \ {t} /\ ~plan.refuses /\ boot.at[i].body = q.rows[c].body
      BY <1>3, <2>2 DEF c
    <3>2. /\ scenario.declared[c] = i /\ Live(i, boot.at) /\ boot.at[i].key = None
      BY <1>8, <2>1, <2>2, <3>1
    <3>3. boot.at[i].body = Prose /\ q.rows[c].body # Prose
      BY <1>5, <3>1, <3>2 DEF BootLeads, boot
    <3> QED BY <3>1, <3>3
  <2>3. new.boot # NoBoot => new.boot = boot
    BY <1>1
  <2> QED BY <1>1, <1>7, <2>1, <2>2, <2>3 DEF Unsought
<1> QED BY <1>9, <1>10, <1>11 DEF new, boot, c

\* The owners that a read of the links finds.
LEMMA OwnersAreSeen ==
  ASSUME TypeInv, WriterInv, IssueInv, NEW q, q.cur \in Tasks, Clear(q.cur), q.owned = OwnedByOthers(q.cur)
  PROVE  SeesOwners(q)
<1>1. \A t \in Tasks \ {q.cur} : RidOf(link[t]) \in q.owned \cup {None}
  BY DEF OwnedByOthers
<1>2. ASSUME Single(q.cur), NEW i \in Issues, Keyed(scenario.key[q.cur], i), i \in q.owned PROVE FALSE
  <2>1. PICK t \in Tasks \ {q.cur} : RidOf(link[t]) = i /\ i # None
    BY <1>2 DEF OwnedByOthers
  <2>2. RidOf(link[q.cur]) # i
    BY <2>1 DEF TypeInv, OneOwner
  <2>3. Stray(q.cur, i)
    BY <1>2, <2>2 DEF Stray
  <2> QED BY <2>1, <2>3 DEF IssueInv, StraysApart
<1> QED BY <1>1, <1>2 DEF SeesOwners

LEMMA ReadOwnersIssues ==
  ASSUME TypeInv, TypeInv', WriterInv, WriterInv', IssueInv, NEW p \in Projections, ReadOwners(p)
  PROVE  IssueInv'
<1>q. PICK q : q = proj[p]
  OBVIOUS
<1> DEFINE u == q.cur
<1>0. /\ q \in Invocations /\ u \in q.todo /\ q.known \in Links /\ q.pc = "owners" /\ u \in Tasks
      /\ Briefed(q) /\ (Clear(u) => Knows(q)) /\ KinInvocation(q)
      /\ \A t \in Tasks, i \in Issues : Stray(t, i) => Unsought(q, t, i)
      /\ \A t \in Tasks, i \in Issues : ~AimsAt(q, t, i)
  BY <1>q, InvocationFacts DEF ReadOwners, InHand, AimsAt
<1>1. BoardStays
  BY DEF ReadOwners, BoardStays, Noted
<1>2. OwnedByOthers(u) \subseteq Issues
  BY <1>0 DEF OwnedByOthers, RidOf, TypeInv, Typed, Links
<1>3. PICK owned \in SUBSET Issues :
        /\ LET r == [q EXCEPT !.owned = owned]
           IN Proceed(p, IF r.boot = NoBoot THEN [r EXCEPT !.pc = "listing"] ELSE Planned(r, r.boot))
        /\ \/ owned = OwnedByOthers(u)
           \/ unread' = unread \cup {t \in Tasks : Contend(u, t)}
  <2> DEFINE Read(owned) ==
        LET r == [q EXCEPT !.owned = owned]
        IN Proceed(p, IF r.boot = NoBoot THEN [r EXCEPT !.pc = "listing"] ELSE Planned(r, r.boot))
  <2>1. \/ Read(OwnedByOthers(u))
        \/ Read({}) /\ unread' = unread \cup {t \in Tasks : Contend(u, t)}
    BY <1>q DEF ReadOwners
  <2> HIDE DEF Read
  <2>2. \E owned \in SUBSET Issues :
          Read(owned) /\ (\/ owned = OwnedByOthers(u)
                          \/ unread' = unread \cup {t \in Tasks : Contend(u, t)})
    BY <1>2, <2>1
  <2> QED BY <2>2 DEF Read
<1> DEFINE r == [q EXCEPT !.owned = owned]
<1>4. /\ r \in Invocations /\ r.pc = "owners" /\ r.cur = u /\ r.todo = q.todo /\ r.known = q.known /\ r.rows = q.rows
      /\ r.boot = q.boot /\ r.owned = owned /\ r.boot \in Boots \cup {None}
  <2> QED BY <1>0 DEF Invocations
<1>5. Proceed(p, IF r.boot = NoBoot THEN [r EXCEPT !.pc = "listing"] ELSE Planned(r, r.boot))
  BY <1>3
<1> HIDE DEF r
<1>6. Clear(u)' => Clear(u) /\ owned = OwnedByOthers(u)
  <2>1. Clear(u)' => Clear(u)
    BY <1>1 DEF BoardStays, Noted, Clear
  <2>2. Contend(u, u)
    BY <1>0, ContendReflexive
  <2> QED BY <1>0, <1>3, <2>1, <2>2 DEF Clear
<1>7. Pending(r) = Pending(q) /\ Briefed(r)
  <2>1. Pending(r) = Pending(q)
    BY <1>0, <1>4 DEF Pending
  <2> QED BY <1>0, <1>4, <2>1 DEF Briefed, BootKnows, BootLeads, BootIsKin
<1>8. CASE r.boot = NoBoot
  <2>0. PICK new : new = [r EXCEPT !.pc = "listing"]
    OBVIOUS
  <2>1. /\ new \in Invocations /\ new.pc = "listing" /\ new.cur = u /\ new.todo = q.todo
        /\ new.known = q.known /\ new.owned = owned /\ new.rows = q.rows /\ new.boot = NoBoot
    BY <1>4, <1>8, <2>0 DEF Invocations, ProjectorPcs
  <2>2. proj' = [proj EXCEPT ![p] = new]
    BY <1>5, <1>8, <2>0 DEF Proceed
  <2>3. InHand(new) /\ \A t \in Tasks, i \in Issues : ~AimsAt(new, t, i)
    BY <1>0, <2>1 DEF InHand, AtWork, AimsAt
  <2>4. Briefed(new)
    BY <1>0, <2>1 DEF Briefed
  <2>5. ASSUME Clear(new.cur)' PROVE Knows(new)
    <3>1. Clear(u) /\ owned = OwnedByOthers(u)
      BY <1>6, <2>1, <2>5
    <3>2. SeesOwners(new)
      BY <1>0, <2>1, <3>1, OwnersAreSeen
    <3>3. KnowsLink(new)
      BY <1>0, <2>1, <3>1 DEF Knows, KnowsLink
    <3> QED BY <2>1, <3>2, <3>3 DEF Knows, KnowsHolding, KnowsOwners, KnowsTarget, Goes
  <2>6. \A t \in Tasks, i \in Issues : Stray(t, i) => Unsought(new, t, i)
    BY <1>0, <2>1 DEF Unsought
  <2> QED BY <1>0, <1>1, <2>1, <2>2, <2>3, <2>4, <2>5, <2>6, <1>q, QuietIssues
<1>9. CASE r.boot # NoBoot
  <2>1. r.boot \in Boots
    BY <1>4, <1>9 DEF NoBoot
  <2>0. PICK new : new = Planned(r, r.boot)
    OBVIOUS
  <2>2. proj' = [proj EXCEPT ![p] = new]
    BY <1>5, <1>9, <2>0 DEF Proceed
  <2>3. /\ new \in Invocations /\ InHand(new) /\ new.cur = u /\ new.pc = "upsert"
    BY <1>0, <1>4, <2>0, <2>1, PlannedTypes DEF TypeInv
  <2>4. KinInvocation(new)
    <3>1. KinInvocation(new)'
      BY <2>2 DEF WriterInv, IssuesAreKin, TypeInv, Typed
    <3> QED BY <1>1, <3>1 DEF BoardStays, KinInvocation, Kin, KeyClaims, Claims, Live, NoBoot
  <2>5. Clear(u) => KnowsLink(r)
    BY <1>0, <1>4 DEF Knows, KnowsLink
  <2>6. /\ BootKnows(r) /\ BootLeads(r) /\ BootIsKin(r)
        /\ \A t, w \in r.todo : scenario.key[t] = scenario.key[w] => t = w
        /\ \A t \in Tasks, i \in Issues : Stray(t, i) =>
             /\ r.cur # t => r.known.rid # i
             /\ \A w \in r.todo \ {t} : /\ r.boot.ext[scenario.key[w]] # i
                                        /\ Live(i, r.boot.at) => r.boot.at[i].key # scenario.key[w]
    BY <1>0, <1>4, <1>7, <1>9 DEF Unsought, Briefed, Pending
  <2>7. /\ Briefed(new)
        /\ Clear(u) /\ SeesOwners(r) => Knows(new)
        /\ \A t \in Tasks, i \in Issues : Stray(t, i) => Unsought(new, t, i)
    BY <1>0, <1>4, <2>1, <2>0, <2>4, <2>5, <2>6, PlannedIssues
  <2>8. Clear(new.cur)' => Knows(new)
    <3>1. SUFFICES ASSUME Clear(u)' PROVE Knows(new)
      BY <2>3
    <3> QED BY <1>0, <1>4, <1>6, <2>7, <3>1, OwnersAreSeen
  <2>9. \A t \in Tasks, i \in Issues : ~AimsAt(new, t, i)
    BY <2>3 DEF AimsAt
  <2> QED BY <1>0, <1>1, <2>2, <2>3, <2>7, <2>8, <2>9, <1>q, QuietIssues
<1> QED BY <1>8, <1>9

\* A plan depends on the row, its link and its owners.
LEMMA SamePlan ==
  ASSUME NEW q, NEW r, NEW b, r.cur = q.cur, r.known = q.known, r.owned = q.owned, r.rows = q.rows
  PROVE  Plan(r, b) = Plan(q, b)
<1>1. /\ ByResourceId(r, b) = ByResourceId(q, b) /\ ByFooter(r, b) = ByFooter(q, b)
      /\ r.rows[r.cur] = q.rows[q.cur] /\ r.cur = q.cur
  BY DEF ByResourceId, ByFooter
<1>2. \A i : MayAdopt(r, b, i) <=> MayAdopt(q, b, i)
  BY DEF MayAdopt
<1> QED BY ONLY <1>1, <1>2, ZenonT(60) DEF Plan

LEMMA FetchBootIssues ==
  ASSUME TypeInv, TypeInv', WriterInv, WriterInv', IssueInv, NEW p \in Projections, FetchBoot(p)
  PROVE  IssueInv'
<1>q. PICK q : q = proj[p]
  OBVIOUS
<1> DEFINE u == q.cur
<1>0. /\ q \in Invocations /\ u \in q.todo /\ q.known \in Links /\ q.pc = "listing" /\ u \in Tasks
      /\ Briefed(q) /\ (Clear(u) => Knows(q))
      /\ \A t \in Tasks, i \in Issues : Stray(t, i) => Unsought(q, t, i)
      /\ \A t \in Tasks, i \in Issues : ~AimsAt(q, t, i)
  BY <1>q, InvocationFacts DEF FetchBoot, InHand, AimsAt
<1>1. BoardStays
  BY DEF FetchBoot, BoardStays, Noted, history
<1>2. \A i \in Issues : Keyless(i) => KeylessInvocation(q, i)
  BY <1>q DEF WriterInv, KeylessIsUntouched
<1>3. PICK b \in Listings : Proceed(p, Planned(q, b))
  BY <1>q DEF FetchBoot
<1> DEFINE r == [q EXCEPT !.boot = b]
<1>4. b \in Boots
  BY ListingTypes DEF TypeInv
<1>5. /\ r \in Invocations /\ r.pc = "listing" /\ r.cur = u /\ r.todo = q.todo /\ r.known = q.known
      /\ r.rows = q.rows /\ r.boot = b /\ r.owned = q.owned
  BY <1>0, <1>4 DEF Invocations
<1>6. Planned(q, b) = Planned(r, b)
  <2>1. Plan(r, b) = Plan(q, b)
    BY <1>5, SamePlan
  <2>2. PICK x : x = Plan(q, b)
    OBVIOUS
  <2>3. PICK boot : boot = IF q.todo = {u} THEN NoBoot ELSE b
    OBVIOUS
  <2>4. Planned(q, b) = [q EXCEPT !.pc = "upsert", !.plan = x, !.known = None, !.owned = {}, !.boot = boot]
    BY <2>2, <2>3 DEF Planned
  <2>5. Planned(r, b) = [r EXCEPT !.pc = "upsert", !.plan = x, !.known = None, !.owned = {}, !.boot = boot]
    BY <1>5, <2>1, <2>2, <2>3 DEF Planned
  <2> QED BY <1>0, <2>4, <2>5 DEF Invocations
<1> HIDE DEF r
<1>n. PICK new : new = Planned(r, b)
  OBVIOUS
<1>7. proj' = [proj EXCEPT ![p] = new] /\ r.boot = b
  BY <1>3, <1>5, <1>6, <1>n DEF Proceed
<1>8. new \in Invocations /\ InHand(new) /\ new.cur = u /\ new.pc = "upsert"
  BY <1>0, <1>4, <1>5, <1>n, PlannedTypes DEF TypeInv
<1>9. KinInvocation(new)
  <2>1. KinInvocation(new)'
    BY <1>7 DEF WriterInv, IssuesAreKin, TypeInv, Typed
  <2> QED BY <1>1, <2>1 DEF BoardStays, KinInvocation, Kin, KeyClaims, Claims, Live, NoBoot
<1>10. \A t, w \in q.todo : scenario.key[t] = scenario.key[w] => t = w
  BY <1>0 DEF Briefed
<1>11. /\ BootKnows(r) /\ BootLeads(r) /\ BootIsKin(r)
       /\ \A t \in Tasks, i \in Issues : Stray(t, i) => \A w \in r.todo \ {t} :
            /\ r.boot.ext[scenario.key[w]] # i
            /\ Live(i, r.boot.at) => r.boot.at[i].key # scenario.key[w]
  <2>1. \A t \in r.todo, i \in Issues : Keyless(i) /\ scenario.declared[t] = i => r.rows[t].body # Prose
    BY <1>2, <1>5 DEF KeylessInvocation
  <2> QED BY <1>5, <1>10, <2>1, ListingOrderly
<1>12. \A t \in Tasks, i \in Issues : Stray(t, i) => (u # t => q.known.rid # i)
  BY <1>0 DEF Unsought
<1>13. Clear(u) => KnowsLink(r) /\ SeesOwners(r)
  BY <1>0, <1>5 DEF Knows, KnowsLink, KnowsOwners, SeesOwners
<1>14. /\ Briefed(new)
       /\ Clear(u) /\ SeesOwners(r) => Knows(new)
       /\ \A t \in Tasks, i \in Issues : Stray(t, i) => Unsought(new, t, i)
  BY <1>0, <1>4, <1>5, <1>9, <1>10, <1>11, <1>12, <1>13, <1>n, PlannedIssues
<1>15. \A t \in Tasks, i \in Issues : ~AimsAt(new, t, i)
  BY <1>8 DEF AimsAt
<1>16. Clear(new.cur)' => Knows(new)
  BY <1>1, <1>8, <1>13, <1>14 DEF BoardStays, Noted, Clear
<1> QED BY <1>0, <1>1, <1>7, <1>8, <1>14, <1>15, <1>16, <1>q, QuietIssues

\* Row c comes to hold i: of what it holds, and of what has its key if no other row has
\* it, there is nothing else.
SettlesOn(c, i) ==
  /\ \A j \in Issues \ {i} : Keyed(scenario.key[c], j)' => Keyed(scenario.key[c], j)
  /\ Clear(c) =>
       /\ \A j \in Issues : RidOf(link[c]) = j /\ Live(j, issue') => j = i
       /\ Single(c) => \A j \in Issues : Keyed(scenario.key[c], j)' => j = i
\* What the write of i for row c comes to.
WroteFor(c, i) ==
  /\ BoardStep(c) /\ i \in Issues /\ Keyed(scenario.key[c], i)' /\ Kin(scenario.key[c], i)'
  /\ \A j \in Issues \ {i} : issue'[j] = issue[j]
  /\ \A t \in Tasks \ {c} : Clear(t) => RidOf(link[t]) # i
  /\ SettlesOn(c, i)
  /\ Clear(c) /\ Single(c) /\ RidOf(link[c]) # i => \A t \in Tasks : RidOf(link[t]) # i
\* A row's new issue is not one that the listing of the batch has for another row.
NewToBatch(q, c, i) ==
  Clear(c) /\ Single(c) /\ RidOf(link[c]) # i /\ q.boot # NoBoot => \A t \in q.todo \ {c} :
    /\ q.boot.ext[scenario.key[t]] # i
    /\ Live(i, q.boot.at) => q.boot.at[i].key # scenario.key[t]

\* The issue that is written is the one the row keeps, and no other row's.
LEMMA WriteFacts ==
  ASSUME TypeInv, TypeInv', WriterInv, IssueInv, NEW p \in Projections, NEW q \in Invocations,
         q = proj[p], q.pc = "upsert", NEW c \in Tasks, c = q.cur, ~q.plan.refuses, NEW i \in Targets(q),
         issue' = [issue EXCEPT ![i] = Projection(q, i)], lost \subseteq lost',
         UNCHANGED <<scenario, task, link, inb, raced, unread>>
  PROVE  WroteFor(c, i) /\ NewToBatch(q, c, i)
<1>1. /\ ProjectorEffect(p) /\ i \in Issues /\ Live(i, issue') /\ Kin(scenario.key[c], i)'
      /\ ~HeldByOther(c, i)' /\ Wrote(c, i)' /\ Found(q, i)
  BY WriteEffect
<1>2. /\ KinInvocation(q) /\ Briefed(q) /\ (Clear(c) => Knows(q)) /\ link[c] # None /\ Goes(q)
      /\ \A t \in Tasks : scenario.key[t] \in Keys /\ scenario.key[t] # None
      /\ q.todo \subseteq Tasks
  BY UpsertFacts, InvocationFacts, ScenarioType, NullsAssumption DEF Goes, TypeInv
<1>3. \/ q.plan.target = None /\ i \notin Written /\ issue[i] = Unborn
      \/ i = q.plan.target /\ Live(i, issue)
  BY DEF Targets
<1>4. /\ Noted /\ IssuesEvolve /\ UNCHANGED <<scenario, link>>
      /\ \A j \in Issues \ {i} : issue'[j] = issue[j]
      /\ issue'[i].key = scenario.key[c]
  <2>1. \A j \in Issues \ {i} : issue'[j] = issue[j]
    BY DEF TypeInv, Typed, Snapshots
  <2> QED BY <1>1, <2>1 DEF ProjectorEffect, Wrote
<1>5. Keyed(scenario.key[c], i)'
  BY <1>1, <1>4 DEF Keyed, Live
<1>6. \A j \in Issues \ {i}, k \in Keys : Keyed(k, j)' <=> Keyed(k, j)
  BY <1>4 DEF Keyed, Live
<1>7. BoardStep(c)
  <2>1. ASSUME NEW j \in Issues, NEW k \in Keys, Keyed(k, j)', ~Keyed(k, j)
        PROVE  k = scenario.key[c] /\ Kin(k, j)'
    <3>1. j = i /\ k = scenario.key[c]
      BY <1>4, <1>6, <2>1 DEF Keyed
    <3> QED BY <1>1, <1>4, <3>1
  <2> QED BY <1>4, <2>1 DEF BoardStep
<1>8. \A t \in Tasks \ {c} : Clear(t) => RidOf(link[t]) # i
  BY <1>1 DEF HeldByOther, Clear
<1>9. ASSUME Clear(c) PROVE \A j \in Issues : RidOf(link[c]) = j /\ Live(j, issue') => j = i
  <2>1. SUFFICES ASSUME NEW j \in Issues, RidOf(link[c]) = j, Live(j, issue'), j # i PROVE FALSE
    OBVIOUS
  <2>2. Live(j, issue)
    BY <1>4, <2>1 DEF Live
  <2>3. q.plan.target = j
    BY <1>2, <1>9, <2>1, <2>2 DEF Knows, KnowsHolding
  <2> QED BY <1>1, <2>1, <2>3, NullsAssumption DEF Found
<1>10. ASSUME Clear(c), Single(c), NEW j \in Issues, Keyed(scenario.key[c], j)' PROVE j = i
  <2>1. SUFFICES ASSUME j # i PROVE FALSE
    OBVIOUS
  <2>2. Keyed(scenario.key[c], j)
    BY <1>4, <1>10, <2>1 DEF Keyed, Live
  <2>3. q.plan.target = j
    BY <1>2, <1>10, <2>2 DEF Knows, KnowsTarget
  <2> QED BY <1>1, <2>1, <2>3, NullsAssumption DEF Found
<1>11. ASSUME Clear(c), Single(c), RidOf(link[c]) # i
       PROVE  /\ \A t \in Tasks : RidOf(link[t]) # i
              /\ q.boot # NoBoot => \A t \in q.todo \ {c} :
                   /\ q.boot.ext[scenario.key[t]] # i
                   /\ Live(i, q.boot.at) => q.boot.at[i].key # scenario.key[t]
  <2>1. CASE i = q.plan.target /\ Live(i, issue)
    BY <1>1, <1>2, <1>11, <2>1 DEF Knows, KnowsTarget
  <2>2. CASE i \notin Written /\ issue[i] = Unborn
    <3>1. \A k : ~Kin(k, i)
      BY <2>2 DEF Kin
    <3>2. i # None
      BY <1>1, NullsAssumption
    <3>3. \A t \in Tasks : RidOf(link[t]) # i
      BY <3>1, <3>2 DEF WriterInv, IssuesAreKin, RidOf
    <3>4. ASSUME q.boot # NoBoot, NEW t \in q.todo \ {c}
          PROVE  /\ q.boot.ext[scenario.key[t]] # i
                 /\ Live(i, q.boot.at) => q.boot.at[i].key # scenario.key[t]
      <4>1. scenario.key[t] \in Keys /\ scenario.key[t] # None
        BY <1>2
      <4>2. q.boot.ext[scenario.key[t]] # i
        BY <1>2, <3>1, <3>2, <3>4, <4>1 DEF KinInvocation
      <4>3. Live(i, q.boot.at) => q.boot.at[i].key = None
        BY <1>1, <1>2, <3>1, <3>4 DEF Briefed, BootIsKin
      <4> QED BY <4>1, <4>2, <4>3
    <3> QED BY <3>3, <3>4
  <2> QED BY <1>3, <2>1, <2>2
<1>12. SettlesOn(c, i)
  BY <1>2, <1>4, <1>6, <1>9, <1>10 DEF SettlesOn
<1> QED BY <1>1, <1>4, <1>5, <1>7, <1>8, <1>11, <1>12 DEF WroteFor, NewToBatch

\* An issue the row comes to hold is what it keeps, unless the record of it is lost.
LEMMA SettledHolds ==
  ASSUME TypeInv, WriterInv, IssueInv, NEW p \in Projections, proj[p].pc = "upsert",
         NEW c \in Tasks, c = proj[p].cur, NEW i \in Issues, SettlesOn(c, i),
         UNCHANGED <<scenario, link, raced, unread>>,
         \A r \in Projections \ {p} : proj'[r] = proj[r],
         \A t \in Tasks, j \in Issues : AimsAt(proj'[p], t, j) => t = c /\ j = i,
         AimsAt(proj'[p], c, i) \/ c \in lost'
  PROVE  Holds(c)
<1>0. PICK new : new = proj'[p]
  OBVIOUS
<1>1. /\ \A j \in Issues \ {i} : Keyed(scenario.key[c], j)' => Keyed(scenario.key[c], j)
      /\ Clear(c) =>
           /\ \A j \in Issues : RidOf(link[c]) = j /\ Live(j, issue') => j = i
           /\ Single(c) => \A j \in Issues : Keyed(scenario.key[c], j)' => j = i
  BY DEF SettlesOn
<1>2. /\ \A r \in Projections : proj'[r] = IF r = p THEN new ELSE proj[r]
      /\ link[c] # None /\ c \in proj[p].todo /\ \A j \in Issues : ~AimsAt(proj[p], c, j)
      /\ (Clear(c)' <=> Clear(c)) /\ UNCHANGED <<scenario, link>>
  BY <1>0, UpsertFacts DEF AimsAt, Clear
<1>3. Clear(c) => \A r \in Projections \ {p}, j \in Issues : ~AimsAt(proj[r], c, j)
  BY <1>2, InOneHand DEF WriterInv
<1>4. ASSUME Clear(c), NEW j \in Issues, Live(j, issue'), Keeps(c, j)' PROVE j = i
  <2>1. RidOf(link[c]) = j \/ \E r \in Projections : AimsAt(proj'[r], c, j)
    BY <1>2, <1>4 DEF Keeps, AimsAt
  <2>2. RidOf(link[c]) = j \/ AimsAt(new, c, j)
    BY <1>2, <1>3, <1>4, <2>1
  <2> QED BY <1>0, <1>1, <1>4, <2>2
<1>5. Clear(c)' => KeepsOne(c)'
  BY <1>2, <1>4 DEF KeepsOne, Live
<1>6. Clear(c)' /\ Single(c) => OnlyOne(c)'
  <2>1. SUFFICES ASSUME Clear(c), Single(c), NEW j \in Issues, Keyed(scenario.key[c], j)'
                 PROVE  /\ link[c] # None
                        /\ \A l \in Issues : Keyed(scenario.key[c], l)' \/ (Live(l, issue') /\ Keeps(c, l)') => j = l
    BY <1>2 DEF OnlyOne, Live
  <2>2. j = i
    BY <1>1, <2>1
  <2> QED BY <1>1, <1>2, <1>4, <2>1, <2>2
<1>7. ASSUME NEW j \in Issues, Clear(c)', c \notin lost', Keyed(scenario.key[c], j)',
             Keeps(c, j) \/ ~Keyed(scenario.key[c], j)
      PROVE  Keeps(c, j)'
  <2>1. CASE j = i
    <3>1. AimsAt(proj'[p], c, i)
      BY <1>7
    <3> QED BY <2>1, <3>1 DEF Keeps, AimsAt
  <2>2. CASE j # i
    <3>1. Keyed(scenario.key[c], j)
      BY <1>1, <1>7, <2>2
    <3>2. RidOf(link[c]) = j
      BY <1>2, <1>3, <1>7, <3>1 DEF Keeps
    <3> QED BY <1>2, <3>2 DEF Keeps
  <2> QED BY <2>1, <2>2
<1>8. \A t \in Tasks, j \in Issues : Stray(t, j) /\ Stray(t, j)' => RidOf(link'[c]) # j
  BY <1>2 DEF IssueInv, StraysApart
<1> QED BY <1>5, <1>6, <1>7, <1>8 DEF Holds

\* The write is answered: the listing of the batch has it.
LEMMA AnsweredIssues ==
  ASSUME TypeInv, TypeInv', WriterInv, WriterInv', IssueInv, NEW p \in Projections,
         proj[p].pc = "upsert", ~proj[p].plan.refuses, NEW i \in Targets(proj[p]),
         issue' = [issue EXCEPT ![i] = Projection(proj[p], i)], Answered(p, i, TRUE),
         UNCHANGED <<scenario, task, link, inb, raced, unread, lost>>
  PROVE  IssueInv'
<1>q. PICK q : q = proj[p]
  OBVIOUS
<1>c. PICK c \in Tasks : c = q.cur
  BY <1>q, UpsertFacts
<1>0. /\ q \in Invocations /\ c \in q.todo /\ q.todo \subseteq Tasks /\ q.plan \in Plans /\ InHand(q)
      /\ KinInvocation(q) /\ Briefed(q) /\ q.pc = "upsert" /\ ~q.plan.refuses
      /\ \A t \in Tasks, j \in Issues : Stray(t, j) => Unsought(q, t, j)
      /\ \A t \in Tasks : scenario.key[t] \in Keys /\ scenario.key[t] # None
  BY <1>q, <1>c, UpsertFacts, InvocationFacts, ScenarioType, NullsAssumption DEF TypeInv
<1>w. WroteFor(c, i) /\ NewToBatch(q, c, i)
  BY <1>q, <1>c, <1>0, WriteFacts
<1>1. /\ BoardStep(c) /\ i \in Issues /\ Keyed(scenario.key[c], i)' /\ Kin(scenario.key[c], i)'
      /\ \A j \in Issues \ {i} : issue'[j] = issue[j]
      /\ \A t \in Tasks \ {c} : Clear(t) => RidOf(link[t]) # i
      /\ Clear(c) =>
           /\ \A j \in Issues : RidOf(link[c]) = j /\ Live(j, issue') => j = i
           /\ Single(c) => \A j \in Issues : Keyed(scenario.key[c], j)' => j = i
           /\ Single(c) /\ RidOf(link[c]) # i =>
                /\ \A t \in Tasks : RidOf(link[t]) # i
                /\ q.boot # NoBoot => \A t \in q.todo \ {c} :
                     /\ q.boot.ext[scenario.key[t]] # i
                     /\ Live(i, q.boot.at) => q.boot.at[i].key # scenario.key[t]
  BY <1>w DEF WroteFor, SettlesOn, NewToBatch
<1>2. PICK new \in Invocations :
        InHand(new) /\ proj' = [proj EXCEPT ![p] = new] /\ HasAnswer(q, i, TRUE, new)
  BY <1>q, <1>0, <1>1, AnsweredTypes DEF TypeInv
<1>3. /\ new.pc \in {"seed", "persist"} /\ new.todo = q.todo /\ new.rows = q.rows /\ new.cur = c
      /\ new.plan.target = i
      /\ q.boot = NoBoot => new.boot = NoBoot
  BY <1>0, <1>c, <1>2 DEF HasAnswer, Plans
<1>4. PICK x : x = Projection(q, i) /\ x.key = scenario.key[c] /\ x \in IssueRows
  <2>1. Projection(q, i) \in IssueRows
    BY <1>0, <1>1, <1>c, ProjectionTypes DEF TypeInv, InHand
  <2> QED BY <1>c, <2>1 DEF Projection
<1>5. q.boot # NoBoot =>
        /\ new.boot.at[i] = x /\ \A j \in Issues \ {i} : new.boot.at[j] = q.boot.at[j]
        /\ \A t \in q.todo \ {c} : new.boot.ext[scenario.key[t]] = q.boot.ext[scenario.key[t]]
  <2>1. SUFFICES ASSUME q.boot # NoBoot
                 PROVE  /\ new.boot.at[i] = x /\ \A j \in Issues \ {i} : new.boot.at[j] = q.boot.at[j]
                        /\ \A t \in q.todo \ {c} : new.boot.ext[scenario.key[t]] = q.boot.ext[scenario.key[t]]
    OBVIOUS
  <2>2. q.boot \in Boots
    BY <1>0, <2>1 DEF Invocations, NoBoot
  <2>3. new.boot = [at |-> [q.boot.at EXCEPT ![i] = x], ext |-> [q.boot.ext EXCEPT ![scenario.key[c]] = i]]
    BY <1>c, <1>2, <1>4, <2>1 DEF HasAnswer
  <2>4. \A t \in q.todo \ {c} : scenario.key[t] # scenario.key[c]
    BY <1>0 DEF Briefed
  <2> QED BY <1>0, <1>1, <2>2, <2>3, <2>4 DEF Boots, Snapshots
<1>6. /\ UNCHANGED <<scenario, link, inb>> /\ NoBoot' = NoBoot /\ Live(i, issue')
      /\ \A t \in Tasks : (Clear(t)' <=> Clear(t)) /\ (Single(t)' <=> Single(t))
      /\ Pending(new) = q.todo \ {c} /\ Pending(q) = q.todo \ {c}
      /\ \A t \in q.todo \ {c} : scenario.key[t] # scenario.key[c]
      /\ q.boot # NoBoot => /\ Live(i, new.boot.at) /\ new.boot.at[i].key = scenario.key[c]
                            /\ \A j \in Issues \ {i} : Live(j, new.boot.at) <=> Live(j, q.boot.at)
      /\ \A j \in Issues \ {i} : Live(j, issue') <=> Live(j, issue)
      /\ new.boot # NoBoot => q.boot # NoBoot
  <2>1. \A t \in q.todo \ {c} : scenario.key[t] # scenario.key[c]
    BY <1>0 DEF Briefed
  <2>2. Pending(new) = q.todo \ {c} /\ Pending(q) = q.todo \ {c}
    BY <1>0, <1>c, <1>3 DEF Pending
  <2>3. q.boot # NoBoot => /\ Live(i, new.boot.at) /\ new.boot.at[i].key = scenario.key[c]
                           /\ \A j \in Issues \ {i} : Live(j, new.boot.at) <=> Live(j, q.boot.at)
    BY <1>4, <1>5, NullsAssumption DEF Live
  <2>4. Live(i, issue')
    BY <1>1 DEF Keyed, Live
  <2> QED BY <1>1, <1>3, <2>1, <2>2, <2>3, <2>4 DEF NoBoot, Clear, Single, Live
<1>7. ASSUME new.boot # NoBoot PROVE BootKnows(new)' /\ BootLeads(new)' /\ BootIsKin(new)'
  <2>0. q.boot # NoBoot /\ BootKnows(q) /\ BootLeads(q) /\ BootIsKin(q)
    BY <1>0, <1>6, <1>7 DEF Briefed
  <2>1. BootKnows(new)'
    <3>1. ASSUME NEW t \in q.todo, NEW j \in Issues, Clear(t), RidOf(link[t]) = j, Live(j, issue')
          PROVE  Live(j, new.boot.at)
      BY <1>6, <2>0, <3>1 DEF BootKnows
    <3>2. ASSUME NEW t \in q.todo \ {c}, Clear(t), Single(t), NEW j \in Issues, Keyed(scenario.key[t], j)'
          PROVE  new.boot.ext[scenario.key[t]] = j
      <4>1. j # i /\ Keyed(scenario.key[t], j)
        BY <1>1, <1>6, <3>2 DEF Keyed, Live
      <4> QED BY <1>5, <1>6, <2>0, <3>2, <4>1 DEF BootKnows
    <3>3. ASSUME NEW t \in q.todo \ {c}, Clear(t), Single(t), NEW j \in Issues,
                 new.boot.ext[scenario.key[t]] = j, NEW l \in Issues, RidOf(link[t]) = l, Live(l, new.boot.at)
          PROVE  j = l
      <4>1. l # i /\ Live(l, q.boot.at) /\ q.boot.ext[scenario.key[t]] = j
        BY <1>0, <1>1, <1>5, <1>6, <2>0, <3>3
      <4> QED BY <1>6, <2>0, <3>3, <4>1 DEF BootKnows
    <3> QED BY <1>0, <1>3, <1>6, <3>1, <3>2, <3>3 DEF BootKnows, Pending, Live
  <2>2. BootLeads(new)'
    <3>1. ASSUME NEW t \in q.todo, NEW j \in Issues, scenario.declared[t] = j, Live(j, new.boot.at),
                 new.boot.at[j].key = None
          PROVE  new.boot.at[j].body = Prose /\ new.rows[t].body # Prose
      BY <1>0, <1>3, <1>5, <1>6, <2>0, <3>1 DEF BootLeads
    <3>2. ASSUME NEW t \in q.todo \ {c}, NEW j \in Issues, new.boot.ext[scenario.key[t]] = j
          PROVE  /\ Live(j, new.boot.at)
                 /\ \A u \in q.todo \ {c} : /\ new.boot.ext[scenario.key[u]] = j => t = u
                                            /\ new.boot.at[j].key \in {None, scenario.key[u]} => t = u
      <4>1. /\ Live(j, q.boot.at)
            /\ \A u \in q.todo \ {c} : /\ q.boot.ext[scenario.key[u]] = j => t = u
                                       /\ q.boot.at[j].key \in {None, scenario.key[u]} => t = u
        BY <1>5, <1>6, <2>0, <3>2 DEF BootLeads
      <4>2. CASE j = i
        BY <1>0, <1>5, <1>6, <2>0, <4>1, <4>2
      <4>3. CASE j # i
        BY <1>5, <1>6, <2>0, <4>1, <4>3
      <4> QED BY <4>2, <4>3
    <3> QED BY <1>3, <1>6, <3>1, <3>2 DEF BootLeads, Pending, Live
  <2>3. BootIsKin(new)'
    <3>1. ASSUME NEW j \in Issues, Live(j, new.boot.at), new.boot.at[j].key # None
          PROVE  Kin(new.boot.at[j].key, j)'
      <4>1. CASE j = i
        <5>1. PICK k : k = scenario.key[c]
          OBVIOUS
        <5>2. Kin(k, j)' /\ new.boot.at[j].key = k
          BY <1>1, <1>6, <2>0, <4>1, <5>1
        <5> QED BY <5>2
      <4>2. CASE j # i
        <5>1. new.boot.at[j] = q.boot.at[j] /\ Kin(q.boot.at[j].key, j)
          BY <1>5, <1>6, <2>0, <3>1, <4>2 DEF BootIsKin
        <5>2. Kin(q.boot.at[j].key, j)'
          BY <1>1, <1>6, <5>1, KinStable DEF BoardStep
        <5> QED BY <5>1, <5>2
      <4> QED BY <4>1, <4>2
    <3> QED BY <3>1 DEF BootIsKin, Live
  <2> QED BY <2>1, <2>2, <2>3
<1>8. Orderly(new)'
  <2>1. Briefed(new)'
    BY <1>0, <1>3, <1>6, <1>7 DEF Briefed
  <2>2. Clear(c)' => Knows(new)'
    BY <1>1, <1>3, <1>6 DEF Knows, KnowsLink, KnowsHolding, KnowsOwners, KnowsTarget, Goes, Live
  <2> QED BY <1>3, <2>1, <2>2 DEF Orderly
<1>9. \A t \in Tasks, j \in Issues : AimsAt(new, t, j) <=> t = c /\ j = i
  BY <1>3 DEF AimsAt
<1>10. Holds(c)
  <2>1. c = proj[p].cur /\ AimsAt(new, c, i)
        /\ \A t \in Tasks, j \in Issues : AimsAt(new, t, j) => t = c /\ j = i
    BY <1>q, <1>c, <1>1, <1>9
  <2>2. SettlesOn(c, i)
    BY <1>w DEF WroteFor
  <2>3. proj'[p] = new /\ (\A r \in Projections \ {p} : proj'[r] = proj[r]) /\ proj[p].pc = "upsert"
    BY <1>q, <1>0, <1>2 DEF TypeInv, Typed
  <2>4. \A t \in Tasks, j \in Issues : AimsAt(proj'[p], t, j) => t = c /\ j = i
    BY <2>1, <2>3
  <2>5. AimsAt(proj'[p], c, i) /\ i \in Issues
    BY <1>1, <2>1, <2>3
  <2> QED BY <2>1, <2>2, <2>3, <2>4, <2>5, SettledHolds
<1>11. ASSUME NEW t \in Tasks, NEW j \in Issues, Stray(t, j), Stray(t, j)' PROVE Unsought(new, t, j)'
  <2>1. Unsought(q, t, j)
    BY <1>0, <1>11
  <2>2. t # c => j # i
    BY <1>1, <1>6, <1>11 DEF Stray, Single, Keyed
  <2>3. q.boot # NoBoot => \A u \in q.todo \ {c, t} :
          /\ new.boot.ext[scenario.key[u]] # j
          /\ Live(j, new.boot.at) => new.boot.at[j].key # scenario.key[u]
    <3>1. q.boot # NoBoot => \A u \in q.todo \ {c, t} :
            /\ q.boot.ext[scenario.key[u]] # j
            /\ Live(j, q.boot.at) => q.boot.at[j].key # scenario.key[u]
      BY <1>6, <2>1 DEF Unsought
    <3> QED BY <1>5, <1>6, <3>1
  <2>4. \A u \in Pending(new)' \ {t} : u \in q.todo \ {c, t}
    BY <1>6 DEF Pending
  <2> QED BY <1>3, <1>6, <2>2, <2>3, <2>4 DEF Unsought, Live
<1>12. ASSUME NEW j \in Issues, Stray(c, j)', ~Stray(c, j)
       PROVE  Unsought(new, c, j)' /\ \A u \in Tasks : RidOf(link'[u]) # j
  <2>1. Clear(c) /\ Single(c) /\ Keyed(scenario.key[c], j)' /\ RidOf(link[c]) # j
    BY <1>6, <1>12 DEF Stray
  <2>2. j = i
    BY <1>1, <2>1
  <2>3. \A u \in Tasks : RidOf(link'[u]) # j
    BY <1>1, <1>6, <2>1, <2>2
  <2>4. q.boot # NoBoot => \A u \in q.todo \ {c} :
          /\ new.boot.ext[scenario.key[u]] # j
          /\ Live(j, new.boot.at) => new.boot.at[j].key # scenario.key[u]
    BY <1>1, <1>5, <1>6, <2>1, <2>2
  <2>5. \A u \in Pending(new)' \ {c} : u \in q.todo \ {c}
    BY <1>6 DEF Pending
  <2> QED BY <1>3, <1>6, <2>3, <2>4, <2>5 DEF Unsought, Live
<1>13. \A t \in Tasks \ {c}, j \in Issues : ~AimsAt(new, t, j) /\ ~AimsAt(proj[p], t, j)
  BY <1>q, <1>0, <1>9 DEF AimsAt
<1> QED BY <1>q, <1>0, <1>1, <1>2, <1>8, <1>10, <1>11, <1>12, <1>13, ProjectorIssues

\* The write is done and its answer is lost: the batch goes on without knowing of it.
LEMMA UnansweredIssues ==
  ASSUME TypeInv, TypeInv', WriterInv, WriterInv', IssueInv, NEW p \in Projections,
         proj[p].pc = "upsert", ~proj[p].plan.refuses, NEW i \in Targets(proj[p]),
         issue' = [issue EXCEPT ![i] = Projection(proj[p], i)], Finish(p),
         UNCHANGED <<scenario, task, link, inb, raced, unread>>, lost' = lost \cup {proj[p].cur}
  PROVE  IssueInv'
<1>q. PICK q : q = proj[p]
  OBVIOUS
<1>c. PICK c \in Tasks : c = q.cur
  BY <1>q, UpsertFacts
<1>0. /\ q \in Invocations /\ c \in q.todo /\ q.todo \subseteq Tasks /\ Briefed(q) /\ q.pc = "upsert"
      /\ ~q.plan.refuses
      /\ \A t \in Tasks, j \in Issues : Stray(t, j) => Unsought(q, t, j)
  BY <1>q, <1>c, UpsertFacts, InvocationFacts
<1>w. WroteFor(c, i) /\ NewToBatch(q, c, i)
  BY <1>q, <1>c, <1>0, WriteFacts
<1>1. /\ BoardStep(c) /\ i \in Issues /\ Keyed(scenario.key[c], i)' /\ Kin(scenario.key[c], i)'
      /\ \A j \in Issues \ {i} : issue'[j] = issue[j]
      /\ \A t \in Tasks \ {c} : Clear(t) => RidOf(link[t]) # i
      /\ Clear(c) =>
           /\ Single(c) => \A j \in Issues : Keyed(scenario.key[c], j)' => j = i
           /\ Single(c) /\ RidOf(link[c]) # i =>
                /\ \A t \in Tasks : RidOf(link[t]) # i
                /\ q.boot # NoBoot => \A t \in q.todo \ {c} :
                     /\ q.boot.ext[scenario.key[t]] # i
                     /\ Live(i, q.boot.at) => q.boot.at[i].key # scenario.key[t]
  BY <1>w DEF WroteFor, SettlesOn, NewToBatch
<1>2. PICK new \in Invocations :
        /\ InHand(new) /\ proj' = [proj EXCEPT ![p] = new]
        /\ new.pc \in {"idle", "link"} /\ new.todo = q.todo \ {c}
        /\ new.boot \in {NoBoot, q.boot}
        /\ \A t \in new.todo : new.rows[t] = q.rows[t]
  BY <1>q, <1>c, FinishFacts
<1>3. /\ UNCHANGED <<scenario, link, inb>> /\ NoBoot' = NoBoot
      /\ \A t \in Tasks : (Clear(t)' <=> Clear(t)) /\ (Single(t)' <=> Single(t))
      /\ Pending(new) = q.todo \ {c} /\ Pending(q) = q.todo \ {c}
      /\ \A t \in q.todo \ {c} : scenario.key[t] # scenario.key[c]
      /\ \A j \in Issues \ {i} : Live(j, issue') <=> Live(j, issue)
      /\ issue'[i].key = scenario.key[c]
  <2>1. \A t \in q.todo \ {c} : scenario.key[t] # scenario.key[c]
    BY <1>0 DEF Briefed
  <2>2. Pending(new) = q.todo \ {c} /\ Pending(q) = q.todo \ {c}
    BY <1>0, <1>c, <1>2 DEF Pending
  <2> QED BY <1>1, <2>1, <2>2 DEF NoBoot, Clear, Single, Live, Keyed
<1>4. ASSUME new.boot # NoBoot PROVE BootKnows(new)' /\ BootLeads(new)' /\ BootIsKin(new)'
  <2>0. q.boot # NoBoot /\ new.boot = q.boot /\ BootKnows(q) /\ BootLeads(q) /\ BootIsKin(q)
    BY <1>0, <1>2, <1>4 DEF Briefed
  <2>1. BootKnows(new)'
    <3>1. ASSUME NEW t \in q.todo \ {c}, NEW j \in Issues, Clear(t), RidOf(link[t]) = j, Live(j, issue')
          PROVE  Live(j, q.boot.at)
      BY <1>0, <1>1, <1>3, <2>0, <3>1 DEF BootKnows
    <3>2. ASSUME NEW t \in q.todo \ {c}, Clear(t), Single(t), NEW j \in Issues, Keyed(scenario.key[t], j)'
          PROVE  q.boot.ext[scenario.key[t]] = j
      <4>1. j # i /\ Keyed(scenario.key[t], j)
        BY <1>1, <1>3, <3>2 DEF Keyed, Live
      <4> QED BY <1>3, <2>0, <3>2, <4>1 DEF BootKnows
    <3>3. ASSUME NEW t \in q.todo \ {c}, Clear(t), Single(t), NEW j \in Issues,
                 q.boot.ext[scenario.key[t]] = j, NEW l \in Issues, RidOf(link[t]) = l, Live(l, q.boot.at)
          PROVE  j = l
      BY <1>3, <2>0, <3>3 DEF BootKnows
    <3> QED BY <1>0, <1>2, <1>3, <2>0, <3>1, <3>2, <3>3 DEF BootKnows, Pending, Live
  <2>2. BootLeads(new)'
    BY <1>2, <1>3, <2>0 DEF BootLeads, Pending, Live
  <2>3. BootIsKin(new)'
    <3>1. ASSUME NEW j \in Issues, Live(j, q.boot.at), q.boot.at[j].key # None
          PROVE  Kin(q.boot.at[j].key, j)'
      BY <1>1, <1>3, <2>0, <3>1, KinStable DEF BootIsKin, BoardStep
    <3> QED BY <2>0, <3>1 DEF BootIsKin, Live
  <2> QED BY <2>1, <2>2, <2>3
<1>5. Orderly(new)'
  <2>1. Briefed(new)'
    BY <1>0, <1>2, <1>3, <1>4 DEF Briefed
  <2>2. Knows(new)'
    BY <1>2 DEF Knows, KnowsLink, KnowsHolding, KnowsOwners, KnowsTarget, Goes
  <2> QED BY <2>1, <2>2 DEF Orderly
<1>6. \A t \in Tasks, j \in Issues : ~AimsAt(new, t, j) /\ ~AimsAt(proj[p], t, j)
  BY <1>q, <1>0, <1>2 DEF AimsAt
<1>7. Holds(c)
  <2>1. c = proj[p].cur /\ c \in lost'
    BY <1>q, <1>c
  <2>2. SettlesOn(c, i)
    BY <1>w DEF WroteFor
  <2>3. proj'[p] = new /\ (\A r \in Projections \ {p} : proj'[r] = proj[r]) /\ i \in Issues
    BY <1>1, <1>2 DEF TypeInv, Typed
  <2>4. \A t \in Tasks, j \in Issues : ~AimsAt(proj'[p], t, j)
    BY <1>6, <2>3
  <2> QED BY <2>1, <2>2, <2>3, <2>4, SettledHolds
<1>8. \A u \in Pending(new)' : u \in q.todo \ {c}
  BY <1>3 DEF Pending
<1>9. ASSUME NEW t \in Tasks, NEW j \in Issues, Stray(t, j), Stray(t, j)' PROVE Unsought(new, t, j)'
  <2>1. Unsought(q, t, j)
    BY <1>0, <1>9
  <2> QED BY <1>2, <1>3, <1>8, <2>1 DEF Unsought, Live
<1>10. ASSUME NEW j \in Issues, Stray(c, j)', ~Stray(c, j)
       PROVE  Unsought(new, c, j)' /\ \A u \in Tasks : RidOf(link'[u]) # j
  <2>1. Clear(c) /\ Single(c) /\ Keyed(scenario.key[c], j)' /\ RidOf(link[c]) # j
    BY <1>3, <1>10 DEF Stray
  <2>2. j = i
    BY <1>1, <2>1
  <2>3. \A u \in Tasks : RidOf(link'[u]) # j
    BY <1>1, <1>3, <2>1, <2>2
  <2> QED BY <1>1, <1>2, <1>3, <1>8, <2>1, <2>2, <2>3 DEF Unsought, Live
<1> QED BY <1>q, <1>0, <1>1, <1>2, <1>5, <1>6, <1>7, <1>9, <1>10, ProjectorIssues

\* The issue is as the row wants it.
LEMMA SameIssues ==
  ASSUME TypeInv, TypeInv', WriterInv, WriterInv', IssueInv, NEW p \in Projections,
         proj[p].pc = "upsert", proj[p].plan.same, Answered(p, proj[p].plan.target, FALSE),
         issue' = [issue EXCEPT ![proj[p].plan.target] =
                     IF Live(proj[p].plan.target, issue) THEN [@ EXCEPT !.taker = proj[p].cur] ELSE @],
         UNCHANGED <<scenario, task, link, inb, raced, unread, lost>>
  PROVE  IssueInv'
<1>q. PICK q : q = proj[p]
  OBVIOUS
<1>c. PICK c \in Tasks, i \in Issues : c = q.cur /\ i = q.plan.target
  BY <1>q, UpsertFacts
<1>0. /\ q \in Invocations /\ c \in q.todo /\ q.todo \subseteq Tasks /\ q.plan \in Plans /\ InHand(q)
      /\ Briefed(q) /\ (Clear(c) => Knows(q)) /\ Goes(q) /\ q.plan.same /\ link[c] # None /\ q.pc = "upsert"
      /\ \A t \in Tasks, j \in Issues : Stray(t, j) => Unsought(q, t, j)
      /\ \A t \in Tasks : scenario.key[t] \in Keys
  BY <1>q, <1>c, UpsertFacts, InvocationFacts, ScenarioType DEF Goes, TypeInv
<1>2. PICK new \in Invocations :
        InHand(new) /\ proj' = [proj EXCEPT ![p] = new] /\ HasAnswer(q, i, FALSE, new)
  BY <1>q, <1>c, <1>0, AnsweredTypes DEF TypeInv, Goes
<1>3. /\ new.pc \in {"seed", "persist"} /\ new.todo = q.todo /\ new.rows = q.rows /\ new.cur = c
      /\ new.plan.target = i /\ new.boot = q.boot
  BY <1>0, <1>c, <1>2 DEF HasAnswer, Plans
<1>4. /\ \A j \in Issues : /\ issue'[j] = Unborn <=> issue[j] = Unborn
                           /\ Live(j, issue') <=> Live(j, issue)
                           /\ Live(j, issue) => issue'[j].key = issue[j].key /\ issue'[j].body = issue[j].body
  <2>1. ASSUME NEW j \in Issues
        PROVE  /\ issue'[j] = Unborn <=> issue[j] = Unborn
               /\ Live(j, issue') <=> Live(j, issue)
               /\ Live(j, issue) => issue'[j].key = issue[j].key /\ issue'[j].body = issue[j].body
    <3>1. CASE j = i /\ Live(i, issue)
      <4>1. issue[i] \in IssueRows
        BY <3>1, LiveIsRow DEF TypeInv, Typed
      <4>2. issue'[i] = [issue[i] EXCEPT !.taker = c]
        BY <1>q, <1>c, <3>1 DEF TypeInv, Typed, Snapshots
      <4>3. issue'[i] \in IssueRows /\ issue'[i].key = issue[i].key /\ issue'[i].body = issue[i].body
        BY <4>1, <4>2 DEF IssueRows
      <4> QED BY <3>1, <4>1, <4>3, NullsAssumption DEF Live
    <3>2. CASE ~(j = i /\ Live(i, issue))
      <4>1. issue'[j] = issue[j]
        BY <1>q, <1>c, <3>2 DEF TypeInv, Typed, Snapshots
      <4> QED BY <4>1 DEF Live
    <3> QED BY <3>1, <3>2
  <2> QED BY <2>1
<1>5. \A j \in Issues, k \in Keys : Keyed(k, j)' <=> Keyed(k, j)
  BY <1>4 DEF Keyed, Live
<1>6. BoardStep(c)
  <2>1. IssuesEvolve
    BY <1>4 DEF IssuesEvolve, Keyless
  <2> QED BY <1>5, <2>1 DEF BoardStep, Noted
<1>7. /\ UNCHANGED <<scenario, link, inb>> /\ NoBoot' = NoBoot /\ Pending(new) = Pending(q)
      /\ \A t \in Tasks : (Clear(t)' <=> Clear(t)) /\ (Single(t)' <=> Single(t))
  <2>1. Pending(new) = Pending(q)
    BY <1>0, <1>c, <1>3 DEF Pending
  <2> QED BY <2>1 DEF NoBoot, Clear, Single
<1>8. Orderly(new)'
  <2>1. ASSUME q.boot # NoBoot PROVE BootKnows(new)' /\ BootLeads(new)' /\ BootIsKin(new)'
    <3>1. BootKnows(q) /\ BootLeads(q) /\ BootIsKin(q)
      BY <1>0, <2>1 DEF Briefed
    <3>2. BootKnows(new)'
      <4>1. Pending(new)' = Pending(q) /\ Pending(q) \subseteq Tasks
        BY <1>0, <1>7 DEF Pending
      <4>2. ASSUME NEW t \in new.todo, NEW j \in Issues,
                   Clear(t)', RidOf(link[t]) = j, Live(j, issue')
            PROVE  Live(j, new.boot.at)
        <5>1. Clear(t) /\ t \in q.todo /\ Live(j, issue)
          BY <1>0, <1>3, <1>4, <1>7, <4>2
        <5> QED BY <1>3, <3>1, <4>2, <5>1 DEF BootKnows
      <4>3. ASSUME NEW t \in Pending(q), NEW j \in Issues, Clear(t)', Single(t)'
            PROVE  /\ Keyed(scenario.key[t], j)' => new.boot.ext[scenario.key[t]] = j
                   /\ new.boot.ext[scenario.key[t]] = j =>
                        \A l \in Issues : RidOf(link[t]) = l /\ Live(l, new.boot.at) => j = l
        <5>1. Clear(t) /\ Single(t) /\ scenario.key[t] \in Keys
          BY <1>0, <1>7, <4>1, <4>3
        <5>2. PICK k \in Keys : k = scenario.key[t] /\ k = scenario'.key[t]
          BY <1>7, <5>1
        <5>3. Keyed(scenario.key[t], j)' => Keyed(scenario.key[t], j)
          BY <1>5, <5>2
        <5> QED BY <1>3, <3>1, <5>1, <5>3 DEF BootKnows
      <4> QED BY <1>7, <4>1, <4>2, <4>3 DEF BootKnows, Live
    <3>3. BootLeads(new)'
      BY <1>3, <1>7, <3>1 DEF BootLeads, Pending, Live
    <3>4. BootIsKin(new)'
      <4>1. ASSUME NEW j \in Issues, Live(j, q.boot.at), q.boot.at[j].key # None
            PROVE  Kin(q.boot.at[j].key, j)'
        BY <1>6, <1>7, <3>1, <4>1, KinStable DEF BootIsKin, BoardStep
      <4> QED BY <1>3, <4>1 DEF BootIsKin, Live
    <3> QED BY <3>2, <3>3, <3>4
  <2>2. Briefed(new)'
    BY <1>0, <1>3, <1>7, <2>1 DEF Briefed
  <2>3. Clear(c)' => Knows(new)'
    <3>1. Clear(c) => \A j \in Issues : RidOf(link[c]) = j /\ Live(j, issue) => i = j
      BY <1>0, <1>c DEF Knows, KnowsHolding
    <3>2. Clear(c)' => KnowsHolding(new)'
      BY <1>3, <1>4, <1>7, <3>1 DEF KnowsHolding, Goes, Live
    <3>3. KnowsLink(new)' /\ KnowsOwners(new)' /\ KnowsTarget(new)'
      BY <1>3 DEF KnowsLink, KnowsOwners, KnowsTarget, Goes
    <3> QED BY <3>2, <3>3 DEF Knows
  <2> QED BY <1>3, <2>2, <2>3 DEF Orderly
<1>9. \A t \in Tasks, j \in Issues : AimsAt(new, t, j) <=> t = c /\ j = i
  BY <1>3 DEF AimsAt
<1>10. SettlesOn(c, i)
  <2>1. ASSUME Clear(c), NEW j \in Issues, RidOf(link[c]) = j, Live(j, issue') PROVE j = i
    BY <1>0, <1>c, <1>4, <2>1 DEF Knows, KnowsHolding
  <2>2. ASSUME Clear(c), Single(c), NEW j \in Issues, Keyed(scenario.key[c], j) PROVE j = i
    BY <1>0, <1>c, <2>2 DEF Knows, KnowsTarget
  <2> QED BY <1>0, <1>5, <1>7, <2>1, <2>2 DEF SettlesOn
<1>11. Holds(c)
  <2>1. c = proj[p].cur /\ AimsAt(new, c, i)
        /\ \A t \in Tasks, j \in Issues : AimsAt(new, t, j) => t = c /\ j = i
    BY <1>q, <1>c, <1>9
  <2>2. SettlesOn(c, i) /\ i \in Issues
    BY <1>10
  <2>3. proj'[p] = new /\ (\A r \in Projections \ {p} : proj'[r] = proj[r])
    BY <1>2 DEF TypeInv, Typed
  <2>4. \A t \in Tasks, j \in Issues : AimsAt(proj'[p], t, j) => t = c /\ j = i
    BY <2>1, <2>3
  <2>5. AimsAt(proj'[p], c, i)
    BY <2>1, <2>3
  <2> QED BY <2>1, <2>2, <2>3, <2>4, <2>5, SettledHolds
<1>12. ASSUME NEW t \in Tasks, NEW j \in Issues, Stray(t, j), Stray(t, j)' PROVE Unsought(new, t, j)'
  <2>1. Unsought(q, t, j)
    BY <1>0, <1>12
  <2>2. Pending(new)' = Pending(q)
    BY <1>7 DEF Pending
  <2> QED BY <1>0, <1>c, <1>3, <1>7, <2>1, <2>2 DEF Unsought, Live
<1>13. \A t \in Tasks \ {c}, j \in Issues : ~AimsAt(new, t, j) /\ ~AimsAt(proj[p], t, j)
  BY <1>q, <1>0, <1>9 DEF AimsAt
<1>14. \A j \in Issues : Stray(c, j)' => Stray(c, j)
  BY <1>0, <1>5, <1>7 DEF Stray
<1> QED BY <1>q, <1>0, <1>2, <1>6, <1>8, <1>11, <1>12, <1>13, <1>14, ProjectorIssues

\* The row is done without a write.
LEMMA FinishQuietIssues ==
  ASSUME TypeInv, TypeInv', WriterInv, WriterInv', IssueInv, BoardStays, NEW p \in Projections,
         proj[p].pc = "upsert", Finish(p)
  PROVE  IssueInv'
<1>q. PICK q : q = proj[p]
  OBVIOUS
<1>0. /\ Briefed(q) /\ q.pc = "upsert"
      /\ \A t \in Tasks, j \in Issues : Stray(t, j) => Unsought(q, t, j)
  BY <1>q, InvocationFacts
<1>1. PICK new \in Invocations :
        /\ InHand(new) /\ proj' = [proj EXCEPT ![p] = new]
        /\ new.pc \in {"idle", "link"} /\ new.todo = q.todo \ {q.cur}
        /\ new.boot \in {NoBoot, q.boot}
        /\ \A t \in new.todo : new.rows[t] = q.rows[t]
  BY <1>q, FinishFacts
<1>2. Pending(new) = Pending(q)
  BY <1>0, <1>1 DEF Pending
<1>3. Briefed(new)
  BY <1>0, <1>1, <1>2 DEF Briefed, BootKnows, BootLeads, BootIsKin
<1>4. Knows(new)
  BY <1>1 DEF Knows, KnowsLink, KnowsHolding, KnowsOwners, KnowsTarget, Goes
<1>5. \A t \in Tasks, j \in Issues : Stray(t, j) => Unsought(new, t, j)
  BY <1>0, <1>1, <1>2 DEF Unsought
<1>6. \A t \in Tasks, j \in Issues : ~AimsAt(new, t, j) /\ ~AimsAt(proj[p], t, j)
  BY <1>q, <1>0, <1>1 DEF AimsAt
<1> QED BY <1>1, <1>3, <1>4, <1>5, <1>6, QuietIssues

LEMMA UpsertIssues ==
  ASSUME TypeInv, TypeInv', WriterInv, WriterInv', IssueInv, NEW p \in Projections, Upsert(p)
  PROVE  IssueInv'
<1> DEFINE q == proj[p]
<1>1. q.pc = "upsert" /\ UNCHANGED <<scenario, task, link, inb, raced, unread>>
  BY DEF Upsert
<1>2. ASSUME ~q.plan.refuses, NEW i \in Targets(q), issue' = [issue EXCEPT ![i] = Projection(q, i)],
             \/ Answered(p, i, TRUE) /\ UNCHANGED lost
             \/ Finish(p) /\ lost' = lost \cup {q.cur}
      PROVE  IssueInv'
  BY <1>1, <1>2, AnsweredIssues, UnansweredIssues
<1>3. ASSUME q.plan.same, Answered(p, q.plan.target, FALSE), UNCHANGED lost,
             issue' = [issue EXCEPT ![q.plan.target] = IF Live(q.plan.target, issue)
                                                       THEN [@ EXCEPT !.taker = q.cur] ELSE @]
      PROVE  IssueInv'
  BY <1>1, <1>3, SameIssues
<1>4. ASSUME Finish(p), UNCHANGED <<issue, lost>> PROVE IssueInv'
  <2>1. BoardStays
    BY <1>1, <1>4 DEF BoardStays, Noted
  <2> QED BY <1>1, <1>4, <2>1, FinishQuietIssues
<1> QED BY <1>2, <1>3, <1>4 DEF Upsert

\* The seed is stored, or its write is lost.
LEMMA SeedIssues ==
  ASSUME TypeInv, TypeInv', WriterInv, WriterInv', IssueInv, NEW p \in Projections, Seed(p)
  PROVE  IssueInv'
<1>q. PICK q : q = proj[p]
  OBVIOUS
<1>0. /\ q \in Invocations /\ InHand(q) /\ Briefed(q) /\ (Clear(q.cur) => Knows(q)) /\ q.pc = "seed"
      /\ q.cur \in q.todo /\ q.plan.target \in Issues
      /\ \A t \in Tasks, j \in Issues : Stray(t, j) => Unsought(q, t, j)
  <2>1. q.pc = "seed"
    BY <1>q DEF Seed
  <2> QED BY <1>q, <2>1, InvocationFacts DEF InHand
<1>1. BoardStays
  BY DEF Seed, BoardStays, Noted
<1>2. PICK new : new = [q EXCEPT !.pc = "persist"]
  OBVIOUS
<1>3. proj' = [proj EXCEPT ![p] = new]
  BY <1>q, <1>2 DEF Seed, Proceed
<1>4. /\ new \in Invocations /\ new.pc = "persist" /\ new.todo = q.todo /\ new.rows = q.rows
      /\ new.boot = q.boot /\ new.cur = q.cur /\ new.plan = q.plan
  BY <1>0, <1>2 DEF Invocations, ProjectorPcs
<1>5. InHand(new)
  BY <1>0, <1>4 DEF InHand, AtWork
<1>6. \A t \in Tasks, i \in Issues : AimsAt(new, t, i) <=> AimsAt(proj[p], t, i)
  BY <1>q, <1>0, <1>4 DEF AimsAt
<1>7. Pending(new) = Pending(q)
  BY <1>0, <1>4 DEF Pending
<1>8. Briefed(new)
  BY <1>0, <1>4, <1>7 DEF Briefed, BootKnows, BootLeads, BootIsKin
<1>9. Clear(new.cur)' => Knows(new)
  <2>1. Clear(new.cur)' => Clear(q.cur)
    BY <1>4 DEF Seed, Clear
  <2>2. KnowsHolding(q) => KnowsHolding(new)
    BY <1>0, <1>4 DEF KnowsHolding
  <2>3. KnowsLink(new) /\ KnowsOwners(new) /\ KnowsTarget(new)
    BY <1>4 DEF KnowsLink, KnowsOwners, KnowsTarget, Goes
  <2> QED BY <1>0, <2>1, <2>2, <2>3 DEF Knows
<1>10. \A t \in Tasks, i \in Issues : Stray(t, i) => Unsought(new, t, i)
  BY <1>0, <1>4, <1>7 DEF Unsought
<1> QED BY <1>1, <1>3, <1>4, <1>5, <1>6, <1>8, <1>9, <1>10, QuietIssues

\* What is left of a batch whose row is done.
LEMMA LeftOrderly ==
  ASSUME TypeInv, TypeInv', WriterInv, IssueInv, NEW p \in Projections, NEW q, q = proj[p],
         q.pc = "persist", NEW c \in q.todo, c = q.cur, NEW new \in Invocations, new.pc \in {"idle", "link"},
         new.todo = q.todo \ {c}, new.boot \in {NoBoot, q.boot},
         \A t \in new.todo : new.rows[t] = q.rows[t],
         UNCHANGED <<scenario, issue, raced, unread>>, \A t \in Tasks \ {c} : RidOf(link'[t]) = RidOf(link[t])
  PROVE  Orderly(new)'
<1>0. Briefed(q) /\ q.todo \subseteq Tasks /\ Pending(q) = q.todo \ {c} /\ Pending(new)' = q.todo \ {c}
      /\ NoBoot' = NoBoot /\ \A t \in Tasks : (Clear(t)' <=> Clear(t)) /\ (Single(t)' <=> Single(t))
  BY InvocationFacts DEF Pending, NoBoot, Clear, Single
<1>1. ASSUME new.boot # NoBoot PROVE BootKnows(new)' /\ BootLeads(new)' /\ BootIsKin(new)'
  <2>1. BootKnows(q) /\ BootLeads(q) /\ BootIsKin(q) /\ new.boot = q.boot
    BY <1>0, <1>1 DEF Briefed
  <2>2. BootKnows(new)'
    BY <1>0, <2>1 DEF BootKnows, Keyed, Live
  <2>3. BootLeads(new)'
    <3>1. ASSUME NEW t \in new.todo, NEW j \in Issues, scenario.declared[t] = j,
                 Live(j, q.boot.at), q.boot.at[j].key = None
          PROVE  q.boot.at[j].body = Prose /\ new.rows[t].body # Prose
      BY <2>1, <3>1 DEF BootLeads
    <3>2. ASSUME NEW t \in q.todo \ {c}, NEW j \in Issues, q.boot.ext[scenario.key[t]] = j
          PROVE  /\ Live(j, q.boot.at)
                 /\ \A u \in q.todo \ {c} : /\ q.boot.ext[scenario.key[u]] = j => t = u
                                            /\ q.boot.at[j].key \in {None, scenario.key[u]} => t = u
      BY <1>0, <2>1, <3>2 DEF BootLeads
    <3>3. \A t \in new.todo, j \in Issues :
             scenario'.declared[t] = j /\ Live(j, new.boot.at) /\ new.boot.at[j].key = None
               => new.boot.at[j].body = Prose /\ new.rows[t].body # Prose
      BY <2>1, <3>1
    <3>4. \A t \in Pending(new)', j \in Issues : new.boot.ext[scenario'.key[t]] = j =>
             /\ Live(j, new.boot.at)
             /\ \A u \in Pending(new)' : /\ new.boot.ext[scenario'.key[u]] = j => t = u
                                         /\ new.boot.at[j].key \in {None, scenario'.key[u]} => t = u
      BY <1>0, <2>1, <3>2
    <3> QED BY <3>3, <3>4, Zenon DEF BootLeads, Live
  <2>4. BootIsKin(new)'
    BY <2>1 DEF BootIsKin, Kin, KeyClaims, Claims, Live
  <2> QED BY <2>2, <2>3, <2>4
<1>2. Briefed(new)'
  BY <1>0, <1>1 DEF Briefed
<1>3. Knows(new)'
  BY DEF Knows, KnowsLink, KnowsHolding, KnowsOwners, KnowsTarget, Goes
<1> QED BY <1>2, <1>3 DEF Orderly

\* The issue is recorded, or its record is lost.
LEMMA PersistIssues ==
  ASSUME TypeInv, TypeInv', WriterInv, WriterInv', IssueInv, NEW p \in Projections, Persist(p)
  PROVE  IssueInv'
<1>q. PICK q : q = proj[p]
  OBVIOUS
<1>0. /\ q \in Invocations /\ q.pc = "persist" /\ InHand(q) /\ KinInvocation(q) /\ Briefed(q)
      /\ (Clear(q.cur) => Knows(q)) /\ q.todo \subseteq Tasks /\ q.cur \in q.todo /\ link[q.cur] # None
      /\ q.plan \in Plans /\ q.plan.target \in Issues /\ link \in [Tasks -> Links \cup {None}]
      /\ \A t \in Tasks, j \in Issues : Stray(t, j) => Unsought(q, t, j)
      /\ \A t \in Tasks : scenario.key[t] \in Keys
  <2>1. q.pc = "persist"
    BY <1>q DEF Persist
  <2> QED BY <1>q, <2>1, InvocationFacts, ScenarioType DEF InHand, Stands, TypeInv, Typed
<1>c. PICK c \in q.todo, i \in Issues : c = q.cur /\ i = q.plan.target
  BY <1>0
<1>1. /\ UNCHANGED <<scenario, task, issue, inb, raced, unread>> /\ Finish(p) /\ c \in Tasks
      /\ lost \subseteq lost' /\ \A t \in Tasks : (Clear(t)' <=> Clear(t)) /\ (Single(t)' <=> Single(t))
  BY <1>0 DEF Persist, Clear, Single
<1>2. PICK new \in Invocations :
        /\ InHand(new) /\ proj' = [proj EXCEPT ![p] = new]
        /\ new.pc \in {"idle", "link"} /\ new.todo = q.todo \ {c}
        /\ new.boot \in {NoBoot, q.boot}
        /\ \A t \in new.todo : new.rows[t] = q.rows[t]
  BY <1>q, <1>c, <1>1, FinishFacts
<1>3. \/ RidOf(link'[c]) = i /\ link'[c] # None
      \/ RidOf(link'[c]) = RidOf(link[c]) /\ link'[c] = link[c] /\ c \in lost'
  <2>1. CASE link' = [link EXCEPT ![c] = Recorded(q)]
    <3>1. Recorded(q) \in Links /\ Recorded(q).rid = i
      BY <1>0, <1>c, <1>1, RecordedTypes
    <3> QED BY <1>0, <1>1, <2>1, <3>1, NullsAssumption DEF RidOf
  <2>2. CASE UNCHANGED link /\ lost' = lost \cup {c}
    BY <1>1, <2>2
  <2> QED BY <1>q, <1>c, <2>1, <2>2 DEF Persist
<1>4. \A t \in Tasks \ {c} : link'[t] = link[t] /\ RidOf(link'[t]) = RidOf(link[t])
  <2>1. UNCHANGED link \/ link' = [link EXCEPT ![c] = Recorded(q)]
    BY <1>q, <1>c DEF Persist
  <2> QED BY <1>0, <2>1 DEF RidOf
<1>5. \A j \in Issues, k \in Keys : (Keyed(k, j)' <=> Keyed(k, j)) /\ (Live(j, issue') <=> Live(j, issue))
  BY <1>1 DEF Keyed, Live
<1>6. \A t \in Tasks, j \in Issues : (AimsAt(q, t, j) <=> t = c /\ j = i) /\ ~AimsAt(new, t, j)
  BY <1>0, <1>c, <1>2 DEF AimsAt
<1>7. BoardStep(c)
  <2>1. Kin(scenario.key[c], i)
    BY <1>0, <1>c, NullsAssumption DEF KinInvocation
  <2>2. Kin(scenario.key[c], i)'
    BY <1>1, <2>1 DEF Kin, KeyClaims, Claims, Live
  <2>3. \A j \in Issues : RidOf(link'[c]) = j /\ RidOf(link[c]) # j => Kin(scenario.key[c], j)'
    BY <1>3, <2>2
  <2>4. \A t \in Tasks : link[t] # None => link'[t] # None
    BY <1>3, <1>4
  <2> QED BY <1>1, <1>4, <1>5, <2>3, <2>4, SameIssuesEvolve DEF BoardStep, Noted
<1>8. Orderly(new)'
  BY <1>q, <1>0, <1>c, <1>1, <1>2, <1>4, LeftOrderly
<1>9. Clear(c) => \A r \in Projections \ {p}, j \in Issues : ~AimsAt(proj[r], c, j)
  BY <1>q, InOneHand DEF WriterInv
<1>10. \A r \in Projections : proj'[r] = IF r = p THEN new ELSE proj[r]
  BY <1>2 DEF TypeInv, Typed
<1>11. Keeps(c, i)
  BY <1>q, <1>1, <1>6 DEF Keeps
<1>12. Clear(c) => \A j \in Issues : RidOf(link[c]) = j /\ Live(j, issue) => j = i
  BY <1>0, <1>c DEF Knows, KnowsHolding
<1>13. \A j \in Issues : Clear(c) /\ Keeps(c, j)' => RidOf(link'[c]) = j
  <2>1. \A j \in Issues : Keeps(c, j)' => RidOf(link'[c]) = j \/ \E r \in Projections : AimsAt(proj'[r], c, j)
    BY DEF Keeps, AimsAt
  <2> QED BY <1>1, <1>6, <1>9, <1>10, <2>1
<1>14. \A j \in Issues : Clear(c) /\ Live(j, issue) /\ Keeps(c, j)' => j = i
  BY <1>3, <1>12, <1>13
<1>15. Holds(c)
  <2>1. Clear(c)' => KeepsOne(c)'
    BY <1>1, <1>5, <1>14 DEF KeepsOne, Live
  <2>2. ASSUME Clear(c), Single(c) PROVE OnlyOne(c)'
    <3>1. OnlyOne(c)
      BY <1>1, <2>2 DEF IssueInv, RowsKeepOne
    <3>2. SUFFICES ASSUME NEW j \in Issues, Keyed(scenario.key[c], j)'
                   PROVE  /\ link'[c] # None
                          /\ \A l \in Issues : Keyed(scenario.key[c], l)' \/ (Live(l, issue') /\ Keeps(c, l)') => j = l
      BY <1>1 DEF OnlyOne, Live
    <3>3. Keyed(scenario.key[c], j) /\ link'[c] # None
      BY <1>0, <1>1, <1>3, <1>5, <1>c, <3>2
    <3>4. ASSUME NEW l \in Issues, Keyed(scenario.key[c], l)' \/ (Live(l, issue') /\ Keeps(c, l)')
          PROVE  j = l
      <4>1. Keyed(scenario.key[c], l)' => Keyed(scenario.key[c], l)
        BY <1>0, <1>1, <1>5
      <4>2. (Live(l, issue') /\ Keeps(c, l)') => Live(l, issue) /\ l = i
        BY <1>5, <1>14, <2>2, <1>0
      <4> QED BY <1>11, <3>1, <3>3, <3>4, <4>1, <4>2 DEF OnlyOne
    <3> QED BY <3>3, <3>4
  <2>3. ASSUME NEW j \in Issues, Clear(c)', c \notin lost', Keyed(scenario.key[c], j)',
               Keeps(c, j) \/ ~Keyed(scenario.key[c], j)
        PROVE  Keeps(c, j)'
    <3>1. RidOf(link'[c]) = i /\ Clear(c)
      BY <1>1, <1>3, <2>3
    <3>2. Keeps(c, j) /\ Live(j, issue)
      <4>1. Keyed(scenario.key[c], j)
        BY <1>0, <1>1, <1>5, <2>3
      <4> QED BY <2>3, <4>1 DEF Keyed
    <3>3. RidOf(link[c]) = j \/ j = i
      BY <1>1, <1>6, <1>9, <1>q, <3>1, <3>2 DEF Keeps
    <3>4. j = i
      BY <1>12, <3>1, <3>2, <3>3
    <3> QED BY <3>1, <3>4 DEF Keeps
  <2>4. ASSUME NEW t \in Tasks, NEW j \in Issues, Stray(t, j), Stray(t, j)' PROVE RidOf(link'[c]) # j
    <3>1. RidOf(link[c]) # j
      BY <1>1, <2>4 DEF IssueInv, StraysApart
    <3>2. t # c => i # j
      BY <1>0, <1>c, <2>4 DEF Unsought
    <3>3. t = c => RidOf(link'[c]) # j
      BY <2>4 DEF Stray
    <3> QED BY <1>3, <3>1, <3>2, <3>3
  <2> QED BY <1>1, <2>1, <2>2, <2>3, <2>4 DEF Holds
<1>16. ASSUME NEW t \in Tasks, NEW j \in Issues, Stray(t, j) PROVE Unsought(new, t, j)'
  <2>1. Unsought(q, t, j)
    BY <1>0, <1>16
  <2>2. Pending(new)' = Pending(q) /\ NoBoot' = NoBoot
    BY <1>0, <1>c, <1>2 DEF Pending, NoBoot
  <2> QED BY <1>1, <1>2, <2>1, <2>2 DEF Unsought, Live
<1>17. ASSUME NEW j \in Issues, Stray(c, j)', ~Stray(c, j) PROVE FALSE
  <2>1. /\ Clear(c) /\ Single(c) /\ Keyed(scenario.key[c], j) /\ RidOf(link'[c]) # j /\ RidOf(link[c]) = j
    BY <1>0, <1>1, <1>5, <1>17 DEF Stray
  <2>2. Live(j, issue)
    BY <2>1 DEF Keyed
  <2> QED BY <1>3, <1>12, <2>1, <2>2
<1>18. \A t \in Tasks \ {c}, j \in Issues : ~AimsAt(new, t, j) /\ ~AimsAt(proj[p], t, j)
  BY <1>q, <1>6
<1> QED BY <1>q, <1>1, <1>2, <1>7, <1>8, <1>15, <1>16, <1>17, <1>18, ProjectorIssues

\* An invocation begins, over rows of which no two have one key.
LEMMA BeginIssues ==
  ASSUME TypeInv, TypeInv', WriterInv, WriterInv', IssueInv, NEW p \in Projections, NEW T \in SUBSET Tasks,
         NEW pc \in {"link", "prepare"}, Begin(p, T, pc),
         \A t, u \in T : scenario.key[t] = scenario.key[u] => t = u,
         UNCHANGED <<scenario, task, link, issue, inb, unread, lost>>
  PROVE  IssueInv'
<1> DEFINE rows == [t \in Tasks |-> IF t \in T THEN task[t] ELSE NoRow]
<1>1. PICK new : new = [IdleProjection EXCEPT !.pc = pc, !.todo = T, !.rows = rows]
  OBVIOUS
<1>2. proj[p].pc = "idle" /\ proj' = [proj EXCEPT ![p] = new] /\ raced \subseteq raced'
  BY <1>1 DEF Begin, Proceed
<1>3. new \in Invocations /\ new.pc = pc /\ new.todo = T /\ new.boot = NoBoot
  <2>1. new \in Invocations
    BY <1>2 DEF TypeInv, Typed
  <2> QED BY <1>1, <2>1 DEF IdleProjection
<1>4. BoardStays
  BY <1>2 DEF BoardStays, Noted
<1>5. InHand(new)
  BY <1>3 DEF InHand, AtWork
<1>6. \A t \in Tasks, i \in Issues : ~AimsAt(new, t, i) /\ ~AimsAt(proj[p], t, i)
  BY <1>2, <1>3 DEF AimsAt
<1>7. Briefed(new) /\ Knows(new) /\ \A t \in Tasks, i \in Issues : Unsought(new, t, i)
  BY <1>3 DEF Briefed, Knows, KnowsLink, KnowsHolding, KnowsOwners, KnowsTarget, Goes, Unsought
<1> QED BY <1>2, <1>3, <1>4, <1>5, <1>6, <1>7, QuietIssues

LEMMA CallbackIssues ==
  ASSUME TypeInv, TypeInv', WriterInv, WriterInv', IssueInv, NEW p \in Projections, NEW t \in Tasks, Callback(p, t)
  PROVE  IssueInv'
<1>1. {t} \in SUBSET Tasks /\ \A u, v \in {t} : scenario.key[u] = scenario.key[v] => u = v
  OBVIOUS
<1> QED BY <1>1, BeginIssues DEF Callback

LEMMA ProjectBoardIssues ==
  ASSUME TypeInv, TypeInv', WriterInv, WriterInv', IssueInv, NEW p \in Projections, NEW j \in Projects,
         ProjectBoard(p, j)
  PROVE  IssueInv'
<1>1. PICK T : T = {t \in scenario.rows : scenario.project[t] = j}
  OBVIOUS
<1>2. T \in SUBSET Tasks
  BY <1>1, ScenarioType DEF Scenario, TypeInv
<1>3. \A t, u \in T : scenario.key[t] = scenario.key[u] => t = u
  BY <1>1, PmAssumption DEF TypeInv, Typed
<1>4. Begin(p, T, "prepare") /\ UNCHANGED <<scenario, task, link, issue, inb, unread, lost>>
  BY <1>1 DEF ProjectBoard
<1> QED BY <1>2, <1>3, <1>4, BeginIssues

-----------------------------------------------------------------------------
(* The steps of members, of people and of the pass *)

\* A step that leaves the invocations alone.
LEMMA PassIssues ==
  ASSUME TypeInv, TypeInv', WriterInv, WriterInv', IssueInv, NEW c \in Tasks \cup {None}, BoardStep(c), UNCHANGED proj,
         c \in Tasks => Holds(c) /\ c \in Passed, PassSeesStrays',
         c \in Tasks => \A i \in Issues : Stray(c, i)' => Stray(c, i)
  PROVE  IssueInv'
<1>1. {} \in SUBSET Projections /\ \A p \in {} : Orderly(proj[p])'
  OBVIOUS
<1>2. Apart(c, {})
  <2>1. ASSUME c \in Tasks, NEW r \in Projections, NEW t \in proj[r].todo, Contend(t, c)
        PROVE  t \in raced /\ c \in raced
    <3>1. t \in Projected /\ Contend(c, t)
      BY <2>1, ContendSymmetric DEF Projected
    <3> QED BY <2>1, <3>1 DEF WriterInv, OverlapsAreRaced
  <2>2. raced \subseteq raced'
    BY DEF BoardStep, Noted
  <2> QED BY <2>1, <2>2 DEF Apart
<1>3. OthersKeep(c)
  <2>1. ASSUME NEW t \in Tasks, t # c, NEW i \in Issues PROVE Keeps(t, i)' <=> Keeps(t, i)
    <3>1. RidOf(link'[t]) = RidOf(link[t])
      BY <2>1 DEF BoardStep
    <3> QED BY <3>1 DEF Keeps, AimsAt
  <2> QED BY <2>1 DEF OthersKeep
<1>4. Avoids(c, {})
  BY DEF Avoids
<1> QED BY <1>1, <1>2, <1>3, <1>4, IssueStep

\* A step of the pass that writes nothing but a row, or the link of a row as it was.
QuietStepOfPass ==
  /\ UNCHANGED <<scenario, issue, proj, lost>> /\ Noted
  /\ \A t \in Tasks : RidOf(link'[t]) = RidOf(link[t]) /\ (link[t] # None => link'[t] # None)

LEMMA QuietPassIssues ==
  ASSUME TypeInv, TypeInv', WriterInv, WriterInv', IssueInv, QuietStepOfPass,
         (\A t \in Tasks, i \in Issues : Stray(t, i)' => Stray(t, i)) => PassSeesStrays'
  PROVE  IssueInv'
<1>1. None \notin Tasks /\ IssuesEvolve
  BY SameIssuesEvolve, NullsAssumption DEF QuietStepOfPass
<1>2. \A i \in Issues, k \in Keys : Keyed(k, i)' <=> Keyed(k, i)
  BY DEF QuietStepOfPass, Keyed, Live
<1>3. BoardStep(None)
  BY <1>1, <1>2 DEF BoardStep, QuietStepOfPass
<1>4. \A t \in Tasks, i \in Issues : Stray(t, i)' => Stray(t, i)
  BY DEF QuietStepOfPass, Noted, Stray, Clear, Single, Keyed, Live
<1> QED BY <1>1, <1>3, <1>4, PassIssues DEF QuietStepOfPass

\* A pass that sees no more than it did, where no row has a new stray.
LEMMA SamePass ==
  ASSUME TypeInv, UNCHANGED scenario, PassSeesStrays,
         inb'.pc \in {"fetched", "adopting", "mirror", "footer"}
           => inb.pc \in {"fetched", "adopting", "mirror", "footer"} /\ inb'.seen = inb.seen,
         \A t \in Tasks, i \in Issues : Stray(t, i)' => Stray(t, i)
  PROVE  PassSeesStrays'
<1>1. SUFFICES ASSUME inb'.pc \in {"fetched", "adopting", "mirror", "footer"}, NEW t \in Tasks, NEW u \in Tasks,
                      scenario.mirror[u] # None, Live(scenario.mirror[u], inb.seen),
                      inb.seen[scenario.mirror[u]].key = None, Stray(t, scenario.mirror[u])'
               PROVE  FALSE
  BY DEF PassSeesStrays, Live
<1>2. PICK i \in Issues : i = scenario.mirror[u] /\ i = scenario'.mirror[u]
  BY <1>1, ScenarioType DEF TypeInv
<1>3. Stray(t, i)'
  BY <1>1, <1>2
<1>4. Stray(t, i)
  BY <1>3
<1> QED BY <1>1, <1>2, <1>4 DEF PassSeesStrays

LEMMA EditIssues ==
  ASSUME TypeInv, TypeInv', WriterInv, WriterInv', IssueInv, NEW t \in Tasks, Edit(t)
  PROVE  IssueInv'
<1>1. QuietStepOfPass /\ UNCHANGED <<scenario, inb>>
  BY DEF Edit, history, QuietStepOfPass, Noted
<1>2. (\A u \in Tasks, i \in Issues : Stray(u, i)' => Stray(u, i)) => PassSeesStrays'
  BY <1>1, SamePass DEF IssueInv
<1> QED BY <1>1, <1>2, QuietPassIssues

LEMMA MoveIssues ==
  ASSUME TypeInv, TypeInv', WriterInv, WriterInv', IssueInv, NEW i \in Issues, Move(i)
  PROVE  IssueInv'
<1>1. /\ UNCHANGED <<scenario, task, link, proj, inb, raced, unread, lost>> /\ IssuesEvolve
      /\ \A j \in Issues : Live(j, issue') => Live(j, issue) /\ issue'[j].key = issue[j].key
  BY MoveLeaves
<1>2. \A j \in Issues, k \in Keys : Keyed(k, j)' => Keyed(k, j)
  BY <1>1 DEF Keyed, Live
<1>3. None \notin Tasks
  BY NullsAssumption
<1>4. BoardStep(None)
  BY <1>1, <1>2, <1>3 DEF BoardStep, Noted
<1>5. ASSUME NEW t \in Tasks, NEW j \in Issues, Stray(t, j)' PROVE Stray(t, j)
  <2>1. scenario.key[t] \in Keys
    BY ScenarioType DEF TypeInv
  <2>2. Keyed(scenario.key[t], j)' => Keyed(scenario.key[t], j)
    BY <1>1, <1>2, <2>1
  <2> QED BY <1>1, <1>5, <2>2 DEF Stray, Clear, Single
<1>6. PassSeesStrays'
  BY <1>1, <1>5, SamePass DEF IssueInv
<1> QED BY <1>1, <1>3, <1>4, <1>6, PassIssues

\* The pass up to the adoption of an issue, and its end.
LEMMA LoadingIssues ==
  ASSUME TypeInv, TypeInv', WriterInv, WriterInv', IssueInv, StartPass \/ LoadLinks \/ LoadTasks \/ EndPass
  PROVE  IssueInv'
<1>1. QuietStepOfPass
  <2>1. UNCHANGED <<scenario, issue, proj, lost, link, unread>> /\ raced \subseteq raced'
    BY DEF StartPass, LoadLinks, LoadTasks, EndPass, history
  <2> QED BY <2>1 DEF QuietStepOfPass, Noted
<1>2. inb'.pc \notin {"fetched", "adopting", "mirror", "footer"}
  <2>1. CASE StartPass \/ EndPass
    <3>1. IdlePass.pc = "idle" /\ [IdlePass EXCEPT !.pc = "listed", !.seen = issue].pc = "listed"
      BY DEF IdlePass
    <3> QED BY <2>1, <3>1 DEF StartPass, EndPass, Continue
  <2>2. CASE LoadLinks \/ LoadTasks
    BY <2>2 DEF LoadLinks, LoadTasks, Continue, TypeInv, Typed, Passes
  <2> QED BY <2>1, <2>2
<1>3. PassSeesStrays'
  BY <1>2 DEF PassSeesStrays
<1> QED BY <1>1, <1>3, QuietPassIssues

LEMMA ApplyRowIssues ==
  ASSUME TypeInv, TypeInv', WriterInv, WriterInv', IssueInv, NEW t \in Tasks, ApplyRow(t)
  PROVE  IssueInv'
<1>1. QuietStepOfPass
  <2>1. /\ UNCHANGED <<scenario, issue, proj, raced, lost, unread, kept>>
        /\ \A u \in Tasks : RidOf(link'[u]) = RidOf(link[u]) /\ (link[u] # None => link'[u] # None)
    BY ApplyRowLeaves
  <2> QED BY <2>1 DEF QuietStepOfPass, Noted
<1>2. inb'.pc \notin {"fetched", "adopting", "mirror", "footer"}
  BY DEF ApplyRow, Continue, TypeInv, Typed, Passes
<1>3. PassSeesStrays'
  BY <1>2 DEF PassSeesStrays
<1> QED BY <1>1, <1>3, QuietPassIssues

\* A stray has a footer: it is no candidate of a pass that lists the issues.
LEMMA FetchTeamIssues ==
  ASSUME TypeInv, TypeInv', WriterInv, WriterInv', IssueInv, FetchTeam
  PROVE  IssueInv'
<1>1. UNCHANGED <<scenario, link, issue, proj, raced, lost, unread>>
  BY DEF FetchTeam, history
<1>2. QuietStepOfPass
  BY <1>1 DEF QuietStepOfPass, Noted
<1>3. inb'.seen = issue
  BY DEF FetchTeam, Continue, IdlePass
<1>4. ASSUME NEW t \in Tasks, NEW u \in Tasks, scenario.mirror[u] # None, Stray(t, scenario.mirror[u])'
      PROVE  issue[scenario.mirror[u]].key # None
  <2>1. issue[scenario.mirror[u]].key = scenario.key[t]
    BY <1>1, <1>4 DEF Stray, Keyed
  <2>2. scenario.key[t] \in Keys
    BY ScenarioType DEF TypeInv
  <2> QED BY <2>1, <2>2, NullsAssumption
<1>5. PassSeesStrays'
  BY <1>1, <1>3, <1>4 DEF PassSeesStrays
<1> QED BY <1>2, <1>5, QuietPassIssues

LEMMA ReadingIssues ==
  ASSUME TypeInv, TypeInv', WriterInv, WriterInv', IssueInv, ReadOwned \/ \E t \in Tasks : ReadMirror(t)
  PROVE  IssueInv'
<1>1. QuietStepOfPass /\ UNCHANGED scenario
  BY DEF ReadOwned, ReadMirror, history, QuietStepOfPass, Noted
<1>2. /\ inb.pc \in {"fetched", "adopting", "mirror", "footer"} /\ inb'.seen = inb.seen
  BY DEF ReadOwned, ReadMirror, Continue, TypeInv, Typed, Passes
<1>3. (\A u \in Tasks, i \in Issues : Stray(u, i)' => Stray(u, i)) => PassSeesStrays'
  BY <1>1, <1>2, SamePass DEF IssueInv
<1> QED BY <1>1, <1>3, QuietPassIssues

\* A row that the pass has in hand and nothing ran over is in no invocation's.
LEMMA NotAimedAt ==
  ASSUME TypeInv, WriterInv, NEW c \in Passed, Clear(c)
  PROVE  \A p \in Projections, i \in Issues : ~AimsAt(proj[p], c, i)
<1>1. SUFFICES ASSUME NEW p \in Projections, NEW i \in Issues, AimsAt(proj[p], c, i) PROVE FALSE
  OBVIOUS
<1>2. InHand(proj[p])
  BY DEF TypeInv
<1>3. c \in Projected
  BY <1>1, <1>2 DEF AimsAt, InHand, AtWork, Projected
<1> QED BY <1>3, ContendReflexive DEF WriterInv, OverlapsAreRaced, Clear

\* The pass ties an issue without a footer to its mirror row, which holds none.
LEMMA AdoptIssues ==
  ASSUME TypeInv, TypeInv', WriterInv, WriterInv', IssueInv, Adopt
  PROVE  IssueInv'
<1>1. UNCHANGED <<scenario, issue, proj, unread, raced, lost>> /\ inb.pc = "mirror"
  BY DEF Adopt
<1>2. PICK c \in Tasks, i \in Issues : c = inb.cur /\ i = scenario.mirror[c] /\ i # None
  BY <1>1, MirrorTypes, NullsAssumption
<1>3. /\ inb' = [inb EXCEPT !.pc = "footer"] \/ inb' = [inb EXCEPT !.pc = "adopting", !.cur = None]
      /\ inb'.seen = inb.seen
  BY DEF Adopt, Continue, TypeInv, Typed, Passes
<1>4. \A j \in Issues, k \in Keys : (Keyed(k, j)' <=> Keyed(k, j)) /\ (Live(j, issue') <=> Live(j, issue))
  BY <1>1 DEF Keyed, Live
<1>5. CASE UNCHANGED link
  <2>1. QuietStepOfPass
    BY <1>1, <1>5 DEF QuietStepOfPass, Noted
  <2>2. (\A u \in Tasks, j \in Issues : Stray(u, j)' => Stray(u, j)) => PassSeesStrays'
    BY <1>1, <1>3, SamePass DEF IssueInv
  <2> QED BY <2>1, <2>2, QuietPassIssues
<1>6. CASE /\ link[c] = None /\ i \notin OwnedByOthers(c) /\ link' = [link EXCEPT ![c] = AdoptingLink(c)]
  <2>0. /\ \A t \in Tasks : (Clear(t)' <=> Clear(t)) /\ (Single(t)' <=> Single(t))
        /\ scenario.key[c] \in Keys
    BY <1>1, ScenarioType DEF Clear, Single, TypeInv
  <2>1. /\ RidOf(link'[c]) = i /\ link'[c] # None
        /\ \A t \in Tasks \ {c} : link'[t] = link[t] /\ RidOf(link'[t]) = RidOf(link[t])
    BY <1>2, <1>6, AdoptedLink DEF RidOf
  <2>2. c \in Passed /\ (Clear(c) => \A r \in Projections, j \in Issues : ~AimsAt(proj[r], c, j))
    BY <1>1, <1>2, MirrorsPassed, NotAimedAt
  <2>3. BoardStep(c)
    <3>1. Kin(scenario.key[c], i)'
      <4>1. Kin(scenario.key[c], i)
        BY <1>2, MirrorKin DEF TypeInv
      <4> QED BY <1>1, <4>1 DEF Kin, KeyClaims, Claims, Live
    <3>2. \A t \in Tasks : link[t] # None => link'[t] # None
      BY <2>1
    <3>3. \A j \in Issues : RidOf(link'[c]) = j /\ RidOf(link[c]) # j => Kin(scenario.key[c], j)'
      BY <2>1, <3>1
    <3> QED BY <1>1, <1>4, <2>1, <3>2, <3>3, SameIssuesEvolve DEF BoardStep, Noted
  <2>4. \A j \in Issues : Clear(c) /\ Keeps(c, j)' => j = i
    BY <1>1, <2>1, <2>2 DEF Keeps, AimsAt
  <2>5. Clear(c) => \A j \in Issues : ~Keeps(c, j)
    BY <1>6, <2>2, NullsAssumption DEF Keeps, RidOf
  <2>6. Clear(c) /\ Single(c) => \A j \in Issues : ~Keyed(scenario.key[c], j)
    BY <1>6 DEF IssueInv, RowsKeepOne, OnlyOne
  <2>7. \A j \in Issues : ~Stray(c, j)'
    BY <1>1, <1>4, <2>0, <2>6 DEF Stray
  <2>8. Holds(c)
    <3>1. Clear(c)' => KeepsOne(c)'
      BY <2>0, <2>4 DEF KeepsOne
    <3>2. Clear(c)' /\ Single(c) => OnlyOne(c)'
      BY <1>1, <1>4, <2>0, <2>6 DEF OnlyOne
    <3>3. ASSUME NEW j \in Issues, Clear(c)', Keyed(scenario.key[c], j)',
                 Keeps(c, j) \/ ~Keyed(scenario.key[c], j)
          PROVE  FALSE
      BY <1>1, <1>4, <2>0, <2>5, <3>3
    <3>4. ASSUME NEW t \in Tasks, NEW j \in Issues, Stray(t, j), Stray(t, j)' PROVE RidOf(link'[c]) # j
      <4>1. Live(i, inb.seen) /\ inb.seen[i].key = None
        BY <1>1, <1>2, MirrorTypes DEF Candidate
      <4>2. ~Stray(t, i)
        BY <1>1, <1>2, <4>1 DEF IssueInv, PassSeesStrays
      <4> QED BY <2>1, <3>4, <4>2
    <3> QED BY <3>1, <3>2, <3>3, <3>4 DEF Holds
  <2>9. ASSUME NEW t \in Tasks, NEW j \in Issues, Stray(t, j)' PROVE Stray(t, j)
    BY <2>3, <2>7, <2>9, NewStrays
  <2>10. PassSeesStrays'
    BY <1>1, <1>3, <2>9, SamePass DEF IssueInv
  <2> QED BY <1>1, <2>2, <2>3, <2>7, <2>8, <2>10, PassIssues
<1> QED BY <1>2, <1>5, <1>6 DEF Adopt, AdoptingLink

\* The footer is written over the issue that the row holds.
LEMMA StampFooterIssues ==
  ASSUME TypeInv, TypeInv', WriterInv, WriterInv', IssueInv, StampFooter
  PROVE  IssueInv'
<1>1. /\ UNCHANGED <<scenario, task, link, proj, unread, raced, lost>> /\ inb.pc = "footer"
      /\ inb' = [inb EXCEPT !.pc = "adopting", !.cur = None] /\ inb'.seen = inb.seen
  BY DEF StampFooter, Continue, history, TypeInv, Typed, Passes
<1>2. PICK c \in Tasks, i \in Issues : c = inb.cur /\ i = scenario.mirror[c] /\ i # None
  BY <1>1, MirrorTypes, NullsAssumption
<1>3. /\ \A t \in Tasks : (Clear(t)' <=> Clear(t)) /\ (Single(t)' <=> Single(t))
      /\ scenario.key[c] \in Keys
  BY <1>1, ScenarioType DEF Clear, Single, TypeInv
<1>4. CASE UNCHANGED issue
  <2>1. QuietStepOfPass
    BY <1>1, <1>4 DEF QuietStepOfPass, Noted
  <2>2. (\A u \in Tasks, j \in Issues : Stray(u, j)' => Stray(u, j)) => PassSeesStrays'
    BY <1>1, SamePass DEF IssueInv
  <2> QED BY <2>1, <2>2, QuietPassIssues
<1>5. CASE /\ Live(i, issue)
           /\ issue' = [issue EXCEPT ![i].body = inb.seen[i].body, ![i].key = scenario.key[c],
                          ![i].taker = c]
  <2>0. Footed(c, i)
    BY <1>1, <1>2, <1>5 DEF Footed
  <2>1. /\ issue'[i].key = scenario.key[c] /\ Live(i, issue') /\ IssuesEvolve
        /\ \A j \in Issues \ {i} : issue'[j] = issue[j]
    BY <2>0, FooterLeaves
  <2>2. c \in Passed /\ (Clear(c) => \A r \in Projections, j \in Issues : ~AimsAt(proj[r], c, j))
    BY <1>1, <1>2, MirrorsPassed, NotAimedAt
  <2>3. \A j \in Issues \ {i}, k \in Keys : (Keyed(k, j)' <=> Keyed(k, j)) /\ (Live(j, issue') <=> Live(j, issue))
    BY <2>1 DEF Keyed, Live
  <2>4. BoardStep(c)
    <3>1. Kin(scenario.key[c], i)'
      <4>1. Kin(scenario.key[c], i)
        BY <1>2, MirrorKin DEF TypeInv
      <4> QED BY <1>1, <2>1, <4>1, <1>5 DEF Kin, KeyClaims, Claims, Live
    <3>2. ASSUME NEW j \in Issues, NEW k \in Keys, Keyed(k, j)', ~Keyed(k, j)
          PROVE  k = scenario.key[c] /\ Kin(k, j)'
      <4>1. j = i /\ k = scenario.key[c]
        BY <2>1, <2>3, <3>2 DEF Keyed
      <4> QED BY <1>1, <3>1, <4>1
    <3> QED BY <1>1, <2>1, <3>2 DEF BoardStep, Noted
  <2>5. Clear(c) => RidOf(link[c]) = i /\ link[c] # None
    <3>1. Clear(c) => RidOf(link[c]) = i
      BY <1>1, <1>2 DEF WriterInv, AdoptionInv, Clear
    <3> QED BY <1>2, <3>1 DEF RidOf
  <2>6. Clear(c) => \A j \in Issues : (Keeps(c, j)' <=> j = i) /\ (Keeps(c, j) <=> j = i)
    <3>1. \A j \in Issues : Keeps(c, j)' <=> Keeps(c, j)
      BY <1>1 DEF Keeps, AimsAt
    <3>2. Clear(c) => \A j \in Issues : Keeps(c, j) <=> j = i
      BY <2>2, <2>5 DEF Keeps
    <3> QED BY <3>1, <3>2
  <2>7. Clear(c) /\ Single(c) => \A j \in Issues : Keyed(scenario.key[c], j)' => j = i
    <3>1. Clear(c) /\ Single(c) => \A j \in Issues : Keyed(scenario.key[c], j) => j = i
      BY <1>5, <2>6 DEF IssueInv, RowsKeepOne, OnlyOne
    <3> QED BY <1>1, <1>3, <2>3, <3>1
  <2>8. \A j \in Issues : ~Stray(c, j)'
    BY <1>1, <1>3, <2>5, <2>7 DEF Stray
  <2>9. Holds(c)
    <3>1. Clear(c)' => KeepsOne(c)'
      BY <1>3, <2>6 DEF KeepsOne
    <3>2. Clear(c)' /\ Single(c) => OnlyOne(c)'
      BY <1>1, <1>3, <2>5, <2>6, <2>7 DEF OnlyOne
    <3>3. ASSUME NEW j \in Issues, Clear(c)', Keyed(scenario.key[c], j)',
                 Keeps(c, j) \/ ~Keyed(scenario.key[c], j)
          PROVE  Keeps(c, j)'
      <4>1. j # i => Keyed(scenario.key[c], j)
        BY <1>1, <1>3, <2>3, <3>3
      <4> QED BY <1>3, <2>6, <3>3, <4>1
    <3>4. \A t \in Tasks, j \in Issues : Stray(t, j) => RidOf(link'[c]) # j
      BY <1>1 DEF IssueInv, StraysApart
    <3> QED BY <3>1, <3>2, <3>3, <3>4 DEF Holds
  <2>10. ASSUME NEW t \in Tasks, NEW j \in Issues, Stray(t, j)' PROVE Stray(t, j)
    BY <2>4, <2>8, <2>10, NewStrays
  <2>11. PassSeesStrays'
    BY <1>1, <2>10, SamePass DEF IssueInv
  <2> QED BY <1>1, <2>2, <2>4, <2>8, <2>9, <2>11, PassIssues
<1> QED BY <1>2, <1>4, <1>5 DEF StampFooter

\* Whatever an invocation had answered and not recorded is lost with the server.
LEMMA CrashIssues ==
  ASSUME TypeInv, TypeInv', WriterInv, WriterInv', IssueInv, Crash
  PROVE  IssueInv'
<1>1. /\ UNCHANGED <<scenario, link, issue, raced, unread>> /\ inb' = IdlePass
      /\ proj' = [p \in Projections |-> IdleProjection]
      /\ lost' = lost \cup {proj[p].cur : p \in {p \in Projections : proj[p].pc \in {"seed", "persist"}}}
  BY DEF Crash
<1>2. None \in Tasks \cup {None} /\ None \notin Tasks /\ Projections \in SUBSET Projections
  BY NullsAssumption
<1>3. \A p \in Projections : proj'[p] = IdleProjection
  BY <1>1
<1>4. BoardStep(None)
  <2>1. \A i \in Issues, k \in Keys : Keyed(k, i)' <=> Keyed(k, i)
    BY <1>1 DEF Keyed, Live
  <2> QED BY <1>1, <1>2, <2>1, SameIssuesEvolve DEF BoardStep, Noted
<1>5. Apart(None, Projections)
  BY DEF Apart
<1>6. OthersKeep(None)
  <2>1. ASSUME NEW t \in Tasks, NEW i \in Issues, Keeps(t, i)' PROVE Keeps(t, i)
    <3>1. RidOf(link'[t]) = i \/ \E p \in Projections : AimsAt(proj'[p], t, i)
      BY <2>1 DEF Keeps, AimsAt
    <3>2. \A p \in Projections : ~AimsAt(proj'[p], t, i)
      BY <1>3, IdleIssues
    <3> QED BY <1>1, <3>1, <3>2 DEF Keeps
  <2>2. ASSUME NEW t \in Tasks, NEW i \in Issues, Keeps(t, i) PROVE Keeps(t, i)' \/ t \in lost'
    BY <1>1, <2>2 DEF Keeps, AimsAt
  <2> QED BY <2>1, <2>2 DEF OthersKeep
<1>7. Avoids(None, Projections)
  <2>1. \A p \in Projections, t \in Tasks, i \in Issues : Unsought(proj[p], t, i)'
    <3>1. PICK idle : idle = IdleProjection
      OBVIOUS
    <3>2. idle.pc = "idle" /\ idle.todo = {} /\ idle.boot = NoBoot /\ NoBoot' = NoBoot
      BY <3>1 DEF IdleProjection, NoBoot
    <3>3. \A t \in Tasks, i \in Issues : Unsought(idle, t, i)'
      BY <3>2 DEF Unsought
    <3> QED BY <1>3, <3>1, <3>3
  <2> QED BY <1>2, <2>1 DEF Avoids
<1>8. \A p \in Projections : Orderly(proj[p])'
  <2>1. PICK idle : idle = IdleProjection
    OBVIOUS
  <2>2. idle.pc = "idle" /\ idle.todo = {} /\ idle.boot = NoBoot /\ NoBoot' = NoBoot
    BY <2>1 DEF IdleProjection, NoBoot
  <2>3. Orderly(idle)'
    BY <2>2 DEF Orderly, Briefed, Knows, KnowsLink, KnowsHolding, KnowsOwners, KnowsTarget, Goes
  <2> QED BY <1>3, <2>1, <2>3
<1>9. PassSeesStrays'
  <2>1. inb'.pc = "idle"
    BY <1>1 DEF IdlePass
  <2> QED BY <2>1 DEF PassSeesStrays
<1> QED BY <1>2, <1>4, <1>5, <1>6, <1>7, <1>8, <1>9, IssueStep

LEMMA InitIssues ==
  ASSUME Init
  PROVE  IssueInv
<1>1. PICK idle : idle = IdleProjection
  OBVIOUS
<1>2. /\ idle.pc = "idle" /\ idle.todo = {} /\ idle.boot = NoBoot
      /\ \A p \in Projections : proj[p] = idle
  <2>1. IdleProjection.pc = "idle" /\ IdleProjection.todo = {} /\ IdleProjection.boot = NoBoot
    BY DEF IdleProjection
  <2> QED BY <1>1, <2>1 DEF Init
<1>3. \A t \in Tasks : RidOf(link[t]) = None /\ scenario.key[t] \in Keys
  BY InitTypeInv, ScenarioType, DeclaredLinkType, NullsAssumption DEF Init, RidOf, TypeInv
<1>4. \A k \in Keys, i \in Issues : ~Keyed(k, i)
  <2>1. ASSUME NEW k \in Keys, NEW i \in Issues, Keyed(k, i) PROVE FALSE
    <3>1. issue[i] = NewIssue
      BY <2>1 DEF Init, Keyed, Live
    <3>2. k = None
      BY <2>1, <3>1 DEF Keyed, NewIssue
    <3> QED BY <3>2, NullsAssumption
  <2> QED BY <2>1
<1>5. \A t \in Tasks, i \in Issues : ~Keeps(t, i)
  BY <1>2, <1>3, NullsAssumption DEF Keeps, AimsAt
<1>6. RowsKeepOne /\ IssuesKept /\ StraysApart
  BY <1>3, <1>4, <1>5 DEF RowsKeepOne, KeepsOne, OnlyOne, IssuesKept, AllKept, StraysApart, Stray
<1>7. PassSeesStrays
  BY DEF Init, IdlePass, PassSeesStrays
<1>8. Orderly(idle)
  BY <1>2 DEF Orderly, Briefed, Knows, KnowsLink, KnowsHolding, KnowsOwners, KnowsTarget, Goes
<1> QED BY <1>2, <1>6, <1>7, <1>8 DEF IssueInv

LEMMA NextIssues == TypeInv /\ TypeInv' /\ WriterInv /\ WriterInv' /\ IssueInv /\ [Next]_vars => IssueInv'
<1> SUFFICES ASSUME TypeInv, TypeInv', WriterInv, WriterInv', IssueInv, [Next]_vars PROVE IssueInv'
  OBVIOUS
<1>1. ASSUME NEW t \in Tasks, Edit(t) \/ ApplyRow(t) PROVE IssueInv'
  BY <1>1, EditIssues, ApplyRowIssues
<1>2. ASSUME NEW i \in Issues, Move(i) PROVE IssueInv'
  BY <1>2, MoveIssues
<1>3. ASSUME NEW p \in Projections, NEW t \in Tasks, Callback(p, t) \/ FindLink(p, t) PROVE IssueInv'
  BY <1>3, CallbackIssues, FindLinkIssues
<1>4. ASSUME NEW p \in Projections, NEW j \in Projects, ProjectBoard(p, j) PROVE IssueInv'
  BY <1>4, ProjectBoardIssues
<1>5. ASSUME NEW p \in Projections, Prepare(p) \/ InsertLink(p) \/ ReadOwners(p) \/ FetchBoot(p)
      PROVE  IssueInv'
  BY <1>5, PrepareIssues, InsertLinkIssues, ReadOwnersIssues, FetchBootIssues
<1>6. ASSUME NEW p \in Projections, Upsert(p) \/ Seed(p) \/ Persist(p) PROVE IssueInv'
  BY <1>6, UpsertIssues, SeedIssues, PersistIssues
<1>7. CASE StartPass \/ LoadLinks \/ LoadTasks \/ EndPass \/ FetchTeam
  BY <1>7, LoadingIssues, FetchTeamIssues
<1>8. CASE ReadOwned \/ \E t \in Tasks : ReadMirror(t)
  BY <1>8, ReadingIssues
<1>9. CASE Adopt \/ StampFooter \/ Crash
  BY <1>9, AdoptIssues, StampFooterIssues, CrashIssues
<1>10. CASE UNCHANGED vars
  <2>1. QuietStepOfPass /\ UNCHANGED <<scenario, inb>>
    BY <1>10 DEF vars, QuietStepOfPass, Noted
  <2>2. (\A u \in Tasks, i \in Issues : Stray(u, i)' => Stray(u, i)) => PassSeesStrays'
    BY <2>1, SamePass DEF IssueInv
  <2> QED BY <2>1, <2>2, QuietPassIssues
<1> QED
  BY <1>1, <1>2, <1>3, <1>4, <1>5, <1>6, <1>7, <1>8, <1>9, <1>10 DEF Next

\* The issues with a key are no more than its rows: each is kept by a row of its own, or
\* the one row there is has found the one issue there is.
LEMMA KeptIssuesAreFew ==
  ASSUME TypeInv, IssueInv
  PROVE  OneIssuePerRow
<1>1. SUFFICES ASSUME NEW k \in Keys, NEW rows, NEW issues, rows = {t \in Tasks : scenario.key[t] = k},
                      issues = {i \in Issues : Live(i, issue) /\ issue[i].key = k}, Alone(k),
                      rows \cap lost = {} \/ Cardinality(rows) = 1
               PROVE  Cardinality(issues) <= Cardinality(rows)
  BY DEF OneIssuePerRow
<1>2. IsFiniteSet(rows) /\ rows \subseteq Tasks /\ \A t \in rows : Clear(t)
  <2>1. rows \in SUBSET Tasks
    BY <1>1
  <2> QED BY <1>1, <2>1, TasksAreFinite, FS_Subset DEF Alone, Clear
<1>3. CASE rows \cap lost = {}
  <2>1. ASSUME NEW i \in issues PROVE \E t \in rows : Keeps(t, i)
    <3>1. AllKept(k)
      BY <1>1, <1>3 DEF IssueInv, IssuesKept, NoneLost
    <3> QED BY <1>1, <2>1, <3>1 DEF AllKept, Keyed
  <2> DEFINE keeper == [i \in issues |-> CHOOSE t \in rows : Keeps(t, i)]
  <2>2. ASSUME NEW i \in issues PROVE keeper[i] \in rows /\ Keeps(keeper[i], i)
    BY <2>1
  <2>3. ASSUME NEW i \in issues, NEW j \in issues, keeper[i] = keeper[j] PROVE i = j
    <3>1. PICK t \in rows : t = keeper[i] /\ Keeps(t, i) /\ Keeps(t, j)
      BY <2>2, <2>3
    <3>2. KeepsOne(t)
      BY <1>2, <3>1 DEF IssueInv, RowsKeepOne
    <3> QED BY <1>1, <3>1, <3>2 DEF KeepsOne
  <2>4. keeper \in [issues -> rows]
    BY <2>2
  <2> HIDE DEF keeper
  <2>5. keeper \in Injection(issues, rows)
    BY <2>3, <2>4 DEF Injection, IsInjective
  <2> QED BY <1>2, <2>5, FS_Injection
<1>4. CASE Cardinality(rows) = 1
  <2>1. PICK t : rows = {t}
    BY <1>2, <1>4, FS_Singleton
  <2>2. t \in Tasks /\ Clear(t) /\ Single(t) /\ scenario.key[t] = k
    BY <1>1, <1>2, <2>1 DEF Single
  <2>3. ASSUME NEW i \in issues, NEW j \in issues PROVE i = j
    BY <1>1, <2>2, <2>3 DEF IssueInv, RowsKeepOne, OnlyOne, Keyed
  <2>4. CASE issues = {}
    BY <1>4, <2>4, FS_EmptySet
  <2>5. CASE issues # {}
    <3>1. PICK i : issues = {i}
      BY <2>3, <2>5
    <3> QED BY <1>4, <3>1, FS_Singleton
  <2> QED BY <2>4, <2>5
<1> QED BY <1>1, <1>3, <1>4

\* No duplicates: rows whose activities did not run over each other have at most one
\* issue each on the board, whatever answers were lost, writes refused and servers
\* killed on the way; and where answers or records of rows with one key were lost, one
\* row still has one issue, because it finds by its footer what it cannot remember.
THEOREM OneIssueEach == Spec => []OneIssuePerRow
<1>1. Init => TypeInv /\ WriterInv /\ IssueInv
  BY InitTypeInv, InitWriter, InitIssues
<1>2. TypeInv /\ WriterInv /\ IssueInv /\ [Next]_vars => (TypeInv /\ WriterInv /\ IssueInv)'
  BY NextTypeInv, NextWriter, NextIssues
<1>3. TypeInv /\ WriterInv /\ IssueInv => OneIssuePerRow
  BY KeptIssuesAreFew
<1> QED BY <1>1, <1>2, <1>3, PTL DEF Spec

-----------------------------------------------------------------------------
(* Skipping a row is safe, and what the pass takes over a person has moved. *)

\* A projection of t has been answered and is not recorded yet.
Busy(t) == \E p \in Projections : proj[p].pc \in {"seed", "persist"} /\ proj[p].cur = t

\* A person put i in its state, or it is in state s.
PutIn(i, s) == issue[i].by = "person" \/ issue[i].state = s

\* What the link of t records is what its issue is like, but for a body that was kept
\* at the adoption and a state that a person gave it.
LinkTrue(t) ==
  \A i \in Issues : RidOf(link[t]) = i /\ Live(i, issue) =>
    /\ t \notin kept => issue[i].body = link[t].fp[2]
    /\ PutIn(i, link[t].lps)
    /\ issue[i].by = "person" \/ StateType[issue[i].state] = link[t].fp[1]

LinksAreTrue == \A t \in Tasks : Settled(t) => Busy(t) \/ LinkTrue(t)

\* The issue an invocation stands for has the body it sent and the state it meant.
AnswerTrue(q) ==
  q.pc \in {"seed", "persist"} /\ Clear(q.cur) =>
    \A i \in Issues : q.plan.target = i /\ Live(i, issue) =>
      issue[i].body = SentBody(q) /\ PutIn(i, StateFor(q.rows[q.cur].status))

\* An issue that was found to match the row still does.
MatchTrue(q) ==
  q.pc = "upsert" /\ q.plan.same /\ Clear(q.cur) =>
    \A i \in Issues : q.plan.target = i /\ Live(i, issue) =>
      issue[i].body = q.rows[q.cur].body /\ PutIn(i, StateFor(q.rows[q.cur].status))

\* Issue i is as the listing of a batch has it; or the row t will not come to it, for
\* another row that the batch has done holds it.
AsListed(q, i) == issue[i].body = q.boot.at[i].body /\ PutIn(i, q.boot.at[i].state)
LedTo(q, t, i) == q.boot.ext[scenario.key[t]] = i \/ q.boot.at[i].key = scenario.key[t]
Shunned(q, t, i) ==
  /\ RidOf(link[t]) # i
  /\ LedTo(q, t, i) => \E u \in Tasks \ q.todo : Contend(t, u) /\ RidOf(link[u]) = i
ListsTruly(q) ==
  \A t \in Pending(q), i \in Issues :
    Clear(t) /\ Kin(scenario.key[t], i) /\ Live(i, q.boot.at) /\ Live(i, issue)
      => AsListed(q, i) \/ Shunned(q, t, i)
ListingTrue(q) == q.boot # NoBoot => ListsTruly(q)

\* What a batch writes for a row that other rows it has to do may come to, the link of that
\* row holds.
KnowsRivals(q) ==
  /\ q.pc \in {"owners", "listing"} =>
       \A t \in q.todo : Clear(t) /\ Contend(t, q.cur) => RidOf(link[q.cur]) = q.known.rid
  /\ Goes(q) /\ q.boot # NoBoot =>
       \A t \in q.todo \ {q.cur}, i \in Issues :
         Clear(t) /\ Contend(t, q.cur) /\ q.plan.target = i /\ Live(i, q.boot.at) /\ LedTo(q, t, i)
           => RidOf(link[q.cur]) = i

Truthful(q) == AnswerTrue(q) /\ MatchTrue(q) /\ ListingTrue(q) /\ KnowsRivals(q)

\* A state that the pass saw is the one the link records, or a person's; and a person's
\* it stays.
PassTrue ==
  inb.pc \in {"listed", "linked", "applying"} =>
    \A t \in Tasks, i \in Issues :
      /\ inb.pc = "applying" => t \in inb.left
      /\ Settled(t) /\ RidOf(link[t]) = i /\ Live(i, inb.seen)
      => /\ inb.seen[i].by = "person" \/ inb.seen[i].state = link[t].lps
         /\ inb.seen[i].by = "person" /\ Live(i, issue) => issue[i].by = "person"

\* An issue without a footer is as a person left it, also in the listing of the pass; and
\* its body stays until the footer is stamped.
AdoptionTrue ==
  /\ \A i \in Issues : Keyless(i) => issue[i].by = "person"
  /\ inb.pc \in {"fetched", "adopting", "mirror", "footer"} =>
       \A i \in Issues : Live(i, inb.seen) /\ inb.seen[i].key = None => inb.seen[i].body = Prose
  /\ inb.pc = "footer" /\ Clear(inb.cur) =>
       \A i \in Issues : scenario.mirror[inb.cur] = i /\ Live(i, issue) => issue[i].body = Prose

TruthInv ==
  /\ LinksAreTrue /\ PassTrue /\ AdoptionTrue
  /\ \A p \in Projections : Truthful(proj[p])

\* A step leaves the body of issue i; and its state, unless a person changed it.
Unmoved(i) ==
  Live(i, issue') => /\ Live(i, issue) /\ issue'[i].body = issue[i].body
                     /\ \/ issue'[i].by = "person"
                        \/ issue'[i].by = issue[i].by /\ issue'[i].state = issue[i].state
\* A step writes i for row c, and no other row that has met nothing holds it.
TakenFor(c, i) ==
  /\ c \in Tasks /\ Live(i, issue') /\ issue'[i].key # None /\ Kin(scenario.key[c], i)'
  /\ \A t \in Tasks \ {c} : Clear(t)' => RidOf(link[t]) # i
\* What a step on behalf of row c, or of no row, does to the board and the links.
RowStep(c) ==
  /\ Noted /\ IssuesEvolve /\ lost \subseteq lost' /\ kept \subseteq kept'
  /\ \A t \in Tasks : t # c => link'[t] = link[t]
  /\ \A i \in Issues : Unmoved(i) \/ TakenFor(c, i)

\* What c does does not move an issue of a row that does not contend with it.
LEMMA UnmovedApart ==
  ASSUME NEW c, RowStep(c), NEW t \in Tasks, Clear(t)', c \in Tasks /\ Contend(t, c) => t \in raced',
         NEW i \in Issues, Live(i, issue'), Kin(scenario.key[t], i)'
  PROVE  Unmoved(i) /\ Live(i, issue)
<1>1. ASSUME TakenFor(c, i) PROVE FALSE
  <2>1. Contend(t, c)'
    BY <1>1 DEF TakenFor, Kin, Contend, Live
  <2>2. Contend(t, c) /\ c \in Tasks
    BY <1>1, <2>1 DEF TakenFor, RowStep, Noted, Contend, KeyClaims, Claims
  <2> QED BY <2>2 DEF Clear
<1>2. Unmoved(i)
  BY <1>1 DEF RowStep
<1> QED BY <1>2 DEF Unmoved

LEMMA PutInStable ==
  ASSUME NEW i, Live(i, issue'), Unmoved(i), NEW s, PutIn(i, s)
  PROVE  PutIn(i, s)'
BY DEF PutIn, Unmoved

\* What an invocation knows is not touched on behalf of a row that does not contend with
\* its rows.
LEMMA TruthfulStable ==
  ASSUME TypeInv, WriterInv, NEW c, RowStep(c), NEW q \in Invocations, InHand(q), KinInvocation(q),
         ListingTrue(q), KnowsRivals(q), Clear(q.cur)' => Truthful(q),
         c \in Tasks => \A t \in q.todo : Contend(t, c) => t \in raced'
  PROVE  Truthful(q)'
<1>0. /\ UNCHANGED scenario /\ q.todo \subseteq Tasks /\ NoBoot' = NoBoot /\ IssuesEvolve
      /\ q.pc \in {"owners", "listing", "upsert", "seed", "persist"} => q.cur \in q.todo
      /\ \A t, u \in Tasks : Contend(t, u)' <=> Contend(t, u)
      /\ \A t \in Tasks : Clear(t)' => Clear(t)
  BY DEF RowStep, Noted, Invocations, NoBoot, InHand, AtWork, Contend, KeyClaims, Claims, Clear
<1>1. ASSUME NEW t \in q.todo, Clear(t)', NEW i \in Issues, Live(i, issue'), Kin(scenario.key[t], i)'
      PROVE  Unmoved(i) /\ Live(i, issue)
  BY <1>0, <1>1, UnmovedApart
<1>2. ASSUME NEW t \in q.todo, Clear(t)', NEW u \in Tasks, Contend(t, u) PROVE link'[u] = link[u]
  <2>1. u # c
    BY <1>0, <1>2 DEF Clear
  <2> QED BY <2>1 DEF RowStep
<1>3. ASSUME q.pc \in {"upsert", "seed", "persist"}, Clear(q.cur)', NEW i \in Issues, q.plan.target = i,
             Live(i, issue')
      PROVE  Clear(q.cur) /\ Unmoved(i) /\ Live(i, issue)
  <2>1. PICK t \in q.todo : t = q.cur
    BY <1>0, <1>3
  <2>2. Kin(scenario.key[t], i)
    BY <1>3, <2>1, NullsAssumption DEF KinInvocation
  <2>3. PICK k : k = scenario.key[t]
    OBVIOUS
  <2>4. Kin(k, i)'
    BY <1>0, <2>2, <2>3, KinStable
  <2>5. Kin(scenario.key[t], i)'
    BY <1>0, <2>3, <2>4
  <2> QED BY <1>0, <1>1, <1>3, <2>1, <2>5
<1>4. AnswerTrue(q)'
  <2>1. SUFFICES ASSUME q.pc \in {"seed", "persist"}, Clear(q.cur)', NEW i \in Issues, q.plan.target = i,
                        Live(i, issue')
                 PROVE  issue'[i].body = SentBody(q) /\ PutIn(i, StateFor(q.rows[q.cur].status))'
    BY DEF AnswerTrue, SentBody, Live
  <2>2. PICK s : s = StateFor(q.rows[q.cur].status)
    OBVIOUS
  <2>3. Unmoved(i) /\ issue[i].body = SentBody(q) /\ PutIn(i, s)
    BY <1>3, <2>1, <2>2 DEF Truthful, AnswerTrue
  <2>4. PutIn(i, s)' /\ s = StateFor(q.rows[q.cur].status)'
    BY <2>1, <2>2, <2>3, PutInStable DEF StateFor
  <2> QED BY <2>1, <2>3, <2>4 DEF Unmoved
<1>5. MatchTrue(q)'
  <2>1. SUFFICES ASSUME q.pc = "upsert", q.plan.same, Clear(q.cur)', NEW i \in Issues, q.plan.target = i,
                        Live(i, issue')
                 PROVE  issue'[i].body = q.rows[q.cur].body /\ PutIn(i, StateFor(q.rows[q.cur].status))'
    BY DEF MatchTrue, Live
  <2>2. PICK s : s = StateFor(q.rows[q.cur].status)
    OBVIOUS
  <2>3. Unmoved(i) /\ issue[i].body = q.rows[q.cur].body /\ PutIn(i, s)
    BY <1>3, <2>1, <2>2 DEF Truthful, MatchTrue
  <2>4. PutIn(i, s)' /\ s = StateFor(q.rows[q.cur].status)'
    BY <2>1, <2>2, <2>3, PutInStable DEF StateFor
  <2> QED BY <2>1, <2>3, <2>4 DEF Unmoved
<1>6. ListingTrue(q)'
  <2>1. SUFFICES ASSUME q.boot # NoBoot, NEW t \in Pending(q), NEW i \in Issues, Clear(t)',
                        Kin(scenario.key[t], i)', Live(i, q.boot.at), Live(i, issue')
                 PROVE  AsListed(q, i)' \/ Shunned(q, t, i)'
    BY <1>0 DEF ListingTrue, ListsTruly, Pending, Live
  <2>2. t \in q.todo /\ t \in Tasks
    BY <1>0 DEF Pending
  <2>3. Unmoved(i) /\ Live(i, issue) /\ Clear(t)
    BY <1>0, <1>1, <2>1, <2>2
  <2>4. Kin(scenario.key[t], i)
    BY <1>0, <2>1, <2>3, KinBefore
  <2>5. AsListed(q, i) \/ Shunned(q, t, i)
    BY <2>1, <2>3, <2>4 DEF ListingTrue, ListsTruly
  <2>6. ASSUME AsListed(q, i) PROVE AsListed(q, i)'
    <3>1. PICK s : s = q.boot.at[i].state
      OBVIOUS
    <3>2. PutIn(i, s)'
      BY <2>1, <2>3, <2>6, <3>1, PutInStable DEF AsListed
    <3> QED BY <2>1, <2>3, <2>6, <3>1, <3>2 DEF AsListed, Unmoved
  <2>7. ASSUME Shunned(q, t, i) PROVE Shunned(q, t, i)'
    <3>1. link'[t] = link[t]
      BY <1>2, <2>1, <2>2, ContendReflexive
    <3>2. \A u \in Tasks : Contend(t, u) => link'[u] = link[u]
      BY <1>2, <2>1, <2>2
    <3> QED BY <1>0, <2>2, <2>7, <3>1, <3>2 DEF Shunned, LedTo
  <2> QED BY <2>5, <2>6, <2>7
<1>7. KnowsRivals(q)'
  <2>1. ASSUME NEW t \in q.todo, Clear(t)', q.cur \in Tasks, Contend(t, q.cur)'
        PROVE  Clear(t) /\ Contend(t, q.cur) /\ link'[q.cur] = link[q.cur]
    BY <1>0, <1>2, <2>1
  <2>2. ASSUME q.pc \in {"owners", "listing"}, NEW t \in q.todo, Clear(t)', Contend(t, q.cur)'
        PROVE  RidOf(link'[q.cur]) = q.known.rid
    BY <1>0, <2>1, <2>2 DEF KnowsRivals
  <2>3. ASSUME Goes(q), q.boot # NoBoot, NEW t \in q.todo \ {q.cur}, NEW i \in Issues, Clear(t)',
               Contend(t, q.cur)', q.plan.target = i, Live(i, q.boot.at), LedTo(q, t, i)'
        PROVE  RidOf(link'[q.cur]) = i
    <3>1. LedTo(q, t, i) /\ q.cur \in Tasks
      BY <1>0, <2>3 DEF LedTo, Goes
    <3> QED BY <2>1, <2>3, <3>1 DEF KnowsRivals
  <2> QED BY <1>0, <2>2, <2>3 DEF KnowsRivals, Goes, Live
<1> QED BY <1>4, <1>5, <1>6, <1>7 DEF Truthful

\* A step on behalf of c: what it leaves to be shown is what concerns c itself, the
\* invocations of P, and the pass.
LEMMA TruthStep ==
  ASSUME TypeInv, TypeInv', WriterInv, TruthInv, NEW c \in Tasks \cup {None},
         NEW P \in SUBSET Projections, RowStep(c), Apart(c, P), \A p \in P : Truthful(proj[p])',
         \A t \in Tasks \ {c} : Busy(t) => Busy(t)' \/ ~Settled(t)',
         c \in Tasks /\ Settled(c)' => Busy(c)' \/ LinkTrue(c)', PassTrue', AdoptionTrue'
  PROVE  TruthInv'
<1>1. ASSUME NEW r \in Projections PROVE Truthful(proj[r])'
  <2>1. CASE r \in P
    BY <2>1
  <2>2. CASE r \notin P
    <3>1. PICK q \in Invocations : q = proj[r]
      BY DEF TypeInv, Typed
    <3>2. InHand(q) /\ KinInvocation(q) /\ Truthful(q) /\ proj'[r] = q
      BY <2>2, <3>1 DEF TypeInv, WriterInv, IssuesAreKin, TruthInv, Apart
    <3>3. c \in Tasks => \A t \in q.todo : Contend(t, c) => t \in raced'
      BY <2>2, <3>1 DEF Apart
    <3>4. Truthful(q)'
      BY <3>2, <3>3, TruthfulStable DEF Truthful
    <3> QED BY <3>2, <3>4
  <2> QED BY <2>1, <2>2
<1>2. ASSUME NEW t \in Tasks, Settled(t)' PROVE Busy(t)' \/ LinkTrue(t)'
  <2>1. CASE t = c
    BY <1>2, <2>1
  <2>2. CASE t # c
    <3>1. Settled(t) /\ Clear(t)' /\ (t \in kept => t \in kept')
      BY <1>2 DEF RowStep, Noted, Settled, Clear
    <3>2. Busy(t) \/ LinkTrue(t)
      BY <3>1 DEF TruthInv, LinksAreTrue
    <3>3. link'[t] = link[t]
      BY <2>2 DEF RowStep
    <3>4. ASSUME LinkTrue(t), NEW i \in Issues, RidOf(link[t]) = i, Live(i, issue')
          PROVE  /\ t \notin kept' => issue'[i].body = link[t].fp[2]
                 /\ PutIn(i, link[t].lps)'
                 /\ issue'[i].by = "person" \/ StateType[issue'[i].state] = link[t].fp[1]
      <4>1. Unmoved(i)
        BY <2>2, <3>1, <3>4 DEF RowStep, TakenFor
      <4>2. PICK s : s = link[t].lps
        OBVIOUS
      <4>3. /\ t \notin kept => issue[i].body = link[t].fp[2]
            /\ PutIn(i, s)
            /\ issue[i].by = "person" \/ StateType[issue[i].state] = link[t].fp[1]
        BY <3>4, <4>1, <4>2 DEF LinkTrue, Unmoved
      <4>4. PutIn(i, s)'
        BY <3>4, <4>1, <4>3, PutInStable
      <4> QED BY <3>1, <3>3, <3>4, <4>1, <4>2, <4>3, <4>4 DEF Unmoved
    <3>5. LinkTrue(t) => LinkTrue(t)'
      BY <3>3, <3>4 DEF LinkTrue, Live, PutIn
    <3> QED BY <1>2, <2>2, <3>2, <3>5
  <2> QED BY <2>1, <2>2
<1> QED BY <1>1, <1>2 DEF TruthInv, LinksAreTrue

\* What the pass has seen of the rows it has in hand is not touched on behalf of others.
LEMMA PassStays ==
  ASSUME TypeInv, WriterInv, PassTrue, AdoptionTrue, NEW c, RowStep(c), UNCHANGED inb,
         c \in Tasks => \A t \in Passed : Contend(t, c) => t \in raced'
  PROVE  PassTrue' /\ AdoptionTrue'
<1>0. /\ UNCHANGED <<scenario, inb>> /\ IssuesEvolve /\ Passed \subseteq Tasks
      /\ \A t \in Tasks : /\ Clear(t)' => Clear(t)
                          /\ Settled(t)' => Settled(t) /\ Clear(t)'
  BY DEF RowStep, Noted, Clear, Settled, Passed, TypeInv, Typed, Passes
<1>1. ASSUME NEW t \in Passed, Clear(t)', NEW i \in Issues, Live(i, issue'), Kin(scenario.key[t], i)
      PROVE  Unmoved(i) /\ Live(i, issue)
  <2>1. PICK k : k = scenario.key[t]
    OBVIOUS
  <2>2. Kin(k, i)'
    BY <1>0, <1>1, <2>1, KinStable
  <2>3. Kin(scenario.key[t], i)'
    BY <1>0, <2>1, <2>2
  <2> QED BY <1>0, <1>1, <2>3, UnmovedApart
<1>2. PassTrue'
  <2>1. SUFFICES ASSUME inb.pc \in {"listed", "linked", "applying"}, NEW t \in Tasks, NEW i \in Issues,
                        inb.pc = "applying" => t \in inb.left, Settled(t)', RidOf(link'[t]) = i,
                        Live(i, inb.seen)
                 PROVE  /\ inb.seen[i].by = "person" \/ inb.seen[i].state = link'[t].lps
                        /\ inb.seen[i].by = "person" /\ Live(i, issue') => issue'[i].by = "person"
    BY <1>0 DEF PassTrue, Live
  <2>2. t \in Passed
    BY <2>1 DEF Passed
  <2>3. link'[t] = link[t]
    BY <1>0, <2>1, <2>2, ContendReflexive DEF RowStep, Clear
  <2>4. /\ inb.seen[i].by = "person" \/ inb.seen[i].state = link[t].lps
        /\ inb.seen[i].by = "person" /\ Live(i, issue) => issue[i].by = "person"
    BY <1>0, <2>1, <2>3 DEF PassTrue
  <2>5. Kin(scenario.key[t], i)
    BY <2>1, <2>3, NullsAssumption DEF WriterInv, IssuesAreKin, RidOf
  <2>6. Live(i, issue') => Unmoved(i) /\ Live(i, issue)
    BY <1>0, <1>1, <2>1, <2>2, <2>5
  <2> QED BY <2>3, <2>4, <2>6 DEF Unmoved
<1>3. AdoptionTrue'
  <2>1. ASSUME NEW i \in Issues, Keyless(i)' PROVE issue'[i].by = "person"
    <3>1. Keyless(i) /\ Live(i, issue') /\ issue'[i].key = None
      BY <1>0, <2>1 DEF IssuesEvolve, Keyless, Live
    <3>2. Unmoved(i) /\ issue[i].by = "person"
      BY <3>1 DEF RowStep, TakenFor, AdoptionTrue
    <3> QED BY <3>1, <3>2 DEF Unmoved
  <2>2. ASSUME inb.pc = "footer", Clear(inb.cur)', NEW i \in Issues, scenario.mirror[inb.cur] = i,
               Live(i, issue')
        PROVE  issue'[i].body = Prose
    <3>1. PICK t \in Tasks : t = inb.cur
      BY <2>2 DEF TypeInv, PassInHand
    <3>2. scenario.mirror[t] = i /\ i # None
      BY <2>2, <3>1, NullsAssumption
    <3>3. t \in Passed /\ Kin(scenario.key[t], i)
      BY <2>2, <3>2, MirrorsPassed, MirrorKin DEF TypeInv
    <3>4. Unmoved(i) /\ Live(i, issue)
      BY <1>1, <2>2, <3>1, <3>3
    <3>5. issue[i].body = Prose
      BY <1>0, <2>2, <3>1, <3>2, <3>4 DEF AdoptionTrue
    <3> QED BY <2>2, <3>4, <3>5 DEF Unmoved
  <2>3. inb.pc \in {"fetched", "adopting", "mirror", "footer"} =>
          \A i \in Issues : Live(i, inb.seen) /\ inb.seen[i].key = None => inb.seen[i].body = Prose
    BY DEF AdoptionTrue
  <2> QED BY <1>0, <2>1, <2>2, <2>3 DEF AdoptionTrue, Live
<1> QED BY <1>2, <1>3

\* A step of a projection on behalf of the row it has in hand.
LEMMA ProjectorTruth ==
  ASSUME TypeInv, TypeInv', WriterInv, TruthInv, NEW p \in Projections, NEW c \in proj[p].todo,
         RowStep(c), UNCHANGED inb, NEW new, proj' = [proj EXCEPT ![p] = new], Truthful(new)',
         proj[p].pc \in {"seed", "persist"} => proj[p].cur = c,
         Settled(c)' => Busy(c)' \/ LinkTrue(c)'
  PROVE  TruthInv'
<1>0. /\ c \in Tasks /\ raced \subseteq raced'
      /\ \A r \in Projections : proj'[r] = IF r = p THEN new ELSE proj[r]
  BY DEF RowStep, Noted, TypeInv, Typed, Invocations
<1>1. Apart(c, {p}) /\ {p} \in SUBSET Projections /\ \A t \in Passed : Contend(t, c) => t \in raced'
  BY <1>0, InOneHand DEF Apart, WriterInv
<1>2. PassTrue' /\ AdoptionTrue'
  BY <1>1, PassStays DEF TruthInv
<1>3. \A t \in Tasks \ {c} : Busy(t) => Busy(t)'
  BY <1>0 DEF Busy
<1>4. \A r \in {p} : Truthful(proj[r])'
  BY <1>0
<1> QED BY <1>0, <1>1, <1>2, <1>3, <1>4, TruthStep

\* Nothing has been written but history, and the takers of issues.
BoardRests ==
  /\ Noted /\ IssuesEvolve /\ lost \subseteq lost' /\ kept \subseteq kept' /\ UNCHANGED link
  /\ \A i \in Issues : Unmoved(i)

LEMMA RestingStep ==
  ASSUME BoardRests
  PROVE  RowStep(None) /\ None \notin Tasks
BY NullsAssumption DEF BoardRests, RowStep

LEMMA SameBoardRests ==
  ASSUME UNCHANGED <<scenario, link, issue>>, raced \subseteq raced', unread \subseteq unread',
         lost \subseteq lost', kept \subseteq kept'
  PROVE  BoardRests
BY SameIssuesEvolve DEF BoardRests, Unmoved, Noted, Live

\* Then an invocation may go on with what it knows.
LEMMA QuietTruth ==
  ASSUME TypeInv, TypeInv', WriterInv, TruthInv, BoardRests, UNCHANGED inb, NEW p \in Projections,
         NEW new, proj' = [proj EXCEPT ![p] = new], Truthful(new)',
         proj[p].pc \in {"seed", "persist"} =>
           (new.pc \in {"seed", "persist"} /\ new.cur = proj[p].cur) \/ proj[p].cur \in lost'
  PROVE  TruthInv'
<1>0. \A r \in Projections : proj'[r] = IF r = p THEN new ELSE proj[r]
  BY DEF TypeInv, Typed
<1>1. RowStep(None) /\ None \notin Tasks
  BY RestingStep
<1>2. Apart(None, {p}) /\ {p} \in SUBSET Projections
  BY <1>0, <1>1 DEF Apart
<1>3. PassTrue' /\ AdoptionTrue'
  BY <1>1, PassStays DEF TruthInv
<1>4. ASSUME NEW t \in Tasks, Busy(t) PROVE Busy(t)' \/ ~Settled(t)'
  <2>1. PICK r \in Projections : proj[r].pc \in {"seed", "persist"} /\ proj[r].cur = t
    BY <1>4 DEF Busy
  <2>2. CASE r # p
    BY <1>0, <2>1, <2>2 DEF Busy
  <2>3. CASE r = p
    <3>1. CASE new.pc \in {"seed", "persist"} /\ new.cur = t
      BY <1>0, <2>3, <3>1 DEF Busy
    <3>2. CASE proj[p].cur \in lost'
      BY <2>1, <2>3, <3>2 DEF Settled
    <3> QED BY <2>1, <2>3, <3>1, <3>2
  <2> QED BY <2>2, <2>3
<1>5. \A r \in {p} : Truthful(proj[r])'
  BY <1>0
<1> QED BY <1>1, <1>2, <1>3, <1>4, <1>5, TruthStep

\* Nor do the members and the pass disturb the projector.
LEMMA ElsewhereTruth ==
  ASSUME TypeInv, TypeInv', WriterInv, TruthInv, BoardRests, UNCHANGED proj, PassTrue', AdoptionTrue'
  PROVE  TruthInv'
<1>1. RowStep(None) /\ None \notin Tasks
  BY RestingStep
<1>2. Apart(None, {}) /\ {} \in SUBSET Projections
  BY <1>1 DEF Apart
<1>3. \A t \in Tasks : Busy(t) => Busy(t)'
  BY DEF Busy
<1> QED BY <1>1, <1>2, <1>3, TruthStep

\* An invocation between two rows knows what its listing has of those it has to do.
LEMMA BetweenTruth ==
  ASSUME NEW q, NEW new, ListingTrue(q), new.boot \in {NoBoot, q.boot}, Pending(new) \subseteq Pending(q),
         new.todo \subseteq q.todo, new.pc \in {"idle", "prepare", "link", "insert"}
  PROVE  Truthful(new)
<1>1. ListingTrue(new)
  BY DEF ListingTrue, ListsTruly, AsListed, Shunned, LedTo
<1> QED BY <1>1 DEF Truthful, AnswerTrue, MatchTrue, KnowsRivals, Goes

LEMMA IdleTruth ==
  Truthful(IdleProjection) /\ Truthful(IdleProjection)'
<1>1. IdleProjection.pc = "idle" /\ IdleProjection.boot = NoBoot
  BY DEF IdleProjection
<1> HIDE DEF IdleProjection
<1>2. Truthful(IdleProjection)
  BY <1>1 DEF Truthful, AnswerTrue, MatchTrue, ListingTrue, ListsTruly, KnowsRivals, Goes
<1>3. Truthful(IdleProjection)'
  BY <1>1 DEF Truthful, AnswerTrue, MatchTrue, ListingTrue, ListsTruly, KnowsRivals, Goes
<1> QED BY <1>2, <1>3

\* An invocation goes on, over a board that is as it was.
LEMMA GoesOnTruth ==
  ASSUME TypeInv, TypeInv', WriterInv, WriterInv', TruthInv, UNCHANGED <<scenario, link, issue, inb>>,
         raced \subseteq raced', unread \subseteq unread', lost \subseteq lost', kept \subseteq kept',
         NEW p \in Projections, NEW new \in Invocations, InHand(new), proj' = [proj EXCEPT ![p] = new],
         ListingTrue(new), KnowsRivals(new), Clear(new.cur)' => Truthful(new),
         proj[p].pc \in {"seed", "persist"} =>
           (new.pc \in {"seed", "persist"} /\ new.cur = proj[p].cur) \/ proj[p].cur \in lost'
  PROVE  TruthInv'
<1>1. BoardRests /\ RowStep(None) /\ None \notin Tasks
  BY SameBoardRests, RestingStep
<1>2. KinInvocation(new)
  <2>1. KinInvocation(new)'
    BY DEF WriterInv, IssuesAreKin, TypeInv, Typed
  <2> QED BY <2>1 DEF KinInvocation, Kin, KeyClaims, Claims, Live, NoBoot
<1>3. Truthful(new)'
  BY <1>1, <1>2, TruthfulStable
<1> QED BY <1>1, <1>3, QuietTruth

\* Nothing is expected of an invocation that has not come to a row's owners.
LEMMA EarlyTruth ==
  ASSUME NEW new, ListingTrue(new), new.pc \in {"idle", "prepare", "link", "insert"}
  PROVE  Truthful(new) /\ KnowsRivals(new)
BY DEF Truthful, AnswerTrue, MatchTrue, KnowsRivals, Goes

LEMMA ListingLeft ==
  ASSUME NEW q, NEW new, ListingTrue(q), new.boot \in {NoBoot, q.boot}, Pending(new) \subseteq Pending(q),
         new.todo \subseteq q.todo
  PROVE  ListingTrue(new)
BY DEF ListingTrue, ListsTruly, AsListed, Shunned, LedTo

\* A listing that has just been fetched is true.
LEMMA FreshListing ==
  ASSUME NEW b \in Listings, NEW q, q.boot = b
  PROVE  ListsTruly(q) /\ ListingTrue(q)
<1>1. q.boot.at = issue
  BY DEF Listings
<1> QED BY <1>1 DEF ListingTrue, ListsTruly, AsListed, PutIn

LEMMA BeginTruth ==
  ASSUME TypeInv, TypeInv', WriterInv, WriterInv', TruthInv, NEW p \in Projections, NEW T, NEW pc,
         pc \in {"link", "prepare"}, Begin(p, T, pc),
         UNCHANGED <<scenario, link, issue, inb, unread, lost, kept>>
  PROVE  TruthInv'
<1> DEFINE rows == [t \in Tasks |-> IF t \in T THEN task[t] ELSE NoRow]
<1>1. PICK new : new = [IdleProjection EXCEPT !.pc = pc, !.todo = T, !.rows = rows]
  OBVIOUS
<1>2. proj[p].pc = "idle" /\ proj' = [proj EXCEPT ![p] = new] /\ raced \subseteq raced'
  BY <1>1 DEF Begin, Proceed
<1>3. new \in Invocations /\ InHand(new)
  BY <1>2 DEF TypeInv, Typed
<1>4. new.pc = pc /\ new.boot = NoBoot
  BY <1>1 DEF IdleProjection
<1>5. ListingTrue(new)
  BY <1>4 DEF ListingTrue, ListsTruly
<1>6. Truthful(new) /\ KnowsRivals(new)
  BY <1>4, <1>5, EarlyTruth
<1> QED BY <1>2, <1>3, <1>5, <1>6, GoesOnTruth

\* An invocation that ends, having nothing to record.
LEMMA EndsTruth ==
  ASSUME TypeInv, TypeInv', WriterInv, WriterInv', TruthInv, UNCHANGED <<scenario, link, issue, inb>>,
         raced \subseteq raced', unread \subseteq unread', lost \subseteq lost', kept \subseteq kept',
         NEW p \in Projections, proj' = [proj EXCEPT ![p] = IdleProjection],
         proj[p].pc \notin {"seed", "persist"}
  PROVE  TruthInv'
<1>1. PICK idle : idle = IdleProjection
  OBVIOUS
<1>2. idle \in Invocations /\ InHand(idle) /\ Truthful(idle)
  BY <1>1, IdleTypes, IdleTruth
<1>3. proj' = [proj EXCEPT ![p] = idle] /\ ListingTrue(idle) /\ KnowsRivals(idle)
  BY <1>1, <1>2 DEF Truthful
<1> QED BY <1>2, <1>3, GoesOnTruth

LEMMA PrepareTruth ==
  ASSUME TypeInv, TypeInv', WriterInv, WriterInv', TruthInv, NEW p \in Projections, Prepare(p)
  PROVE  TruthInv'
<1>q. PICK q : q = proj[p]
  OBVIOUS
<1>1. /\ q \in Invocations /\ q.pc = "prepare"
      /\ UNCHANGED <<scenario, link, issue, inb, raced, unread, lost, kept>>
  BY <1>q DEF Prepare, TypeInv, Typed, history
<1>2. CASE \E b \in Listings : Proceed(p, [q EXCEPT !.pc = "link", !.boot = b])
  <2>1. PICK b \in Listings : Proceed(p, [q EXCEPT !.pc = "link", !.boot = b])
    BY <1>2
  <2>2. PICK new : new = [q EXCEPT !.pc = "link", !.boot = b]
    OBVIOUS
  <2>3. proj' = [proj EXCEPT ![p] = new] /\ new.pc = "link" /\ new.boot = b
    BY <1>1, <2>1, <2>2 DEF Proceed, Invocations
  <2>4. new \in Invocations /\ InHand(new)
    BY <2>3 DEF TypeInv, Typed
  <2>5. ListingTrue(new)
    BY <2>3, FreshListing
  <2>6. Truthful(new) /\ KnowsRivals(new)
    BY <2>3, <2>5, EarlyTruth
  <2> QED BY <1>q, <1>1, <2>3, <2>4, <2>5, <2>6, GoesOnTruth
<1>3. CASE Proceed(p, IdleProjection)
  BY <1>q, <1>1, <1>3, EndsTruth DEF Proceed
<1> QED BY <1>q, <1>2, <1>3 DEF Prepare

LEMMA FindLinkTruth ==
  ASSUME TypeInv, TypeInv', WriterInv, WriterInv', TruthInv, NEW p \in Projections, NEW t \in Tasks, FindLink(p, t)
  PROVE  TruthInv'
<1>q. PICK q : q = proj[p]
  OBVIOUS
<1> DEFINE here == [q EXCEPT !.cur = t, !.known = link[t]]
           left == q.todo \ {t}
           rest == [q EXCEPT !.todo = left, !.rows[t] = NoRow]
<1>1. /\ q \in Invocations /\ q.pc = "link" /\ t \in q.todo /\ ListingTrue(q)
      /\ UNCHANGED <<scenario, link, issue, inb, raced, unread, lost, kept>>
  BY <1>q DEF FindLink, TypeInv, Typed, history, TruthInv, Truthful
<1>2. \/ Proceed(p, [here EXCEPT !.pc = "insert"])
      \/ link[t] # None /\ Proceed(p, [here EXCEPT !.pc = "owners"])
      \/ Proceed(p, rest)
      \/ Proceed(p, IdleProjection)
  BY <1>q DEF FindLink
<1>3. ASSUME NEW new, proj' = [proj EXCEPT ![p] = new], new.boot = q.boot, new.todo \subseteq q.todo,
             new.pc \in {"link", "insert", "owners"},
             new.pc = "owners" => RidOf(link[new.cur]) = new.known.rid
      PROVE  TruthInv'
  <2>1. new \in Invocations /\ InHand(new)
    BY <1>3 DEF TypeInv, Typed
  <2>2. Pending(new) \subseteq Pending(q)
    BY <1>1, <1>3 DEF Pending
  <2>3. ListingTrue(new)
    BY <1>1, <1>3, <2>2, ListingLeft
  <2>4. KnowsRivals(new) /\ Truthful(new)
    BY <1>3, <2>3 DEF Truthful, AnswerTrue, MatchTrue, KnowsRivals, Goes
  <2> QED BY <1>q, <1>1, <1>3, <2>1, <2>3, <2>4, GoesOnTruth
<1>4. CASE Proceed(p, [here EXCEPT !.pc = "insert"])
  <2>1. PICK new : new = [here EXCEPT !.pc = "insert"]
    OBVIOUS
  <2>2. /\ proj' = [proj EXCEPT ![p] = new] /\ new.boot = q.boot /\ new.todo = q.todo /\ new.pc = "insert"
    BY <1>1, <1>4, <2>1 DEF Proceed, Invocations
  <2> QED BY <1>3, <2>2
<1>5. CASE link[t] # None /\ Proceed(p, [here EXCEPT !.pc = "owners"])
  <2>1. PICK new : new = [here EXCEPT !.pc = "owners"]
    OBVIOUS
  <2>2. /\ proj' = [proj EXCEPT ![p] = new] /\ new.boot = q.boot /\ new.todo = q.todo /\ new.pc = "owners"
        /\ new.cur = t /\ new.known = link[t]
    BY <1>1, <1>5, <2>1 DEF Proceed, Invocations
  <2> QED BY <1>3, <1>5, <2>2 DEF RidOf
<1>6. CASE Proceed(p, rest)
  <2>1. PICK new : new = rest
    OBVIOUS
  <2>2. /\ proj' = [proj EXCEPT ![p] = new] /\ new.boot = q.boot /\ new.todo \subseteq q.todo /\ new.pc = "link"
    BY <1>1, <1>6, <2>1 DEF Proceed, Invocations
  <2> QED BY <1>3, <2>2
<1>7. CASE Proceed(p, IdleProjection)
  BY <1>q, <1>1, <1>7, EndsTruth DEF Proceed
<1> HIDE DEF here, rest
<1> QED BY <1>2, <1>4, <1>5, <1>6, <1>7

LEMMA InsertLinkTruth ==
  ASSUME TypeInv, TypeInv', WriterInv, WriterInv', TruthInv, NEW p \in Projections, InsertLink(p)
  PROVE  TruthInv'
<1>q. PICK q : q = proj[p]
  OBVIOUS
<1>1. /\ q \in Invocations /\ q.pc = "insert" /\ q.cur \in q.todo /\ q.todo \subseteq Tasks /\ ListingTrue(q)
      /\ UNCHANGED <<scenario, issue, inb, raced, unread, lost, kept>>
      /\ link \in [Tasks -> Links \cup {None}]
  BY <1>q DEF InsertLink, TypeInv, Typed, Invocations, InHand, AtWork, history, TruthInv, Truthful
<1>c. PICK c \in q.todo : c = q.cur
  BY <1>1
<1>2. CASE link[c] = None /\ link' = [link EXCEPT ![c] = DeclaredLink]
           /\ Proceed(p, [q EXCEPT !.pc = "owners", !.known = DeclaredLink])
  <2>1. PICK new : new = [q EXCEPT !.pc = "owners", !.known = DeclaredLink]
    OBVIOUS
  <2>2. /\ proj' = [proj EXCEPT ![p] = new] /\ new.boot = q.boot /\ new.todo = q.todo /\ new.pc = "owners"
        /\ new.cur = c /\ new.known.rid = None
    BY <1>1, <1>2, <1>c, <2>1 DEF Proceed, Invocations, DeclaredLink
  <2>3. /\ \A t \in Tasks : t # c => link'[t] = link[t]
        /\ \A t \in Tasks : RidOf(link'[t]) = RidOf(link[t])
        /\ RidOf(link'[c]) = None /\ c \in Tasks
    BY <1>1, <1>2, DeclaredLinkType, NullsAssumption DEF RidOf, DeclaredLink
  <2>4. RowStep(c)
    BY <1>1, <2>3, SameIssuesEvolve DEF RowStep, Noted, Unmoved, Live
  <2>5. ListingTrue(new)'
    <3>1. Pending(new)' = Pending(q) /\ Pending(q) \subseteq Tasks
      BY <1>1, <2>2 DEF Pending
    <3>2. SUFFICES ASSUME new.boot # NoBoot, NEW t \in Pending(q), NEW i \in Issues, Clear(t)',
                          Kin(scenario.key[t], i)', Live(i, new.boot.at), Live(i, issue)
                   PROVE  AsListed(new, i)' \/ Shunned(new, t, i)'
      BY <1>1, <3>1 DEF ListingTrue, ListsTruly, NoBoot, Live
    <3>3. Clear(t) /\ Kin(scenario.key[t], i) /\ q.boot # NoBoot
      BY <1>1, <2>2, <3>2 DEF Clear, Kin, KeyClaims, Claims, Live
    <3>4. AsListed(q, i) \/ Shunned(q, t, i)
      BY <1>1, <2>2, <3>2, <3>3 DEF ListingTrue, ListsTruly
    <3>5. AsListed(q, i) => AsListed(new, i)'
      BY <1>1, <2>2 DEF AsListed, PutIn
    <3>6. Shunned(q, t, i) => Shunned(new, t, i)'
      BY <1>1, <2>2, <2>3, <3>1, <3>2 DEF Shunned, LedTo, Contend, KeyClaims, Claims
    <3> QED BY <3>4, <3>5, <3>6
  <2>6. Truthful(new)'
    <3>1. AnswerTrue(new)' /\ MatchTrue(new)'
      BY <2>2 DEF AnswerTrue, MatchTrue
    <3>2. KnowsRivals(new)'
      BY <2>2, <2>3 DEF KnowsRivals, Goes
    <3> QED BY <2>5, <3>1, <3>2 DEF Truthful
  <2>7. LinkTrue(c)'
    BY <2>3, NullsAssumption DEF LinkTrue
  <2>8. proj[p].pc \notin {"seed", "persist"}
    BY <1>q, <1>1
  <2> QED BY <1>q, <1>1, <2>2, <2>4, <2>6, <2>7, <2>8, ProjectorTruth
<1>3. CASE Proceed(p, IdleProjection) /\ UNCHANGED link
  BY <1>q, <1>1, <1>3, EndsTruth DEF Proceed
<1> QED BY <1>q, <1>c, <1>2, <1>3 DEF InsertLink

\* The rung a planned issue comes from.
LEMMA PlanRungs ==
  ASSUME NEW q, NEW i \in Issues, Plan(q, q.boot).target = i, ~Plan(q, q.boot).refuses
  PROVE  \/ q.known.rid = i /\ Live(i, q.boot.at)
         \/ q.boot.ext[scenario.key[q.cur]] = i /\ i \notin q.owned
         \/ /\ scenario.declared[q.cur] = i /\ Live(i, q.boot.at) /\ i \notin q.owned
            /\ q.boot.at[i].key \in {None, scenario.key[q.cur]}
<1>1. PICK plan : plan = Plan(q, q.boot)
  OBVIOUS
<1>2. LET byId == ByResourceId(q, q.boot)
          byFooter == ByFooter(q, q.boot)
          adopts == byId = None /\ byFooter = None /\ scenario.declared[q.cur] # None
      IN /\ adopts => /\ plan.target = scenario.declared[q.cur]
                      /\ ~plan.refuses => MayAdopt(q, q.boot, plan.target)
         /\ ~adopts => plan.target = (IF byId # None THEN byId ELSE byFooter)
  BY <1>1, PlanFacts
<1>3. /\ ByResourceId(q, q.boot) = IF q.known.rid # None /\ Live(q.known.rid, q.boot.at) THEN q.known.rid ELSE None
      /\ ByFooter(q, q.boot) = IF q.boot.ext[scenario.key[q.cur]] \in q.owned THEN None
                               ELSE q.boot.ext[scenario.key[q.cur]]
  BY DEF ByResourceId, ByFooter
<1>4. plan.target = i /\ ~plan.refuses /\ i # None
  BY <1>1, NullsAssumption
<1> QED BY <1>2, <1>3, <1>4 DEF MayAdopt

\* An issue that a listing shows to match the row does match it, and what a batch goes for
\* that another of its rows may come to, the link holds.
LEMMA PlannedTruth ==
  ASSUME TypeInv, NEW q \in Invocations, q.boot \in Boots, q.cur \in q.todo,
         q.pc \in {"owners", "listing"}, Clear(q.cur) => KnowsLink(q),
         \A t, u \in q.todo : scenario.key[t] = scenario.key[u] => t = u,
         BootLeads(q), KinInvocation(Planned(q, q.boot)), ListsTruly(q), KnowsRivals(q)
  PROVE  LET new == Planned(q, q.boot)
         IN /\ ListingTrue(new) /\ KnowsRivals(new)
            /\ Clear(q.cur) /\ SeesOwners(q) => Truthful(new)
<1>c. PICK c \in q.todo : c = q.cur
  OBVIOUS
<1>b. PICK b \in Boots : b = q.boot
  OBVIOUS
<1>n. PICK new : new = Planned(q, b)
  OBVIOUS
<1>p. PICK plan : plan = Plan(q, b)
  OBVIOUS
<1>0. /\ c \in Tasks /\ q.todo \subseteq Tasks /\ Pending(q) = q.todo
      /\ \A t \in Tasks : scenario.key[t] \in Keys /\ scenario.key[t] # None
  <2>2. \A t \in Tasks : scenario.key[t] \in Keys /\ scenario.key[t] # None
    BY ScenarioType, NullsAssumption DEF TypeInv
  <2> QED BY <1>c, <2>2 DEF Invocations, Pending
<1>1. /\ new.plan = plan /\ new.cur = c /\ new.todo = q.todo /\ new.rows = q.rows
      /\ new.pc = "upsert" /\ new.boot = (IF q.todo = {c} THEN NoBoot ELSE b)
  BY <1>c, <1>n, <1>p DEF Planned, Invocations
<1>2. ASSUME NEW i \in Issues, plan.target = i, ~plan.refuses
      PROVE  \/ q.known.rid = i /\ Live(i, b.at)
             \/ b.ext[scenario.key[c]] = i /\ i \notin q.owned
             \/ /\ scenario.declared[c] = i /\ Live(i, b.at) /\ i \notin q.owned
                /\ b.at[i].key \in {None, scenario.key[c]}
  BY <1>b, <1>c, <1>p, <1>2, PlanRungs
<1>3. /\ \A t \in q.todo, i \in Issues :
           scenario.declared[t] = i /\ Live(i, b.at) /\ b.at[i].key = None
             => b.at[i].body = Prose /\ q.rows[t].body # Prose
      /\ \A t \in q.todo, i \in Issues : b.ext[scenario.key[t]] = i =>
           /\ Live(i, b.at)
           /\ \A u \in q.todo : b.at[i].key \in {None, scenario.key[u]} => t = u
           /\ \A u \in q.todo : b.ext[scenario.key[u]] = i => t = u
  BY <1>0, <1>b DEF BootLeads
<1>4. ListingTrue(new)
  <2>1. Pending(new) \subseteq Pending(q) /\ new.boot \in {NoBoot, q.boot} /\ new.todo \subseteq q.todo
    BY <1>0, <1>1, <1>b DEF Pending
  <2>2. ListingTrue(q)
    BY DEF ListingTrue
  <2> QED BY <2>1, <2>2, ListingLeft
<1>5. KnowsRivals(new)
  <2>1. SUFFICES ASSUME ~plan.refuses, NEW t \in q.todo \ {c}, NEW i \in Issues, Clear(t), Contend(t, c),
                        plan.target = i, Live(i, b.at), LedTo(new, t, i), new.boot = b
                 PROVE  RidOf(link[c]) = i
    BY <1>1 DEF KnowsRivals, Goes
  <2>2. b.ext[scenario.key[t]] = i \/ b.at[i].key = scenario.key[t]
    BY <2>1 DEF LedTo
  <2>3. CASE q.known.rid = i
    BY <1>c, <2>1, <2>3 DEF KnowsRivals
  <2>4. CASE b.ext[scenario.key[c]] = i
    BY <1>3, <2>1, <2>2, <2>4
  <2>5. CASE b.at[i].key \in {None, scenario.key[c]}
    BY <1>0, <1>3, <2>1, <2>2, <2>5
  <2> QED BY <1>2, <2>1, <2>3, <2>4, <2>5
<1>6. ASSUME Clear(c), SeesOwners(q) PROVE MatchTrue(new)
  <2>1. SUFFICES ASSUME plan.same, NEW i \in Issues, plan.target = i, Live(i, issue)
                 PROVE  issue[i].body = q.rows[c].body /\ PutIn(i, StateFor(q.rows[c].status))
    BY <1>1 DEF MatchTrue
  <2>2. ~plan.refuses /\ b.at[i].state = StateFor(q.rows[c].status) /\ b.at[i].body = q.rows[c].body
    BY <1>c, <1>p, <2>1, PlanFacts
  <2>3. RidOf(link[c]) = q.known.rid
    BY <1>c, <1>6 DEF KnowsLink
  <2>4. Live(i, b.at)
    BY <1>2, <1>3, <2>1, <2>2
  <2>5. Kin(scenario.key[c], i)
    BY <1>1, <1>b, <1>n, <2>1, NullsAssumption DEF KinInvocation
  <2>6. AsListed(q, i) \/ Shunned(q, c, i)
    BY <1>0, <1>6, <1>b, <2>1, <2>4, <2>5 DEF ListingTrue, ListsTruly
  <2>7. ASSUME Shunned(q, c, i) PROVE FALSE
    <3>1. LedTo(q, c, i) => i \in q.owned
      <4>1. SUFFICES ASSUME LedTo(q, c, i) PROVE i \in q.owned
        OBVIOUS
      <4>2. PICK u \in Tasks \ q.todo : Contend(c, u) /\ RidOf(link[u]) = i
        BY <2>7, <4>1 DEF Shunned
      <4>3. Contend(u, c) /\ u # c
        BY <4>2, ContendSymmetric
      <4> QED BY <1>6, <1>c, <4>2, <4>3, NullsAssumption DEF SeesOwners
    <3>2. q.known.rid # i
      BY <2>3, <2>7 DEF Shunned
    <3>3. CASE b.ext[scenario.key[c]] = i /\ i \notin q.owned
      BY <1>b, <3>1, <3>3 DEF LedTo
    <3>4. CASE /\ scenario.declared[c] = i /\ Live(i, b.at) /\ i \notin q.owned
               /\ b.at[i].key \in {None, scenario.key[c]}
      <4>1. b.at[i].key # scenario.key[c]
        BY <1>b, <3>1, <3>4 DEF LedTo
      <4> QED BY <1>3, <2>2, <3>4, <4>1
    <3> QED BY <1>2, <2>1, <2>2, <3>2, <3>3, <3>4
  <2> QED BY <1>b, <2>2, <2>6, <2>7 DEF AsListed
<1>7. AnswerTrue(new)
  BY <1>1 DEF AnswerTrue
<1> QED BY <1>b, <1>c, <1>n, <1>4, <1>5, <1>6, <1>7 DEF Truthful

LEMMA ReadOwnersTruth ==
  ASSUME TypeInv, TypeInv', WriterInv, WriterInv', IssueInv, TruthInv, NEW p \in Projections, ReadOwners(p)
  PROVE  TruthInv'
<1>q. PICK q : q = proj[p]
  OBVIOUS
<1>c. PICK c \in Tasks : c = q.cur /\ c \in q.todo
  BY <1>q, InvocationFacts DEF ReadOwners
<1>0. /\ q \in Invocations /\ q.pc = "owners" /\ Briefed(q) /\ (Clear(c) => Knows(q))
      /\ ListingTrue(q) /\ KnowsRivals(q)
      /\ UNCHANGED <<scenario, link, issue, inb, raced, lost, kept>> /\ unread \subseteq unread'
  BY <1>q, <1>c, InvocationFacts DEF ReadOwners, TruthInv, Truthful
<1>1. PICK owned \in SUBSET Issues :
        /\ LET r == [q EXCEPT !.owned = owned]
           IN Proceed(p, IF r.boot = NoBoot THEN [r EXCEPT !.pc = "listing"] ELSE Planned(r, r.boot))
        /\ \/ owned = OwnedByOthers(c)
           \/ unread' = unread \cup {t \in Tasks : Contend(c, t)}
  <2> DEFINE Read(owned) ==
        LET r == [q EXCEPT !.owned = owned]
        IN Proceed(p, IF r.boot = NoBoot THEN [r EXCEPT !.pc = "listing"] ELSE Planned(r, r.boot))
  <2>1. \/ Read(OwnedByOthers(c))
        \/ Read({}) /\ unread' = unread \cup {t \in Tasks : Contend(c, t)}
    BY <1>q, <1>c DEF ReadOwners
  <2>2. OwnedByOthers(c) \subseteq Issues
    BY DEF OwnedByOthers, RidOf, TypeInv, Typed, Links
  <2> HIDE DEF Read
  <2>3. \E owned \in SUBSET Issues :
          Read(owned) /\ (\/ owned = OwnedByOthers(c)
                          \/ unread' = unread \cup {t \in Tasks : Contend(c, t)})
    BY <2>1, <2>2
  <2> QED BY <2>3 DEF Read
<1>r. PICK r : r = [q EXCEPT !.owned = owned]
  OBVIOUS
<1>2. /\ r \in Invocations /\ r.pc = "owners" /\ r.cur = c /\ r.todo = q.todo /\ r.known = q.known /\ r.rows = q.rows
      /\ r.boot = q.boot /\ r.owned = owned /\ r.boot \in Boots \cup {None}
  BY <1>0, <1>c, <1>r DEF Invocations
<1>3. Proceed(p, IF r.boot = NoBoot THEN [r EXCEPT !.pc = "listing"] ELSE Planned(r, r.boot))
  BY <1>1, <1>r
<1>4. Clear(c)' => Clear(c) /\ owned = OwnedByOthers(c)
  <2>1. Clear(c)' => Clear(c)
    BY <1>0 DEF Clear
  <2>2. Contend(c, c)
    BY ContendReflexive
  <2> QED BY <1>1, <2>1, <2>2 DEF Clear
<1>5. Pending(r) = Pending(q) /\ Pending(q) = q.todo /\ KnowsRivals(r) /\ ListingTrue(r)
  <2>1. Pending(r) = Pending(q) /\ Pending(q) = q.todo
    BY <1>0, <1>2 DEF Pending
  <2>2. KnowsRivals(r)
    BY <1>0, <1>2, <1>c DEF KnowsRivals, Goes
  <2>3. ListingTrue(r)
    BY <1>0, <1>2, <2>1, ListingLeft
  <2> QED BY <2>1, <2>2, <2>3
<1>6. CASE r.boot = NoBoot
  <2>0. PICK new : new = [r EXCEPT !.pc = "listing"]
    OBVIOUS
  <2>1. /\ proj' = [proj EXCEPT ![p] = new] /\ new.pc = "listing" /\ new.cur = c /\ new.todo = q.todo
        /\ new.known = q.known /\ new.boot = NoBoot
    BY <1>2, <1>3, <1>6, <2>0 DEF Proceed, Invocations
  <2>2. new \in Invocations /\ InHand(new)
    BY <2>1 DEF TypeInv, Typed
  <2>3. ListingTrue(new) /\ KnowsRivals(new)
    BY <1>0, <1>c, <2>1 DEF ListingTrue, KnowsRivals, Goes
  <2>4. Truthful(new)
    BY <2>1, <2>3 DEF Truthful, AnswerTrue, MatchTrue
  <2> QED BY <1>q, <1>0, <2>1, <2>2, <2>3, <2>4, GoesOnTruth
<1>7. CASE r.boot # NoBoot
  <2>0. PICK new : new = Planned(r, r.boot)
    OBVIOUS
  <2>1. proj' = [proj EXCEPT ![p] = new] /\ r.boot \in Boots
    BY <1>2, <1>3, <1>7, <2>0 DEF Proceed, NoBoot
  <2>2. new \in Invocations /\ InHand(new) /\ new.cur = c
    <3>1. new \in Invocations /\ InHand(new)
      BY <2>1 DEF TypeInv, Typed
    <3> QED BY <1>2, <2>0, <3>1 DEF Planned, Invocations
  <2>3. KinInvocation(new)
    <3>1. KinInvocation(new)'
      BY <2>1 DEF WriterInv, IssuesAreKin, TypeInv, Typed
    <3> QED BY <1>0, <3>1 DEF KinInvocation, Kin, KeyClaims, Claims, Live, NoBoot
  <2>4. Clear(r.cur) => KnowsLink(r)
    BY <1>0, <1>2, <1>c DEF Knows, KnowsLink
  <2>5. /\ BootLeads(r) /\ ListsTruly(r)
        /\ \A t, u \in r.todo : scenario.key[t] = scenario.key[u] => t = u
    BY <1>0, <1>2, <1>5, <1>7 DEF Briefed, BootLeads, ListingTrue
  <2>6. /\ ListingTrue(new) /\ KnowsRivals(new)
        /\ Clear(r.cur) /\ SeesOwners(r) => Truthful(new)
    BY <1>2, <1>5, <1>c, <2>0, <2>1, <2>3, <2>4, <2>5, PlannedTruth
  <2>7. Clear(c)' => Truthful(new)
    <3>1. SUFFICES ASSUME Clear(c)' PROVE Truthful(new)
      OBVIOUS
    <3> QED BY <1>2, <1>4, <2>6, <3>1, OwnersAreSeen
  <2>8. Clear(new.cur)' => Truthful(new)
    BY <2>2, <2>7
  <2>9. proj[p].pc \notin {"seed", "persist"}
    BY <1>q, <1>0
  <2> QED BY <1>0, <2>1, <2>2, <2>6, <2>8, <2>9, GoesOnTruth
<1> QED BY <1>6, <1>7

LEMMA FetchBootTruth ==
  ASSUME TypeInv, TypeInv', WriterInv, WriterInv', IssueInv, TruthInv, NEW p \in Projections, FetchBoot(p)
  PROVE  TruthInv'
<1>q. PICK q : q = proj[p]
  OBVIOUS
<1>c. PICK c \in Tasks : c = q.cur /\ c \in q.todo
  BY <1>q, InvocationFacts DEF FetchBoot
<1>0. /\ q \in Invocations /\ q.pc = "listing" /\ Briefed(q) /\ (Clear(c) => Knows(q)) /\ KnowsRivals(q)
      /\ UNCHANGED <<scenario, link, issue, inb, raced, unread, lost, kept>>
  BY <1>q, <1>c, InvocationFacts DEF FetchBoot, TruthInv, Truthful, history
<1>1. \A i \in Issues : Keyless(i) => KeylessInvocation(q, i)
  BY <1>q DEF WriterInv, KeylessIsUntouched
<1>2. PICK b \in Listings : Proceed(p, Planned(q, b))
  BY <1>q DEF FetchBoot
<1>3. b \in Boots
  BY ListingTypes DEF TypeInv
<1>r. PICK r : r = [q EXCEPT !.boot = b]
  OBVIOUS
<1>4. /\ r \in Invocations /\ r.pc = "listing" /\ r.cur = c /\ r.todo = q.todo /\ r.known = q.known
      /\ r.rows = q.rows /\ r.boot = b /\ r.owned = q.owned
  BY <1>0, <1>3, <1>c, <1>r DEF Invocations
<1>5. Planned(q, b) = Planned(r, b)
  <2>1. Plan(r, b) = Plan(q, b)
    BY <1>4, <1>c, SamePlan
  <2>2. PICK x : x = Plan(q, b)
    OBVIOUS
  <2>3. PICK boot : boot = IF q.todo = {c} THEN NoBoot ELSE b
    OBVIOUS
  <2>4. Planned(q, b) = [q EXCEPT !.pc = "upsert", !.plan = x, !.known = None, !.owned = {}, !.boot = boot]
    BY <1>c, <2>2, <2>3 DEF Planned
  <2>5. Planned(r, b) = [r EXCEPT !.pc = "upsert", !.plan = x, !.known = None, !.owned = {}, !.boot = boot]
    BY <1>4, <2>1, <2>2, <2>3 DEF Planned
  <2> QED BY <1>0, <1>r, <2>4, <2>5 DEF Invocations
<1>n. PICK new : new = Planned(r, b)
  OBVIOUS
<1>6. proj' = [proj EXCEPT ![p] = new]
  BY <1>2, <1>5, <1>n DEF Proceed
<1>7. new \in Invocations /\ InHand(new) /\ new.cur = c
  <2>1. new \in Invocations /\ InHand(new)
    BY <1>6 DEF TypeInv, Typed
  <2> QED BY <1>4, <1>n, <2>1 DEF Planned, Invocations
<1>8. KinInvocation(new)
  <2>1. KinInvocation(new)'
    BY <1>6 DEF WriterInv, IssuesAreKin, TypeInv, Typed
  <2> QED BY <1>0, <2>1 DEF KinInvocation, Kin, KeyClaims, Claims, Live, NoBoot
<1>9. \A t, u \in r.todo : scenario.key[t] = scenario.key[u] => t = u
  BY <1>0, <1>4 DEF Briefed
<1>10. BootLeads(r)
  <2>1. \A t \in r.todo, i \in Issues : Keyless(i) /\ scenario.declared[t] = i => r.rows[t].body # Prose
    BY <1>1, <1>4 DEF KeylessInvocation
  <2> QED BY <1>4, <1>9, <2>1, ListingOrderly
<1>11. ListsTruly(r)
  BY <1>4, FreshListing
<1>12. KnowsRivals(r)
  BY <1>0, <1>4, <1>c DEF KnowsRivals, Goes
<1>13. Clear(c) => KnowsLink(r) /\ SeesOwners(r)
  BY <1>0, <1>4, <1>c DEF Knows, KnowsLink, KnowsOwners, SeesOwners
<1>14. /\ ListingTrue(new) /\ KnowsRivals(new)
       /\ Clear(r.cur) /\ SeesOwners(r) => Truthful(new)
  BY <1>3, <1>4, <1>8, <1>9, <1>10, <1>11, <1>12, <1>13, <1>c, <1>n, PlannedTruth
<1>15. Clear(new.cur)' => Truthful(new)
  <2>1. Clear(c)' => Clear(c)
    BY <1>0 DEF Clear
  <2> QED BY <1>4, <1>7, <1>13, <1>14, <2>1
<1>16. proj[p].pc \notin {"seed", "persist"}
  BY <1>q, <1>0
<1> QED BY <1>0, <1>6, <1>7, <1>14, <1>15, <1>16, GoesOnTruth

\* What the batch has not written itself is still as its listing has it, or shunned.
LEMMA ListingKept ==
  ASSUME NEW q, NEW c \in q.todo, RowStep(c), NEW new, new.todo \subseteq q.todo, q.todo \subseteq Tasks,
         ListsTruly(q), NEW t \in Pending(q) \ {c}, NEW i \in Issues, new.boot.at[i] = q.boot.at[i],
         new.boot.ext[scenario.key[t]] = q.boot.ext[scenario.key[t]],
         Clear(t)', Kin(scenario.key[t], i)', Live(i, q.boot.at), Live(i, issue'), Unmoved(i)
  PROVE  AsListed(new, i)' \/ Shunned(new, t, i)'
<1>1. /\ UNCHANGED scenario /\ IssuesEvolve /\ Clear(t) /\ Live(i, issue) /\ t \in Tasks
      /\ \A u \in Tasks \ {c} : link'[u] = link[u]
      /\ \A u \in Tasks : Contend(t, u)' <=> Contend(t, u)
  BY DEF RowStep, Noted, Clear, Unmoved, Pending, Contend, KeyClaims, Claims
<1>2. PICK k : k = scenario.key[t]
  OBVIOUS
<1>3. Kin(scenario.key[t], i)
  <2>1. Kin(k, i)'
    BY <1>1, <1>2
  <2> QED BY <1>1, <1>2, <2>1, KinBefore
<1>4. AsListed(q, i) \/ Shunned(q, t, i)
  BY <1>1, <1>3 DEF ListsTruly
<1>5. ASSUME AsListed(q, i) PROVE AsListed(new, i)'
  <2>1. PICK s : s = q.boot.at[i].state
    OBVIOUS
  <2>2. PutIn(i, s)'
    BY <1>5, <2>1, PutInStable DEF AsListed
  <2> QED BY <1>5, <2>1, <2>2 DEF AsListed, Unmoved
<1>6. ASSUME Shunned(q, t, i) PROVE Shunned(new, t, i)'
  <2>1. RidOf(link'[t]) # i
    BY <1>1, <1>6 DEF Shunned
  <2>2. LedTo(new, t, i)' => LedTo(q, t, i)
    BY <1>1 DEF LedTo
  <2>3. ASSUME NEW u \in Tasks \ q.todo, Contend(t, u), RidOf(link[u]) = i
        PROVE  u \in Tasks \ new.todo /\ Contend(t, u)' /\ RidOf(link'[u]) = i
    BY <1>1, <2>3
  <2> QED BY <1>6, <2>1, <2>2, <2>3 DEF Shunned
<1> QED BY <1>4, <1>5, <1>6

\* What the write of i for row c leaves.
LEMMA WriteRowStep ==
  ASSUME TypeInv, NEW c \in Tasks, NEW i \in Issues, WroteFor(c, i), UNCHANGED <<link, kept>>
  PROVE  RowStep(c) /\ TakenFor(c, i) /\ Live(i, issue') /\ \A j \in Issues \ {i} : Unmoved(j)
<1>1. Live(i, issue') /\ TakenFor(c, i)
  <2>1. Live(i, issue') /\ issue'[i].key = scenario.key[c] /\ Kin(scenario.key[c], i)'
    BY DEF WroteFor, BoardStep, Noted, Keyed, Live
  <2>2. issue'[i].key # None
    BY <2>1, ScenarioType, NullsAssumption DEF TypeInv
  <2> QED BY <2>1, <2>2 DEF TakenFor, WroteFor, BoardStep, Noted, Clear
<1>2. \A j \in Issues \ {i} : Unmoved(j)
  BY DEF WroteFor, Unmoved, Live
<1> QED BY <1>1, <1>2 DEF RowStep, WroteFor, BoardStep

\* The write is answered: the listing of the batch has it.
LEMMA AnsweredTruth ==
  ASSUME TypeInv, TypeInv', WriterInv, WriterInv', IssueInv, TruthInv, NEW p \in Projections,
         proj[p].pc = "upsert", ~proj[p].plan.refuses, NEW i \in Targets(proj[p]),
         issue' = [issue EXCEPT ![i] = Projection(proj[p], i)], Answered(p, i, TRUE),
         UNCHANGED <<scenario, task, link, inb, raced, unread, lost, kept>>
  PROVE  TruthInv'
<1>q. PICK q : q = proj[p]
  OBVIOUS
<1>c. PICK c \in Tasks : c = q.cur
  BY <1>q, UpsertFacts
<1>0. /\ q \in Invocations /\ c \in q.todo /\ q.todo \subseteq Tasks /\ q.plan \in Plans /\ InHand(q)
      /\ Briefed(q) /\ q.pc = "upsert" /\ ~q.plan.refuses /\ ListingTrue(q) /\ i \in Issues
  BY <1>q, <1>c, UpsertFacts, InvocationFacts DEF TruthInv, Truthful, Targets
<1>1. WroteFor(c, i)
  BY <1>q, <1>c, <1>0, WriteFacts
<1>2. RowStep(c) /\ TakenFor(c, i) /\ Live(i, issue') /\ \A j \in Issues \ {i} : Unmoved(j)
  BY <1>0, <1>1, WriteRowStep
<1>3. PICK new \in Invocations :
        InHand(new) /\ proj' = [proj EXCEPT ![p] = new] /\ HasAnswer(q, i, TRUE, new)
  BY <1>q, <1>0, AnsweredTypes DEF TypeInv
<1>4. /\ new.pc \in {"seed", "persist"} /\ new.todo = q.todo /\ new.rows = q.rows /\ new.cur = c
      /\ new.plan.target = i /\ new.plan.seeded = q.plan.seeded
      /\ q.boot = NoBoot => new.boot = NoBoot
  BY <1>0, <1>c, <1>3 DEF HasAnswer, Plans
<1>5. PICK x : x = Projection(q, i)
  OBVIOUS
<1>6. /\ issue'[i] = x /\ x.body = SentBody(new) /\ x.state = StateFor(q.rows[c].status)
  <2>1. SentBody(new) = SentBody(q)
    BY <1>4, <1>c DEF SentBody
  <2>2. issue'[i] = x
    BY <1>q, <1>5, <1>0 DEF TypeInv, Typed, Snapshots
  <2> QED BY <1>5, <1>c, <2>1, <2>2 DEF Projection
<1>7. q.boot # NoBoot =>
        /\ new.boot.at[i] = x /\ \A j \in Issues \ {i} : new.boot.at[j] = q.boot.at[j]
        /\ \A t \in q.todo \ {c} : new.boot.ext[scenario.key[t]] = q.boot.ext[scenario.key[t]]
  <2>1. SUFFICES ASSUME q.boot # NoBoot
                 PROVE  /\ new.boot.at[i] = x /\ \A j \in Issues \ {i} : new.boot.at[j] = q.boot.at[j]
                        /\ \A t \in q.todo \ {c} : new.boot.ext[scenario.key[t]] = q.boot.ext[scenario.key[t]]
    OBVIOUS
  <2>2. q.boot \in Boots
    BY <1>0, <2>1 DEF Invocations, NoBoot
  <2>3. new.boot = [at |-> [q.boot.at EXCEPT ![i] = x], ext |-> [q.boot.ext EXCEPT ![scenario.key[c]] = i]]
    BY <1>c, <1>3, <1>5, <2>1 DEF HasAnswer
  <2>4. \A t \in q.todo \ {c} : scenario.key[t] # scenario.key[c] /\ scenario.key[t] \in Keys
    BY <1>0, ScenarioType DEF Briefed, TypeInv
  <2> QED BY <1>0, <2>2, <2>3, <2>4 DEF Boots, Snapshots
<1>8. Pending(new)' = q.todo \ {c} /\ Pending(q) = q.todo \ {c} /\ NoBoot' = NoBoot
      /\ (new.boot # NoBoot => q.boot # NoBoot)
  BY <1>0, <1>4, <1>c DEF Pending, NoBoot
<1>9. ListingTrue(new)'
  <2>1. SUFFICES ASSUME q.boot # NoBoot, NEW t \in q.todo \ {c}, NEW j \in Issues, Clear(t)',
                        Kin(scenario.key[t], j)', Live(j, new.boot.at), Live(j, issue')
                 PROVE  AsListed(new, j)' \/ Shunned(new, t, j)'
    BY <1>8 DEF ListingTrue, ListsTruly, Live
  <2>2. CASE j = i
    BY <1>6, <1>7, <2>1, <2>2 DEF AsListed, PutIn
  <2>3. CASE j # i
    <3>1. /\ new.boot.at[j] = q.boot.at[j] /\ Live(j, q.boot.at) /\ Unmoved(j)
          /\ new.boot.ext[scenario.key[t]] = q.boot.ext[scenario.key[t]]
      BY <1>2, <1>7, <2>1, <2>3 DEF Live
    <3>2. ListsTruly(q) /\ t \in Pending(q) \ {c} /\ new.todo \subseteq q.todo
      BY <1>0, <1>4, <1>8, <2>1 DEF ListingTrue
    <3> QED BY <1>0, <1>2, <2>1, <3>1, <3>2, ListingKept
  <2> QED BY <2>2, <2>3
<1>10. AnswerTrue(new)'
  <2>1. PICK s : s = StateFor(q.rows[c].status)
    OBVIOUS
  <2>2. issue'[i].body = SentBody(new) /\ PutIn(i, s)'
    BY <1>6, <2>1 DEF PutIn
  <2>3. SentBody(new)' = SentBody(new) /\ s = StateFor(new.rows[new.cur].status)'
    BY <1>4, <2>1 DEF SentBody, StateFor
  <2> QED BY <1>4, <2>2, <2>3 DEF AnswerTrue
<1>11. Truthful(new)'
  BY <1>4, <1>9, <1>10 DEF Truthful, MatchTrue, KnowsRivals, Goes
<1>12. Busy(c)'
  <2>1. proj'[p] = new
    BY <1>3 DEF TypeInv, Typed
  <2> QED BY <1>4, <2>1 DEF Busy
<1>13. proj[p].pc \notin {"seed", "persist"} /\ c \in proj[p].todo
  BY <1>q, <1>0
<1> QED BY <1>2, <1>3, <1>11, <1>12, <1>13, ProjectorTruth

\* The write is done and its answer is lost: the batch goes on without knowing of it, and
\* shuns the issue.
LEMMA UnansweredTruth ==
  ASSUME TypeInv, TypeInv', WriterInv, WriterInv', IssueInv, TruthInv, NEW p \in Projections,
         proj[p].pc = "upsert", ~proj[p].plan.refuses, NEW i \in Targets(proj[p]),
         issue' = [issue EXCEPT ![i] = Projection(proj[p], i)], Finish(p),
         UNCHANGED <<scenario, task, link, inb, raced, unread, kept>>, lost' = lost \cup {proj[p].cur}
  PROVE  TruthInv'
<1>q. PICK q : q = proj[p]
  OBVIOUS
<1>c. PICK c \in Tasks : c = q.cur
  BY <1>q, UpsertFacts
<1>0. /\ q \in Invocations /\ c \in q.todo /\ q.todo \subseteq Tasks /\ Briefed(q) /\ q.pc = "upsert"
      /\ ~q.plan.refuses /\ ListingTrue(q) /\ KnowsRivals(q) /\ i \in Issues
      /\ \A t \in Tasks : scenario.key[t] \in Keys
  BY <1>q, <1>c, UpsertFacts, InvocationFacts, ScenarioType DEF TruthInv, Truthful, Targets, TypeInv
<1>1. WroteFor(c, i) /\ lost \subseteq lost'
  BY <1>q, <1>c, <1>0, WriteFacts
<1>2. RowStep(c) /\ TakenFor(c, i) /\ Live(i, issue') /\ \A j \in Issues \ {i} : Unmoved(j)
  BY <1>0, <1>1, WriteRowStep
<1>3. PICK new \in Invocations :
        /\ InHand(new) /\ proj' = [proj EXCEPT ![p] = new]
        /\ new.pc \in {"idle", "link"} /\ new.todo = q.todo \ {c}
        /\ new.boot \in {NoBoot, q.boot}
  BY <1>q, <1>c, FinishFacts
<1>4. Pending(new)' = q.todo \ {c} /\ Pending(q) = q.todo \ {c} /\ NoBoot' = NoBoot
  BY <1>0, <1>3, <1>c DEF Pending, NoBoot
<1>5. ListingTrue(new)'
  <2>1. SUFFICES ASSUME q.boot # NoBoot, new.boot = q.boot, NEW t \in q.todo \ {c}, NEW j \in Issues,
                        Clear(t)', Kin(scenario.key[t], j)', Live(j, q.boot.at), Live(j, issue')
                 PROVE  AsListed(new, j)' \/ Shunned(new, t, j)'
    BY <1>3, <1>4 DEF ListingTrue, ListsTruly, Live
  <2>2. CASE j # i
    <3>1. ListsTruly(q) /\ t \in Pending(q) \ {c} /\ new.todo \subseteq q.todo
      BY <1>0, <1>3, <1>4, <2>1 DEF ListingTrue
    <3>2. Unmoved(j)
      BY <1>2, <2>2
    <3> QED BY <1>0, <1>2, <2>1, <3>1, <3>2, ListingKept
  <2>3. CASE j = i
    <3>1. Clear(t) /\ t \in Tasks /\ RidOf(link'[t]) # i
      BY <1>0, <1>2, <2>1 DEF Clear, TakenFor
    <3>2. Contend(t, c)
      <4>1. Contend(t, c)'
        BY <1>2, <2>1, <2>3 DEF TakenFor, Kin, Contend, Live
      <4> QED BY <4>1 DEF Contend, KeyClaims, Claims
    <3>3. SUFFICES ASSUME LedTo(q, t, i)
                   PROVE  c \in Tasks \ new.todo /\ Contend(t, c)' /\ RidOf(link'[c]) = i
      BY <2>1, <2>3, <3>1 DEF Shunned, LedTo
    <3>4. CASE q.plan.target = i
      <4>1. RidOf(link[c]) = i
        BY <1>0, <1>c, <2>1, <2>3, <3>1, <3>2, <3>3, <3>4 DEF KnowsRivals, Goes
      <4> QED BY <1>3, <3>2, <4>1 DEF Contend, KeyClaims, Claims
    <3>5. CASE q.plan.target = None
      <4>1. i \notin Written
        BY <1>q, <3>5 DEF Targets
      <4>2. issue'[i].key = scenario.key[c] /\ issue'[i].key = scenario.key[t]
        BY <1>1, <2>1, <2>3, <4>1 DEF WroteFor, Keyed, Kin, Live
      <4> QED BY <1>0, <2>1, <4>2 DEF Briefed
    <3> QED BY <1>q, <3>4, <3>5 DEF Targets
  <2> QED BY <2>2, <2>3
<1>6. Truthful(new)'
  BY <1>3, <1>5 DEF Truthful, AnswerTrue, MatchTrue, KnowsRivals, Goes
<1>7. ~Settled(c)'
  BY <1>q, <1>c DEF Settled
<1>8. proj[p].pc \notin {"seed", "persist"} /\ c \in proj[p].todo
  BY <1>q, <1>0
<1> QED BY <1>2, <1>3, <1>6, <1>7, <1>8, ProjectorTruth

\* The issue is left as it is, for it matches the row.
LEMMA SameTruth ==
  ASSUME TypeInv, TypeInv', WriterInv, WriterInv', IssueInv, TruthInv, NEW p \in Projections,
         proj[p].pc = "upsert", proj[p].plan.same, Answered(p, proj[p].plan.target, FALSE),
         issue' = [issue EXCEPT ![proj[p].plan.target] =
                     IF Live(proj[p].plan.target, issue) THEN [@ EXCEPT !.taker = proj[p].cur] ELSE @],
         UNCHANGED <<scenario, task, link, inb, raced, unread, lost, kept>>
  PROVE  TruthInv'
<1>q. PICK q : q = proj[p]
  OBVIOUS
<1>c. PICK c \in Tasks, i \in Issues : c = q.cur /\ i = q.plan.target
  BY <1>q, UpsertFacts
<1>0. /\ q \in Invocations /\ c \in q.todo /\ q.todo \subseteq Tasks /\ q.plan \in Plans /\ InHand(q)
      /\ KinInvocation(q) /\ q.pc = "upsert" /\ q.plan.same /\ q.plan.seeded = None /\ ~q.plan.refuses
      /\ Truthful(q)
  BY <1>q, <1>c, UpsertFacts DEF TruthInv, TypeInv, Typed, Invocations
<1>2. PICK new \in Invocations :
        InHand(new) /\ proj' = [proj EXCEPT ![p] = new] /\ HasAnswer(q, i, FALSE, new)
  BY <1>q, <1>c, <1>0, AnsweredTypes DEF TypeInv
<1>3. /\ new.pc \in {"seed", "persist"} /\ new.todo = q.todo /\ new.rows = q.rows /\ new.cur = c
      /\ new.plan.target = i /\ new.plan.seeded = None /\ new.boot = q.boot
  BY <1>0, <1>c, <1>2 DEF HasAnswer, Plans
<1>4. ASSUME NEW j \in Issues
      PROVE  /\ issue'[j] = Unborn <=> issue[j] = Unborn
             /\ Live(j, issue') <=> Live(j, issue)
             /\ Live(j, issue) => /\ issue'[j].key = issue[j].key /\ issue'[j].body = issue[j].body
                                  /\ issue'[j].by = issue[j].by /\ issue'[j].state = issue[j].state
  <2>1. CASE j = i /\ Live(i, issue)
    <3>1. issue[i] \in IssueRows
      BY <2>1, LiveIsRow DEF TypeInv, Typed
    <3>2. issue'[i] = [issue[i] EXCEPT !.taker = c]
      BY <1>q, <1>c, <2>1 DEF TypeInv, Typed, Snapshots
    <3>3. /\ issue'[i] \in IssueRows /\ issue'[i].key = issue[i].key /\ issue'[i].body = issue[i].body
          /\ issue'[i].by = issue[i].by /\ issue'[i].state = issue[i].state
      BY <3>1, <3>2 DEF IssueRows
    <3> QED BY <2>1, <3>1, <3>3, NullsAssumption DEF Live
  <2>2. CASE ~(j = i /\ Live(i, issue))
    <3>1. issue'[j] = issue[j]
      BY <1>q, <1>c, <2>2 DEF TypeInv, Typed, Snapshots
    <3> QED BY <3>1 DEF Live
  <2> QED BY <2>1, <2>2
<1>5. BoardRests
  <2>1. IssuesEvolve
    BY <1>4 DEF IssuesEvolve, Keyless
  <2>2. \A j \in Issues : Unmoved(j)
    BY <1>4 DEF Unmoved
  <2> QED BY <2>1, <2>2 DEF BoardRests, Noted
<1>6. Truthful(q)'
  <2>1. RowStep(None) /\ None \notin Tasks
    BY <1>5, RestingStep
  <2>2. ListingTrue(q) /\ KnowsRivals(q)
    BY <1>0 DEF Truthful
  <2> QED BY <1>0, <2>1, <2>2, TruthfulStable
<1>7. ListingTrue(new)'
  <2>1. Pending(new)' = Pending(q)'
    BY <1>0, <1>3, <1>c DEF Pending
  <2>2. ListingTrue(q)'
    BY <1>6 DEF Truthful
  <2>3. SUFFICES ASSUME ListsTruly(q)' PROVE ListsTruly(new)'
    BY <1>3, <2>2 DEF ListingTrue, NoBoot
  <2>4. ASSUME NEW t \in Tasks, NEW j \in Issues
        PROVE  /\ AsListed(new, j)' <=> AsListed(q, j)'
               /\ Shunned(new, t, j)' <=> Shunned(q, t, j)'
    BY <1>3 DEF AsListed, Shunned, LedTo
  <2>5. Pending(new)' \subseteq Tasks /\ new.boot = q.boot
    BY <1>0, <1>3 DEF Pending
  <2> QED BY <2>1, <2>3, <2>4, <2>5 DEF ListsTruly
<1>8. AnswerTrue(new)'
  <2>1. SUFFICES ASSUME Clear(c)', Live(i, issue')
                 PROVE  issue'[i].body = SentBody(new) /\ PutIn(i, StateFor(new.rows[c].status))'
    BY <1>3 DEF AnswerTrue, SentBody, Live
  <2>2. PICK s : s = StateFor(q.rows[c].status)
    OBVIOUS
  <2>3. issue'[i].body = q.rows[c].body /\ PutIn(i, StateFor(q.rows[c].status))'
    BY <1>0, <1>6, <1>c, <2>1 DEF Truthful, MatchTrue
  <2>4. SentBody(new) = q.rows[c].body
    BY <1>3 DEF SentBody
  <2> QED BY <1>3, <2>3, <2>4
<1>9. Truthful(new)'
  BY <1>3, <1>7, <1>8 DEF Truthful, MatchTrue, KnowsRivals, Goes
<1>10. proj[p].pc \notin {"seed", "persist"}
  BY <1>q, <1>0
<1> QED BY <1>2, <1>5, <1>9, <1>10, QuietTruth

\* The row is done without a write.
LEMMA FinishQuietTruth ==
  ASSUME TypeInv, TypeInv', WriterInv, WriterInv', TruthInv, NEW p \in Projections,
         proj[p].pc = "upsert", Finish(p), UNCHANGED <<scenario, link, issue, inb, raced, unread, lost, kept>>
  PROVE  TruthInv'
<1>q. PICK q : q = proj[p]
  OBVIOUS
<1>1. PICK new \in Invocations :
        /\ InHand(new) /\ proj' = [proj EXCEPT ![p] = new]
        /\ new.pc \in {"idle", "link"} /\ new.todo = q.todo \ {q.cur}
        /\ new.boot \in {NoBoot, q.boot}
  BY <1>q, FinishFacts
<1>2. ListingTrue(q) /\ Pending(new) \subseteq Pending(q)
  BY <1>q, <1>1 DEF TruthInv, Truthful, Pending
<1>3. ListingTrue(new)
  BY <1>1, <1>2, ListingLeft
<1>4. Truthful(new) /\ KnowsRivals(new)
  BY <1>1, <1>3, EarlyTruth
<1> QED BY <1>1, <1>3, <1>4, GoesOnTruth

LEMMA UpsertTruth ==
  ASSUME TypeInv, TypeInv', WriterInv, WriterInv', IssueInv, TruthInv, NEW p \in Projections, Upsert(p)
  PROVE  TruthInv'
<1> DEFINE q == proj[p]
<1>1. q.pc = "upsert" /\ UNCHANGED <<scenario, task, link, inb, raced, unread, kept>>
  BY DEF Upsert
<1>2. ASSUME ~q.plan.refuses, NEW i \in Targets(q), issue' = [issue EXCEPT ![i] = Projection(q, i)],
             \/ Answered(p, i, TRUE) /\ UNCHANGED lost
             \/ Finish(p) /\ lost' = lost \cup {q.cur}
      PROVE  TruthInv'
  BY <1>1, <1>2, AnsweredTruth, UnansweredTruth
<1>3. ASSUME q.plan.same, Answered(p, q.plan.target, FALSE), UNCHANGED lost,
             issue' = [issue EXCEPT ![q.plan.target] = IF Live(q.plan.target, issue)
                                                       THEN [@ EXCEPT !.taker = q.cur] ELSE @]
      PROVE  TruthInv'
  BY <1>1, <1>3, SameTruth
<1>4. ASSUME Finish(p), UNCHANGED <<issue, lost>> PROVE TruthInv'
  BY <1>1, <1>4, FinishQuietTruth
<1> QED BY <1>2, <1>3, <1>4 DEF Upsert

LEMMA SeedTruth ==
  ASSUME TypeInv, TypeInv', WriterInv, WriterInv', TruthInv, NEW p \in Projections, Seed(p)
  PROVE  TruthInv'
<1>q. PICK q : q = proj[p]
  OBVIOUS
<1>0. /\ q \in Invocations /\ q.pc = "seed" /\ Truthful(q) /\ lost \subseteq lost'
      /\ UNCHANGED <<scenario, link, issue, inb, raced, unread, kept>>
  BY <1>q DEF Seed, TypeInv, Typed, TruthInv
<1>1. PICK new : new = [q EXCEPT !.pc = "persist"]
  OBVIOUS
<1>2. /\ proj' = [proj EXCEPT ![p] = new] /\ new.pc = "persist" /\ new.todo = q.todo /\ new.rows = q.rows
      /\ new.boot = q.boot /\ new.cur = q.cur /\ new.plan = q.plan
  BY <1>q, <1>0, <1>1 DEF Seed, Proceed, Invocations
<1>3. new \in Invocations /\ InHand(new)
  BY <1>2 DEF TypeInv, Typed
<1>4. ListingTrue(new)
  <2>1. ListingTrue(q) /\ Pending(new) \subseteq Pending(q)
    BY <1>0, <1>2 DEF Truthful, Pending
  <2> QED BY <1>2, <2>1, ListingLeft
<1>5. AnswerTrue(new)
  BY <1>0, <1>2 DEF Truthful, AnswerTrue, SentBody
<1>6. Truthful(new) /\ KnowsRivals(new)
  BY <1>2, <1>4, <1>5 DEF Truthful, MatchTrue, KnowsRivals, Goes
<1>7. new.pc \in {"seed", "persist"} /\ new.cur = proj[p].cur
  BY <1>q, <1>2
<1> QED BY <1>0, <1>2, <1>3, <1>4, <1>6, <1>7, GoesOnTruth

\* The state that is chosen for a status is of its group.
LEMMA StateOfGroup ==
  ASSUME NEW s \in BrainStatuses, StateFor(s) # None
  PROVE  StateFor(s) \in Board /\ StateType[StateFor(s)] = GroupOf(s)
<1> DEFINE named == {x \in Board : x = PreferredName(s)}
           ofType == {x \in Board : StateType[x] = GroupOf(s)}
<1>1. \E x \in Board \cup {None} : IF named # {} THEN x \in named
                                   ELSE IF ofType # {} THEN x \in ofType ELSE x = None
  OBVIOUS
<1>2. StateFor(s) = CHOOSE x \in Board \cup {None} : IF named # {} THEN x \in named
                                   ELSE IF ofType # {} THEN x \in ofType ELSE x = None
  BY DEF StateFor
<1>3. /\ StateFor(s) \in Board \cup {None}
      /\ IF named # {} THEN StateFor(s) \in named
         ELSE IF ofType # {} THEN StateFor(s) \in ofType ELSE StateFor(s) = None
  <2> HIDE DEF named, ofType
  <2> QED BY <1>1, <1>2
<1>4. s \in {"backlog", "ready", "in_progress", "in_review", "blocked", "done"}
  BY PmAssumption DEF BrainStatuses
<1>5. StateType[PreferredName(s)] = GroupOf(s)
  BY <1>4 DEF PreferredName, GroupOf, StateType
<1> QED BY <1>3, <1>5

\* The link records what has been answered; or the record is lost.
LEMMA PersistTruth ==
  ASSUME TypeInv, TypeInv', WriterInv, WriterInv', TruthInv, NEW p \in Projections, Persist(p)
  PROVE  TruthInv'
<1>q. PICK q : q = proj[p]
  OBVIOUS
<1>0. /\ q \in Invocations /\ q.pc = "persist" /\ q.todo \subseteq Tasks /\ q.cur \in q.todo
      /\ q.plan \in Plans /\ q.plan.target \in Issues /\ link \in [Tasks -> Links \cup {None}]
      /\ Truthful(q) /\ q.rows \in [Tasks -> Rows] /\ Finish(p)
      /\ UNCHANGED <<scenario, task, issue, inb, raced, unread, kept>>
  BY <1>q DEF Persist, TypeInv, Typed, Invocations, InHand, AtWork, TruthInv
<1>c. PICK c \in q.todo, i \in Issues : c = q.cur /\ i = q.plan.target
  BY <1>0
<1>s. PICK s \in BrainStatuses : s = q.rows[c].status
  BY <1>0 DEF Rows
<1>1. \/ UNCHANGED lost /\ link' = [link EXCEPT ![c] = Recorded(q)]
      \/ UNCHANGED link /\ lost' = lost \cup {c}
  BY <1>q, <1>c DEF Persist
<1>2. RowStep(c)
  <2>1. \A t \in Tasks : t # c => link'[t] = link[t]
    BY <1>0, <1>1
  <2>2. \A j \in Issues : Unmoved(j)
    BY <1>0 DEF Unmoved, Live
  <2> QED BY <1>0, <1>1, <2>1, <2>2, SameIssuesEvolve DEF RowStep, Noted
<1>3. PICK new \in Invocations :
        /\ InHand(new) /\ proj' = [proj EXCEPT ![p] = new]
        /\ new.pc \in {"idle", "link"} /\ new.todo = q.todo \ {c}
        /\ new.boot \in {NoBoot, q.boot}
  BY <1>q, <1>c, <1>0, FinishFacts
<1>4. Pending(new)' = q.todo \ {c} /\ Pending(q) = q.todo \ {c} /\ NoBoot' = NoBoot
  BY <1>0, <1>3, <1>c DEF Pending, NoBoot
<1>5. ListingTrue(new)'
  <2>1. SUFFICES ASSUME q.boot # NoBoot, new.boot = q.boot, NEW t \in q.todo \ {c}, NEW j \in Issues,
                        Clear(t)', Kin(scenario.key[t], j)', Live(j, q.boot.at), Live(j, issue')
                 PROVE  AsListed(new, j)' \/ Shunned(new, t, j)'
    BY <1>3, <1>4 DEF ListingTrue, ListsTruly, Live
  <2>2. ListsTruly(q) /\ t \in Pending(q) \ {c} /\ new.todo \subseteq q.todo
    BY <1>0, <1>3, <1>4, <2>1 DEF Truthful, ListingTrue
  <2>3. Unmoved(j)
    BY <1>0 DEF Unmoved, Live
  <2> QED BY <1>0, <1>2, <2>1, <2>2, <2>3, ListingKept
<1>6. Truthful(new)'
  BY <1>3, <1>5 DEF Truthful, AnswerTrue, MatchTrue, KnowsRivals, Goes
<1>7. ASSUME Settled(c)' PROVE LinkTrue(c)'
  <2>1. /\ Clear(c) /\ link'[c] = Recorded(q)
    BY <1>0, <1>1, <1>7 DEF Settled, Clear
  <2>2. Recorded(q) \in Links /\ Recorded(q).rid = i
    BY <1>0, <1>c, RecordedTypes
  <2>3. PICK x : x = SentBody(q)
    OBVIOUS
  <2>4. PICK y : y = StateFor(s)
    OBVIOUS
  <2>5. Recorded(q).fp = <<GroupOf(s), x>> /\ Recorded(q).lps = y
    BY <1>c, <1>s, <2>3, <2>4 DEF Recorded, Fingerprint
  <2>6. PICK l \in Links : l = Recorded(q)
    BY <2>2
  <2>7. /\ link'[c] = l /\ l.rid = i /\ l.fp[2] = x /\ l.fp[1] = GroupOf(s) /\ l.lps = y /\ l # None
        /\ RidOf(l) = i
    BY <2>1, <2>2, <2>5, <2>6, NullsAssumption DEF RidOf
  <2>8. ASSUME Live(i, issue)
        PROVE  /\ issue[i].body = x /\ PutIn(i, y)
               /\ issue[i].by = "person" \/ StateType[issue[i].state] = GroupOf(s)
    <3>1. issue[i].body = x /\ PutIn(i, y)
      BY <1>0, <1>c, <1>s, <2>1, <2>3, <2>4, <2>8 DEF Truthful, AnswerTrue
    <3>2. issue[i].state \in Board
      <4>1. issue[i] \in IssueRows
        BY <2>8, LiveIsRow DEF TypeInv, Typed
      <4> QED BY <4>1 DEF IssueRows
    <3>3. issue[i].state # None
      BY <3>2, PmAssumption, NullsAssumption
    <3>4. y # None => StateType[y] = GroupOf(s)
      BY <2>4, StateOfGroup
    <3> QED BY <3>1, <3>3, <3>4 DEF PutIn
  <2> QED BY <1>0, <2>7, <2>8 DEF LinkTrue, PutIn, Live
<1> QED BY <1>q, <1>0, <1>c, <1>2, <1>3, <1>6, <1>7, ProjectorTruth

\* What was answered and not recorded is lost.
LEMMA CrashTruth ==
  ASSUME TypeInv, TypeInv', WriterInv, TruthInv, Crash
  PROVE  TruthInv'
<1>1. /\ UNCHANGED <<scenario, link, issue, raced, unread, kept>> /\ inb' = IdlePass
      /\ proj' = [p \in Projections |-> IdleProjection]
      /\ lost' = lost \cup {proj[p].cur : p \in {p \in Projections : proj[p].pc \in {"seed", "persist"}}}
  BY DEF Crash
<1>2. None \in Tasks \cup {None} /\ None \notin Tasks /\ Projections \in SUBSET Projections
  BY NullsAssumption
<1>3. RowStep(None)
  <2>1. BoardRests
    BY <1>1, SameBoardRests
  <2> QED BY <2>1, RestingStep
<1>4. Apart(None, Projections)
  BY DEF Apart
<1>5. \A p \in Projections : Truthful(proj[p])'
  <2>1. PICK idle : idle = IdleProjection
    OBVIOUS
  <2>2. Truthful(idle)'
    BY <2>1, IdleTruth
  <2>3. \A p \in Projections : proj'[p] = idle
    BY <1>1, <2>1
  <2> QED BY <2>2, <2>3
<1>6. \A t \in Tasks : Busy(t) => ~Settled(t)'
  BY <1>1 DEF Busy, Settled
<1>7. PassTrue' /\ AdoptionTrue'
  <2>1. inb'.pc = "idle"
    BY <1>1 DEF IdlePass
  <2>2. \A j \in Issues : Keyless(j)' => issue'[j].by = "person"
    BY <1>1 DEF TruthInv, AdoptionTrue, Keyless, Live
  <2> QED BY <2>1, <2>2 DEF PassTrue, AdoptionTrue
<1> QED BY <1>2, <1>3, <1>4, <1>5, <1>6, <1>7, TruthStep

LEMMA StartingTruth ==
  ASSUME TypeInv, TypeInv', WriterInv, WriterInv', TruthInv, NEW p \in Projections,
         \/ \E t \in Tasks : Callback(p, t)
         \/ \E j \in Projects : ProjectBoard(p, j)
  PROVE  TruthInv'
<1>1. UNCHANGED <<scenario, link, issue, inb, unread, lost, kept>>
  BY DEF Callback, ProjectBoard
<1>2. \E T : Begin(p, T, "link") \/ Begin(p, T, "prepare")
  <2>1. CASE \E t \in Tasks : Callback(p, t)
    BY <2>1 DEF Callback
  <2>2. CASE \E j \in Projects : ProjectBoard(p, j)
    BY <2>2 DEF ProjectBoard
  <2> QED BY <2>1, <2>2
<1> QED BY <1>1, <1>2, BeginTruth

-----------------------------------------------------------------------------
(* Members, people and the pass *)

LEMMA EditTruth ==
  ASSUME TypeInv, TypeInv', WriterInv, TruthInv, NEW t \in Tasks, Edit(t)
  PROVE  TruthInv'
<1>1. UNCHANGED <<scenario, link, issue, proj, inb, raced, lost, unread, kept>>
  BY DEF Edit, history
<1>2. BoardRests
  BY <1>1, SameBoardRests
<1>3. PassTrue' /\ AdoptionTrue'
  BY <1>1, <1>2, RestingStep, PassStays DEF TruthInv
<1> QED BY <1>1, <1>2, <1>3, ElsewhereTruth

LEMMA MoveTruth ==
  ASSUME TypeInv, TypeInv', WriterInv, TruthInv, NEW i \in Issues, Move(i)
  PROVE  TruthInv'
<1>1. /\ UNCHANGED <<scenario, task, link, proj, inb, raced, unread, lost, kept>> /\ IssuesEvolve
      /\ \A j \in Issues : Live(j, issue') =>
           /\ Live(j, issue) /\ issue'[j].key = issue[j].key /\ issue'[j].taker = issue[j].taker
           /\ issue'[j].body = issue[j].body /\ (issue'[j].by = "person" \/ issue'[j] = issue[j])
  BY MoveLeaves
<1>2. BoardRests
  BY <1>1 DEF BoardRests, Noted, Unmoved
<1>3. PassTrue' /\ AdoptionTrue'
  BY <1>1, <1>2, RestingStep, PassStays DEF TruthInv
<1> QED BY <1>1, <1>2, <1>3, ElsewhereTruth

\* A step of the pass that writes neither links nor issues.
LEMMA QuietPassTruth ==
  ASSUME TypeInv, TypeInv', WriterInv, TruthInv, UNCHANGED <<scenario, link, issue, proj, lost, unread, kept>>,
         raced \subseteq raced', PassTrue',
         inb'.pc \in {"fetched", "adopting", "mirror"} =>
           \A i \in Issues : Live(i, inb'.seen) /\ inb'.seen[i].key = None => inb'.seen[i].body = Prose,
         inb'.pc # "footer"
  PROVE  TruthInv'
<1>1. BoardRests
  BY SameBoardRests
<1>2. \A i \in Issues : Keyless(i)' => issue'[i].by = "person"
  BY DEF TruthInv, AdoptionTrue, Keyless, Live
<1>3. AdoptionTrue'
  BY <1>2 DEF AdoptionTrue, Live
<1> QED BY <1>1, <1>3, ElsewhereTruth

LEMMA LoadingTruth ==
  ASSUME TypeInv, TypeInv', WriterInv, TruthInv, StartPass \/ LoadLinks \/ LoadTasks \/ EndPass
  PROVE  TruthInv'
<1>1. UNCHANGED <<scenario, link, issue, proj, lost, unread, kept>> /\ raced \subseteq raced'
  BY DEF StartPass, LoadLinks, LoadTasks, EndPass, history
<1>2. inb'.pc \notin {"fetched", "adopting", "mirror", "footer"}
  <2>1. CASE StartPass \/ EndPass
    <3>1. IdlePass.pc = "idle" /\ [IdlePass EXCEPT !.pc = "listed", !.seen = issue].pc = "listed"
      BY DEF IdlePass
    <3> QED BY <2>1, <3>1 DEF StartPass, EndPass, Continue
  <2>2. CASE LoadLinks \/ LoadTasks
    BY <2>2 DEF LoadLinks, LoadTasks, Continue, TypeInv, Typed, Passes
  <2> QED BY <2>1, <2>2
<1>3. CASE StartPass
  <2>1. inb'.seen = issue /\ raced' = raced \cup Meet(Tasks, Projected)
    <3>1. [IdlePass EXCEPT !.pc = "listed", !.seen = issue].seen = issue
      BY DEF IdlePass
    <3> QED BY <1>3, <3>1 DEF StartPass, Continue
  <2>2. ASSUME NEW t \in Tasks, Settled(t)' PROVE LinkTrue(t)
    <3>1. t \notin Projected
      BY <1>1, <2>1, <2>2, ContendReflexive DEF Meet, Settled
    <3>2. ~Busy(t)
      BY <3>1 DEF Busy, Projected, TypeInv, InHand, AtWork
    <3>3. Settled(t)
      BY <1>1, <2>2 DEF Settled
    <3> QED BY <3>2, <3>3 DEF TruthInv, LinksAreTrue
  <2>3. PassTrue'
    BY <1>1, <2>1, <2>2 DEF PassTrue, LinkTrue, PutIn, Live
  <2> QED BY <1>1, <1>2, <2>3, QuietPassTruth
<1>4. CASE LoadLinks \/ LoadTasks
  <2>1. inb'.seen = inb.seen /\ inb.pc \in {"listed", "linked"}
    BY <1>4 DEF LoadLinks, LoadTasks, Continue, TypeInv, Typed, Passes
  <2>2. \A t \in Tasks : Settled(t)' => Settled(t)
    BY <1>1 DEF Settled
  <2>3. PassTrue'
    BY <1>1, <2>1, <2>2 DEF PassTrue, TruthInv, Live
  <2> QED BY <1>1, <1>2, <2>3, QuietPassTruth
<1>5. CASE EndPass
  <2>1. inb'.pc = "idle"
    BY <1>5 DEF EndPass, Continue, IdlePass
  <2>2. PassTrue'
    BY <2>1 DEF PassTrue
  <2> QED BY <1>1, <1>2, <2>2, QuietPassTruth
<1> QED BY <1>3, <1>4, <1>5

LEMMA ReadingTruth ==
  ASSUME TypeInv, TypeInv', WriterInv, TruthInv,
         FetchTeam \/ ReadOwned \/ \E t \in Tasks : ReadMirror(t)
  PROVE  TruthInv'
<1>1. UNCHANGED <<scenario, link, issue, proj, lost, unread, kept, raced>>
  BY DEF FetchTeam, ReadOwned, ReadMirror, history
<1>2. /\ inb'.pc \in {"fetched", "adopting", "mirror"}
      /\ inb'.seen = issue \/ (inb'.seen = inb.seen /\ inb.pc \in {"fetched", "adopting"})
  <2>1. CASE FetchTeam
    <3>1. [IdlePass EXCEPT !.pc = "fetched", !.seen = issue].pc = "fetched"
          /\ [IdlePass EXCEPT !.pc = "fetched", !.seen = issue].seen = issue
      BY DEF IdlePass
    <3> QED BY <2>1, <3>1 DEF FetchTeam, Continue
  <2>2. CASE ReadOwned
    BY <2>2 DEF ReadOwned, Continue, TypeInv, Typed, Passes
  <2>3. CASE \E t \in Tasks : ReadMirror(t)
    BY <2>3 DEF ReadMirror, Continue, TypeInv, Typed, Passes
  <2> QED BY <2>1, <2>2, <2>3
<1>3. \A i \in Issues : Live(i, inb'.seen) /\ inb'.seen[i].key = None => inb'.seen[i].body = Prose
  <2>1. CASE inb'.seen = issue
    BY <2>1 DEF WriterInv, KeylessIsUntouched, Keyless, Live
  <2>2. CASE inb'.seen = inb.seen /\ inb.pc \in {"fetched", "adopting"}
    BY <2>2 DEF TruthInv, AdoptionTrue, Live
  <2> QED BY <1>2, <2>1, <2>2
<1>4. PassTrue'
  BY <1>2 DEF PassTrue
<1> QED BY <1>1, <1>2, <1>3, <1>4, QuietPassTruth

\* What the pass writes is apart from what the projector has in hand, and t is not busy.
LEMMA PassTruth ==
  ASSUME TypeInv, TypeInv', WriterInv, TruthInv, NEW t \in Tasks, t \in Passed, RowStep(t), UNCHANGED proj,
         Settled(t)' => LinkTrue(t)', PassTrue', AdoptionTrue'
  PROVE  TruthInv'
<1>1. Apart(t, {})
  <2>1. ASSUME NEW r \in Projections, NEW u \in proj[r].todo, Contend(u, t)
        PROVE  u \in raced /\ t \in raced
    <3>1. u \in Projected /\ Contend(t, u)
      BY <2>1, ContendSymmetric DEF Projected
    <3> QED BY <3>1 DEF WriterInv, OverlapsAreRaced
  <2>2. raced \subseteq raced'
    BY DEF RowStep, Noted
  <2> QED BY <2>1, <2>2 DEF Apart
<1>2. {} \in SUBSET Projections /\ \A p \in {} : Truthful(proj[p])'
  OBVIOUS
<1>3. \A u \in Tasks : Busy(u) => Busy(u)'
  BY DEF Busy
<1> QED BY <1>1, <1>2, <1>3, TruthStep

\* A row the pass has in hand is not busy, unless it has met a projection.
LEMMA PassedIsTrue ==
  ASSUME TypeInv, WriterInv, TruthInv, NEW t \in Tasks, t \in Passed, Settled(t)
  PROVE  LinkTrue(t)
<1>1. t \notin Projected
  BY ContendReflexive DEF WriterInv, OverlapsAreRaced, Settled
<1>2. ~Busy(t)
  BY <1>1 DEF Busy, Projected, TypeInv, InHand, AtWork
<1> QED BY <1>2 DEF TruthInv, LinksAreTrue

\* A state that is taken over from the board is a person's.
LEMMA DivergedIsMoved ==
  ASSUME TypeInv, PmInv, PassTrue, NEW t \in Tasks, inb.pc = "applying", t \in inb.left, Settled(t),
         Live(inb.links[t].rid, inb.seen), Diverged(t)
  PROVE  /\ inb.links[t] = link[t] /\ RidOf(link[t]) = inb.links[t].rid /\ inb.links[t].rid \in Issues
         /\ inb.seen[inb.links[t].rid].by = "person"
         /\ Live(inb.links[t].rid, issue) => issue[inb.links[t].rid].by = "person"
<1>1. inb.links[t] = link[t]
  BY DEF PmInv, LinksAreFresh, Settled
<1>2. RidOf(link[t]) = inb.links[t].rid /\ inb.links[t].rid \in Issues
  <2>1. RidOf(inb.links[t]) # None /\ inb.links[t] \in Links \cup {None}
    BY DEF TypeInv, Typed, PassInHand, Passes
  <2> QED BY <1>1, <2>1 DEF RidOf, Links
<1> QED BY <1>1, <1>2 DEF PassTrue, Diverged

LEMMA ApplyRowTruth ==
  ASSUME TypeInv, TypeInv', PmInv, WriterInv, TruthInv, NEW t \in Tasks, ApplyRow(t)
  PROVE  TruthInv'
<1>0. /\ UNCHANGED <<scenario, issue, proj, raced, lost, unread, kept>>
      /\ \A u \in Tasks : RidOf(link'[u]) = RidOf(link[u])
      /\ inb.pc = "applying" /\ t \in inb.left /\ inb.left \subseteq Tasks /\ inb \in Passes
  BY ApplyRowLeaves DEF history, ApplyRow, TypeInv, Typed, Passes
<1>1. /\ inb'.pc = "applying" /\ inb'.left = inb.left \ {t}
      /\ \A j \in Issues : Live(j, inb'.seen) => inb'.seen[j] = inb.seen[j] /\ Live(j, inb.seen)
  <2>1. PICK r : r = inb.links[t].rid
    OBVIOUS
  <2>2. inb' = [inb EXCEPT !.left = @ \ {t}, !.links[t] = None, !.tasks[t] = NoRow, !.seen[r] = Unborn]
    BY <2>1 DEF ApplyRow, Continue
  <2>3. inb'.seen = [inb.seen EXCEPT ![r] = Unborn] /\ inb.seen \in Snapshots
    BY <1>0, <2>2 DEF Passes
  <2>4. inb'.pc = "applying" /\ inb'.left = inb.left \ {t}
    BY <1>0, <2>2 DEF Passes
  <2> QED BY <2>3, <2>4 DEF Snapshots, Live
<1>2. \A u \in Tasks \ {t} : link'[u] = link[u]
  BY DEF ApplyRow, ApplyStatus, TypeInv, Typed
<1>3. RowStep(t)
  <2>1. \A j \in Issues : Unmoved(j)
    BY <1>0 DEF Unmoved, Live
  <2> QED BY <1>0, <1>2, <2>1, SameIssuesEvolve DEF RowStep, Noted
<1>4. t \in Passed
  BY <1>0 DEF Passed
<1>5. PassTrue'
  <2>1. SUFFICES ASSUME NEW u \in inb.left \ {t}, NEW j \in Issues, Settled(u), RidOf(link'[u]) = j,
                        Live(j, inb'.seen)
                 PROVE  /\ inb'.seen[j].by = "person" \/ inb'.seen[j].state = link'[u].lps
                        /\ inb'.seen[j].by = "person" /\ Live(j, issue) => issue'[j].by = "person"
    BY <1>0, <1>1 DEF PassTrue, Settled, Live
  <2>2. /\ inb'.seen[j] = inb.seen[j] /\ Live(j, inb.seen) /\ link'[u] = link[u] /\ u \in Tasks
    BY <1>0, <1>1, <1>2, <2>1
  <2> QED BY <1>0, <2>1, <2>2 DEF TruthInv, PassTrue
<1>6. AdoptionTrue'
  BY <1>0, <1>1 DEF AdoptionTrue, TruthInv, Keyless, Live
<1>7. ASSUME Settled(t)' PROVE LinkTrue(t)'
  <2>1. Settled(t) /\ LinkTrue(t)
    BY <1>0, <1>4, <1>7, PassedIsTrue DEF Settled
  <2>2. CASE link'[t] = link[t]
    BY <1>0, <2>1, <2>2 DEF LinkTrue, PutIn, Live
  <2>3. CASE /\ Live(inb.links[t].rid, inb.seen) /\ Diverged(t) /\ BrainUnchanged(t)
             /\ ApplyStatus(t, inb.seen[inb.links[t].rid].state)
    <3>1. PICK i \in Issues : i = inb.links[t].rid
      BY <1>0, <2>1, <2>3, DivergedIsMoved DEF TruthInv
    <3>2. /\ inb.links[t] = link[t] /\ RidOf(link[t]) = i
          /\ Live(i, issue) => issue[i].by = "person"
      BY <1>0, <2>1, <2>3, <3>1, DivergedIsMoved DEF TruthInv
    <3>3. RidOf(link'[t]) = i
      BY <1>0, <3>2
    <3>4. link'[t].fp[2] = inb.tasks[t].body
      <4>1. DOMAIN link = Tasks
        BY DEF TypeInv, Typed
      <4>2. PICK s : s = inb.seen[i].state
        OBVIOUS
      <4>3. PICK x, l, y : x = Fingerprint(StatusOf(s), inb.tasks[t].body) /\ l = link[t] /\ y = StatusOf(s)
        OBVIOUS
      <4>4. link' = [link EXCEPT ![t].fp = x, ![t].lps = s, ![t].lpb = y]
        BY <2>3, <3>1, <4>2, <4>3 DEF ApplyStatus
      <4>5. "fp" \in DOMAIN l
        BY <2>1, <3>2, <4>3, NullsAssumption DEF RidOf, TypeInv, Typed, Links
      <4>6. link'[t] = [l EXCEPT !.fp = x, !.lps = s, !.lpb = y]
        BY <4>1, <4>3, <4>4
      <4>7. link'[t].fp = x
        BY <4>5, <4>6
      <4> QED BY <4>3, <4>7 DEF Fingerprint
    <3>5. link[t].fp[2] = inb.tasks[t].body
      <4>1. link[t].fp = FingerprintOf(inb.tasks[t])
        BY <2>3, <3>2 DEF BrainUnchanged
      <4> QED BY <4>1 DEF FingerprintOf, Fingerprint
    <3>6. Live(i, issue) => (t \notin kept => issue[i].body = link'[t].fp[2])
      BY <2>1, <3>2, <3>4, <3>5 DEF LinkTrue
    <3> QED BY <1>0, <3>2, <3>3, <3>6 DEF LinkTrue, PutIn, Live
  <2> QED BY <2>2, <2>3 DEF ApplyRow
<1> QED BY <1>0, <1>3, <1>4, <1>5, <1>6, <1>7, PassTruth

\* What is adopted is as a person left it.
LEMMA AdoptTruth ==
  ASSUME TypeInv, TypeInv', WriterInv, TruthInv, Adopt
  PROVE  TruthInv'
<1>1. UNCHANGED <<scenario, issue, proj, unread, raced, lost>> /\ inb.pc = "mirror" /\ inb \in Passes
  BY DEF Adopt, TypeInv, Typed
<1>2. PICK c \in Tasks, i \in Issues :
        /\ c = inb.cur /\ i = scenario.mirror[c] /\ i # None /\ Candidate(c)
        /\ inb.seen[i] \in IssueRows /\ Adopted(c) \in Rows
  BY <1>1, MirrorTypes, NullsAssumption
<1>3. CASE /\ inb' = [inb EXCEPT !.pc = "adopting", !.cur = None]
           /\ UNCHANGED <<link, kept>>
  <2>1. inb'.pc = "adopting" /\ inb'.seen = inb.seen
    BY <1>1, <1>3 DEF Passes
  <2>2. \A j \in Issues : Live(j, inb'.seen) /\ inb'.seen[j].key = None => inb'.seen[j].body = Prose
    BY <1>1, <2>1 DEF TruthInv, AdoptionTrue, Live
  <2>3. PassTrue'
    BY <2>1 DEF PassTrue
  <2> QED BY <1>1, <1>3, <2>1, <2>2, <2>3, QuietPassTruth
<1>4. CASE /\ i \notin OwnedByOthers(c) /\ link' = [link EXCEPT ![c] = AdoptingLink(c)]
           /\ kept' = IF Adopted(c).body = inb.seen[i].body THEN kept ELSE kept \cup {c}
           /\ inb' = [inb EXCEPT !.pc = "footer"]
  <2>0. inb'.pc = "footer" /\ inb'.seen = inb.seen /\ inb'.cur = c
    BY <1>1, <1>2, <1>4 DEF Passes
  <2>1. /\ RidOf(link'[c]) = i /\ \A u \in Tasks \ {c} : link'[u] = link[u] /\ RidOf(link[u]) # i
    BY <1>2, <1>4, AdoptedLink
  <2>2. RowStep(c)
    <3>1. \A j \in Issues : Unmoved(j)
      BY <1>1 DEF Unmoved, Live
    <3> QED BY <1>1, <1>4, <2>1, <3>1, SameIssuesEvolve DEF RowStep, Noted
  <2>3. ASSUME Clear(c), Live(i, issue) PROVE issue[i].body = Prose /\ issue[i].by = "person"
    <3>1. Adoptable(c)
      BY <1>1, <1>2, <2>3 DEF WriterInv, AdoptionInv, Clear
    <3>2. Keyless(i)
      BY <1>2, <2>1, <2>3, <3>1 DEF Adoptable
    <3> QED BY <3>2 DEF WriterInv, KeylessIsUntouched, TruthInv, AdoptionTrue
  <2>4. inb.seen[i].body = Prose
    BY <1>1, <1>2 DEF TruthInv, AdoptionTrue, Candidate
  <2>5. link'[c].fp[2] = Adopted(c).body
    <3>1. link'[c] = AdoptingLink(c)
      BY <1>4 DEF TypeInv, Typed
    <3>2. PICK row : row = Adopted(c)
      OBVIOUS
    <3>3. AdoptingLink(c).fp = FingerprintOf(row)
      BY <3>2 DEF AdoptingLink
    <3> QED BY <3>1, <3>2, <3>3 DEF FingerprintOf, Fingerprint
  <2>6. ASSUME Settled(c)' PROVE LinkTrue(c)'
    <3>1. Clear(c)
      BY <1>1, <2>6 DEF Settled, Clear
    <3>2. c \notin kept' => Adopted(c).body = inb.seen[i].body
      BY <1>4
    <3>3. \A j \in Issues : RidOf(link'[c]) = j /\ Live(j, issue) =>
            /\ c \notin kept' => issue[j].body = link'[c].fp[2]
            /\ issue[j].by = "person"
      BY <2>1, <2>3, <2>4, <2>5, <3>1, <3>2
    <3> QED BY <1>1, <3>3 DEF LinkTrue, PutIn, Live
  <2>7. PassTrue'
    BY <2>0 DEF PassTrue
  <2>8. AdoptionTrue'
    <3>1. \A j \in Issues : Keyless(j)' => issue'[j].by = "person"
      BY <1>1 DEF TruthInv, AdoptionTrue, Keyless, Live
    <3>2. \A j \in Issues : Live(j, inb'.seen) /\ inb'.seen[j].key = None => inb'.seen[j].body = Prose
      BY <1>1, <2>0 DEF TruthInv, AdoptionTrue, Live
    <3>3. Clear(c) => \A j \in Issues : scenario.mirror[c] = j /\ Live(j, issue) => issue[j].body = Prose
      BY <1>2, <2>3
    <3> QED BY <1>1, <2>0, <3>1, <3>2, <3>3 DEF AdoptionTrue, Live, Clear
  <2>9. c \in Passed
    BY <1>1, <1>2, MirrorsPassed
  <2> QED BY <1>1, <2>2, <2>6, <2>7, <2>8, <2>9, PassTruth
<1> QED BY <1>2, <1>3, <1>4 DEF Adopt, Continue, AdoptingLink

\* The footer leaves the body as the person wrote it.
LEMMA StampFooterTruth ==
  ASSUME TypeInv, TypeInv', WriterInv, TruthInv, StampFooter
  PROVE  TruthInv'
<1>1. /\ UNCHANGED <<scenario, link, proj, unread, raced, lost, kept>> /\ inb.pc = "footer"
      /\ inb'.pc = "adopting" /\ inb'.seen = inb.seen
  BY DEF StampFooter, Continue, history, TypeInv, Typed, Passes
<1>2. PICK c \in Tasks, i \in Issues :
        c = inb.cur /\ i = scenario.mirror[c] /\ i # None /\ Candidate(c)
  BY <1>1, MirrorTypes, NullsAssumption
<1>3. /\ PassTrue'
      /\ \A j \in Issues : Live(j, inb'.seen) /\ inb'.seen[j].key = None => inb'.seen[j].body = Prose
  BY <1>1 DEF PassTrue, TruthInv, AdoptionTrue, Live
<1>4. CASE UNCHANGED issue
  BY <1>1, <1>3, <1>4, QuietPassTruth
<1>5. CASE Footed(c, i)
  <2>1. /\ issue'[i].key = scenario.key[c] /\ issue'[i].body = inb.seen[i].body
        /\ issue'[i].state = issue[i].state /\ issue'[i].by = issue[i].by
        /\ Live(i, issue') /\ IssuesEvolve
        /\ \A j \in Issues \ {i} : issue'[j] = issue[j]
    BY <1>5, FooterLeaves
  <2>9. Live(i, issue)
    BY <1>5 DEF Footed
  <2>2. c \in Passed /\ scenario.key[c] \in Keys
    BY <1>1, <1>2, MirrorsPassed, ScenarioType DEF TypeInv
  <2>3. inb.seen[i].body = Prose
    BY <1>1, <1>2 DEF TruthInv, AdoptionTrue, Candidate
  <2>4. TakenFor(c, i)
    <3>1. Kin(scenario.key[c], i)'
      <4>1. Kin(scenario.key[c], i)
        BY <1>2, MirrorKin DEF TypeInv
      <4>2. PICK k : k = scenario.key[c]
        OBVIOUS
      <4>3. Kin(k, i)'
        BY <1>1, <2>1, <4>1, <4>2, KinStable
      <4> QED BY <1>1, <4>2, <4>3
    <3>2. ~HeldByOther(c, i)
      BY <1>1, <1>2, <2>9 DEF WriterInv, AdoptionInv
    <3> QED BY <1>1, <2>1, <2>2, <3>1, <3>2, NullsAssumption DEF TakenFor, HeldByOther, Clear
  <2>5. RowStep(c)
    <3>1. \A j \in Issues \ {i} : Unmoved(j)
      BY <2>1 DEF Unmoved, Live
    <3> QED BY <1>1, <2>1, <2>4, <3>1 DEF RowStep, Noted
  <2>6. ASSUME Settled(c)' PROVE LinkTrue(c)'
    <3>1. Settled(c) /\ Clear(c)
      BY <1>1, <2>6 DEF Settled, Clear
    <3>2. LinkTrue(c)
      BY <2>2, <3>1, PassedIsTrue
    <3>3. issue[i].body = Prose
      BY <1>1, <1>2, <2>9, <3>1 DEF TruthInv, AdoptionTrue
    <3>4. \A j \in Issues : Live(j, issue') => /\ Live(j, issue) /\ issue'[j].body = issue[j].body
                              /\ issue'[j].state = issue[j].state /\ issue'[j].by = issue[j].by
      BY <2>1, <2>3, <2>9, <3>3 DEF Live
    <3> QED BY <1>1, <3>2, <3>4 DEF LinkTrue, PutIn, Live
  <2>7. AdoptionTrue'
    <3>1. ASSUME NEW j \in Issues, Keyless(j)' PROVE issue'[j].by = "person"
      <4>1. j # i
        BY <2>1, <2>2, <3>1, NullsAssumption DEF Keyless
      <4> QED BY <2>1, <3>1, <4>1 DEF TruthInv, AdoptionTrue, Keyless, Live
    <3> QED BY <1>1, <1>3, <3>1 DEF AdoptionTrue, Live
  <2> QED BY <1>1, <1>3, <2>2, <2>5, <2>6, <2>7, PassTruth
<1> QED BY <1>1, <1>2, <1>4, <1>5 DEF StampFooter, Footed

LEMMA InitTruth ==
  ASSUME Init
  PROVE  TruthInv
<1>1. PICK idle : idle = IdleProjection
  OBVIOUS
<1>2. Truthful(idle) /\ \A p \in Projections : proj[p] = idle
  BY <1>1, IdleTruth DEF Init
<1>3. \A t \in Tasks : RidOf(link[t]) = None
  BY DeclaredLinkType, NullsAssumption DEF Init, RidOf
<1>4. \A t \in Tasks : LinkTrue(t)
  BY <1>3, NullsAssumption DEF LinkTrue
<1>5. \A i \in Issues : Live(i, issue) => issue[i].by = "person"
  <2>1. NewIssue.by = "person"
    BY DEF NewIssue
  <2> QED BY <2>1 DEF Init, Live
<1>6. inb.pc = "idle"
  BY DEF Init, IdlePass
<1> QED BY <1>2, <1>4, <1>5, <1>6 DEF TruthInv, LinksAreTrue, PassTrue, AdoptionTrue, Keyless

LEMMA NextTruth ==
  TypeInv /\ TypeInv' /\ PmInv /\ WriterInv /\ WriterInv' /\ IssueInv /\ TruthInv /\ [Next]_vars => TruthInv'
<1> SUFFICES ASSUME TypeInv, TypeInv', PmInv, WriterInv, WriterInv', IssueInv, TruthInv, [Next]_vars
             PROVE  TruthInv'
  OBVIOUS
<1>1. ASSUME NEW t \in Tasks, Edit(t) \/ ApplyRow(t) PROVE TruthInv'
  BY <1>1, EditTruth, ApplyRowTruth
<1>2. ASSUME NEW i \in Issues, Move(i) PROVE TruthInv'
  BY <1>2, MoveTruth
<1>3. ASSUME NEW p \in Projections, \/ \E t \in Tasks : Callback(p, t)
                                    \/ \E j \in Projects : ProjectBoard(p, j)
      PROVE  TruthInv'
  BY <1>3, StartingTruth
<1>4. ASSUME NEW p \in Projections, NEW t \in Tasks, FindLink(p, t) PROVE TruthInv'
  BY <1>4, FindLinkTruth
<1>5. ASSUME NEW p \in Projections, Prepare(p) \/ InsertLink(p) \/ ReadOwners(p) \/ FetchBoot(p)
      PROVE  TruthInv'
  BY <1>5, PrepareTruth, InsertLinkTruth, ReadOwnersTruth, FetchBootTruth
<1>6. ASSUME NEW p \in Projections, Upsert(p) \/ Seed(p) \/ Persist(p) PROVE TruthInv'
  BY <1>6, UpsertTruth, SeedTruth, PersistTruth
<1>7. CASE StartPass \/ LoadLinks \/ LoadTasks \/ EndPass
  BY <1>7, LoadingTruth
<1>8. CASE FetchTeam \/ ReadOwned \/ \E t \in Tasks : ReadMirror(t)
  BY <1>8, ReadingTruth
<1>9. CASE Adopt \/ StampFooter \/ Crash
  BY <1>9, AdoptTruth, StampFooterTruth, CrashTruth
<1>10. CASE UNCHANGED vars
  <2>1. UNCHANGED <<scenario, link, issue, proj, inb, raced, lost, unread, kept>>
    BY <1>10 DEF vars
  <2>2. BoardRests
    BY <2>1, SameBoardRests
  <2>3. PassTrue' /\ AdoptionTrue'
    BY <2>1, <2>2, RestingStep, PassStays DEF TruthInv
  <2> QED BY <2>1, <2>2, <2>3, ElsewhereTruth
<1> QED
  BY <1>1, <1>2, <1>3, <1>4, <1>5, <1>6, <1>7, <1>8, <1>9, <1>10 DEF Next

\* A row that rests is not busy: what its link records is so.
LEMMA RestingIsTrue ==
  ASSUME TypeInv, TruthInv
  PROVE  SkipIsSafe
<1>1. SUFFICES ASSUME NEW t \in Tasks, NEW i, i = RidOf(link[t]), Settled(t), Quiet(t), t \notin kept,
                      i # None, link[t].fp = FingerprintOf(task[t]), Live(i, issue)
               PROVE  /\ issue[i].body = task[t].body
                      /\ \/ issue[i].by = "person"
                         \/ issue[i].state = StateFor(task[t].status)
                         \/ StateType[issue[i].state] = GroupOf(task[t].status)
  BY DEF SkipIsSafe
<1>2. ~Busy(t)
  BY <1>1 DEF Quiet, Busy, Projected, TypeInv, InHand, AtWork
<1>3. LinkTrue(t) /\ i \in Issues
  BY <1>1, <1>2, RidTypes DEF TruthInv, LinksAreTrue
<1>4. link[t].fp[1] = GroupOf(task[t].status) /\ link[t].fp[2] = task[t].body
  BY <1>1 DEF FingerprintOf, Fingerprint
<1> QED BY <1>1, <1>3, <1>4 DEF LinkTrue

\* What the projector, the pass, the members, the people and their failures never undo.
SyncInv == TypeInv /\ PmInv /\ WriterInv /\ IssueInv /\ TruthInv

LEMMA SyncInductive ==
  /\ Init => SyncInv
  /\ SyncInv /\ [Next]_vars => SyncInv'
<1>1. Init => SyncInv
  BY InitTypeInv, InitPmInv, InitWriter, InitIssues, InitTruth DEF SyncInv
<1>2. SyncInv /\ [Next]_vars => SyncInv'
  BY NextTypeInv, NextPmInv, NextWriter, NextIssues, NextTruth DEF SyncInv
<1> QED BY <1>1, <1>2

\* A fingerprint that matches is a safe reason to skip a row that rests: whatever was
\* adopted, created, moved, lost or killed before, its issue has the body of the row and,
\* unless a person moved it, a state of its group.
THEOREM SkippingIsSafe == Spec => []SkipIsSafe
<1>1. SyncInv => SkipIsSafe
  BY RestingIsTrue DEF SyncInv
<1> QED BY <1>1, SyncInductive, PTL DEF Spec

\* No echo: the pass never takes for a move of a person what the projector itself has
\* written to the board.
THEOREM OnlyMovesAreApplied == Spec => OnlyMovesApply
<1>1. ASSUME SyncInv, [Next]_vars, NEW t \in Tasks, Applied(t), Settled(t)
      PROVE  inb.seen[inb.links[t].rid].by = "person"
  <2>1. ApplyRow(t) /\ task' # task /\ inb.pc = "applying" /\ t \in inb.left
    BY <1>1, OnlyApplyRowApplies DEF SyncInv, Applied
  <2>2. Live(inb.links[t].rid, inb.seen) /\ Diverged(t)
    BY <2>1 DEF ApplyRow
  <2> QED BY <1>1, <2>1, <2>2, DivergedIsMoved DEF SyncInv, TruthInv
<1>2. SyncInv /\ [Next]_vars
        => [\A t \in Tasks : Applied(t) /\ Settled(t) => inb.seen[inb.links[t].rid].by = "person"]_vars
  BY <1>1
<1> QED BY <1>2, SyncInductive, PTL DEF Spec, OnlyMovesApply
=============================================================================
