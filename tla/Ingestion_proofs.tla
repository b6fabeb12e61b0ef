--------------------------- MODULE Ingestion_proofs ---------------------------
(***************************************************************************)
(* What is proved of the ingest tick: the clean-up of a Slack channel      *)
(* removes only what is gone, for any number of processes, and the GitHub  *)
(* watermark of one process vouches for what its passes have read.         *)
(***************************************************************************)
EXTENDS Ingestion, TLAPS

-----------------------------------------------------------------------------
\* The Slack leg.

\* What a thread leaves in the store or in the memory of a pass was posted, and a thread
\* once posted never reappears after its last message is gone.
Traced(t) ==
  /\ live[t] \subseteq posted[t]
  /\ t \in Stored => posted[t] # {}
  /\ \A p \in SlackProcesses :
       pass[p].snap[t] # {} \/ pass[p].body[t] # {} \/ t \in pass[p].asking => posted[t] # {}

\* A thread a pass is about to purge is gone for good, or the channel is private for good.
DoomIsFinal ==
  \A p \in SlackProcesses : \A t \in pass[p].doomed :
    privacy = "private" \/ (posted[t] # {} /\ live[t] = {})

SlackInv == SlackTypeOK /\ (\A t \in Threads : Traced(t)) /\ DoomIsFinal

\* What a process holds, and what it holds between passes, is a pass.
LEMMA PassesAre == /\ IdlePass \in Pass
                   /\ SlackTypeOK => \A p \in SlackProcesses : pass[p] \in Pass
  BY DEF SlackTypeOK, Pass, IdlePass

\* Nothing is posted, stored or held at first.
LEMMA SlackInvInit == Init => SlackInv
<1> SUFFICES ASSUME Init PROVE SlackInv
  OBVIOUS
<1>1. \A t \in Threads : IdlePass.snap[t] = {} /\ IdlePass.body[t] = {} /\ t \notin IdlePass.asking
  BY DEF IdlePass
<1>2. IdlePass.doomed = {}
  BY DEF IdlePass
<1>3. SlackTypeOK
  BY SlackAssumption, PassesAre DEF Init, SlackInit, SlackTypeOK, NoItem, Item
<1> QED
  BY <1>1, <1>2, <1>3 DEF Init, SlackInit, SlackInv, Traced, DoomIsFinal, Stored

\* Slack and its administrators.
LEMMA ChannelKeeps ==
  ASSUME SlackInv, NEW t \in Threads,
         Post(t) \/ Reply(t) \/ \E m \in Messages : Retract(t, m)
  PROVE  SlackInv'
<1> USE DEF SlackInv, SlackTypeOK, Traced, DoomIsFinal, Stored, Messages
<1>1. CASE Post(t)
  BY <1>1 DEF Post
<1>2. CASE Reply(t)
  BY <1>2 DEF Reply, Exists
<1>3. CASE \E m \in Messages : Retract(t, m)
  BY <1>3 DEF Retract
<1> QED
  BY <1>1, <1>2, <1>3

\* Once private, a channel stays so.
LEMMA PrivacyKeeps ==
  ASSUME SlackInv, MakePrivate \/ LosePermission \/ RegainPermission
  PROVE  SlackInv'
  BY SlackAssumption DEF SlackInv, SlackTypeOK, Traced, DoomIsFinal, Stored,
     MakePrivate, LosePermission, RegainPermission

\* A step that touches only what one process holds keeps the invariant if what it holds
\* afterwards was posted, and what it dooms is final.
LEMMA HoldingKeeps ==
  ASSUME SlackInv, NEW p \in SlackProcesses, NEW q \in Pass, pass' = [pass EXCEPT ![p] = q],
         UNCHANGED <<channelVars, stored>>, UNCHANGED slackFaults \/ Fault,
         \A t \in Threads :
           q.snap[t] # {} \/ q.body[t] # {} \/ t \in q.asking => posted[t] # {},
         \A t \in q.doomed : privacy = "private" \/ (posted[t] # {} /\ live[t] = {})
  PROVE  SlackInv'
<1> USE DEF SlackInv, channelVars
<1>1. slackFaults' \in 0 .. SlackFaultBound
  BY SlackAssumption DEF Fault, SlackTypeOK
<1>2. SlackTypeOK'
  BY <1>1 DEF SlackTypeOK
<1>3. \A t \in Threads : Traced(t)'
  BY DEF SlackTypeOK, Traced, Stored
<1>4. DoomIsFinal'
  BY DEF SlackTypeOK, DoomIsFinal
<1> QED
  BY <1>2, <1>3, <1>4

\* The question about the channel and the history.
LEMMA ReadingKeeps ==
  ASSUME SlackInv, NEW p \in SlackProcesses, StartPass(p) \/ History(p)
  PROVE  SlackInv'
<1>1. CASE StartPass(p)
  <2>1. PICK q : pass' = [pass EXCEPT ![p] = q]
                 /\ (q = IdlePass \/ q = [pass[p] EXCEPT !.at = "history"]
                     \/ (privacy = "private" /\ q = [pass[p] EXCEPT !.at = "purge", !.doomed = Stored]))
    BY <1>1 DEF StartPass, Becomes, Ends
  <2>2. q \in Pass
    <3>1. pass[p] \in Pass /\ IdlePass \in Pass /\ Stored \subseteq Threads
      BY PassesAre DEF SlackInv, Stored
    <3>2. [pass[p] EXCEPT !.at = "history"] \in Pass
      BY <3>1 DEF Pass
    <3>3. [pass[p] EXCEPT !.at = "purge", !.doomed = Stored] \in Pass
      BY <3>1 DEF Pass
    <3> QED
      BY <2>1, <3>1, <3>2, <3>3
  <2>3. \A t \in Threads :
          q.snap[t] # {} \/ q.body[t] # {} \/ t \in q.asking => posted[t] # {}
    <3>1. CASE q = IdlePass
      BY <3>1 DEF IdlePass
    <3>2. CASE q # IdlePass
      <4>1. q.snap = pass[p].snap /\ q.body = pass[p].body /\ q.asking = pass[p].asking
        BY <2>1, <3>2, PassesAre DEF SlackInv, Pass
      <4> QED
        BY <4>1 DEF SlackInv, Traced
    <3> QED
      BY <3>1, <3>2
  <2>4. \A t \in q.doomed : privacy = "private" \/ (posted[t] # {} /\ live[t] = {})
    BY <2>1, PassesAre DEF IdlePass, DoomIsFinal, SlackInv, Pass
  <2> QED
    BY <1>1, <2>1, <2>2, <2>3, <2>4, HoldingKeeps DEF StartPass, Quiet
<1>2. CASE History(p)
  <2> DEFINE q == [pass[p] EXCEPT
       !.at = IF Read = {} THEN "plan" ELSE "replies", !.seen = Read,
       !.snap = [t \in Threads |-> IF t \in Read THEN live[t] ELSE {}]]
  <2>1. Read \subseteq Threads
    BY DEF Read
  <2>2. q \in Pass
    BY <2>1, PassesAre DEF SlackInv, SlackTypeOK, Pass
  <2>3. q.snap = [t \in Threads |-> IF t \in Read THEN live[t] ELSE {}]
        /\ q.body = pass[p].body /\ q.asking = pass[p].asking /\ q.doomed = pass[p].doomed
    BY PassesAre DEF SlackInv, Pass
  <2>4. \A t \in Threads :
          q.snap[t] # {} \/ q.body[t] # {} \/ t \in q.asking => posted[t] # {}
    BY <2>3 DEF SlackInv, Traced
  <2>5. \A t \in q.doomed : privacy = "private" \/ (posted[t] # {} /\ live[t] = {})
    BY <2>3 DEF DoomIsFinal, SlackInv
  <2>6. pass' = [pass EXCEPT ![p] = q] /\ Quiet
    BY <1>2 DEF History, Becomes
  <2> HIDE DEF q
  <2> QED
    BY <2>2, <2>4, <2>5, <2>6, HoldingKeeps DEF Quiet
<1> QED
  BY <1>1, <1>2

\* What a rendering leaves behind is the snapshot it came from, emptied.
LEMMA RenderingKeeps ==
  ASSUME SlackInv, NEW p \in SlackProcesses, NEW t \in Threads,
         FetchReplies(p, t) \/ SkipThread(p, t)
  PROVE  SlackInv'
<1>1. PICK b \in SUBSET SUBSET Messages : RepliesDone(p, t, b) /\ pass[p].snap[t] # {}
  <2>1. Rendered(p, t) \in SUBSET Messages
    BY PassesAre DEF Rendered, SlackInv, Pass, Messages
  <2> QED
    BY <2>1 DEF FetchReplies, SkipThread, Newest, Unread
<1> DEFINE r == [pass[p] EXCEPT !.snap[t] = {}, !.body[t] = b]
           next == IF Unread(p) # {t} THEN "replies"
                   ELSE IF \E u \in Threads : r.body[u] # {} THEN "store" ELSE "plan"
           q == [r EXCEPT !.at = next]
<1>2. pass' = [pass EXCEPT ![p] = q]
  BY <1>1 DEF RepliesDone, Becomes
<1>3. next \in {"replies", "store", "plan"}
  OBVIOUS
<1> HIDE DEF next
<1>4. r \in Pass
  BY PassesAre DEF SlackInv, Pass
<1>5. q \in Pass
  BY <1>3, <1>4 DEF Pass
<1>6. /\ q.snap = [pass[p].snap EXCEPT ![t] = {}] /\ q.body = [pass[p].body EXCEPT ![t] = b]
      /\ q.asking = pass[p].asking /\ q.doomed = pass[p].doomed
  BY PassesAre DEF SlackInv, Pass
<1> HIDE DEF q
<1>7. \A u \in Threads :
        q.snap[u] # {} \/ q.body[u] # {} \/ u \in q.asking => posted[u] # {}
  BY <1>1, <1>6, PassesAre DEF SlackInv, Traced, Pass
<1>8. \A u \in q.doomed : privacy = "private" \/ (posted[u] # {} /\ live[u] = {})
  BY <1>6 DEF SlackInv, DoomIsFinal
<1> QED
  BY <1>2, <1>5, <1>7, <1>8, HoldingKeeps DEF FetchReplies, SkipThread, Quiet

\* The plan asks about stored threads only.
LEMMA PlanningKeeps ==
  ASSUME SlackInv, NEW p \in SlackProcesses, PlanDeletions(p)
  PROVE  SlackInv'
<1> DEFINE q == IF Candidates(p) = {} THEN IdlePass
                ELSE [IdlePass EXCEPT !.at = "confirm", !.asking = Candidates(p)]
<1>1. pass' = [pass EXCEPT ![p] = q] /\ Quiet
  BY DEF PlanDeletions, Becomes
<1>2. q \in Pass
  BY DEF IdlePass, Pass, Candidates, Stored
<1>3. \A u \in Threads :
        q.snap[u] # {} \/ q.body[u] # {} \/ u \in q.asking => posted[u] # {}
  BY DEF SlackInv, Traced, Candidates, IdlePass
<1>4. \A u \in q.doomed : privacy = "private" \/ (posted[u] # {} /\ live[u] = {})
  BY DEF IdlePass
<1> HIDE DEF q
<1> QED
  BY <1>1, <1>2, <1>3, <1>4, HoldingKeeps DEF Quiet

\* Slack has nothing of a thread it denies, and no message can appear in it again.
LEMMA JudgingKeeps ==
  ASSUME SlackInv, NEW p \in SlackProcesses, NEW t \in Threads, Confirm(p, t) \/ Spare(p, t)
  PROVE  SlackInv'
<1>1. PICK gone \in BOOLEAN : Judged(p, t, gone) /\ (gone => live[t] = {})
  BY DEF Confirm, Spare, Exists
<1>2. t \in pass[p].asking /\ posted[t] # {}
  BY DEF Confirm, Spare, SlackInv, Traced
<1> DEFINE r == [pass[p] EXCEPT !.asking = @ \ {t},
                                !.doomed = IF gone THEN @ \cup {t} ELSE @]
           q == IF r.asking # {} THEN r
                ELSE IF r.doomed = {} THEN IdlePass ELSE [r EXCEPT !.at = "purge"]
<1>3. pass' = [pass EXCEPT ![p] = q]
  BY <1>1 DEF Judged, Becomes
<1>4. /\ r \in Pass /\ r.snap = pass[p].snap /\ r.body = pass[p].body
      /\ r.asking = pass[p].asking \ {t}
      /\ r.doomed = IF gone THEN pass[p].doomed \cup {t} ELSE pass[p].doomed
  BY PassesAre DEF SlackInv, Pass
<1> HIDE DEF r
<1>5. q \in Pass
  BY <1>4, PassesAre DEF SlackInv, Pass
<1>6. q = IdlePass \/ (q.snap = r.snap /\ q.body = r.body /\ q.asking = r.asking /\ q.doomed = r.doomed)
  BY <1>4 DEF Pass
<1> HIDE DEF q
<1>7. \A u \in Threads :
        q.snap[u] # {} \/ q.body[u] # {} \/ u \in q.asking => posted[u] # {}
  BY <1>4, <1>6 DEF SlackInv, Traced, IdlePass
<1>8. \A u \in q.doomed : privacy = "private" \/ (posted[u] # {} /\ live[u] = {})
  BY <1>1, <1>2, <1>4, <1>6 DEF SlackInv, DoomIsFinal, IdlePass
<1> QED
  BY <1>3, <1>5, <1>7, <1>8, HoldingKeeps DEF Confirm, Spare, Quiet

\* The writes.
LEMMA StoringKeeps ==
  ASSUME SlackInv, NEW p \in SlackProcesses, NEW t \in Threads, StoreThread(p, t)
  PROVE  SlackInv' /\ stored'[t] # NoItem
<1> USE DEF SlackInv, SlackTypeOK
<1>1. PICK b \in pass[p].body[t] : stored' = [stored EXCEPT ![t] = Ingested(stored[t], b)]
  BY DEF StoreThread
<1>2. b \in SUBSET Messages /\ posted[t] # {}
  BY <1>1, PassesAre DEF Traced, Pass
<1>3. Ingested(stored[t], b) \in Item /\ Ingested(stored[t], b) # NoItem
  BY <1>2 DEF Ingested, Forget, Item, NoItem
<1> DEFINE next == IF Unstored(p) = {t} THEN "plan" ELSE "store"
           q == [pass[p] EXCEPT !.body[t] = {}, !.at = next]
<1>4. pass' = [pass EXCEPT ![p] = q] /\ UNCHANGED <<channelVars, slackFaults>>
  BY DEF StoreThread, Becomes
<1>5. next \in {"plan", "store"}
  OBVIOUS
<1> HIDE DEF next
<1>6. /\ q \in Pass /\ q.snap = pass[p].snap /\ q.body = [pass[p].body EXCEPT ![t] = {}]
      /\ q.asking = pass[p].asking /\ q.doomed = pass[p].doomed
  BY <1>5, PassesAre DEF Pass
<1> HIDE DEF q
<1>7. SlackTypeOK'
  BY <1>1, <1>3, <1>4, <1>6 DEF channelVars
<1>8. \A u \in Threads : Traced(u)'
  <2>1. SUFFICES ASSUME NEW u \in Threads PROVE Traced(u)'
    OBVIOUS
  <2>2. live'[u] \subseteq posted'[u] /\ (u \in Stored' => posted'[u] # {})
    BY <1>1, <1>2, <1>4 DEF Traced, Stored, channelVars
  <2>3. ASSUME NEW o \in SlackProcesses
        PROVE  pass'[o].snap[u] = pass[o].snap[u] /\ pass'[o].asking = pass[o].asking
               /\ (pass'[o].body[u] # {} => pass[o].body[u] # {})
    <3>1. CASE o = p
      BY <1>4, <1>6, <3>1, PassesAre DEF Pass
    <3>2. CASE o # p
      BY <1>4, <3>2
    <3> QED
      BY <3>1, <3>2
  <2> QED
    BY <1>4, <2>2, <2>3 DEF Traced, channelVars
<1>9. DoomIsFinal'
  BY <1>4, <1>6 DEF DoomIsFinal, channelVars
<1> QED
  BY <1>1, <1>3, <1>7, <1>8, <1>9

\* A thread is purged only when it is doomed.
LEMMA PurgingKeeps ==
  ASSUME SlackInv, NEW p \in SlackProcesses, NEW t \in Threads, PurgeItem(p, t)
  PROVE  SlackInv' /\ (live[t] = {} \/ privacy = "private")
<1> USE DEF SlackInv, SlackTypeOK
<1> DEFINE q == IF pass[p].doomed = {t} THEN IdlePass ELSE [pass[p] EXCEPT !.doomed = @ \ {t}]
<1>1. pass' = [pass EXCEPT ![p] = q] /\ stored' = [stored EXCEPT ![t] = NoItem]
      /\ UNCHANGED <<channelVars, slackFaults>>
  BY DEF PurgeItem, Becomes
<1>2. q \in Pass /\ q.doomed \subseteq pass[p].doomed
      /\ (q = IdlePass \/ (q.snap = pass[p].snap /\ q.body = pass[p].body /\ q.asking = pass[p].asking))
  BY PassesAre DEF Pass, IdlePass
<1> HIDE DEF q
<1>3. SlackTypeOK'
  BY <1>1, <1>2 DEF channelVars, NoItem, Item
<1>4. \A u \in Threads : Traced(u)'
  BY <1>1, <1>2 DEF Traced, Stored, channelVars, IdlePass
<1>5. DoomIsFinal'
  BY <1>1, <1>2 DEF DoomIsFinal, channelVars
<1> QED
  BY <1>3, <1>4, <1>5 DEF PurgeItem, DoomIsFinal

\* A pass that is abandoned holds nothing.
LEMMA AbandonKeeps ==
  ASSUME SlackInv, NEW p \in SlackProcesses, Abandon(p)
  PROVE  SlackInv'
<1>1. \A t \in Threads : IdlePass.snap[t] = {} /\ IdlePass.body[t] = {} /\ t \notin IdlePass.asking
  BY DEF IdlePass
<1>2. IdlePass.doomed = {}
  BY DEF IdlePass
<1> QED
  BY <1>1, <1>2, PassesAre, HoldingKeeps DEF Abandon, Ends, Becomes, SlackInv

\* One step of the leg keeps the invariant and removes only what is gone.
LEMMA SlackKeeps ==
  ASSUME SlackInv, [SlackNext]_slackVars
  PROVE  SlackInv' /\ \A t \in Threads :
           t \in Stored /\ stored'[t] = NoItem => live[t] = {} \/ privacy = "private"
<1>1. ASSUME NEW p \in SlackProcesses, NEW t \in Threads, StoreThread(p, t)
      PROVE  \A u \in Threads : u \in Stored => stored'[u] # NoItem
  BY <1>1, StoringKeeps DEF StoreThread, SlackInv, SlackTypeOK, Stored
<1>2. ASSUME NEW p \in SlackProcesses, NEW t \in Threads, PurgeItem(p, t)
      PROVE  \A u \in Threads : u \in Stored /\ stored'[u] = NoItem => live[u] = {} \/ privacy = "private"
  BY <1>2, PurgingKeeps DEF PurgeItem, SlackInv, SlackTypeOK, Stored
<1>3. CASE UNCHANGED slackVars
  BY <1>3 DEF slackVars, SlackInv, SlackTypeOK, Traced, DoomIsFinal, Stored
<1>4. CASE UNCHANGED stored /\ SlackInv'
  BY <1>4 DEF Stored
<1>5. CASE SlackNext
  <2>1. ASSUME NEW p \in SlackProcesses, StartPass(p) \/ History(p) PROVE UNCHANGED stored /\ SlackInv'
    BY <2>1, ReadingKeeps DEF StartPass, History, Quiet
  <2>2. ASSUME NEW p \in SlackProcesses, PlanDeletions(p) PROVE UNCHANGED stored /\ SlackInv'
    BY <2>2, PlanningKeeps DEF PlanDeletions, Quiet
  <2>3. ASSUME NEW p \in SlackProcesses, NEW t \in Threads, FetchReplies(p, t) \/ SkipThread(p, t)
        PROVE  UNCHANGED stored /\ SlackInv'
    BY <2>3, RenderingKeeps DEF FetchReplies, SkipThread, Quiet
  <2>4. ASSUME NEW p \in SlackProcesses, NEW t \in Threads, Confirm(p, t) \/ Spare(p, t)
        PROVE  UNCHANGED stored /\ SlackInv'
    BY <2>4, JudgingKeeps DEF Confirm, Spare, Quiet
  <2>5. ASSUME NEW p \in SlackProcesses, Abandon(p) PROVE UNCHANGED stored /\ SlackInv'
    BY <2>5, AbandonKeeps DEF Abandon
  <2>6. ASSUME NEW t \in Threads, Post(t) \/ Reply(t) \/ \E m \in Messages : Retract(t, m)
        PROVE  UNCHANGED stored /\ SlackInv'
    BY <2>6, ChannelKeeps DEF Post, Reply, Retract
  <2>7. ASSUME MakePrivate \/ LosePermission \/ RegainPermission PROVE UNCHANGED stored /\ SlackInv'
    BY <2>7, PrivacyKeeps DEF MakePrivate, LosePermission, RegainPermission
  <2> QED
    BY <1>1, <1>2, <1>4, <1>5, <2>1, <2>2, <2>3, <2>4, <2>5, <2>6, <2>7, StoringKeeps, PurgingKeeps
       DEF SlackNext, SlackStep
<1> QED
  BY <1>3, <1>5

\* The invariant holds throughout.
LEMMA SlackAlways == Spec => []SlackInv
<1>1. SlackInv /\ [Next]_vars => SlackInv'
  BY SlackKeeps DEF Next, SlackLeg, GithubLeg, vars, githubVars
<1> QED
  BY <1>1, SlackInvInit, PTL DEF Spec

\* Whatever the channel does between two calls of a pass, whichever calls fail and however
\* many processes overlap, a pass deletes no thread that Slack still has.
THEOREM PurgesOnlyDeleted == Spec => OnlyDeletedIsPurged
<1>1. SlackInv /\ [Next]_vars =>
        [\A t \in Threads :
           t \in Stored /\ stored'[t] = NoItem => live[t] = {} \/ privacy = "private"]_slackVars
  BY SlackKeeps DEF Next, SlackLeg, GithubLeg, vars
<1> QED
  BY <1>1, SlackAlways, PTL DEF Spec, OnlyDeletedIsPurged

-----------------------------------------------------------------------------
\* The GitHub leg, with one process.

OneGithubProcess == \A p, q \in GithubProcesses : p = q

\* A pass whose probe and configuration are those of now: what it read is what there is.
Current(r) ==
  r.mode = "full" /\ r.ok /\ r.mark.pushed = pushed /\ r.mark.config = config

\* Nothing of the file can still be missed by the pass.
Covered(r, f) ==
  \/ f \in r.todo \/ r.got[f] # {} \/ f \in r.mark.missed
  \/ UpToDate(f) \/ (item[f].ver = tree[f] /\ ~item[f].dated)

\* What was read of a file is what the branch has, unless a push came after the probe and
\* after the one the cursor stands for; an author is named by the pass's configuration.
Fresh(r, f) ==
  \A row \in r.got[f] :
    /\ row.ver = tree[f] \/ (cursor.pushed < pushed /\ (r.mode = "full" => r.mark.pushed < pushed))
    /\ (row.by = r.mark.config /\ row.dated) \/ (row.by = 0 /\ ~row.dated)

RunOK(r) ==
  /\ r.mark.pushed <= pushed
  /\ r.at # "idle" => cursor.config <= r.mark.config /\ r.mark.config <= config
                      /\ r.mark.config \in Configs
  /\ r.at # "files" => r.todo = {}
  /\ r.at \notin {"files", "store"} => \A f \in Files : r.got[f] = {}
  /\ \A f \in Files : Fresh(r, f)
  /\ Current(r) =>
       /\ r.at \in {"files", "store", "scan", "finish"} => \A f \in Wanted : Covered(r, f)
       /\ r.at = "finish" => commits = [ver |-> pushed, by |-> config]

GithubInv ==
  /\ GithubTypeOK /\ CursorVouches
  /\ cursor.pushed <= pushed /\ cursor.config <= config
  /\ \A p \in GithubProcesses : RunOK(run[p])

\* Versions and configurations are numbers; what a process holds is a run.
LEMMA GithubSets ==
  /\ Versions \subseteq Nat /\ Configs \subseteq Nat \ {0} /\ 1 \in Configs
  /\ IdleRun \in Run
  /\ GithubTypeOK => \A p \in GithubProcesses : run[p] \in Run
<1>1. Versions \subseteq Nat /\ 0 \in Versions
  BY GithubAssumption DEF Versions
<1>2. Configs \subseteq Nat \ {0} /\ 1 \in Configs
  BY GithubAssumption DEF Configs
<1>3. IdleRun \in Run
  BY <1>1 DEF IdleRun, Run, Mark, NoCursor
<1>4. GithubTypeOK => \A p \in GithubProcesses : run[p] \in Run
  BY DEF GithubTypeOK
<1> QED
  BY <1>1, <1>2, <1>3, <1>4

\* The parts of a cursor are numbers.
LEMMA MarksAre == \A m \in Mark : m.pushed \in Nat /\ m.config \in Nat
<1>1. \A m \in Mark : m.pushed \in Versions /\ m.config \in Configs \cup {0}
  BY DEF Mark
<1>2. Versions \subseteq Nat /\ Configs \cup {0} \subseteq Nat
  BY GithubSets
<1> QED
  BY <1>1, <1>2

\* So are those of the cursor that a run is to write,
LEMMA RunsAre == \A r \in Run : r.mark \in Mark /\ r.mark.pushed \in Nat /\ r.mark.config \in Nat
  BY MarksAre DEF Run

\* and those of the repository and of its cursor.
LEMMA NumbersAre ==
  GithubTypeOK => /\ pushed \in Nat /\ config \in Nat /\ config # 0
                  /\ cursor.pushed \in Nat /\ cursor.config \in Nat
<1>1. GithubTypeOK => pushed \in Nat /\ config \in Nat /\ config # 0
  BY GithubSets DEF GithubTypeOK
<1>2. GithubTypeOK => cursor.pushed \in Nat /\ cursor.config \in Nat
  BY MarksAre DEF GithubTypeOK
<1> QED
  BY <1>1, <1>2

\* Between passes a process holds nothing.
LEMMA IdleIsOK == GithubTypeOK => RunOK(IdleRun)
  BY GithubSets DEF RunOK, IdleRun, NoCursor, Current, Fresh, GithubTypeOK

\* No cursor, no skip.
LEMMA GithubInvInit == Init => GithubInv
<1> SUFFICES ASSUME Init PROVE GithubInv
  OBVIOUS
<1>1. GithubTypeOK
  BY GithubAssumption, GithubSets DEF Init, GithubInit, GithubTypeOK, Row, NoRow, Mark, NoCursor, Versions
<1>2. CursorVouches
  BY DEF Init, GithubInit, CursorVouches, NextPassSkips, ShouldSkip, NoCursor
<1> QED
  BY <1>1, <1>2, IdleIsOK, GithubSets DEF Init, GithubInit, GithubInv, NoCursor

\* A step that touches only what the process holds keeps the invariant if what it holds
\* afterwards is as it should be.
LEMMA RunKeeps ==
  ASSUME GithubInv, OneGithubProcess, NEW p \in GithubProcesses, NEW q \in Run,
         run' = [run EXCEPT ![p] = q], OnlyRun, UNCHANGED githubFaults \/ GithubFault, RunOK(q)
  PROVE  GithubInv'
<1> USE DEF OnlyRun, remoteVars
<1>1. githubFaults' \in 0 .. GithubFaultBound
  BY GithubAssumption DEF GithubFault, GithubInv, GithubTypeOK
<1>2. GithubTypeOK'
  BY <1>1 DEF GithubInv, GithubTypeOK
<1>3. CursorVouches'
  BY DEF GithubInv, CursorVouches, NextPassSkips, Wanted, UpToDate, Swallowed
<1>4. \A o \in GithubProcesses : run'[o] = q
  BY DEF OneGithubProcess, GithubInv, GithubTypeOK
<1>5. \A o \in GithubProcesses : RunOK(run[o])'
  BY <1>4 DEF RunOK, Current, Covered, Fresh, Wanted, UpToDate
<1> QED
  BY <1>2, <1>3, <1>5 DEF GithubInv

\* A pass starts from the present configuration, and a probe reports the present push.
LEMMA ProbingKeeps ==
  ASSUME GithubInv, OneGithubProcess, NEW p \in GithubProcesses,
         StartRun(p) \/ (\E forced \in BOOLEAN : Probe(p, forced)) \/ ProbeFails(p)
  PROVE  GithubInv'
<1>1. run[p] \in Run /\ RunOK(run[p]) /\ pushed \in Nat /\ config \in Nat
  BY GithubSets DEF GithubInv, GithubTypeOK
<1>2. CASE StartRun(p)
  <2> DEFINE q == [IdleRun EXCEPT !.at = "probe", !.mark.config = config]
  <2>1. q \in Run
    BY GithubSets DEF GithubInv, GithubTypeOK, Run, Mark
  <2>2. RunOK(q)
    BY GithubSets DEF GithubInv, GithubTypeOK, RunOK, IdleRun, NoCursor, Current, Fresh
  <2> QED
    BY <1>2, <2>1, <2>2, RunKeeps DEF StartRun, Goes
<1>3. ASSUME NEW forced \in BOOLEAN, Probe(p, forced) PROVE GithubInv'
  <2> DEFINE mark == [run[p].mark EXCEPT !.pushed = pushed]
             mode == IF ~forced /\ ShouldSkip(cursor, mark) THEN "skip" ELSE "full"
             q == [run[p] EXCEPT !.at = "issues", !.mark = mark, !.mode = mode]
  <2>1. mark \in Mark /\ mark.pushed = pushed /\ mark.config = run[p].mark.config
    BY <1>1 DEF Run, Mark, GithubInv, GithubTypeOK
  <2>2. mode \in {"skip", "full"}
    OBVIOUS
  <2>3. run' = [run EXCEPT ![p] = q] /\ OnlyRun /\ UNCHANGED githubFaults /\ run[p].at = "probe"
    BY <1>3 DEF Probe, Goes, RunAt
  <2> HIDE DEF mark, mode
  <2>4. q \in Run /\ q.at = "issues" /\ q.mark = mark /\ q.mode = mode
        /\ q.todo = run[p].todo /\ q.got = run[p].got
    BY <1>1, <2>1, <2>2 DEF Run
  <2> HIDE DEF q
  <2>5. RunOK(q)
    BY <1>1, <2>1, <2>3, <2>4 DEF RunOK, Current, Fresh
  <2> QED
    BY <2>3, <2>4, <2>5, RunKeeps
<1>4. CASE ProbeFails(p)
  <2> DEFINE q == [run[p] EXCEPT !.at = "issues", !.mode = "blind"]
  <2>1. run' = [run EXCEPT ![p] = q] /\ OnlyRun /\ GithubFault /\ run[p].at = "probe"
    BY <1>4 DEF ProbeFails, Goes, RunAt
  <2>2. q \in Run /\ q.at = "issues" /\ q.mark = run[p].mark /\ q.mode = "blind"
        /\ q.todo = run[p].todo /\ q.got = run[p].got
    BY <1>1 DEF Run
  <2> HIDE DEF q
  <2>3. RunOK(q)
    BY <1>1, <2>1, <2>2 DEF RunOK, Current, Fresh
  <2> QED
    BY <2>1, <2>2, <2>3, RunKeeps
<1> QED
  BY <1>2, <1>3, <1>4

\* What the tree lists is what the globs want, if nothing has changed since the probe.
LEMMA ListingKeeps ==
  ASSUME GithubInv, OneGithubProcess, NEW p \in GithubProcesses, Issues(p) \/ ListTree(p)
  PROVE  GithubInv'
<1>1. run[p] \in Run /\ RunOK(run[p])
  BY GithubSets DEF GithubInv, GithubTypeOK
<1>2. CASE Issues(p)
  <2> DEFINE q == [run[p] EXCEPT !.at = AfterIssues(p)]
  <2>1. run' = [run EXCEPT ![p] = q] /\ OnlyRun /\ UNCHANGED githubFaults /\ run[p].at = "issues"
    BY <1>2 DEF Issues, Goes, RunAt
  <2>2. q \in Run /\ q.at = AfterIssues(p) /\ q.mark = run[p].mark /\ q.mode = run[p].mode
        /\ q.todo = run[p].todo /\ q.got = run[p].got
    BY <1>1 DEF Run, AfterIssues
  <2> HIDE DEF q
  <2>3. RunOK(q)
    BY <1>1, <2>1, <2>2 DEF RunOK, Current, Fresh, AfterIssues
  <2> QED
    BY <2>1, <2>2, <2>3, RunKeeps
<1>3. CASE ListTree(p)
  <2> DEFINE paths == {f \in Globbed[run[p].mark.config] : tree[f] # 0}
             at == IF paths = {} THEN "scan" ELSE "files"
             q == [run[p] EXCEPT !.todo = paths, !.at = at]
  <2>1. run' = [run EXCEPT ![p] = q] /\ OnlyRun /\ UNCHANGED githubFaults /\ run[p].at = "tree"
    BY <1>3 DEF ListTree, Goes, RunAt
  <2>2. paths \subseteq Files
    <3>1. run[p].mark.config \in Configs
      BY <1>1, <2>1 DEF RunOK
    <3> QED
      BY <3>1, GithubAssumption DEF Configs
  <2>3. at \in {"scan", "files"}
    OBVIOUS
  <2>4. Current(q) => Wanted = paths
    BY DEF Current, Wanted
  <2>5. q \in Run /\ q.at = at /\ q.mark = run[p].mark /\ q.mode = run[p].mode
        /\ q.todo = paths /\ q.got = run[p].got
    BY <1>1, <2>2, <2>3 DEF Run
  <2>6. at # "files" => paths = {}
    OBVIOUS
  <2> HIDE DEF q, paths, at
  <2>7. RunOK(q)
    BY <1>1, <2>1, <2>3, <2>4, <2>5, <2>6 DEF RunOK, Fresh, Covered, Current
  <2> QED
    BY <2>1, <2>5, <2>7, RunKeeps
<1> QED
  BY <1>2, <1>3

\* Reading a file, or failing to, leaves the others to do as they were.
LEMMA ReadingFileKeeps ==
  ASSUME GithubInv, OneGithubProcess, NEW p \in GithubProcesses, NEW f \in Files,
         ReadFile(p, f) \/ LoseFile(p, f) \/ LoseAuthor(p, f)
  PROVE  GithubInv'
<1>1. run[p] \in Run /\ RunOK(run[p]) /\ run[p].at = "files"
  BY GithubSets DEF GithubInv, GithubTypeOK, ReadFile, LoseFile, LoseAuthor, RunAt
<1>2. PICK rows \in SUBSET Row, lost \in BOOLEAN :
        /\ FileDone(p, f, rows, lost)
        /\ tree[f] = 0 \/ rows # {} \/ lost
        /\ \A row \in rows :
             /\ row.ver = tree[f]
             /\ (row.by = run[p].mark.config /\ row.dated) \/ (row.by = 0 /\ ~row.dated)
  <2>1. tree[f] \in Versions /\ run[p].mark.config \in Configs
    BY <1>1 DEF RunOK, GithubInv, GithubTypeOK
  <2>2. {[ver |-> tree[f], by |-> run[p].mark.config, dated |-> TRUE]} \in SUBSET Row
        /\ {[ver |-> tree[f], by |-> 0, dated |-> FALSE]} \in SUBSET Row
    BY <2>1 DEF Row
  <2>3. CASE ReadFile(p, f) /\ tree[f] = 0
    <3>1. FileDone(p, f, {}, FALSE)
      BY <2>3 DEF ReadFile
    <3> WITNESS {} \in SUBSET Row, FALSE \in BOOLEAN
    <3> QED
      BY <2>3, <3>1
  <2>4. CASE ReadFile(p, f) /\ tree[f] # 0
    <3> DEFINE rows == {[ver |-> tree[f], by |-> run[p].mark.config, dated |-> TRUE]}
    <3>1. FileDone(p, f, rows, FALSE)
      BY <2>4 DEF ReadFile
    <3>2. rows # {} /\ \A row \in rows :
            row.ver = tree[f] /\ row.by = run[p].mark.config /\ row.dated
      OBVIOUS
    <3>3. rows \in SUBSET Row
      BY <2>2
    <3> HIDE DEF rows
    <3> QED
      BY <3>1, <3>2, <3>3
  <2>5. CASE LoseFile(p, f)
    <3>1. FileDone(p, f, {}, TRUE)
      BY <2>5 DEF LoseFile
    <3> WITNESS {} \in SUBSET Row, TRUE \in BOOLEAN
    <3> QED
      BY <3>1
  <2>6. CASE LoseAuthor(p, f)
    <3> DEFINE rows == {[ver |-> tree[f], by |-> 0, dated |-> FALSE]}
    <3>1. FileDone(p, f, rows, FALSE)
      BY <2>6 DEF LoseAuthor
    <3>2. rows # {} /\ \A row \in rows : row.ver = tree[f] /\ row.by = 0 /\ ~row.dated
      OBVIOUS
    <3>3. rows \in SUBSET Row
      BY <2>2
    <3> HIDE DEF rows
    <3> QED
      BY <3>1, <3>2, <3>3
  <2> QED
    BY <2>3, <2>4, <2>5, <2>6
<1> DEFINE r == [run[p] EXCEPT !.todo = @ \ {f}, !.got[f] = rows,
                               !.mark.missed = IF lost THEN @ \cup {f} ELSE @]
           at == IF r.todo # {} THEN "files"
                 ELSE IF \E g \in Files : r.got[g] # {} THEN "store" ELSE "scan"
           q == [r EXCEPT !.at = at]
<1>3. run' = [run EXCEPT ![p] = q] /\ OnlyRun /\ (UNCHANGED githubFaults \/ GithubFault)
  BY <1>2 DEF FileDone, Goes, ReadFile, LoseFile, LoseAuthor
<1>4. at \in {"files", "store", "scan"} /\ (at # "files" => r.todo = {})
      /\ (at \notin {"files", "store"} => \A g \in Files : r.got[g] = {})
  OBVIOUS
<1> HIDE DEF at
<1>5. /\ r \in Run /\ r.todo = run[p].todo \ {f} /\ r.got = [run[p].got EXCEPT ![f] = rows]
      /\ r.mode = run[p].mode /\ r.ok = run[p].ok
  BY <1>1, <1>2 DEF Run, Mark
<1>6. /\ r.mark.pushed = run[p].mark.pushed /\ r.mark.config = run[p].mark.config
      /\ r.mark.missed = IF lost THEN run[p].mark.missed \cup {f} ELSE run[p].mark.missed
  BY <1>1 DEF Run, Mark
<1> HIDE DEF r
<1>7. q \in Run /\ q.at = at /\ q.mark = r.mark /\ q.mode = r.mode /\ q.ok = r.ok
      /\ q.todo = r.todo /\ q.got = r.got
  BY <1>4, <1>5 DEF Run
<1> HIDE DEF q
<1>8. \A g \in Files : Fresh(q, g)
  <2> SUFFICES ASSUME NEW g \in Files, NEW row \in q.got[g]
               PROVE  /\ \/ row.ver = tree[g]
                         \/ cursor.pushed < pushed /\ (q.mode = "full" => q.mark.pushed < pushed)
                      /\ (row.by = q.mark.config /\ row.dated) \/ (row.by = 0 /\ ~row.dated)
    BY DEF Fresh
  <2>1. CASE g = f
    <3>1. row \in rows
      BY <1>1, <1>5, <1>7, <2>1 DEF Run
    <3> QED
      BY <1>2, <1>6, <1>7, <2>1, <3>1
  <2>2. CASE g # f
    <3>1. row \in run[p].got[g] /\ Fresh(run[p], g)
      BY <1>1, <1>5, <1>7, <2>2 DEF RunOK, Run
    <3> QED
      BY <1>5, <1>6, <1>7, <3>1 DEF Fresh
  <2> QED
    BY <2>1, <2>2
<1>9. Current(q) => \A g \in Wanted : Covered(q, g)
  <2> SUFFICES ASSUME Current(q), NEW g \in Wanted PROVE Covered(q, g)
    OBVIOUS
  <2>1. Covered(run[p], g) /\ g \in Files /\ tree[g] # 0
    BY <1>1, <1>5, <1>6, <1>7, GithubAssumption DEF RunOK, Current, Wanted, GithubInv, GithubTypeOK, Configs
  <2>2. CASE g = f
    BY <1>1, <1>2, <1>5, <1>6, <1>7, <2>1, <2>2 DEF Covered, Run
  <2>3. CASE g # f
    BY <1>1, <1>5, <1>6, <1>7, <2>1, <2>3 DEF Covered, Run
  <2> QED
    BY <2>2, <2>3
<1>10. RunOK(q)
  BY <1>1, <1>4, <1>5, <1>6, <1>7, <1>8, <1>9 DEF RunOK
<1> QED
  BY <1>3, <1>7, <1>10, RunKeeps

\* A leg that fails takes the pass's word with it.
LEMMA FailingKeeps ==
  ASSUME GithubInv, OneGithubProcess, NEW p \in GithubProcesses, LegFails(p) \/ Leave(p)
  PROVE  GithubInv'
<1>1. run[p] \in Run /\ RunOK(run[p])
  BY GithubSets DEF GithubInv, GithubTypeOK
<1>2. CASE Leave(p)
  BY <1>2, IdleIsOK, GithubSets, RunKeeps DEF Leave, Goes, GithubInv
<1>3. CASE LegFails(p)
  <2>1. PICK q : /\ run' = [run EXCEPT ![p] = q]
                 /\ \/ run[p].at = "issues" /\ q = [run[p] EXCEPT !.ok = FALSE, !.at = AfterIssues(p)]
                    \/ q = [run[p] EXCEPT !.ok = FALSE, !.at = "scan", !.todo = {},
                                          !.got = [f \in Files |-> {}]]
                       /\ run[p].at \in {"tree", "files", "store"}
                    \/ run[p].at = "scan" /\ q = [run[p] EXCEPT !.ok = FALSE, !.at = "finish"]
    BY <1>3 DEF LegFails, Goes, RunAt
  <2>2. /\ q \in Run /\ ~q.ok /\ q.mark = run[p].mark /\ q.mode = run[p].mode
        /\ q.at \in {"tree", "scan", "finish"} /\ run[p].at # "idle"
        /\ q.todo \subseteq run[p].todo /\ (q.at # "files" => q.todo = {})
        /\ \A f \in Files : q.got[f] = {}
    <3>1. CASE run[p].at = "issues"
      BY <1>1, <2>1, <3>1 DEF Run, AfterIssues, RunOK
    <3>2. CASE run[p].at \in {"tree", "files", "store"}
      BY <1>1, <2>1, <3>2 DEF Run, RunOK
    <3>3. CASE run[p].at = "scan"
      BY <1>1, <2>1, <3>3 DEF Run, RunOK
    <3> QED
      BY <2>1, <3>1, <3>2, <3>3
  <2>3. RunOK(q)
    BY <1>1, <2>2 DEF RunOK, Fresh, Current
  <2> QED
    BY <1>3, <2>1, <2>2, <2>3, RunKeeps DEF LegFails
<1> QED
  BY <1>2, <1>3

\* What is written of a file is what there is, or shows that its author was lost, whenever
\* the pass or the cursor stands for the present.
LEMMA WritingKeeps ==
  ASSUME GithubInv, OneGithubProcess, NEW p \in GithubProcesses, NEW f \in Files, StoreFile(p, f)
  PROVE  GithubInv'
<1> DEFINE at == IF \E g \in Files \ {f} : run[p].got[g] # {} THEN "store" ELSE "scan"
           q == [run[p] EXCEPT !.got[f] = {}, !.at = at]
<1>1. run[p] \in Run /\ RunOK(run[p]) /\ run[p].at = "store" /\ run[p].todo = {}
  BY GithubSets DEF GithubInv, GithubTypeOK, StoreFile, RunAt, RunOK
<1>2. PICK new \in run[p].got[f] : item' = [item EXCEPT ![f] = Written(item[f], new)]
  BY DEF StoreFile
<1>3. run' = [run EXCEPT ![p] = q] /\ UNCHANGED <<remoteVars, commits, cursor, githubFaults>>
  BY DEF StoreFile, Goes
<1>4. at \in {"store", "scan"} /\ (at # "store" => \A g \in Files \ {f} : run[p].got[g] = {})
  OBVIOUS
<1> HIDE DEF at
<1>5. /\ q \in Run /\ q.at = at /\ q.mark = run[p].mark /\ q.mode = run[p].mode
      /\ q.ok = run[p].ok /\ q.todo = {} /\ q.got = [run[p].got EXCEPT ![f] = {}]
  BY <1>1, <1>4 DEF Run
<1> HIDE DEF q
<1>6. new \in Row /\ Written(item[f], new) \in Row
  BY <1>1, <1>2 DEF Run, Written, Row, GithubInv, GithubTypeOK
<1>7. GithubTypeOK'
  BY <1>2, <1>3, <1>5, <1>6 DEF GithubInv, GithubTypeOK, remoteVars
<1> DEFINE Settled(row) == \/ row = [ver |-> tree[f], by |-> config, dated |-> TRUE]
                           \/ row.ver = tree[f] /\ ~row.dated
<1>8. \/ Current(run[p])
      \/ cursor.pushed = pushed /\ cursor.config = config
      => Settled(Written(item[f], new))
  <2> SUFFICES ASSUME \/ Current(run[p])
                      \/ cursor.pushed = pushed /\ cursor.config = config
               PROVE  Settled(Written(item[f], new))
    OBVIOUS
  <2>1. pushed \in Nat /\ config \in Nat /\ cursor.config \in Nat /\ run[p].mark.config \in Nat
    BY <1>1, NumbersAre, RunsAre DEF GithubInv
  <2>2. new.ver = tree[f]
    BY <1>1, <1>2, <2>1 DEF RunOK, Fresh, Current
  <2>3. run[p].mark.config = config
    BY <1>1, <2>1 DEF RunOK, Current
  <2>4. (new.by = config /\ new.dated = TRUE) \/ (new.by = 0 /\ new.dated = FALSE)
    BY <1>1, <1>2, <1>6, <2>3 DEF RunOK, Fresh, Row
  <2>5. config # 0
    BY GithubSets DEF GithubInv, GithubTypeOK
  <2>6. CASE new.by = config
    BY <1>6, <2>2, <2>4, <2>5, <2>6 DEF Written, Row
  <2>7. CASE new.by = 0
    BY <1>6, <2>2, <2>4, <2>5, <2>7 DEF Written, Row
  <2> QED
    BY <2>4, <2>6, <2>7
<1>9. item'[f] = Written(item[f], new) /\ \A g \in Files \ {f} : item'[g] = item[g]
  BY <1>2 DEF GithubInv, GithubTypeOK
<1>10. CursorVouches'
  <2> SUFFICES ASSUME NextPassSkips
               PROVE  \A g \in Wanted : UpToDate(g)' \/ Swallowed(g)'
    BY <1>3 DEF GithubInv, CursorVouches, NextPassSkips, Wanted, remoteVars
  <2>1. cursor.pushed = pushed /\ cursor.config = config
    BY DEF NextPassSkips, ShouldSkip
  <2>2. ASSUME NEW g \in Wanted, g # f PROVE UpToDate(g)' \/ Swallowed(g)'
    <3>1. g \in Files
      BY GithubAssumption DEF Wanted, GithubInv, GithubTypeOK, Configs
    <3>2. UpToDate(g) \/ Swallowed(g)
      BY DEF GithubInv, CursorVouches
    <3> QED
      BY <1>3, <1>9, <2>2, <3>1, <3>2 DEF UpToDate, Swallowed, remoteVars
  <2>3. UpToDate(f)' \/ Swallowed(f)'
    BY <1>3, <1>8, <1>9, <2>1 DEF UpToDate, Swallowed, remoteVars
  <2> QED
    BY <2>2, <2>3
<1>11. run'[p] = q
  BY <1>3 DEF GithubInv, GithubTypeOK
<1>12. RunOK(run[p])'
  <2>1. ASSUME NEW g \in Files PROVE Fresh(run[p], g)'
    <3>1. Fresh(run[p], g) /\ run'[p].got[g] \subseteq run[p].got[g]
      BY <1>1, <1>5, <1>11 DEF RunOK, Run
    <3> QED
      BY <1>3, <1>5, <1>11, <3>1 DEF Fresh, remoteVars
  <2>2. ASSUME Current(run[p])', NEW g \in Wanted PROVE Covered(run[p], g)'
    <3>1. Current(run[p]) /\ Covered(run[p], g) /\ g \in Files
      BY <1>1, <1>3, <1>5, <1>11, <2>2, GithubAssumption
         DEF RunOK, Current, Wanted, GithubInv, GithubTypeOK, Configs, remoteVars
    <3>2. CASE g = f
      BY <1>3, <1>8, <1>9, <3>1, <3>2 DEF Covered, UpToDate, remoteVars
    <3>3. CASE g # f
      <4>1. run'[p].got[g] = run[p].got[g] /\ item'[g] = item[g]
        BY <1>1, <1>5, <1>9, <1>11, <3>1, <3>3 DEF Run
      <4> QED
        BY <1>1, <1>3, <1>5, <1>11, <3>1, <4>1 DEF Covered, UpToDate, remoteVars
    <3> QED
      BY <3>2, <3>3
  <2>3. run'[p].at \notin {"files", "store"} => \A g \in Files : run'[p].got[g] = {}
    BY <1>1, <1>4, <1>5, <1>11 DEF Run
  <2>4. Wanted' = Wanted
    BY <1>3 DEF Wanted, remoteVars
  <2>5. run'[p].at # "finish" /\ run'[p].todo = {} /\ run'[p].mark = run[p].mark
    BY <1>4, <1>5, <1>11
  <2> QED
    BY <1>1, <1>3, <2>1, <2>2, <2>3, <2>4, <2>5 DEF RunOK, remoteVars
<1>13. \A o \in GithubProcesses : RunOK(run[o])'
  BY <1>12 DEF OneGithubProcess
<1> QED
  BY <1>3, <1>7, <1>10, <1>13 DEF GithubInv, remoteVars

\* The scan reads the commits as they are.
LEMMA ScanningKeeps ==
  ASSUME GithubInv, OneGithubProcess, NEW p \in GithubProcesses, Scan(p)
  PROVE  GithubInv'
<1> DEFINE q == [run[p] EXCEPT !.at = "finish"]
<1>1. run[p] \in Run /\ RunOK(run[p]) /\ run[p].at = "scan"
  BY GithubSets DEF GithubInv, GithubTypeOK, Scan, RunAt
<1>2. run' = [run EXCEPT ![p] = q] /\ UNCHANGED <<remoteVars, item, cursor, githubFaults>>
  BY DEF Scan, Goes
<1>3. commits' = IF run[p].mode = "skip" THEN commits ELSE [ver |-> pushed, by |-> config]
  BY DEF Scan
<1>4. /\ q \in Run /\ q.at = "finish" /\ q.mark = run[p].mark /\ q.mode = run[p].mode
      /\ q.ok = run[p].ok /\ q.todo = run[p].todo /\ q.got = run[p].got
  BY <1>1 DEF Run
<1> HIDE DEF q
<1>5. GithubTypeOK'
  BY <1>2, <1>3, <1>4 DEF GithubInv, GithubTypeOK, remoteVars
<1>6. CursorVouches'
  BY <1>2, <1>3 DEF GithubInv, CursorVouches, NextPassSkips, Wanted, UpToDate, Swallowed, remoteVars
<1>7. run'[p] = q
  BY <1>2 DEF GithubInv, GithubTypeOK
<1>8. RunOK(run[p])'
  <2>1. \A f \in Files : Fresh(run[p], f)'
    BY <1>1, <1>2, <1>4, <1>7 DEF RunOK, Fresh, remoteVars
  <2>2. Current(run[p])' => Current(run[p])
    BY <1>2, <1>4, <1>7 DEF Current, remoteVars
  <2>3. \A f \in Wanted : Covered(run[p], f) => Covered(run[p], f)'
    BY <1>2, <1>4, <1>7 DEF Covered, UpToDate, remoteVars
  <2>4. Wanted' = Wanted
    BY <1>2 DEF Wanted, remoteVars
  <2>5. Current(run[p]) => commits' = [ver |-> pushed, by |-> config]
    BY <1>3 DEF Current
  <2> QED
    BY <1>1, <1>2, <1>4, <1>7, <2>1, <2>2, <2>3, <2>4, <2>5 DEF RunOK, remoteVars
<1>9. \A o \in GithubProcesses : RunOK(run[o])'
  BY <1>8 DEF OneGithubProcess
<1> QED
  BY <1>2, <1>5, <1>6, <1>9 DEF GithubInv, remoteVars

\* The cursor that a pass writes is vouched for by what the pass knows.
LEMMA FinishingKeeps ==
  ASSUME GithubInv, OneGithubProcess, NEW p \in GithubProcesses, Finish(p)
  PROVE  GithubInv'
<1>1. run[p] \in Run /\ RunOK(run[p]) /\ run[p].at = "finish"
  BY GithubSets DEF GithubInv, GithubTypeOK, Finish, RunAt
<1>2. run' = [run EXCEPT ![p] = IdleRun] /\ UNCHANGED <<remoteVars, item, commits, githubFaults>>
  BY DEF Finish, Goes
<1>3. cursor' = IF run[p].mode = "full" /\ run[p].ok THEN run[p].mark ELSE cursor
  BY DEF Finish
<1>4. cursor' \in Mark /\ cursor'.pushed <= pushed /\ cursor'.config <= config
  BY <1>1, <1>3 DEF RunOK, Run, GithubInv, GithubTypeOK
<1>5. GithubTypeOK'
  BY <1>2, <1>4, GithubSets DEF GithubInv, GithubTypeOK, remoteVars
<1>6. CursorVouches'
  <2>1. CASE cursor' = cursor
    BY <1>2, <2>1 DEF GithubInv, CursorVouches, NextPassSkips, Wanted, UpToDate, Swallowed, remoteVars
  <2>2. CASE run[p].mode = "full" /\ run[p].ok /\ cursor' = run[p].mark
    <3> SUFFICES ASSUME NextPassSkips'
                 PROVE  /\ commits = [ver |-> pushed, by |-> config]
                        /\ \A f \in Wanted : UpToDate(f) \/ Swallowed(f)'
      BY <1>2 DEF CursorVouches, Wanted, UpToDate, remoteVars
    <3>1. Current(run[p])
      BY <1>2, <2>2 DEF NextPassSkips, ShouldSkip, Current, remoteVars
    <3>2. ASSUME NEW f \in Wanted PROVE UpToDate(f) \/ Swallowed(f)'
      <4>1. f \in Files
        BY GithubAssumption DEF Wanted, GithubInv, GithubTypeOK, Configs
      <4>2. Covered(run[p], f) /\ run[p].todo = {} /\ run[p].got[f] = {}
        BY <1>1, <3>1, <4>1 DEF RunOK
      <4> QED
        BY <1>2, <2>2, <4>2 DEF Covered, Swallowed, remoteVars
    <3> QED
      BY <1>1, <3>1, <3>2 DEF RunOK
  <2> QED
    BY <1>3, <2>1, <2>2
<1>7. RunOK(IdleRun)'
  BY <1>5, GithubSets DEF RunOK, IdleRun, NoCursor, Current, Fresh, GithubTypeOK
<1>8. \A o \in GithubProcesses : run'[o] = IdleRun
  BY <1>2 DEF OneGithubProcess, GithubInv, GithubTypeOK
<1> QED
  BY <1>2, <1>4, <1>5, <1>6, <1>7, <1>8 DEF GithubInv, remoteVars

\* A push or an edit leaves every cursor and every pass behind; unlinking leaves no cursor.
LEMMA RemoteKeeps ==
  ASSUME GithubInv,
         (\E f \in Files, kept \in BOOLEAN : Push(f, kept)) \/ Reconfigure \/ Relink
  PROVE  GithubInv'
<1>1. pushed \in Nat /\ config \in Nat /\ cursor.pushed \in Nat /\ cursor.config \in Nat
  BY NumbersAre DEF GithubInv
<1>2. \A p \in GithubProcesses : /\ run[p] \in Run /\ run[p].mark.pushed \in Nat
                                 /\ run[p].mark.config \in Nat
  BY RunsAre DEF GithubInv, GithubTypeOK
<1>3. ASSUME NEW f \in Files, NEW kept \in BOOLEAN, Push(f, kept) PROVE GithubInv'
  <2>1. pushed' = pushed + 1 /\ UNCHANGED <<config, item, commits, cursor, run, githubFaults>>
    BY <1>3 DEF Push
  <2>2. GithubTypeOK'
    BY <1>1, <1>3, <2>1, GithubAssumption DEF Push, GithubInv, GithubTypeOK, Versions
  <2>3. ~NextPassSkips'
    BY <1>1, <2>1 DEF GithubInv, NextPassSkips, ShouldSkip
  <2>4. ASSUME NEW p \in GithubProcesses PROVE RunOK(run[p])'
    <3>1. RunOK(run[p]) /\ ~Current(run[p])'
      BY <1>1, <1>2, <2>1 DEF GithubInv, RunOK, Current
    <3>2. ASSUME NEW g \in Files PROVE Fresh(run[p], g)'
      BY <1>1, <1>2, <2>1, <3>1 DEF RunOK, Fresh, GithubInv
    <3> QED
      BY <1>1, <1>2, <2>1, <3>1, <3>2 DEF RunOK
  <2> QED
    BY <1>1, <2>1, <2>2, <2>3, <2>4 DEF GithubInv, CursorVouches
<1>4. CASE Reconfigure
  <2>1. config' = config + 1 /\ UNCHANGED <<tree, pushed, item, commits, cursor, run, githubFaults>>
    BY <1>4 DEF Reconfigure
  <2>2. GithubTypeOK'
    BY <1>4, <2>1 DEF Reconfigure, GithubInv, GithubTypeOK
  <2>3. ~NextPassSkips'
    BY <1>1, <2>1 DEF GithubInv, NextPassSkips, ShouldSkip
  <2>4. ASSUME NEW p \in GithubProcesses PROVE RunOK(run[p])'
    <3>1. RunOK(run[p])
      BY DEF GithubInv
    <3>2. run[p].at # "idle" => ~Current(run[p])'
      BY <1>1, <1>2, <2>1, <3>1 DEF RunOK, Current
    <3> QED
      BY <1>1, <1>2, <2>1, <3>1, <3>2 DEF RunOK, Fresh
  <2> QED
    BY <1>1, <2>1, <2>2, <2>3, <2>4 DEF GithubInv, CursorVouches
<1>5. CASE Relink
  <2>1. cursor' = NoCursor /\ UNCHANGED <<remoteVars, item, commits, run>>
    BY <1>5 DEF Relink
  <2>2. cursor' \in Mark /\ cursor'.pushed = 0 /\ cursor'.config = 0
    BY <2>1, GithubSets DEF NoCursor, IdleRun, Run
  <2>3. GithubTypeOK'
    BY <1>5, <2>1, <2>2, GithubAssumption DEF Relink, GithubFault, GithubInv, GithubTypeOK, remoteVars
  <2>4. ~NextPassSkips'
    BY <2>2 DEF NextPassSkips, ShouldSkip
  <2>5. ASSUME NEW p \in GithubProcesses PROVE RunOK(run[p])'
    <3>1. RunOK(run[p])
      BY DEF GithubInv
    <3>2. ASSUME NEW g \in Files PROVE Fresh(run[p], g)'
      BY <1>1, <2>1, <2>2, <3>1 DEF RunOK, Fresh, GithubInv, remoteVars
    <3> QED
      BY <1>1, <1>2, <2>1, <2>2, <3>1, <3>2
         DEF RunOK, Current, Covered, Wanted, UpToDate, remoteVars
  <2> QED
    BY <1>1, <2>1, <2>2, <2>3, <2>4, <2>5 DEF GithubInv, CursorVouches, remoteVars
<1> QED
  BY <1>3, <1>4, <1>5

\* One step of the leg keeps the invariant.
LEMMA GithubKeeps ==
  ASSUME GithubInv, OneGithubProcess, [GithubNext]_githubVars
  PROVE  GithubInv'
<1>1. CASE UNCHANGED githubVars
  BY <1>1 DEF githubVars, GithubInv, GithubTypeOK, CursorVouches, NextPassSkips, Wanted, UpToDate,
     Swallowed, RunOK, Current, Covered, Fresh
<1>2. ASSUME NEW p \in GithubProcesses, GithubStep(p) PROVE GithubInv'
  BY <1>2, ProbingKeeps, ListingKeeps, ReadingFileKeeps, WritingKeeps, ScanningKeeps, FinishingKeeps
     DEF GithubStep
<1>3. CASE GithubNext
  BY <1>2, <1>3, ProbingKeeps, FailingKeeps, ReadingFileKeeps, RemoteKeeps DEF GithubNext
<1> QED
  BY <1>1, <1>3

\* With one process the invariant holds throughout.
LEMMA GithubAlways == ASSUME OneGithubProcess PROVE Spec => []GithubInv
<1>1. GithubInv /\ [Next]_vars => GithubInv'
  BY GithubKeeps DEF Next, SlackLeg, GithubLeg, vars
<1> QED
  BY <1>1, GithubInvInit, PTL DEF Spec

\* A cursor that lets the next pass skip vouches for everything that pass would read,
\* whatever is pushed or edited between any two calls of a pass, and whatever fails,
\* but for what a pass swallows.
THEOREM WatermarkVouches == ASSUME OneGithubProcess PROVE Spec => []CursorVouches
<1>1. GithubInv => CursorVouches
  BY DEF GithubInv
<1> QED
  BY <1>1, GithubAlways, PTL

\* Tables, remote systems and passes keep their types, for any number of threads, files,
\* configurations, pushes and faults.
THEOREM IngestTypeCorrect == ASSUME OneGithubProcess PROVE Spec => []IngestTypeOK
<1> DEFINE LegOK == leg \in {"slack", "github"}
<1>1. Init => LegOK
  BY DEF Init
<1>2. LegOK /\ [Next]_vars => LegOK'
  BY DEF Next, SlackLeg, GithubLeg, vars
<1>3. SlackInv /\ GithubInv /\ LegOK => IngestTypeOK
  BY DEF SlackInv, GithubInv, IngestTypeOK
<1> HIDE DEF LegOK
<1> QED
  BY <1>1, <1>2, <1>3, SlackAlways, GithubAlways, PTL DEF Spec
=============================================================================
