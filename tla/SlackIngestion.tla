---------------------------- MODULE SlackIngestion ----------------------------
(***************************************************************************)
(* The Slack leg of the ingest tick over one channel: lib/ingest/run.ts,   *)
(* sources/slack.ts, sources/slack-deletions.ts, slack-cleanup.ts,         *)
(* purge.ts and the part of lib/ingest/index.ts that writes one thread.    *)
(*                                                                         *)
(* A thread is one item whose body is rendered from the whole              *)
(* conversation.  A pass reads the newest part of the channel, renders     *)
(* each thread it saw, stores them, and removes the stored threads that    *)
(* Slack no longer has.  Slack reports no deletion: a pass infers it from  *)
(* absence and asks before it deletes.  Every call is a step of its own,   *)
(* so the channel changes between any two of them, and a second process    *)
(* (a deployment's old and new instance; the running flag is a variable of *)
(* the process) may be anywhere in a pass of its own.                      *)
(***************************************************************************)
EXTENDS Integers, FiniteSets

CONSTANTS
  SlackProcesses,   \* server processes, each with a scheduler of its own
  LastThread,       \* threads are numbered by the ts of their root
  Window,           \* maxMessages: top-level messages that one read returns
  MessageBound,     \* messages posted and messages retracted in a behaviour
  SlackFaultBound   \* failed calls, abandoned passes and lost permissions in a behaviour

ASSUME SlackAssumption ==
  /\ LastThread \in Nat /\ Window \in Nat \ {0}
  /\ MessageBound \in Nat /\ SlackFaultBound \in Nat

Threads == 1 .. LastThread
Messages == {"root", "reply"}

VARIABLES
  posted,       \* the messages ever posted in a thread
  live,         \* those that Slack still has
  privacy,      \* what conversations.info says: public, private, or hidden (no scope)
  stored,       \* the item of a thread, with its version rows
  pass,         \* what each process holds of the pass it is in
  slackFaults   \* failures so far

channelVars == <<posted, live, privacy>>
slackVars == <<posted, live, privacy, stored, pass, slackFaults>>

NoItem == [body |-> {}, versions |-> {}]
Item == [body : SUBSET Messages, versions : SUBSET SUBSET Messages]

\* at: the next call; snap: the messages that the history held of each thread still to be
\* rendered; seen: the threads the history held; body: rendered threads still to be stored;
\* asking: threads to ask Slack about; doomed: threads to purge.
Pass == [at : {"idle", "history", "replies", "store", "plan", "confirm", "purge"},
         snap : [Threads -> SUBSET Messages], seen : SUBSET Threads,
         body : [Threads -> SUBSET SUBSET Messages],
         asking : SUBSET Threads, doomed : SUBSET Threads]
IdlePass == [at |-> "idle", snap |-> [t \in Threads |-> {}], seen |-> {},
             body |-> [t \in Threads |-> {}], asking |-> {}, doomed |-> {}]

SlackTypeOK ==
  /\ posted \in [Threads -> SUBSET Messages] /\ live \in [Threads -> SUBSET Messages]
  /\ privacy \in {"public", "private", "hidden"}
  /\ stored \in [Threads -> Item]
  /\ pass \in [SlackProcesses -> Pass]
  /\ slackFaults \in 0 .. SlackFaultBound

SlackInit ==
  /\ posted = [t \in Threads |-> {}] /\ live = [t \in Threads |-> {}] /\ privacy = "public"
  /\ stored = [t \in Threads |-> NoItem]
  /\ pass = [p \in SlackProcesses |-> IdlePass]
  /\ slackFaults = 0

-----------------------------------------------------------------------------
\* Slack, as the client sees it.

Exists(t) == live[t] # {}   \* the root, or the tombstone that Slack keeps above live replies

\* The newest top-level messages, one per thread.
Read == {t \in Threads : Exists(t) /\ Cardinality({u \in Threads : Exists(u) /\ u > t}) < Window}

\* The history of the channel is cut off after MessageBound events.
Retracted(t) == posted[t] \ live[t]
More ==
  LET all == Threads \X Messages
  IN  Cardinality({x \in all : x[2] \in posted[x[1]]})
        + Cardinality({x \in all : x[2] \in Retracted(x[1])}) < MessageBound

Post(t) ==
  /\ More
  /\ posted[t] = {} /\ \A u \in 1 .. t - 1 : posted[u] # {}
  /\ posted' = [posted EXCEPT ![t] = {"root"}] /\ live' = [live EXCEPT ![t] = {"root"}]
  /\ UNCHANGED <<privacy, stored, pass, slackFaults>>

Reply(t) ==
  /\ More
  /\ Exists(t) /\ "reply" \notin posted[t]
  /\ posted' = [posted EXCEPT ![t] = @ \cup {"reply"}]
  /\ live' = [live EXCEPT ![t] = @ \cup {"reply"}]
  /\ UNCHANGED <<privacy, stored, pass, slackFaults>>

Retract(t, m) ==
  /\ More
  /\ m \in live[t]
  /\ live' = [live EXCEPT ![t] = @ \ {m}]
  /\ UNCHANGED <<posted, privacy, stored, pass, slackFaults>>

MakePrivate ==
  /\ privacy' = "private" /\ privacy # "private"
  /\ UNCHANGED <<posted, live, stored, pass, slackFaults>>

\* The bot is removed from the channel or loses a scope, and gets it back.
LosePermission ==
  /\ privacy = "public" /\ privacy' = "hidden"
  /\ slackFaults < SlackFaultBound /\ slackFaults' = slackFaults + 1
  /\ UNCHANGED <<posted, live, stored, pass>>

RegainPermission ==
  /\ privacy = "hidden" /\ privacy' = "public"
  /\ UNCHANGED <<posted, live, stored, pass, slackFaults>>

-----------------------------------------------------------------------------
\* The pass of one process.

At(p, step) == pass[p].at = step
Becomes(p, q) == pass' = [pass EXCEPT ![p] = q]
Ends(p) == Becomes(p, IdlePass)
Fault == slackFaults < SlackFaultBound /\ slackFaults' = slackFaults + 1
Quiet == UNCHANGED <<channelVars, stored, slackFaults>>

Stored == {t \in Threads : stored[t] # NoItem}

\* The scheduler's tick or a manual sync, unless this process is already in a pass, and
\* its first question about the channel, conversations.info. A channel known to be private
\* is purged, one whose privacy cannot be established is left as it is; neither is read.
StartPass(p) ==
  /\ At(p, "idle")
  /\ \/ privacy = "public" /\ Becomes(p, [pass[p] EXCEPT !.at = "history"])
     \/ /\ privacy = "private" /\ Stored # {}
        /\ Becomes(p, [pass[p] EXCEPT !.at = "purge", !.doomed = Stored])
     \/ privacy = "private" /\ Stored = {} /\ Ends(p)
     \/ privacy = "hidden" /\ Ends(p)
  /\ Quiet

History(p) ==
  /\ At(p, "history")
  /\ Becomes(p, [pass[p] EXCEPT
       !.at = IF Read = {} THEN "plan" ELSE "replies", !.seen = Read,
       !.snap = [t \in Threads |-> IF t \in Read THEN live[t] ELSE {}]])
  /\ Quiet

\* Threads are visited from the newest to the oldest.
Newest(t, S) == t \in S /\ \A u \in S : u <= t
Unread(p) == {t \in Threads : pass[p].snap[t] # {}}
Unstored(p) == {t \in Threads : pass[p].body[t] # {}}

\* The thread is done with, its rendering b in hand, {} when there is none.
RepliesDone(p, t, b) ==
  LET q == [pass[p] EXCEPT !.snap[t] = {}, !.body[t] = b]
  IN  Becomes(p, [q EXCEPT !.at = IF Unread(p) # {t} THEN "replies"
                                  ELSE IF \E u \in Threads : q.body[u] # {} THEN "store"
                                  ELSE "plan"])

\* A root without replies is rendered from the history alone; otherwise, and for a
\* tombstone, the replies are read now. What the history held of the root is kept.
Rendered(p, t) ==
  LET held == pass[p].snap[t]
  IN  IF held = {"root"} THEN held ELSE (held \cap {"root"}) \cup (live[t] \cap {"reply"})

FetchReplies(p, t) ==
  /\ At(p, "replies") /\ Newest(t, Unread(p))
  /\ RepliesDone(p, t, {Rendered(p, t)})
  /\ Quiet

\* A thread whose replies cannot be read is left out of the pass; what is stored stands.
SkipThread(p, t) ==
  /\ At(p, "replies") /\ Newest(t, Unread(p)) /\ pass[p].snap[t] # {"root"}
  /\ RepliesDone(p, t, {})
  /\ Fault /\ UNCHANGED <<channelVars, stored>>

\* ingestItem, one transaction: a body equal to the stored one changes nothing, another one
\* becomes the current version and the bodies of all others are cleared.
Forget(versions, keep) == {IF v = keep THEN v ELSE {} : v \in versions}
\* A mutant: old versions are forgotten when the conversation got shorter.
IngestedForgetsOnShrink(item, b) ==
  IF item # NoItem /\ item.body = b THEN item
  ELSE IF Cardinality(b) < Cardinality(item.body)
       THEN [body |-> b, versions |-> Forget(item.versions, b) \cup {b}]
       ELSE [body |-> b, versions |-> item.versions \cup {b}]
Ingested(item, b) ==
  IF item # NoItem /\ item.body = b THEN item
  ELSE [body |-> b, versions |-> Forget(item.versions, b) \cup {b}]

StoreThread(p, t) ==
  /\ At(p, "store") /\ Newest(t, Unstored(p))
  /\ \E b \in pass[p].body[t] : stored' = [stored EXCEPT ![t] = Ingested(@, b)]
  /\ Becomes(p, [pass[p] EXCEPT !.body[t] = {},
                                !.at = IF Unstored(p) = {t} THEN "plan" ELSE "store"])
  /\ UNCHANGED <<channelVars, slackFaults>>

\* planSlackDeletions: a stored thread that the history did not hold and that is newer than
\* the oldest message the history held.
Candidates(p) == {t \in Stored \ pass[p].seen : \E u \in pass[p].seen : u < t}

PlanDeletions(p) ==
  /\ At(p, "plan")
  /\ Becomes(p, IF Candidates(p) = {} THEN IdlePass
                ELSE [IdlePass EXCEPT !.at = "confirm", !.asking = Candidates(p)])
  /\ Quiet

\* The candidate is judged: it joins the threads to purge, or is spared.
Judged(p, t, gone) ==
  LET q == [pass[p] EXCEPT !.asking = @ \ {t}, !.doomed = IF gone THEN @ \cup {t} ELSE @]
  IN  Becomes(p, IF q.asking # {} THEN q
                 ELSE IF q.doomed = {} THEN IdlePass
                 ELSE [q EXCEPT !.at = "purge"])

\* A mutant: the question is asked with replies(), which leaves the root out.
ConfirmByReplies(p, t) ==
  /\ At(p, "confirm") /\ t \in pass[p].asking
  /\ Judged(p, t, "reply" \notin live[t])
  /\ Quiet

\* threadExists: any message at all, the root or its tombstone included.
Confirm(p, t) ==
  /\ At(p, "confirm") /\ t \in pass[p].asking
  /\ Judged(p, t, ~Exists(t))
  /\ Quiet

\* Slack refuses to answer: the thread is spared until the next pass.
Spare(p, t) ==
  /\ At(p, "confirm") /\ t \in pass[p].asking
  /\ Judged(p, t, FALSE)
  /\ Fault /\ UNCHANGED <<channelVars, stored>>

\* purgeItemIds deletes the items one by one; their versions go with them.
PurgeItem(p, t) ==
  /\ At(p, "purge") /\ t \in pass[p].doomed
  /\ stored' = [stored EXCEPT ![t] = NoItem]
  /\ Becomes(p, IF pass[p].doomed = {t} THEN IdlePass
                ELSE [pass[p] EXCEPT !.doomed = @ \ {t}])
  /\ UNCHANGED <<channelVars, slackFaults>>

\* A call that throws ends the channel's pass where it stands: a lost connection, a failed
\* read or write of the database, a failed clean-up of the graph. So does a restart.
Abandon(p) ==
  /\ ~At(p, "idle") /\ Ends(p)
  /\ Fault /\ UNCHANGED <<channelVars, stored>>

-----------------------------------------------------------------------------
SlackStep(p) ==
  \/ StartPass(p) \/ History(p) \/ PlanDeletions(p)
  \/ \E t \in Threads : \/ FetchReplies(p, t) \/ StoreThread(p, t)
                        \/ Confirm(p, t) \/ PurgeItem(p, t)

SlackNext ==
  \/ \E p \in SlackProcesses :
       \/ SlackStep(p) \/ Abandon(p)
       \/ \E t \in Threads : SkipThread(p, t) \/ Spare(p, t)
  \/ \E t \in Threads : Post(t) \/ Reply(t) \/ \E m \in Messages : Retract(t, m)
  \/ MakePrivate \/ LosePermission \/ RegainPermission

-----------------------------------------------------------------------------
\* All text that a row still holds of a thread.
StoredText(t) == stored[t].body \cup UNION stored[t].versions

\* A thread is removed only once Slack has nothing of it, or the channel is private: not a
\* thread beyond the window, not a tombstone with live replies, and not one that another
\* process stored after this one read the history.
OnlyDeletedIsPurged ==
  [][\A t \in Threads :
       t \in Stored /\ stored'[t] = NoItem => live[t] = {} \/ privacy = "private"]_slackVars

\* Once the channel is quiet, what the store holds of the part of the channel that a pass
\* can judge is what Slack holds: retracted text is gone from the body and from every
\* version, deleted threads are gone, and a private channel has left nothing.
ChannelConverges ==
  <>[]/\ privacy = "public" =>
           \A t \in Threads :
             /\ t \in Read => t \in Stored /\ StoredText(t) = live[t]
             /\ ~Exists(t) /\ (\E u \in Read : u < t) => t \notin Stored
      /\ privacy = "private" => Stored = {}
=============================================================================
