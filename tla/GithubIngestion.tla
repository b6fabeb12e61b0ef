---------------------------- MODULE GithubIngestion ----------------------------
(***************************************************************************)
(* The GitHub leg of the ingest tick over one repository, with its         *)
(* watermark: runGithubIngestion in lib/ingest/run.ts, github-watermark.ts, *)
(* cursors.ts, sources/github-files.ts and the commit half of              *)
(* lib/codebases/github-api-scan.ts.                                       *)
(*                                                                         *)
(* A pass first asks GitHub for the repository's own timestamps.  When     *)
(* they and the configuration equal the stored cursor, the files and the   *)
(* commits are skipped; otherwise each is read again, call by call, while  *)
(* the repository and the configuration go on changing, and the cursor     *)
(* advances if no leg reported an error.                                   *)
(***************************************************************************)
EXTENDS Integers, Sequences

CONSTANTS
  GithubProcesses,  \* server processes; githubRunning is a variable of each
  Files,            \* paths of the repository
  Globbed,          \* Globbed[c]: the paths that the file globs of configuration c select
  PushBound,        \* pushes in a behaviour
  GithubFaultBound  \* failed calls, passes cut short and lost cursors in a behaviour

Configs == DOMAIN Globbed

ASSUME GithubAssumption ==
  /\ PushBound \in Nat /\ GithubFaultBound \in Nat
  /\ Globbed \in Seq(SUBSET Files) /\ Globbed # <<>>

VARIABLES
  tree,         \* the version of each file on the default branch, 0 when it has none
  pushed,       \* pushed_at and updated_at: pushes are seconds apart
  config,       \* globs, history window and identity map, in the order of their edits
  item,         \* the item of each file: its version, its author and its work-time
  commits,      \* the push and the configuration the contribution rows were computed from
  cursor,       \* the row of connector_cursors
  run,          \* what each process holds of the pass it is in
  githubFaults  \* failures so far

remoteVars == <<tree, pushed, config>>
githubVars == <<tree, pushed, config, item, commits, cursor, run, githubFaults>>

Versions == 0 .. PushBound
\* by: the configuration that named the author, 0 for nobody; dated: the work-time is known.
Row == [ver : Versions, by : Configs \cup {0}, dated : BOOLEAN]
NoRow == [ver |-> 0, by |-> 0, dated |-> FALSE]
\* missed: files that the pass which wrote the cursor lost without recording an error.
Mark == [pushed : Versions, config : Configs \cup {0}, missed : SUBSET Files]
NoCursor == [pushed |-> 0, config |-> 0, missed |-> {}]
\* at: the next call; mode: skip the deep legs, read everything, or read everything without
\* a probe to vouch for it; mark: the cursor to write; ok: no leg has failed; todo: files
\* still to read; got: files read and still to be stored.
Run == [at : {"idle", "probe", "issues", "tree", "files", "store", "scan", "finish"},
        mode : {"skip", "full", "blind"}, mark : Mark, ok : BOOLEAN,
        todo : SUBSET Files, got : [Files -> SUBSET Row]]
IdleRun == [at |-> "idle", mode |-> "full", mark |-> NoCursor, ok |-> TRUE,
            todo |-> {}, got |-> [f \in Files |-> {}]]

GithubTypeOK ==
  /\ tree \in [Files -> Versions] /\ pushed \in Versions /\ config \in Configs
  /\ item \in [Files -> Row] /\ commits \in [ver : Versions, by : Configs \cup {0}]
  /\ cursor \in Mark
  /\ run \in [GithubProcesses -> Run]
  /\ githubFaults \in 0 .. GithubFaultBound

GithubInit ==
  /\ tree = [f \in Files |-> 0] /\ pushed = 0 /\ config = 1
  /\ item = [f \in Files |-> NoRow] /\ commits = [ver |-> 0, by |-> 0]
  /\ cursor = NoCursor
  /\ run = [p \in GithubProcesses |-> IdleRun]
  /\ githubFaults = 0

-----------------------------------------------------------------------------
\* GitHub and the administrators.

\* A push writes or deletes one file.
Push(f, kept) ==
  /\ pushed < PushBound /\ pushed' = pushed + 1
  /\ kept \/ tree[f] # 0
  /\ tree' = [tree EXCEPT ![f] = IF kept THEN pushed + 1 ELSE 0]
  /\ UNCHANGED <<config, item, commits, cursor, run, githubFaults>>

\* New globs, or an alias that changes whom the authors resolve to.
Reconfigure ==
  /\ config + 1 \in Configs /\ config' = config + 1
  /\ UNCHANGED <<tree, pushed, item, commits, cursor, run, githubFaults>>

\* Unlinking deletes the cursor and no item; the repository is linked again later.
Relink ==
  /\ cursor # NoCursor /\ cursor' = NoCursor
  /\ githubFaults < GithubFaultBound /\ githubFaults' = githubFaults + 1
  /\ UNCHANGED <<remoteVars, item, commits, run>>

-----------------------------------------------------------------------------
\* The pass of one process.

RunAt(p, step) == run[p].at = step
Goes(p, r) == run' = [run EXCEPT ![p] = r]
GithubFault == githubFaults < GithubFaultBound /\ githubFaults' = githubFaults + 1
OnlyRun == UNCHANGED <<remoteVars, item, commits, cursor>>

\* The scheduler's tick or a manual sync, unless this process is already in a pass. The
\* configuration and the identity map are read before GitHub is asked anything.
StartRun(p) ==
  /\ RunAt(p, "idle")
  /\ Goes(p, [IdleRun EXCEPT !.at = "probe", !.mark.config = config])
  /\ OnlyRun /\ UNCHANGED githubFaults

\* shouldSkipGithubRepo: every part equal, and none null. A repository never pushed to has
\* no pushed_at.
ShouldSkip(stored, mark) ==
  stored.pushed # 0 /\ stored.pushed = mark.pushed /\ stored.config = mark.config

\* A forced pass ignores the cursor, and a cursor that cannot be read is no cursor.
Probe(p, forced) ==
  /\ RunAt(p, "probe")
  /\ LET mark == [run[p].mark EXCEPT !.pushed = pushed]
     IN  Goes(p, [run[p] EXCEPT !.at = "issues", !.mark = mark,
            !.mode = IF ~forced /\ ShouldSkip(cursor, mark) THEN "skip" ELSE "full"])
  /\ OnlyRun /\ UNCHANGED githubFaults

ProbeFails(p) ==
  /\ RunAt(p, "probe")
  /\ Goes(p, [run[p] EXCEPT !.at = "issues", !.mode = "blind"])
  /\ OnlyRun /\ GithubFault

AfterIssues(p) == IF run[p].mode = "skip" THEN "scan" ELSE "tree"

Issues(p) ==
  /\ RunAt(p, "issues")
  /\ Goes(p, [run[p] EXCEPT !.at = AfterIssues(p)])
  /\ OnlyRun /\ UNCHANGED githubFaults

ListTree(p) ==
  /\ RunAt(p, "tree")
  /\ LET paths == {f \in Globbed[run[p].mark.config] : tree[f] # 0}
     IN  Goes(p, [run[p] EXCEPT !.todo = paths, !.at = IF paths = {} THEN "scan" ELSE "files"])
  /\ OnlyRun /\ UNCHANGED githubFaults

\* The file is done with: rows holds what was read of it, and missed it if lost is TRUE.
FileDone(p, f, rows, lost) ==
  LET r == [run[p] EXCEPT !.todo = @ \ {f}, !.got[f] = rows,
                          !.mark.missed = IF lost THEN @ \cup {f} ELSE @]
  IN  Goes(p, [r EXCEPT !.at = IF r.todo # {} THEN "files"
                               ELSE IF \E g \in Files : r.got[g] # {} THEN "store"
                               ELSE "scan"])

\* Contents and last author of a file as they are now; one that was deleted since the tree
\* was listed is passed over.
ReadFile(p, f) ==
  /\ RunAt(p, "files") /\ f \in run[p].todo
  /\ FileDone(p, f, IF tree[f] = 0 THEN {}
                    ELSE {[ver |-> tree[f], by |-> run[p].mark.config, dated |-> TRUE]}, FALSE)
  /\ OnlyRun /\ UNCHANGED githubFaults

\* A contents request that GitHub refuses is passed over like a missing file, and no error
\* is recorded.
LoseFile(p, f) ==
  /\ RunAt(p, "files") /\ f \in run[p].todo
  /\ FileDone(p, f, {}, TRUE)
  /\ OnlyRun /\ GithubFault

\* A mutant: a file without an author is given to the connector.
LoseAuthorToConnector(p, f) ==
  /\ RunAt(p, "files") /\ f \in run[p].todo /\ tree[f] # 0
  /\ FileDone(p, f, {[ver |-> tree[f], by |-> -1, dated |-> FALSE]}, FALSE)
  /\ OnlyRun /\ GithubFault

\* So is a failed question for the last commit: no author, no work-time.
LoseAuthor(p, f) ==
  /\ RunAt(p, "files") /\ f \in run[p].todo /\ tree[f] # 0
  /\ FileDone(p, f, {[ver |-> tree[f], by |-> 0, dated |-> FALSE]}, FALSE)
  /\ OnlyRun /\ GithubFault

\* ingestItem: on an unchanged body an unresolved author clears nobody, but the work-time
\* of the push replaces the stored one, even by none.
Written(row, new) ==
  IF row.ver = new.ver /\ new.by = 0 THEN [new EXCEPT !.by = row.by] ELSE new

StoreFile(p, f) ==
  /\ RunAt(p, "store") /\ run[p].got[f] # {}
  /\ \E new \in run[p].got[f] : item' = [item EXCEPT ![f] = Written(@, new)]
  /\ Goes(p, [run[p] EXCEPT !.got[f] = {},
        !.at = IF \E g \in Files \ {f} : run[p].got[g] # {} THEN "store" ELSE "scan"])
  /\ UNCHANGED <<remoteVars, commits, cursor, githubFaults>>

\* The scan reads the commits and the identity map again. A skipped repository gets its
\* metadata only.
Scan(p) ==
  /\ RunAt(p, "scan")
  /\ commits' = IF run[p].mode = "skip" THEN commits ELSE [ver |-> pushed, by |-> config]
  /\ Goes(p, [run[p] EXCEPT !.at = "finish"])
  /\ UNCHANGED <<remoteVars, item, cursor, githubFaults>>

\* A leg that throws is recorded, and the next leg starts.
LegFails(p) ==
  /\ \/ RunAt(p, "issues") /\ Goes(p, [run[p] EXCEPT !.ok = FALSE, !.at = AfterIssues(p)])
     \/ /\ run[p].at \in {"tree", "files", "store"}
        /\ Goes(p, [run[p] EXCEPT !.ok = FALSE, !.at = "scan", !.todo = {},
                                  !.got = [f \in Files |-> {}]])
     \/ RunAt(p, "scan") /\ Goes(p, [run[p] EXCEPT !.ok = FALSE, !.at = "finish"])
  /\ OnlyRun /\ GithubFault

\* A mutant: the cursor advances over a pass in which a leg failed.
FinishRegardless(p) ==
  /\ RunAt(p, "finish") /\ Goes(p, IdleRun)
  /\ cursor' = IF run[p].mode = "full" THEN run[p].mark ELSE cursor
  /\ UNCHANGED <<remoteVars, item, commits, githubFaults>>

\* A mutant: the running flag is not released after a pass in which a leg failed.
FinishKeepsFlag(p) ==
  /\ RunAt(p, "finish") /\ Goes(p, IF run[p].ok THEN IdleRun ELSE run[p])
  /\ cursor' = IF run[p].mode = "full" /\ run[p].ok THEN run[p].mark ELSE cursor
  /\ UNCHANGED <<remoteVars, item, commits, githubFaults>>

\* The cursor advances after a full pass without errors over a probed repository.
Finish(p) ==
  /\ RunAt(p, "finish") /\ Goes(p, IdleRun)
  /\ cursor' = IF run[p].mode = "full" /\ run[p].ok THEN run[p].mark ELSE cursor
  /\ UNCHANGED <<remoteVars, item, commits, githubFaults>>

\* The pass ends where it stands: the cursor cannot be written, the process restarts, or a
\* call outside the legs throws.
Leave(p) ==
  /\ ~RunAt(p, "idle") /\ Goes(p, IdleRun)
  /\ OnlyRun /\ GithubFault

-----------------------------------------------------------------------------
GithubStep(p) ==
  \/ StartRun(p) \/ Probe(p, FALSE) \/ Issues(p) \/ ListTree(p) \/ Scan(p) \/ Finish(p)
  \/ \E f \in Files : ReadFile(p, f) \/ StoreFile(p, f)

GithubNext ==
  \/ \E p \in GithubProcesses :
       \/ GithubStep(p) \/ Probe(p, TRUE) \/ ProbeFails(p) \/ LegFails(p) \/ Leave(p)
       \/ \E f \in Files : LoseFile(p, f) \/ LoseAuthor(p, f)
  \/ \E f \in Files, kept \in BOOLEAN : Push(f, kept)
  \/ Reconfigure \/ Relink

-----------------------------------------------------------------------------
Wanted == {f \in Globbed[config] : tree[f] # 0}

\* The item holds what the branch holds, by the author the present identity map names, with
\* its work-time.
UpToDate(f) == item[f] = [ver |-> tree[f], by |-> config, dated |-> TRUE]

\* What a pass can lose of a file without an error: its contents, or the author and the
\* work-time of contents it did store.
Swallowed(f) == f \in cursor.missed \/ (item[f].ver = tree[f] /\ ~item[f].dated)

NextPassSkips == ShouldSkip(cursor, [pushed |-> pushed, config |-> config])

\* A cursor that makes the next pass skip vouches for everything that pass would have read:
\* no push, edit of the configuration, failed leg, failed probe or restart, of any earlier
\* pass, forced or not, leaves a change behind it. What was swallowed is the exception.
CursorVouches ==
  NextPassSkips =>
    /\ commits = [ver |-> pushed, by |-> config]
    /\ \A f \in Wanted : UpToDate(f) \/ Swallowed(f)

\* Once the repository is quiet every file it has is in the store as it is, except one that
\* a cursor written after a swallowed failure now hides from the passes to come.
FilesConverge == <>[](\A f \in Wanted : UpToDate(f) \/ (NextPassSkips /\ Swallowed(f)))
=============================================================================
