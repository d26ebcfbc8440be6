---------------------------- MODULE Checkpoints -----------------------------
(***************************************************************************)
(* Undo (src/cluxmate/core/checkpoints.py): the sessions of one working    *)
(* directory snapshot it into one shadow git repository and rewind their   *)
(* own files from it.  Each session has an engine process of its own, in   *)
(* which a turn's thread takes the snapshots around a turn                 *)
(* (src/cluxmate/core/jsonrpc_server.py) and the dispatch thread restores. *)
(* Nothing locks the repository across the several git commands of one     *)
(* operation, so each of them is a step here.                              *)
(*                                                                         *)
(* A content is known by who wrote it, how many commits there were then,   *)
(* and whether it is a removal or a file over the snapshot's size cap.     *)
(*                                                                         *)
(* In a calm environment one operation runs at a time and nobody writes    *)
(* meanwhile; nothing in the code enforces it.                             *)
(***************************************************************************)
EXTENDS Integers, Sequences, FiniteSets

CONSTANTS Session, File, User,
          Cap,          \* _MAX_COMMITS
          MaxAsides,    \* bound: files changed, turns stopped, processes restarted
          MaxCommits,   \* bound: commits in a calm environment
          MaxRaced      \* bound: commits in any other

ASSUME CheckpointAssumption ==
  /\ User \notin Session
  /\ Cap \in Nat \ {0}
  /\ MaxAsides \in Nat /\ MaxCommits \in Nat /\ MaxRaced \in Nat

VARIABLES
  calm,      \* the environment is a calm one; chosen once and for all
  asides,    \* how many of those there have been, for the bound only
  disk,      \* the work-tree the sessions and the user share
  index,     \* the shadow repository's index
  commits,   \* the shadow repository's history: whose commit, which tree
  base,      \* the shallow boundary: the oldest commit HEAD reaches
  kept,      \* the oldest commit gc has left
  running,   \* the sessions with a turn under way
  job,       \* the operation each thread of each process is in
  undone     \* the last rewind, for the properties only

vars == <<calm, asides, disk, index, commits, base, kept, running, job, undone>>

Writer == Session \cup {User}
Content == [by : Writer, at : 0 .. MaxCommits, gone : BOOLEAN, big : BOOLEAN]
Tree == [File -> Content]

\* git compares what is in a file; a path that is not there has no content.
Same(x, y) == x = y \/ (x.gone /\ y.gone)

Changed(before, after) == {f \in File : ~Same(before[f], after[f])}

Absent == [f \in File |-> [by |-> User, at |-> 0, gone |-> TRUE, big |-> FALSE]]

HEAD == IF commits = <<>> THEN Absent ELSE commits[Len(commits)].tree

-----------------------------------------------------------------------------
\* What a restore reads out of the history.

\* _commits_since: rev-list fails for a commit gc has pruned, and stops at
\* the boundary for one that is merely cut off.
Since(c) == IF c < kept THEN {}
            ELSE {i \in DOMAIN commits : i > c /\ i >= base}

\* The boundary commit has lost its parent: it adds its whole tree.
Parent(i) == IF i = base THEN Absent ELSE commits[i - 1].tree

FilesInCommit(i) == Changed(Parent(i), commits[i].tree)

OthersTouched(c, s) ==
  UNION {FilesInCommit(i) : i \in {j \in Since(c) : commits[j].by # s}}

SessionTouchedAlone(c, s) ==
  UNION {FilesInCommit(i) : i \in {j \in Since(c) : commits[j].by = s}}
    \ OthersTouched(c, s)

SessionTouched(c, s) ==
  UNION {FilesInCommit(i) : i \in {j \in Since(c) : commits[j].by = s}}

UncommittedStaged(paths) ==
  {f \in paths : ~Same(index[f], HEAD[f])}

\* git diff HEAD looks only at the paths git knows.
Uncommitted(paths) ==
  {f \in paths : ~index[f].gone /\ ~Same(disk[f], HEAD[f])}

-----------------------------------------------------------------------------
\* The threads that run git: a turn's, and the one that serves restores.
Thread == Session \X {"turn", "rewind"}

Job == [step : {"none", "add", "reset", "commit", "apply"},
        label : {"none", "pre", "post", "before", "after"},
        paths : SUBSET File, target : Nat, conflicts : SUBSET File, node : Nat]

NoJob == [step |-> "none", label |-> "none", paths |-> {}, target |-> 0,
          conflicts |-> {}, node |-> 0]

Nothing == [by |-> User, node |-> 0, paths |-> {}, before |-> Absent]

InJob(th) == job[th] # NoJob
Quiet == \A th \in Thread : ~InJob(th)
Room == Len(commits) < (IF calm THEN MaxCommits ELSE MaxRaced)

Begins(th) == ~InJob(th) /\ (calm => Quiet)

Init ==
  /\ calm \in BOOLEAN
  /\ asides = 0
  /\ disk \in [File -> {[by |-> User, at |-> 0, gone |-> g, big |-> FALSE] :
                          g \in BOOLEAN}]
  /\ index = Absent
  /\ commits = <<>>
  /\ base = 1 /\ kept = 1
  /\ running = {}
  /\ job = [th \in Thread |-> NoJob]
  /\ undone = Nothing

repository == <<index, commits>>
history == <<base, kept>>

Aside == asides < MaxAsides /\ asides' = asides + 1

\* A tool of a running turn, or the user, changes a file.
Edit(w, f) ==
  /\ w \in running \cup {User}
  /\ calm => Quiet
  /\ Aside
  /\ \E gone, big \in BOOLEAN :
       /\ ~(gone /\ big) /\ ~(gone /\ disk[f].gone)
       /\ disk' = [disk EXCEPT ![f] = [by |-> w, at |-> Len(commits),
                                       gone |-> gone, big |-> big]]
  /\ undone' = IF f \in undone.paths THEN Nothing ELSE undone
  /\ UNCHANGED <<calm, repository, history, running, job>>

Snapshot(s, label) ==
  job' = [job EXCEPT ![<<s, "turn">>] =
            [NoJob EXCEPT !.step = "add", !.label = label, !.paths = File]]

\* chat/send: the pre-turn checkpoint comes before the agent acts.
Send(s) ==
  /\ s \notin running /\ Begins(<<s, "turn">>) /\ Room
  /\ Snapshot(s, "pre")
  /\ UNCHANGED <<calm, asides, disk, repository, history, running, undone>>

\* The turn returns: the post-turn checkpoint.
TurnDone(s) ==
  /\ s \in running /\ Begins(<<s, "turn">>) /\ Room
  /\ Snapshot(s, "post")
  /\ UNCHANGED <<calm, asides, disk, repository, history, running, undone>>

\* The turn is cancelled or fails: there is no checkpoint.
Stop(s) ==
  /\ s \in running /\ ~InJob(<<s, "turn">>) /\ Aside
  /\ running' = running \ {s}
  /\ UNCHANGED <<calm, disk, repository, history, job, undone>>

\* What the turn does once its snapshot is taken, or has failed.
AfterSnapshot(s) ==
  running' = IF job[<<s, "turn">>].label = "pre" THEN running \cup {s}
             ELSE running \ {s}

-----------------------------------------------------------------------------
\* The steps of a snapshot, whole (snapshot) or scoped (_snapshot_paths).

Whole(th) == job[th].label \in {"pre", "post"}
At(th, step) == job[th].step = step
Becomes(th, step) == job' = [job EXCEPT ![th].step = step]

\* A scoped snapshot ends: on to the restore itself, or its response.
ScopedEnds(th, node) ==
  job' = [job EXCEPT ![th] =
            IF @.label = "before" THEN [@ EXCEPT !.step = "apply", !.node = node]
            ELSE NoJob]

SnapshotEnds(th, node) ==
  IF Whole(th)
  THEN job' = [job EXCEPT ![th] = NoJob] /\ AfterSnapshot(th[1])
  ELSE ScopedEnds(th, node) /\ UNCHANGED running

\* git add of named paths refuses them all if it knows one of them not.
Unmatched(th) ==
  ~Whole(th) /\ \E f \in job[th].paths : disk[f].gone /\ index[f].gone

Add(th) ==
  /\ At(th, "add") /\ ~Unmatched(th)
  /\ index' = [f \in File |-> IF f \in job[th].paths THEN disk[f] ELSE index[f]]
  /\ Becomes(th, "reset")
  /\ UNCHANGED <<calm, asides, disk, commits, history, running, undone>>

\* Without its last node a rewind cannot be found again, and so not undone.
Unrecorded(th) ==
  undone' = IF job[th].label = "after" THEN Nothing ELSE undone

AddRefused(th) ==
  /\ At(th, "add") /\ Unmatched(th)
  /\ SnapshotEnds(th, 0)
  /\ Unrecorded(th)
  /\ UNCHANGED <<calm, asides, disk, repository, history>>

OversizedNew(paths) == {f \in paths : HEAD[f].gone /\ disk[f].big}

\* The oversized files of the work-tree git has staged, back to HEAD's.
Oversized(paths) == {f \in paths : ~index[f].gone /\ disk[f].big}

Reset(th) ==
  /\ At(th, "reset")
  /\ index' = [f \in File |->
                 IF f \in Oversized(job[th].paths) THEN HEAD[f] ELSE index[f]]
  /\ Becomes(th, "commit")
  /\ UNCHANGED <<calm, asides, disk, commits, history, running, undone>>

Commit(th) ==
  /\ At(th, "commit") /\ Room
  /\ commits' = Append(commits, [by |-> th[1], tree |-> index])
  /\ SnapshotEnds(th, Len(commits'))
  /\ UNCHANGED <<calm, asides, disk, index, history, undone>>

\* git gives up if another process holds the index lock.  A snapshot then
\* ends, except that _snapshot_paths never looks at what its reset returns.
Locking == {"add", "reset", "commit", "apply"}

LockBusy(th) ==
  /\ job[th].step \in Locking \ {"apply"}
  /\ \E other \in Thread : other[1] # th[1] /\ job[other].step \in Locking
  /\ IF At(th, "reset") /\ ~Whole(th)
     THEN Becomes(th, "commit") /\ UNCHANGED <<running, undone>>
     ELSE SnapshotEnds(th, 0) /\ Unrecorded(th)
  /\ UNCHANGED <<calm, asides, disk, repository, history>>

-----------------------------------------------------------------------------
\* checkpoint/restore: what to rewind and what to warn of is settled before
\* the first snapshot.  The front end knows commits the history has lost.
Restore(s, c) ==
  LET th == <<s, "rewind">>
      touched == SessionTouched(c, s)
  IN /\ Begins(th) /\ Room
     /\ commits[c].by = s
     /\ job' = [job EXCEPT ![th] =
                  [step |-> "add", label |-> "before", paths |-> touched,
                   target |-> c, node |-> 0,
                   conflicts |-> (touched \cap OthersTouched(c, s))
                                   \cup Uncommitted(touched)]]
     /\ UNCHANGED <<calm, asides, disk, repository, history, running, undone>>

\* Each path is checked out of the target or, if it is not there, unlinked.
\* The loop over the paths is one step.
Target(th, f) == commits[job[th].target].tree[f]

RewoundKeepsNew(th, f) ==
  IF ~Target(th, f).gone THEN Target(th, f) ELSE disk[f]

Rewound(th, f) ==
  IF ~Target(th, f).gone THEN Target(th, f)
  ELSE IF disk[f].gone THEN disk[f]
  ELSE [by |-> th[1], at |-> Len(commits), gone |-> TRUE, big |-> FALSE]

Apply(th) ==
  LET paths == job[th].paths
  IN /\ At(th, "apply")
     /\ disk' = [f \in File |-> IF f \in paths THEN Rewound(th, f) ELSE disk[f]]
     /\ index' = [f \in File |->
                    IF f \in paths /\ ~Target(th, f).gone THEN Target(th, f)
                    ELSE index[f]]
     /\ job' = [job EXCEPT ![th].step = "add", ![th].label = "after"]
     /\ undone' = IF job[th].node = 0 THEN Nothing
                  ELSE [by |-> th[1], node |-> job[th].node,
                        paths |-> paths, before |-> disk]
     /\ UNCHANGED <<calm, asides, commits, history, running>>

\* _cap_commits: the oldest commit to keep.
Boundary ==
  LET oldest == Len(commits) - Cap + 1 IN IF oldest > base THEN oldest ELSE base

\* The process dies, and the next one caps the history on its first use of
\* the repository.  gc is skipped if its lock is taken.
Restart(s, swept) ==
  LET cut == Boundary
  IN /\ calm => Quiet
     /\ Aside
     /\ running' = running \ {s}
     /\ job' = [job EXCEPT ![<<s, "turn">>] = NoJob, ![<<s, "rewind">>] = NoJob]
     /\ base' = cut
     /\ kept' = IF swept THEN cut ELSE kept
     /\ UNCHANGED <<calm, disk, repository, undone>>

Next ==
  \/ \E w \in Writer, f \in File : Edit(w, f)
  \/ \E s \in Session :
       \/ Send(s) \/ TurnDone(s) \/ Stop(s)
       \/ \E c \in DOMAIN commits : Restore(s, c)
       \/ \E swept \in BOOLEAN : Restart(s, swept)
  \/ \E th \in Thread :
       Add(th) \/ AddRefused(th) \/ Reset(th) \/ Commit(th) \/ LockBusy(th) \/ Apply(th)

Spec == Init /\ [][Next]_vars

-----------------------------------------------------------------------------
TypeOK ==
  /\ calm \in BOOLEAN /\ asides \in 0 .. MaxAsides
  /\ disk \in Tree /\ index \in Tree
  /\ \A i \in DOMAIN commits : commits[i] \in [by : Session, tree : Tree]
  /\ 1 <= kept /\ kept <= base /\ base <= Len(commits) + 1
  /\ running \subseteq Session
  /\ job \in [Thread -> Job]
  /\ \A th \in Thread : job[th].target <= Len(commits) /\ job[th].node <= Len(commits)

\* "Files larger than this are never staged" (_MAX_FILE_BYTES): whatever
\* grows or shrinks between snapshots and rewinds, no commit holds one.
NoneBig(tree) == \A f \in File : ~tree[f].big

CalmCommitsAreSmall ==
  calm => \A i \in DOMAIN commits : NoneBig(commits[i].tree)

\* The commit that first held what is in f, and whose it is.
FirstHolds(i, f, x) ==
  commits[i].tree[f] = x /\ \A j \in 1 .. i - 1 : commits[j].tree[f] # x

FirstRecordedBy(s, f, x) ==
  \E i \in DOMAIN commits : commits[i].by = s /\ FirstHolds(i, f, x)

Rewinds(th) == At(th, "apply") /\ job'[th].label = "after"

\* A rewind to a checkpoint the history still reaches leaves nothing of what
\* the session wrote or removed after it and one of its own commits was the
\* first to record as a change (restore, _session_touched_since).
UndoIsComplete ==
  [][\A th \in Thread : calm /\ Rewinds(th) /\ job[th].target >= base =>
       \A f \in File, i \in DOMAIN commits :
         /\ disk'[f].by = th[1] /\ disk'[f].at >= job[th].target
         /\ commits[i].by = th[1] /\ FirstHolds(i, f, disk'[f])
         /\ f \in FilesInCommit(i)
         => Same(disk'[f], Target(th, f))]_vars

\* What another session or the user wrote after the checkpoint and the
\* rewind takes away is among the conflicts, unless a snapshot of the
\* session's own had picked it up first, git does not track the path, or it
\* is the removal of a file the last commit does not have.
ForeignWorkIsReported ==
  [][\A s \in Session, c \in DOMAIN commits :
       calm /\ c >= base /\ Restore(s, c) =>
         LET now == job'[<<s, "rewind">>]
         IN \A f \in now.paths :
              /\ disk[f].by # s /\ disk[f].at >= c
              /\ ~Same(disk[f], commits[c].tree[f])
              /\ ~FirstRecordedBy(s, f, disk[f]) /\ ~index[f].gone
              /\ ~(disk[f].gone /\ HEAD[f].gone)
              => f \in now.conflicts]_vars

\* Going back to the node a rewind left behind puts back what it took away,
\* unless someone has written there since or the file was over the cap.
RewindIsReversible ==
  [][\A th \in Thread :
       /\ calm /\ Rewinds(th) /\ undone.node >= base
       /\ undone.by = th[1] /\ undone.node = job[th].target
       => \A f \in undone.paths :
            undone.before[f].big \/ Same(disk'[f], undone.before[f])]_vars
=============================================================================
