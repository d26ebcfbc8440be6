-------------------------- MODULE CheckpointsProofs --------------------------
(***************************************************************************)
(* What holds of undo in a calm environment for any number of sessions,    *)
(* files and commits and any cap: no commit holds a file over the size     *)
(* cap; a rewind takes back everything its session has recorded, names the *)
(* files somebody else has changed, and can itself be taken back.          *)
(***************************************************************************)
EXTENDS Checkpoints, WellFoundedInduction, TLAPS

Held == [by : Writer, at : Nat, gone : BOOLEAN, big : BOOLEAN]
Trees == [File -> Held]
Past == [by : Session, tree : Trees]

\* The types, without the bounds.
Types ==
  /\ calm \in BOOLEAN
  /\ disk \in Trees
  /\ index \in Trees
  /\ commits \in Seq(Past)
  /\ base \in Nat \ {0} /\ kept \in Nat /\ kept <= base
  /\ running \subseteq Session
  /\ job \in [Thread -> Job]

\* A thread that applies a rewind, or is at one, has a commit as its target.
Aimed ==
  \A th \in Thread :
    /\ job[th].step = "apply" => job[th].label = "before"
    /\ job[th].label = "before" => job[th].target \in DOMAIN commits

LEMMA AbsentTyped == Absent \in Trees
BY DEF Absent, Trees, Held, Writer

LEMMA NoJobTyped == NoJob \in Job
BY DEF NoJob, Job

LEMMA TypesInit == Init => Types /\ Aimed
<1> SUFFICES ASSUME Init PROVE Types /\ Aimed
  OBVIOUS
<1>1. disk \in Trees
  <2> DEFINE There == {[by |-> User, at |-> 0, gone |-> g, big |-> FALSE] : g \in BOOLEAN}
  <2>1. There \subseteq Held
    <3>1. ASSUME NEW g \in BOOLEAN
          PROVE  [by |-> User, at |-> 0, gone |-> g, big |-> FALSE] \in Held
      <4>1. User \in Writer /\ 0 \in Nat
        BY DEF Writer
      <4> QED
        BY <4>1, Zenon DEF Held
    <3> QED
      BY <3>1, Zenon
  <2>2. disk \in [File -> There]
    BY DEF Init
  <2> QED
    BY <2>1, <2>2 DEF Trees
<1>2. index \in Trees /\ commits \in Seq(Past)
  BY AbsentTyped DEF Init
<1>3. job \in [Thread -> Job]
  BY NoJobTyped DEF Init
<1> QED
  BY <1>1, <1>2, <1>3, CheckpointAssumption DEF Init, Types, Aimed, NoJob

\* The jobs of the other threads stay, and this one's is j.
Turns(th, j) == job' = [job EXCEPT ![th] = j]

LEMMA TurnsTyped ==
  ASSUME Types, Aimed, NEW th \in Thread, NEW j \in Job, Turns(th, j),
         j.step = "apply" => j.label = "before",
         j.label = "before" => j.target \in DOMAIN commits',
         DOMAIN commits \subseteq DOMAIN commits'
  PROVE  /\ job' \in [Thread -> Job]
         /\ Aimed'
         /\ job'[th] = j
         /\ \A o \in Thread : o # th => job'[o] = job[o]
<1>1. job' \in [Thread -> Job] /\ job'[th] = j
      /\ \A o \in Thread : o # th => job'[o] = job[o]
  BY DEF Types, Turns
<1>2. Aimed'
  BY <1>1 DEF Aimed
<1> QED
  BY <1>1, <1>2

\* What a thread goes on to when its snapshot is over.
Ended(th, node) ==
  IF job[th].label = "before" THEN [job[th] EXCEPT !.step = "apply", !.node = node]
  ELSE NoJob

LEMMA SnapshotTurns ==
  ASSUME Types, NEW th \in Thread, NEW node \in Nat, SnapshotEnds(th, node)
  PROVE  /\ Turns(th, Ended(th, node))
         /\ Ended(th, node) \in Job
         /\ running' \subseteq Session
<1>1. job[th] \in Job /\ th[1] \in Session
  BY DEF Types, Thread
<1>2. Ended(th, node) \in Job
  BY <1>1, NoJobTyped DEF Ended, Job
<1>3. Turns(th, Ended(th, node))
  BY <1>1 DEF SnapshotEnds, ScopedEnds, Whole, Ended, Turns
<1>4. running' \subseteq Session
  BY <1>1 DEF SnapshotEnds, AfterSnapshot, Types
<1> QED
  BY <1>2, <1>3, <1>4

LEMMA EndedAimed ==
  ASSUME Types, Aimed, NEW th \in Thread, NEW node \in Nat
  PROVE  /\ Ended(th, node).step = "apply" => Ended(th, node).label = "before"
         /\ Ended(th, node).label = "before" =>
              /\ Ended(th, node).target \in DOMAIN commits
              /\ Ended(th, node).target = job[th].target
              /\ Ended(th, node).paths = job[th].paths
              /\ Ended(th, node).step = "apply"
              /\ job[th].label = "before"
         /\ Ended(th, node).step \in {"none", "apply"}
<1>1. job[th] \in Job
  BY DEF Types
<1> QED
  BY <1>1 DEF Ended, NoJob, Aimed, Job

-----------------------------------------------------------------------------
\* Types and targets, action by action.

LEMMA TypesEdit ==
  ASSUME Types, Aimed, NEW w \in Writer, NEW f \in File, Edit(w, f)
  PROVE  Types' /\ Aimed'
<1>1. disk' \in Trees
  <2>1. PICK gone \in BOOLEAN, big \in BOOLEAN :
          disk' = [disk EXCEPT ![f] = [by |-> w, at |-> Len(commits),
                                       gone |-> gone, big |-> big]]
    BY DEF Edit
  <2>2. [by |-> w, at |-> Len(commits), gone |-> gone, big |-> big] \in Held
    BY DEF Held, Types
  <2> QED
    BY <2>1, <2>2 DEF Types, Trees
<1> QED
  BY <1>1 DEF Types, Aimed, Edit, repository, history

LEMMA TypesBegin ==
  ASSUME Types, Aimed, NEW s \in Session, Send(s) \/ TurnDone(s)
  PROVE  /\ Types' /\ Aimed'
         /\ \E j \in Job : Turns(<<s, "turn">>, j) /\ j.step = "add" /\ j.label \in {"pre", "post"}
<1>1. <<s, "turn">> \in Thread
  BY DEF Thread
<1>2. PICK label \in {"pre", "post"} : Snapshot(s, label)
  BY DEF Send, TurnDone
<1> DEFINE j == [NoJob EXCEPT !.step = "add", !.label = label, !.paths = File]
<1>3. j \in Job /\ j.step = "add" /\ j.label = label
  BY <1>2 DEF NoJob, Job
<1>4. Turns(<<s, "turn">>, j)
  BY <1>2 DEF Snapshot, Turns
<1>5. commits' = commits
  BY DEF Send, TurnDone, repository
<1>6. job' \in [Thread -> Job] /\ Aimed'
  <2> HIDE DEF j
  <2> QED
    BY <1>1, <1>2, <1>3, <1>4, <1>5, TurnsTyped
<1>7. Types'
  BY <1>5, <1>6 DEF Types, Send, TurnDone, repository, history
<1> QED
  BY <1>3, <1>4, <1>6, <1>7

LEMMA TouchedTyped ==
  ASSUME Types, NEW c \in DOMAIN commits, NEW s \in Session
  PROVE  SessionTouched(c, s) \subseteq File
BY DEF SessionTouched, FilesInCommit, Changed

LEMMA TypesRestore ==
  ASSUME Types, Aimed, NEW s \in Session, NEW c \in DOMAIN commits, Restore(s, c)
  PROVE  /\ Types' /\ Aimed'
         /\ \E j \in Job : /\ Turns(<<s, "rewind">>, j)
                          /\ j.step = "add" /\ j.label = "before"
                          /\ j.target = c /\ j.paths = SessionTouched(c, s)
<1> DEFINE touched == SessionTouched(c, s)
           conflicts == (touched \cap OthersTouched(c, s)) \cup Uncommitted(touched)
           j == [step |-> "add", label |-> "before", paths |-> touched,
                 target |-> c, node |-> 0, conflicts |-> conflicts]
<1>1. <<s, "rewind">> \in Thread
  BY DEF Thread
<1>2. touched \subseteq File /\ conflicts \subseteq File
  BY TouchedTyped DEF Uncommitted
<1>3. c \in Nat
  BY DEF Types
<1>4. Turns(<<s, "rewind">>, j)
  BY DEF Restore, Turns
<1>5. j \in Job /\ j.step = "add" /\ j.label = "before" /\ j.target = c /\ j.paths = touched
  <2> HIDE DEF touched, conflicts
  <2> QED
    BY <1>2, <1>3 DEF Job
<1>6. commits' = commits
  BY DEF Restore, repository
<1> HIDE DEF j
<1>7. job' \in [Thread -> Job] /\ Aimed'
  BY <1>1, <1>4, <1>5, <1>6, TurnsTyped
<1>8. Types'
  BY <1>6, <1>7 DEF Types, Restore, repository, history
<1> QED
  BY <1>4, <1>5, <1>7, <1>8

LEMMA HeadTyped == Types => HEAD \in Trees
<1>1. ASSUME Types, commits # <<>> PROVE commits[Len(commits)] \in Past
  BY <1>1 DEF Types
<1> QED
  BY <1>1, AbsentTyped DEF HEAD, Past

\* A step of a snapshot that is not its last.
LEMMA StepTyped ==
  ASSUME Types, Aimed, NEW th \in Thread, NEW step \in {"reset", "commit"},
         Becomes(th, step), commits' = commits
  PROVE  /\ job' \in [Thread -> Job] /\ Aimed'
         /\ Turns(th, [job[th] EXCEPT !.step = step])
         /\ [job[th] EXCEPT !.step = step] \in Job
<1> DEFINE j == [job[th] EXCEPT !.step = step]
<1>1. job[th] \in Job
  BY DEF Types
<1>2. j \in Job /\ j.step = step /\ j.label = job[th].label /\ j.target = job[th].target
  BY <1>1 DEF Job
<1>3. Turns(th, j)
  BY DEF Becomes, Turns
<1>4. j.label = "before" => j.target \in DOMAIN commits'
  BY <1>2 DEF Aimed
<1> HIDE DEF j
<1>5. job' \in [Thread -> Job] /\ Aimed'
  BY <1>2, <1>3, <1>4, TurnsTyped
<1> QED
  BY <1>2, <1>3, <1>5 DEF j

\* A snapshot ends, recorded or not.
LEMMA EndTyped ==
  ASSUME Types, Aimed, NEW th \in Thread, NEW node \in Nat, SnapshotEnds(th, node),
         DOMAIN commits \subseteq DOMAIN commits'
  PROVE  job' \in [Thread -> Job] /\ Aimed' /\ running' \subseteq Session
<1> DEFINE j == Ended(th, node)
<1>1. Turns(th, j) /\ j \in Job /\ running' \subseteq Session
  BY SnapshotTurns
<1>2. /\ j.step = "apply" => j.label = "before"
      /\ j.label = "before" => j.target \in DOMAIN commits'
  BY EndedAimed
<1> HIDE DEF j
<1> QED
  BY <1>1, <1>2, TurnsTyped

LEMMA TypesAdd ==
  ASSUME Types, Aimed, NEW th \in Thread, Add(th) \/ Reset(th)
  PROVE  Types' /\ Aimed'
<1>1. commits' = commits /\ \E step \in {"reset", "commit"} : Becomes(th, step)
  <2>1. CASE Add(th)
    BY <2>1 DEF Add
  <2>2. CASE Reset(th)
    BY <2>2 DEF Reset
  <2> QED
    BY <2>1, <2>2
<1>2. job' \in [Thread -> Job] /\ Aimed'
  BY <1>1, StepTyped
<1>3. index' \in Trees
  <2>1. CASE Add(th)
    BY <2>1 DEF Add, Types, Trees
  <2>2. CASE Reset(th)
    BY <2>2, HeadTyped DEF Reset, Types, Trees
  <2> QED
    BY <2>1, <2>2
<1>4. UNCHANGED <<calm, disk, base, kept, running>>
  BY DEF Add, Reset, history
<1> QED
  BY <1>1, <1>2, <1>3, <1>4 DEF Types

LEMMA TypesEnd ==
  ASSUME Types, Aimed, NEW th \in Thread, AddRefused(th) \/ LockBusy(th)
  PROVE  Types' /\ Aimed'
<1>1. UNCHANGED <<calm, disk, index, commits, base, kept>>
  BY DEF AddRefused, LockBusy, repository, history
<1>2. CASE SnapshotEnds(th, 0)
  BY <1>1, <1>2, EndTyped DEF Types
<1>3. CASE Becomes(th, "commit") /\ UNCHANGED running
  BY <1>1, <1>3, StepTyped DEF Types
<1> QED
  BY <1>2, <1>3 DEF AddRefused, LockBusy

LEMMA CommitAppends ==
  ASSUME Types, NEW th \in Thread, Commit(th)
  PROVE  /\ commits' \in Seq(Past)
         /\ Len(commits') = Len(commits) + 1 /\ Len(commits) \in Nat
         /\ DOMAIN commits = 1 .. Len(commits) /\ DOMAIN commits' = 1 .. Len(commits')
         /\ \A i \in DOMAIN commits : commits'[i] = commits[i]
         /\ commits'[Len(commits')] = [by |-> th[1], tree |-> index]
         /\ UNCHANGED <<calm, disk, index, base, kept>>
<1> DEFINE new == [by |-> th[1], tree |-> index]
<1>1. th[1] \in Session /\ index \in Trees
  BY DEF Types, Thread
<1>2. new \in Past
  BY <1>1 DEF Past
<1>3. commits' = Append(commits, new) /\ UNCHANGED <<calm, disk, index, base, kept>>
  BY DEF Commit, history
<1>4. commits \in Seq(Past)
  BY DEF Types
<1> HIDE DEF new
<1>5. /\ commits' \in Seq(Past) /\ Len(commits') = Len(commits) + 1 /\ Len(commits) \in Nat
      /\ DOMAIN commits = 1 .. Len(commits) /\ DOMAIN commits' = 1 .. Len(commits')
      /\ \A i \in DOMAIN commits : commits'[i] = commits[i]
      /\ commits'[Len(commits')] = new
  BY <1>2, <1>3, <1>4
<1> QED
  BY <1>3, <1>5 DEF new

LEMMA CommitDomain ==
  ASSUME Types, NEW th \in Thread, Commit(th)
  PROVE  /\ Len(commits') \in Nat
         /\ DOMAIN commits \subseteq DOMAIN commits'
         /\ \A i \in DOMAIN commits' : i \in DOMAIN commits \/ i = Len(commits')
         /\ \A i \in DOMAIN commits : i < Len(commits')
<1> DEFINE m == Len(commits)
           n == Len(commits')
<1>1. m \in Nat /\ n = m + 1 /\ DOMAIN commits = 1 .. m /\ DOMAIN commits' = 1 .. n
  BY CommitAppends
<1> HIDE DEF m, n
<1>2. /\ n \in Nat /\ 1 .. m \subseteq 1 .. n
      /\ \A i \in 1 .. n : i \in 1 .. m \/ i = n
      /\ \A i \in 1 .. m : i < n
  BY <1>1
<1> QED
  BY <1>1, <1>2 DEF n

LEMMA TypesCommit ==
  ASSUME Types, Aimed, NEW th \in Thread, Commit(th)
  PROVE  Types' /\ Aimed'
<1>1. SnapshotEnds(th, Len(commits'))
  BY DEF Commit
<1>2. Len(commits') \in Nat /\ DOMAIN commits \subseteq DOMAIN commits'
  BY CommitDomain
<1>3. job' \in [Thread -> Job] /\ Aimed' /\ running' \subseteq Session
  BY <1>1, <1>2, EndTyped
<1> QED
  BY <1>3, CommitAppends DEF Types

LEMMA TargetTyped ==
  ASSUME Types, Aimed, NEW th \in Thread, At(th, "apply"), NEW f \in File
  PROVE  /\ job[th].target \in DOMAIN commits
         /\ Target(th, f) \in Held
         /\ Target(th, f) = commits[job[th].target].tree[f]
<1>1. job[th].target \in DOMAIN commits
  BY DEF Aimed, At
<1>2. commits[job[th].target] \in Past
  BY <1>1 DEF Types
<1> QED
  BY <1>1, <1>2 DEF Target, Past, Trees

LEMMA RewoundTyped ==
  ASSUME Types, Aimed, NEW th \in Thread, At(th, "apply"), NEW f \in File
  PROVE  Rewound(th, f) \in Held
<1>1. Target(th, f) \in Held /\ disk[f] \in Held
  BY TargetTyped DEF Types, Trees
<1>2. th[1] \in Writer /\ Len(commits) \in Nat
  BY DEF Types, Thread, Writer
<1>3. [by |-> th[1], at |-> Len(commits), gone |-> TRUE, big |-> FALSE] \in Held
  BY <1>2 DEF Held
<1> QED
  BY <1>1, <1>3, Zenon DEF Rewound

LEMMA ApplyTurns ==
  ASSUME Types, Aimed, NEW th \in Thread, Apply(th)
  PROVE  \E j \in Job : /\ Turns(th, j) /\ j.step = "add" /\ j.label = "after"
                       /\ job'[th].label = "after"
<1>1. job[th] \in Job /\ job' = [job EXCEPT ![th].step = "add", ![th].label = "after"]
  BY DEF Types, Apply
<1> DEFINE j == [job[th] EXCEPT !.step = "add", !.label = "after"]
<1>2. j \in Job /\ j.step = "add" /\ j.label = "after"
  BY <1>1 DEF Job
<1>3. job' = [job EXCEPT ![th] = j]
  BY <1>1 DEF Types
<1> QED
  BY <1>2, <1>3 DEF Turns, Types

LEMMA TypesApply ==
  ASSUME Types, Aimed, NEW th \in Thread, Apply(th)
  PROVE  Types' /\ Aimed'
<1>1. UNCHANGED <<calm, commits, base, kept, running>> /\ At(th, "apply")
  BY DEF Apply, history
<1>2. job' \in [Thread -> Job] /\ Aimed'
  BY <1>1, ApplyTurns, TurnsTyped
<1>3. disk' \in Trees
  <2>1. disk' = [f \in File |-> IF f \in job[th].paths THEN Rewound(th, f) ELSE disk[f]]
    BY DEF Apply
  <2>2. \A f \in File : Rewound(th, f) \in Held /\ disk[f] \in Held
    BY <1>1, RewoundTyped DEF Types, Trees
  <2> QED
    BY <2>1, <2>2, Zenon DEF Trees
<1>4. index' \in Trees
  <2>1. index' = [f \in File |-> IF f \in job[th].paths /\ ~Target(th, f).gone
                               THEN Target(th, f) ELSE index[f]]
    BY DEF Apply
  <2>2. \A f \in File : Target(th, f) \in Held /\ index[f] \in Held
    BY <1>1, TargetTyped DEF Types, Trees
  <2> QED
    BY <2>1, <2>2, Zenon DEF Trees
<1> QED
  BY <1>1, <1>2, <1>3, <1>4 DEF Types

LEMMA TypesRestart ==
  ASSUME Types, Aimed, NEW s \in Session, NEW swept \in BOOLEAN, Restart(s, swept)
  PROVE  /\ Types' /\ Aimed'
         /\ job' \in [Thread -> Job]
         /\ \A th \in Thread : job'[th] \in {job[th], NoJob}
<1>1. UNCHANGED <<calm, disk, index, commits>> /\ running' \subseteq Session
  BY DEF Restart, repository, Types
<1>2. job' \in [Thread -> Job] /\ \A th \in Thread : job'[th] \in {job[th], NoJob}
  BY NoJobTyped DEF Restart, Types
<1>3. Aimed'
  BY <1>1, <1>2 DEF Aimed, NoJob
<1>4. base' \in Nat \ {0} /\ kept' \in Nat /\ kept' <= base'
  BY CheckpointAssumption DEF Restart, Boundary, Types
<1> QED
  BY <1>1, <1>2, <1>3, <1>4 DEF Types

\* Threads act on the shared repository; the rest of Next is the users'.
ThreadSteps(th) ==
  Add(th) \/ AddRefused(th) \/ Reset(th) \/ Commit(th) \/ LockBusy(th) \/ Apply(th)

LEMMA TypesNext == Types /\ Aimed /\ [Next]_vars => Types' /\ Aimed'
<1> SUFFICES ASSUME Types, Aimed, [Next]_vars PROVE Types' /\ Aimed'
  OBVIOUS
<1>1. ASSUME NEW w \in Writer, NEW f \in File, Edit(w, f) PROVE Types' /\ Aimed'
  BY <1>1, TypesEdit
<1>2. ASSUME NEW s \in Session, Send(s) \/ TurnDone(s) PROVE Types' /\ Aimed'
  BY <1>2, TypesBegin
<1>3. ASSUME NEW s \in Session, Stop(s) PROVE Types' /\ Aimed'
  BY <1>3 DEF Types, Aimed, Stop, repository, history
<1>4. ASSUME NEW s \in Session, NEW c \in DOMAIN commits, Restore(s, c) PROVE Types' /\ Aimed'
  BY <1>4, TypesRestore
<1>5. ASSUME NEW s \in Session, NEW swept \in BOOLEAN, Restart(s, swept) PROVE Types' /\ Aimed'
  BY <1>5, TypesRestart
<1>6. ASSUME NEW th \in Thread, ThreadSteps(th) PROVE Types' /\ Aimed'
  BY <1>6, TypesAdd, TypesEnd, TypesCommit, TypesApply DEF ThreadSteps
<1>7. CASE UNCHANGED vars
  BY <1>7 DEF Types, Aimed, vars
<1> QED
  BY <1>1, <1>2, <1>3, <1>4, <1>5, <1>6, <1>7 DEF Next, ThreadSteps

-----------------------------------------------------------------------------
(***************************************************************************)
(* One operation at a time.                                                *)
(***************************************************************************)
Alone == \A th, o \in Thread : InJob(th) /\ InJob(o) => th = o

LEMMA BusyInJob ==
  ASSUME NEW th \in Thread, job[th].step # "none"
  PROVE  InJob(th)
BY DEF InJob, NoJob

\* A thread that is in a job goes on with it, or begins one among none.
LEMMA AloneTurns ==
  ASSUME Types, Alone, NEW th \in Thread, NEW j \in Job, Turns(th, j),
         InJob(th) \/ Quiet
  PROVE  Alone' /\ \A o \in Thread : o # th => ~InJob(o) /\ job'[o] = NoJob
<1>1. \A o \in Thread : o # th => job'[o] = job[o] /\ ~InJob(o)
  BY DEF Turns, Types, Alone, Quiet
<1> QED
  BY <1>1 DEF Alone, InJob

\* What each step of a thread is to its job.
LEMMA ThreadTurns ==
  ASSUME Types, Aimed, NEW th \in Thread, ThreadSteps(th)
  PROVE  /\ InJob(th)
         /\ \E j \in Job : Turns(th, j)
<1>1. InJob(th)
  BY BusyInJob DEF ThreadSteps, Add, AddRefused, Reset, Commit, LockBusy, Apply, At, Locking
<1> SUFFICES \E j \in Job : Turns(th, j)
  BY <1>1
<1>2. CASE Add(th)
  BY <1>2, StepTyped DEF Add
<1>3. CASE Reset(th)
  BY <1>3, StepTyped DEF Reset
<1>4. CASE AddRefused(th)
  BY <1>4, SnapshotTurns DEF AddRefused
<1>5. CASE Commit(th)
  <2>1. SnapshotEnds(th, Len(commits')) /\ Len(commits') \in Nat
    BY <1>5, CommitAppends DEF Commit
  <2> QED
    BY <2>1, SnapshotTurns
<1>6. CASE LockBusy(th)
  <2>1. CASE SnapshotEnds(th, 0)
    BY <2>1, SnapshotTurns
  <2>2. CASE Becomes(th, "commit")
    BY <1>6, <2>2, StepTyped DEF LockBusy, repository
  <2> QED
    BY <1>6, <2>1, <2>2 DEF LockBusy
<1>7. CASE Apply(th)
  BY <1>7, ApplyTurns
<1> QED
  BY <1>1, <1>2, <1>3, <1>4, <1>5, <1>6, <1>7 DEF ThreadSteps

\* Alone, no thread finds the lock taken.
LEMMA NeverBusy ==
  ASSUME Types, Alone, NEW th \in Thread
  PROVE  ~LockBusy(th)
<1>1. ASSUME LockBusy(th) PROVE FALSE
  <2>1. PICK o \in Thread : o[1] # th[1] /\ job[o].step \in Locking
    BY <1>1 DEF LockBusy
  <2>2. job[th].step # "none" /\ job[o].step # "none"
    BY <1>1, <2>1 DEF LockBusy, Locking
  <2> QED
    BY <2>1, <2>2, BusyInJob DEF Alone
<1> QED
  BY <1>1

AloneInCalm == calm => Alone

LEMMA AloneNext ==
  ASSUME Types, Aimed, AloneInCalm, [Next]_vars
  PROVE  AloneInCalm'
<1>0. calm' = calm
  BY DEF Next, vars, Edit, Send, TurnDone, Stop, Restore, Restart, Add, AddRefused,
         Reset, Commit, LockBusy, Apply
<1> SUFFICES ASSUME calm, Alone PROVE Alone'
  BY <1>0 DEF AloneInCalm
<1>1. ASSUME NEW w \in Writer, NEW f \in File, Edit(w, f) PROVE Alone'
  BY <1>1 DEF Edit, Alone, InJob
<1>2. ASSUME NEW s \in Session, Send(s) \/ TurnDone(s) PROVE Alone'
  <2>1. Quiet /\ <<s, "turn">> \in Thread
    BY <1>2 DEF Send, TurnDone, Begins, Thread
  <2> QED
    BY <1>2, <2>1, TypesBegin, AloneTurns
<1>3. ASSUME NEW s \in Session, Stop(s) PROVE Alone'
  BY <1>3 DEF Stop, Alone, InJob
<1>4. ASSUME NEW s \in Session, NEW c \in DOMAIN commits, Restore(s, c) PROVE Alone'
  <2>1. Quiet /\ <<s, "rewind">> \in Thread
    BY <1>4 DEF Restore, Begins, Thread
  <2> QED
    BY <1>4, <2>1, TypesRestore, AloneTurns
<1>5. ASSUME NEW s \in Session, NEW swept \in BOOLEAN, Restart(s, swept) PROVE Alone'
  BY <1>5, TypesRestart DEF Alone, InJob
<1>6. ASSUME NEW th \in Thread, ThreadSteps(th) PROVE Alone'
  BY <1>6, ThreadTurns, AloneTurns
<1>7. CASE UNCHANGED vars
  BY <1>7 DEF vars, Alone, InJob
<1> QED
  BY <1>1, <1>2, <1>3, <1>4, <1>5, <1>6, <1>7 DEF Next, ThreadSteps

-----------------------------------------------------------------------------
(***************************************************************************)
(* No commit holds a big file.  The index holds one only between the add   *)
(* and the reset of one snapshot.                                          *)
(***************************************************************************)
Staging(f) ==
  \E th \in Thread : At(th, "reset") /\ f \in job[th].paths /\ disk[f].big

Proper(tree) == \A f \in File : ~(tree[f].gone /\ tree[f].big)

Small ==
  /\ \A i \in DOMAIN commits : NoneBig(commits[i].tree)
  /\ Proper(disk)
  /\ Proper(index)
  /\ \A f \in File : index[f].big => Staging(f)

SmallInCalm == calm => Small

LEMMA SmallInit == Init => SmallInCalm
<1> SUFFICES ASSUME Init PROVE Small
  BY DEF SmallInCalm
<1>1. \A f \in File : disk[f].big = FALSE
  BY DEF Init
<1>2. \A f \in File : index[f].big = FALSE
  BY DEF Init, Absent
<1>3. DOMAIN commits = {}
  BY DEF Init
<1> QED
  BY <1>1, <1>2, <1>3, Zenon DEF Small, Proper

LEMMA NothingStaged ==
  ASSUME Alone, Small,
         Quiet \/ \E th \in Thread : InJob(th) /\ ~At(th, "reset")
  PROVE  NoneBig(index)
<1>1. ASSUME NEW o \in Thread PROVE ~At(o, "reset")
  <2>1. At(o, "reset") => InJob(o)
    BY BusyInJob DEF At
  <2> QED
    BY <2>1 DEF Quiet, Alone
<1> QED
  BY <1>1 DEF Small, NoneBig, Staging

\* Steps that leave the files, the index and the history alone.
LEMMA SmallQuiet ==
  ASSUME Small, NoneBig(index), UNCHANGED <<disk, index, commits>>
  PROVE  Small'
BY DEF Small, NoneBig, Proper

LEMMA SmallEdit ==
  ASSUME Types, Small, NEW w \in Writer, NEW f \in File, Edit(w, f), Quiet, Alone
  PROVE  Small'
<1>1. UNCHANGED <<index, commits, job>>
  BY DEF Edit, repository
<1>2. Proper(disk')
  <2>1. PICK gone \in BOOLEAN, big \in BOOLEAN :
          /\ ~(gone /\ big)
          /\ disk' = [disk EXCEPT ![f] = [by |-> w, at |-> Len(commits),
                                         gone |-> gone, big |-> big]]
    BY DEF Edit
  <2> DEFINE written == [by |-> w, at |-> Len(commits), gone |-> gone, big |-> big]
  <2>2. \A g \in File : g # f => disk'[g] = disk[g]
    BY <2>1 DEF Types, Trees
  <2>3. disk'[f] = written
    BY <2>1 DEF Types, Trees
  <2>4. written.gone = gone /\ written.big = big
    BY Zenon
  <2> HIDE DEF written
  <2> QED
    BY <2>1, <2>2, <2>3, <2>4, Zenon DEF Small, Proper
<1>3. NoneBig(index)
  BY NothingStaged
<1> QED
  BY <1>1, <1>2, <1>3, Zenon DEF Small, NoneBig

LEMMA SmallAdd ==
  ASSUME Types, Small, Alone, NEW th \in Thread, Add(th)
  PROVE  Small'
<1>1. /\ index' = [f \in File |-> IF f \in job[th].paths THEN disk[f] ELSE index[f]]
      /\ UNCHANGED <<disk, commits>> /\ At(th, "add") /\ Becomes(th, "reset")
  BY DEF Add
<1>2. NoneBig(index)
  <2>1. InJob(th) /\ ~At(th, "reset")
    BY <1>1, BusyInJob DEF At
  <2> QED
    BY <2>1, NothingStaged
<1>3. job'[th].step = "reset" /\ job'[th].paths = job[th].paths
  BY <1>1 DEF Becomes, Types, Job
<1>4. ASSUME NEW f \in File
      PROVE  index'[f] = IF f \in job[th].paths THEN disk[f] ELSE index[f]
  BY <1>1
<1>5. ASSUME NEW f \in File PROVE ~(index'[f].gone /\ index'[f].big)
  BY <1>4, Zenon DEF Small, Proper
<1>6. ASSUME NEW f \in File, index'[f].big PROVE Staging(f)'
  <2>1. f \in job[th].paths /\ disk'[f].big
    BY <1>1, <1>2, <1>4, <1>6, Zenon DEF NoneBig
  <2> QED
    BY <1>3, <2>1, Zenon DEF Staging, At
<1> QED
  BY <1>1, <1>5, <1>6, Zenon DEF Small, Proper

LEMMA HeadSmall ==
  ASSUME Types, Small
  PROVE  NoneBig(HEAD)
<1>1. CASE commits = <<>>
  BY <1>1 DEF HEAD, NoneBig, Absent
<1>2. CASE commits # <<>>
  <2>1. Len(commits) \in DOMAIN commits
    BY <1>2 DEF Types
  <2> QED
    BY <1>2, <2>1, Zenon DEF HEAD, Small
<1> QED
  BY <1>1, <1>2

LEMMA SmallReset ==
  ASSUME Types, Small, Alone, NEW th \in Thread, Reset(th)
  PROVE  Small'
<1>1. /\ index' = [f \in File |->
                     IF f \in Oversized(job[th].paths) THEN HEAD[f] ELSE index[f]]
      /\ UNCHANGED <<disk, commits>> /\ At(th, "reset")
  BY DEF Reset
<1>2. \A f \in File : index'[f] = IF f \in Oversized(job[th].paths) THEN HEAD[f] ELSE index[f]
  BY <1>1
<1>3. ASSUME NEW f \in File, index[f].big PROVE f \in Oversized(job[th].paths)
  <2>1. PICK o \in Thread : At(o, "reset") /\ f \in job[o].paths /\ disk[f].big
    BY <1>3 DEF Small, Staging
  <2>2. o = th
    BY <1>1, <2>1, BusyInJob DEF At, Alone
  <2>3. ~index[f].gone
    BY <1>3, Zenon DEF Small, Proper
  <2>4. f \in job[th].paths /\ disk[f].big
    BY <2>1, <2>2
  <2> QED
    BY <2>3, <2>4, Zenon DEF Oversized
<1>4. NoneBig(index')
  BY <1>2, <1>3, HeadSmall, Zenon DEF NoneBig
<1> QED
  BY <1>1, <1>4, Zenon DEF Small, Proper, NoneBig

LEMMA SmallCommit ==
  ASSUME Types, Small, Alone, NEW th \in Thread, Commit(th)
  PROVE  Small'
<1>1. NoneBig(index)
  <2>1. InJob(th) /\ ~At(th, "reset")
    BY BusyInJob DEF Commit, At
  <2> QED
    BY <2>1, NothingStaged
<1>2. ASSUME NEW i \in DOMAIN commits' PROVE NoneBig(commits'[i].tree)
  <2>1. i \in DOMAIN commits \/ i = Len(commits')
    BY CommitDomain
  <2>2. CASE i \in DOMAIN commits
    BY <2>2, CommitAppends, Zenon DEF Small
  <2>3. CASE i = Len(commits')
    <3>1. commits'[i].tree = index
      BY <2>3, CommitAppends
    <3> QED
      BY <1>1, <3>1
  <2> QED
    BY <2>1, <2>2, <2>3
<1> QED
  BY <1>1, <1>2, CommitAppends, Zenon DEF Small, Proper, NoneBig

LEMMA SmallApply ==
  ASSUME Types, Aimed, Small, Alone, NEW th \in Thread, Apply(th)
  PROVE  Small'
<1>1. At(th, "apply") /\ commits' = commits
  BY DEF Apply
<1>2. NoneBig(index)
  <2>1. InJob(th) /\ ~At(th, "reset")
    BY <1>1, BusyInJob DEF At
  <2> QED
    BY <2>1, NothingStaged
<1>3. ASSUME NEW f \in File PROVE ~Target(th, f).big
  <2>1. /\ job[th].target \in DOMAIN commits
        /\ Target(th, f) = commits[job[th].target].tree[f]
    BY <1>1, TargetTyped
  <2> QED
    BY <2>1, Zenon DEF Small, NoneBig
<1>4. ASSUME NEW f \in File PROVE ~index'[f].big
  <2>1. index'[f] = IF f \in job[th].paths /\ ~Target(th, f).gone
                    THEN Target(th, f) ELSE index[f]
    BY DEF Apply
  <2> QED
    BY <1>2, <1>3, <2>1, Zenon DEF NoneBig
<1>5. ASSUME NEW f \in File PROVE ~(disk'[f].gone /\ disk'[f].big)
  <2>1. disk'[f] = IF f \in job[th].paths THEN Rewound(th, f) ELSE disk[f]
    BY DEF Apply
  <2> DEFINE removed == [by |-> th[1], at |-> Len(commits), gone |-> TRUE, big |-> FALSE]
  <2>2. removed.big = FALSE
    BY Zenon
  <2>3. Rewound(th, f) \in {Target(th, f), disk[f], removed}
    BY Zenon DEF Rewound
  <2> HIDE DEF removed
  <2> QED
    BY <1>3, <2>1, <2>2, <2>3, Zenon DEF Small, Proper
<1> QED
  BY <1>1, <1>4, <1>5, Zenon DEF Small, Proper

LEMMA SmallNext ==
  ASSUME Types, Aimed, AloneInCalm, SmallInCalm, [Next]_vars
  PROVE  SmallInCalm'
<1>0. calm' = calm
  BY DEF Next, vars, Edit, Send, TurnDone, Stop, Restore, Restart, Add, AddRefused,
         Reset, Commit, LockBusy, Apply
<1> SUFFICES ASSUME calm, Alone, Small PROVE Small'
  BY <1>0 DEF AloneInCalm, SmallInCalm
<1>1. ASSUME NEW w \in Writer, NEW f \in File, Edit(w, f) PROVE Small'
  BY <1>1, SmallEdit DEF Edit
<1>2. ASSUME NEW s \in Session, Send(s) \/ TurnDone(s) PROVE Small'
  BY <1>2, NothingStaged, SmallQuiet DEF Send, TurnDone, Begins, repository
<1>3. ASSUME NEW s \in Session, Stop(s) PROVE Small'
  BY <1>3 DEF Stop, repository, Small, Proper, NoneBig, Staging, At
<1>4. ASSUME NEW s \in Session, NEW c \in DOMAIN commits, Restore(s, c) PROVE Small'
  BY <1>4, NothingStaged, SmallQuiet DEF Restore, Begins, repository
<1>5. ASSUME NEW s \in Session, NEW swept \in BOOLEAN, Restart(s, swept) PROVE Small'
  BY <1>5, NothingStaged, SmallQuiet DEF Restart, repository
<1>6. ASSUME NEW th \in Thread, ThreadSteps(th) PROVE Small'
  <2>1. CASE AddRefused(th)
    <3>1. InJob(th) /\ ~At(th, "reset")
      BY <2>1, BusyInJob DEF AddRefused, At
    <3> QED
      BY <2>1, <3>1, NothingStaged, SmallQuiet DEF AddRefused, repository
  <2> QED
    BY <1>6, <2>1, NeverBusy, SmallAdd, SmallReset, SmallCommit, SmallApply DEF ThreadSteps
<1>7. CASE UNCHANGED vars
  BY <1>7 DEF vars, Small, Proper, NoneBig, Staging, At
<1> QED
  BY <1>1, <1>2, <1>3, <1>4, <1>5, <1>6, <1>7 DEF Next, ThreadSteps

LEMMA AloneInit == Init => AloneInCalm
BY DEF Init, AloneInCalm, Alone, InJob

CalmInvariant == Types /\ Aimed /\ AloneInCalm /\ SmallInCalm

LEMMA CalmInvariantHolds == Spec => []CalmInvariant
<1>1. Init => CalmInvariant
  BY TypesInit, AloneInit, SmallInit DEF CalmInvariant
<1>2. CalmInvariant /\ [Next]_vars => CalmInvariant'
  BY TypesNext, AloneNext, SmallNext DEF CalmInvariant
<1> QED
  BY <1>1, <1>2, PTL DEF Spec

\* However many sessions snapshot, rewind, stop and restart, and whatever
\* grows over the cap meanwhile: _add_staged and _snapshot_paths keep every
\* oversized file out of the history, provided the operations do not overlap.
THEOREM CommitsStaySmall == Spec => []CalmCommitsAreSmall
<1>1. CalmInvariant => CalmCommitsAreSmall
  BY DEF CalmInvariant, SmallInCalm, Small, CalmCommitsAreSmall
<1> QED
  BY <1>1, CalmInvariantHolds, PTL

-----------------------------------------------------------------------------
(***************************************************************************)
(* A rewind is complete.  A content is older than every commit that holds  *)
(* it; the index holds nothing no commit does, but for the paths of a      *)
(* snapshot in progress; and the paths of a rewind cover what commits of   *)
(* its session were the first to record after the target, the              *)
(* before-restore commit included.                                         *)
(***************************************************************************)
Dated ==
  /\ \A f \in File : disk[f].at <= Len(commits) /\ index[f].at <= Len(commits)
  /\ \A i \in DOMAIN commits, f \in File : commits[i].tree[f].at < i

LEMMA Times ==
  ASSUME Types
  PROVE  /\ Len(commits) \in Nat
         /\ \A i \in DOMAIN commits : i \in Nat /\ 1 <= i /\ i <= Len(commits)
         /\ \A f \in File : disk[f].at \in Nat /\ index[f].at \in Nat
         /\ \A i \in DOMAIN commits, f \in File : commits[i].tree[f].at \in Nat
<1>1. /\ Len(commits) \in Nat
      /\ \A i \in DOMAIN commits : i \in Nat /\ 1 <= i /\ i <= Len(commits)
  BY DEF Types
<1>2. \A f \in File : disk[f].at \in Nat /\ index[f].at \in Nat
  BY DEF Types, Trees, Held
<1>3. \A i \in DOMAIN commits : commits[i] \in Past
  BY DEF Types
<1>4. \A i \in DOMAIN commits, f \in File : commits[i].tree[f].at \in Nat
  BY <1>3 DEF Past, Trees, Held
<1> QED
  BY <1>1, <1>2, <1>4

LEMMA DatedInit == Init => Dated
<1> SUFFICES ASSUME Init PROVE Dated
  OBVIOUS
<1>1. Len(commits) = 0 /\ DOMAIN commits = {}
  BY DEF Init
<1>2. \A f \in File : disk[f].at = 0 /\ index[f].at = 0
  BY DEF Init, Absent
<1> QED
  BY <1>1, <1>2 DEF Dated

LEMMA DatedQuiet ==
  ASSUME Dated, UNCHANGED <<disk, index, commits>>
  PROVE  Dated'
BY DEF Dated

LEMMA DatedEdit ==
  ASSUME Types, Dated, NEW w \in Writer, NEW f \in File, Edit(w, f)
  PROVE  Dated'
<1>1. PICK x : x.at = Len(commits) /\ disk' = [disk EXCEPT ![f] = x]
  <2>1. PICK gone \in BOOLEAN, big \in BOOLEAN :
          disk' = [disk EXCEPT ![f] = [by |-> w, at |-> Len(commits),
                                       gone |-> gone, big |-> big]]
    BY DEF Edit
  <2>2. [by |-> w, at |-> Len(commits), gone |-> gone, big |-> big].at = Len(commits)
    OBVIOUS
  <2> QED
    BY <2>1, <2>2
<1>2. \A g \in File : disk'[g] = IF g = f THEN x ELSE disk[g]
  BY <1>1 DEF Types, Trees
<1>3. UNCHANGED <<index, commits>>
  BY DEF Edit, repository
<1> QED
  BY <1>1, <1>2, <1>3, Times DEF Dated

LEMMA DatedIndex ==
  ASSUME Types, Dated, NEW th \in Thread, Add(th) \/ Reset(th)
  PROVE  Dated'
<1>1. UNCHANGED <<disk, commits>>
  BY DEF Add, Reset
<1>2. ASSUME NEW f \in File PROVE index'[f] \in {disk[f], index[f], HEAD[f]}
  BY DEF Add, Reset
<1>3. ASSUME NEW f \in File PROVE HEAD[f].at <= Len(commits)
  <2>1. CASE commits = <<>>
    BY <2>1 DEF HEAD, Absent
  <2>2. CASE commits # <<>>
    <3>1. Len(commits) \in DOMAIN commits /\ HEAD = commits[Len(commits)].tree
      BY <2>2 DEF Types, HEAD
    <3> QED
      BY <3>1, Times DEF Dated
  <2> QED
    BY <2>1, <2>2
<1> QED
  BY <1>1, <1>2, <1>3 DEF Dated

LEMMA DatedCommit ==
  ASSUME Types, Dated, NEW th \in Thread, Commit(th)
  PROVE  Dated'
<1>1. /\ UNCHANGED <<disk, index>> /\ Len(commits') = Len(commits) + 1
      /\ Len(commits) \in Nat
  BY CommitAppends
<1>0. commits'[Len(commits')].tree = index
  <2>1. commits'[Len(commits')] = [by |-> th[1], tree |-> index]
    BY CommitAppends
  <2> QED
    BY <2>1
<1>2. ASSUME NEW i \in DOMAIN commits', NEW f \in File
      PROVE  commits'[i].tree[f].at < i
  <2>1. CASE i \in DOMAIN commits
    BY <2>1, CommitAppends DEF Dated
  <2>2. CASE i = Len(commits')
    BY <1>0, <1>1, <2>2, Times DEF Dated
  <2> QED
    BY <2>1, <2>2, CommitDomain
<1> QED
  BY <1>1, <1>2, Times DEF Dated

LEMMA DatedApply ==
  ASSUME Types, Aimed, Dated, NEW th \in Thread, Apply(th)
  PROVE  Dated'
<1>1. At(th, "apply") /\ commits' = commits
  BY DEF Apply
<1>2. ASSUME NEW f \in File PROVE Target(th, f).at <= Len(commits)
  BY <1>1, TargetTyped, Times DEF Dated
<1>3. ASSUME NEW f \in File
      PROVE  disk'[f].at <= Len(commits) /\ index'[f].at <= Len(commits)
  <2>1. index'[f] \in {Target(th, f), index[f]}
    BY DEF Apply
  <2>2. disk'[f] \in {Rewound(th, f), disk[f]}
    BY DEF Apply
  <2>3. Rewound(th, f).at <= Len(commits)
    <3>1. [by |-> th[1], at |-> Len(commits), gone |-> TRUE, big |-> FALSE].at <= Len(commits)
      BY Times
    <3> QED
      BY <1>2, <3>1 DEF Rewound, Dated
  <2> QED
    BY <1>2, <2>1, <2>2, <2>3 DEF Dated
<1> QED
  BY <1>1, <1>3 DEF Dated

LEMMA DatedNext ==
  ASSUME Types, Aimed, Dated, [Next]_vars
  PROVE  Dated'
<1>1. ASSUME NEW w \in Writer, NEW f \in File, Edit(w, f) PROVE Dated'
  BY <1>1, DatedEdit
<1>2. ASSUME NEW s \in Session,
             \/ Send(s) \/ TurnDone(s) \/ Stop(s)
             \/ \E c \in DOMAIN commits : Restore(s, c)
             \/ \E swept \in BOOLEAN : Restart(s, swept)
      PROVE  Dated'
  BY <1>2, DatedQuiet DEF Send, TurnDone, Stop, Restore, Restart, repository
<1>3. ASSUME NEW th \in Thread, ThreadSteps(th) PROVE Dated'
  <2>1. CASE AddRefused(th) \/ LockBusy(th)
    BY <2>1, DatedQuiet DEF AddRefused, LockBusy, repository
  <2> QED
    BY <1>3, <2>1, DatedIndex, DatedCommit, DatedApply DEF ThreadSteps
<1>4. CASE UNCHANGED vars
  BY <1>4, DatedQuiet DEF vars
<1> QED
  BY <1>1, <1>2, <1>3, <1>4 DEF Next, ThreadSteps

-----------------------------------------------------------------------------
Known(f, x) == x = Absent[f] \/ \E i \in DOMAIN commits : commits[i].tree[f] = x

Adding(f) ==
  \E th \in Thread : job[th].step \in {"reset", "commit"} /\ f \in job[th].paths

IndexKnown == \A f \in File : Known(f, index[f]) \/ Adding(f)

LEMMA AllKnown ==
  ASSUME Alone, IndexKnown,
         Quiet \/ \E th \in Thread : InJob(th) /\ job[th].step \notin {"reset", "commit"}
  PROVE  \A f \in File : Known(f, index[f])
<1>1. ASSUME NEW o \in Thread PROVE job[o].step \notin {"reset", "commit"}
  <2>1. job[o].step \in {"reset", "commit"} => InJob(o)
    BY BusyInJob
  <2> QED
    BY <2>1 DEF Quiet, Alone
<1> QED
  BY <1>1 DEF IndexKnown, Adding

LEMMA KnownElsewhere ==
  ASSUME Alone, IndexKnown, NEW th \in Thread, InJob(th),
         NEW f \in File, f \notin job[th].paths
  PROVE  Known(f, index[f])
<1>1. ASSUME NEW o \in Thread, job[o].step \in {"reset", "commit"} PROVE o = th
  BY <1>1, BusyInJob DEF Alone
<1> QED
  BY <1>1 DEF IndexKnown, Adding

LEMMA KnownQuiet ==
  ASSUME \A f \in File : Known(f, index[f]), UNCHANGED <<index, commits>>
  PROVE  IndexKnown'
BY DEF IndexKnown, Known

LEMMA KnownIndex ==
  ASSUME Types, Alone, IndexKnown, NEW th \in Thread, Add(th) \/ Reset(th)
  PROVE  IndexKnown'
<1>1. /\ commits' = commits /\ InJob(th)
      /\ \E step \in {"reset", "commit"} : Becomes(th, step)
  BY BusyInJob DEF Add, Reset, At
<1>2. job'[th].step \in {"reset", "commit"} /\ job'[th].paths = job[th].paths
  BY <1>1 DEF Becomes, Types, Job
<1>3. ASSUME NEW f \in File PROVE Known(f, index[f])' \/ Adding(f)'
  <2>1. CASE f \in job[th].paths
    BY <1>2, <2>1 DEF Adding
  <2>2. CASE f \notin job[th].paths
    <3>1. index'[f] = index[f]
      BY <2>2 DEF Add, Reset, Oversized
    <3>2. Known(f, index[f])
      BY <1>1, <2>2, KnownElsewhere
    <3> QED
      BY <1>1, <3>1, <3>2 DEF Known
  <2> QED
    BY <2>1, <2>2
<1> QED
  BY <1>3 DEF IndexKnown

LEMMA KnownCommit ==
  ASSUME Types, NEW th \in Thread, Commit(th)
  PROVE  IndexKnown'
<1>1. commits'[Len(commits')] = [by |-> th[1], tree |-> index] /\ index' = index
  BY CommitAppends
<1>2. Len(commits') \in DOMAIN commits'
  <2> DEFINE m == Len(commits)
             n == Len(commits')
  <2>1. m \in Nat /\ n = m + 1 /\ DOMAIN commits' = 1 .. n
    BY CommitAppends
  <2> HIDE DEF m, n
  <2>2. n \in 1 .. n
    BY <2>1
  <2> QED
    BY <2>1, <2>2 DEF n
<1>3. commits'[Len(commits')].tree = index'
  BY <1>1
<1> QED
  BY <1>2, <1>3 DEF IndexKnown, Known

LEMMA KnownApply ==
  ASSUME Types, Aimed, Alone, IndexKnown, NEW th \in Thread, Apply(th)
  PROVE  IndexKnown'
<1>1. At(th, "apply") /\ commits' = commits
  BY DEF Apply
<1>2. \A f \in File : Known(f, index[f])
  <2>1. InJob(th) /\ job[th].step \notin {"reset", "commit"}
    BY <1>1, BusyInJob DEF At
  <2> QED
    BY <2>1, AllKnown
<1>3. ASSUME NEW f \in File PROVE Known(f, Target(th, f))
  BY <1>1, TargetTyped DEF Known
<1>4. ASSUME NEW f \in File PROVE index'[f] \in {Target(th, f), index[f]}
  BY DEF Apply
<1> QED
  BY <1>1, <1>2, <1>3, <1>4 DEF IndexKnown, Known

KnownInCalm == calm => IndexKnown

LEMMA KnownInit == Init => KnownInCalm
BY DEF Init, KnownInCalm, IndexKnown, Known

LEMMA KnownNext ==
  ASSUME Types, Aimed, AloneInCalm, KnownInCalm, [Next]_vars
  PROVE  KnownInCalm'
<1>0. calm' = calm
  BY DEF Next, vars, Edit, Send, TurnDone, Stop, Restore, Restart, Add, AddRefused,
         Reset, Commit, LockBusy, Apply
<1> SUFFICES ASSUME calm, Alone, IndexKnown PROVE IndexKnown'
  BY <1>0 DEF AloneInCalm, KnownInCalm
<1>1. ASSUME NEW w \in Writer, NEW f \in File, Edit(w, f) PROVE IndexKnown'
  BY <1>1, AllKnown, KnownQuiet DEF Edit, repository
<1>2. ASSUME NEW s \in Session, Send(s) \/ TurnDone(s) PROVE IndexKnown'
  BY <1>2, AllKnown, KnownQuiet DEF Send, TurnDone, Begins, repository
<1>3. ASSUME NEW s \in Session, Stop(s) PROVE IndexKnown'
  BY <1>3 DEF Stop, repository, IndexKnown, Known, Adding
<1>4. ASSUME NEW s \in Session, NEW c \in DOMAIN commits, Restore(s, c) PROVE IndexKnown'
  BY <1>4, AllKnown, KnownQuiet DEF Restore, Begins, repository
<1>5. ASSUME NEW s \in Session, NEW swept \in BOOLEAN, Restart(s, swept) PROVE IndexKnown'
  BY <1>5, AllKnown, KnownQuiet DEF Restart, repository
<1>6. ASSUME NEW th \in Thread, ThreadSteps(th) PROVE IndexKnown'
  <2>1. CASE AddRefused(th)
    <3>1. InJob(th) /\ job[th].step \notin {"reset", "commit"}
      BY <2>1, BusyInJob DEF AddRefused, At
    <3> QED
      BY <2>1, <3>1, AllKnown, KnownQuiet DEF AddRefused, repository
  <2> QED
    BY <1>6, <2>1, NeverBusy, KnownIndex, KnownCommit, KnownApply DEF ThreadSteps
<1>7. CASE UNCHANGED vars
  BY <1>7 DEF vars, IndexKnown, Known, Adding
<1> QED
  BY <1>1, <1>2, <1>3, <1>4, <1>5, <1>6, <1>7 DEF Next, ThreadSteps

-----------------------------------------------------------------------------
\* One of the session's own commits was the first to record it, after c.
OwnRecord(s, c, i, f) ==
  /\ i > c /\ commits[i].by = s
  /\ commits[i].tree[f].by = s
  /\ f \in FilesInCommit(i)
  /\ FirstHolds(i, f, commits[i].tree[f])

Covered(th) ==
  job[th].label = "before" /\ base <= job[th].target =>
    \A i \in DOMAIN commits, f \in File :
      OwnRecord(th[1], job[th].target, i, f) => f \in job[th].paths

Covers == \A th \in Thread : Covered(th)

CoversInCalm == calm => Covers

LEMMA CoversInit == Init => CoversInCalm
BY DEF Init, CoversInCalm, Covers, Covered

\* The history stays and the thread's rewind is the same, or it has none.
LEMMA CoveredQuiet ==
  ASSUME NEW th \in Thread, Covered(th), UNCHANGED <<commits, base>>,
         job'[th].label = "before" =>
           /\ job[th].label = "before" /\ job'[th].target = job[th].target
           /\ job'[th].paths = job[th].paths
  PROVE  Covered(th)'
BY DEF Covered, OwnRecord, FilesInCommit, Parent, FirstHolds

LEMMA CoveredIdle ==
  ASSUME NEW th \in Thread, job'[th] = NoJob
  PROVE  Covered(th)'
BY DEF Covered, NoJob

LEMMA CoveredRestore ==
  ASSUME Types, NEW s \in Session, NEW c \in DOMAIN commits, Restore(s, c)
  PROVE  Covered(<<s, "rewind">>)'
<1> DEFINE th == <<s, "rewind">>
<1>1. th \in Thread /\ th[1] = s
  BY DEF Thread
<1>2. job'[th].target = c /\ job'[th].paths = SessionTouched(c, s)
  BY <1>1 DEF Restore, Types
<1>3. UNCHANGED <<commits, base>>
  BY DEF Restore, repository, history
<1>4. ASSUME base <= c, NEW i \in DOMAIN commits, NEW f \in File, OwnRecord(s, c, i, f)
      PROVE  f \in SessionTouched(c, s)
  <2>1. i \in Since(c)
    BY <1>4, Times DEF Since, OwnRecord, Types
  <2> QED
    BY <1>4, <2>1 DEF SessionTouched, OwnRecord
<1>5. \A i \in DOMAIN commits, f \in File : OwnRecord(s, c, i, f)' = OwnRecord(s, c, i, f)
  BY <1>3 DEF OwnRecord, FilesInCommit, Parent, FirstHolds
<1> HIDE DEF th
<1> QED
  BY <1>1, <1>2, <1>3, <1>4, <1>5 DEF Covered, th

\* Only the other steps of the thread's snapshots.
LEMMA CoveredStep ==
  ASSUME Types, Aimed, Covers, NEW th \in Thread,
         Add(th) \/ Reset(th) \/ AddRefused(th) \/ Apply(th)
  PROVE  Covered(th)'
<1>0. job[th] \in Job /\ Covered(th)
  BY DEF Types, Covers
<1>1. CASE Add(th) \/ Reset(th)
  <2>1. \E step \in {"reset", "commit"} : Becomes(th, step)
    BY <1>1 DEF Add, Reset
  <2>2. /\ job'[th].label = job[th].label /\ job'[th].target = job[th].target
        /\ job'[th].paths = job[th].paths
    BY <1>0, <2>1 DEF Becomes, Types, Job
  <2> QED
    BY <1>0, <1>1, <2>2, CoveredQuiet DEF Add, Reset, history
<1>2. CASE AddRefused(th)
  <2>1. job'[th] = Ended(th, 0)
    BY <1>2, SnapshotTurns DEF AddRefused, Turns, Types
  <2>2. job'[th].label = "before" =>
           /\ job[th].label = "before" /\ job'[th].target = job[th].target
           /\ job'[th].paths = job[th].paths
    BY <2>1, EndedAimed
  <2> QED
    BY <1>0, <1>2, <2>2, CoveredQuiet DEF AddRefused, repository, history
<1>3. CASE Apply(th)
  <2>1. job'[th].label = "after"
    BY <1>3, ApplyTurns
  <2> QED
    BY <2>1 DEF Covered
<1> QED
  BY <1>1, <1>2, <1>3

\* The before-restore commit may hold a path the rewind does not touch only
\* as an earlier commit did.
LEMMA NothingNewRecorded ==
  ASSUME Types, Alone, IndexKnown, NEW th \in Thread, Commit(th),
         NEW s \in Session, s = th[1], NEW c \in DOMAIN commits, base <= c,
         NEW i \in DOMAIN commits', NEW f \in File, f \notin job[th].paths,
         OwnRecord(s, c, i, f)'
  PROVE  i \in DOMAIN commits /\ OwnRecord(s, c, i, f)
<1>0. InJob(th)
  BY BusyInJob DEF Commit, At
<1>1. PICK n : n = Len(commits')
  OBVIOUS
<1>2. /\ n \in Nat /\ c \in Nat /\ i \in Nat /\ i > c /\ 1 <= i
      /\ i \in DOMAIN commits \/ i = n
  <2>1. i > c
    BY DEF OwnRecord
  <2>2. c \in Nat /\ 1 <= c
    BY Times
  <2>3. n \in Nat /\ (i \in DOMAIN commits \/ i = n)
    BY <1>1, CommitDomain
  <2>4. i \in Nat
    BY <2>3, Times
  <2> QED
    BY <2>1, <2>2, <2>3, <2>4
<1>3. i # n
  <2> SUFFICES ASSUME i = n PROVE FALSE
    OBVIOUS
  <2>1. commits'[i].tree[f] = index[f]
    <3>1. commits'[Len(commits')] = [by |-> th[1], tree |-> index]
      BY CommitAppends
    <3> QED
      BY <1>1, <3>1
  <2>2. index[f].by = s /\ \A j \in 1 .. i - 1 : commits'[j].tree[f] # index[f]
    BY <2>1 DEF OwnRecord, FirstHolds
  <2>3. Known(f, index[f])
    BY <1>0, KnownElsewhere
  <2>4. index[f] # Absent[f]
    BY <2>2, CheckpointAssumption DEF Absent
  <2>5. PICK j \in DOMAIN commits : commits[j].tree[f] = index[f]
    BY <2>3, <2>4 DEF Known
  <2>6. commits'[j] = commits[j]
    BY CommitAppends
  <2>7. j \in 1 .. i - 1
    <3>1. j \in Nat /\ 1 <= j /\ j < i
      BY <1>1, CommitDomain, Times
    <3> QED
      BY <1>2, <3>1
  <2> QED
    BY <2>2, <2>5, <2>6, <2>7
<1>4. i \in DOMAIN commits
  BY <1>2, <1>3
<1>5. i - 1 \in DOMAIN commits /\ \A j \in 1 .. i - 1 : j \in DOMAIN commits
  <2>1. c \in Nat /\ 1 <= c
    BY Times
  <2> QED
    BY <1>2, <1>4, <2>1 DEF Types
<1>6. /\ commits'[i] = commits[i] /\ commits'[i - 1] = commits[i - 1] /\ base' = base
      /\ \A j \in 1 .. i - 1 : commits'[j] = commits[j]
  BY <1>4, <1>5, CommitAppends
<1>7. FilesInCommit(i)' = FilesInCommit(i)
  BY <1>6 DEF FilesInCommit, Parent
<1>8. FirstHolds(i, f, commits[i].tree[f])
  BY <1>6 DEF OwnRecord, FirstHolds
<1> QED
  BY <1>2, <1>4, <1>6, <1>7, <1>8 DEF OwnRecord

LEMMA CoveredCommit ==
  ASSUME Types, Aimed, Alone, IndexKnown, Covers, NEW th \in Thread, Commit(th)
  PROVE  Covered(th)'
<1>1. PICK n \in Nat : n = Len(commits')
  BY CommitDomain
<1>2. job'[th] = Ended(th, n) /\ base' = base
  <2>1. SnapshotEnds(th, n) /\ base' = base
    BY <1>1, CommitAppends DEF Commit
  <2> QED
    BY <2>1, SnapshotTurns DEF Turns, Types
<1>3. SUFFICES ASSUME job'[th].label = "before" PROVE Covered(th)'
  BY DEF Covered
<1>4. PICK c \in DOMAIN commits, s \in Session :
        /\ job'[th].target = c /\ job[th].target = c /\ s = th[1]
        /\ job'[th].paths = job[th].paths /\ job[th].label = "before"
  <2>1. th[1] \in Session
    BY DEF Thread
  <2> QED
    BY <1>2, <1>3, <2>1, EndedAimed
<1>5. ASSUME base <= c, NEW i \in DOMAIN commits', NEW f \in File, OwnRecord(s, c, i, f)'
      PROVE  f \in job[th].paths
  <2>1. ASSUME f \notin job[th].paths PROVE i \in DOMAIN commits /\ OwnRecord(s, c, i, f)
    BY <1>4, <1>5, <2>1, NothingNewRecorded
  <2> QED
    BY <1>4, <1>5, <2>1 DEF Covers, Covered
<1> QED
  BY <1>2, <1>4, <1>5 DEF Covered

LEMMA CoversNext ==
  ASSUME Types, Aimed, AloneInCalm, KnownInCalm, CoversInCalm, [Next]_vars
  PROVE  CoversInCalm'
<1>0. calm' = calm
  BY DEF Next, vars, Edit, Send, TurnDone, Stop, Restore, Restart, Add, AddRefused,
         Reset, Commit, LockBusy, Apply
<1> SUFFICES ASSUME calm, Alone, IndexKnown, Covers PROVE Covers'
  BY <1>0 DEF AloneInCalm, KnownInCalm, CoversInCalm
<1>1. ASSUME UNCHANGED <<commits, base, job>> PROVE Covers'
  BY <1>1, CoveredQuiet DEF Covers
<1>2. ASSUME NEW s \in Session, Send(s) \/ TurnDone(s) PROVE Covers'
  <2>1. Quiet /\ <<s, "turn">> \in Thread
    BY <1>2 DEF Send, TurnDone, Begins, Thread
  <2>2. PICK j \in Job : Turns(<<s, "turn">>, j) /\ j.label \in {"pre", "post"}
    BY <1>2, TypesBegin
  <2>3. \A o \in Thread : o # <<s, "turn">> => job'[o] = NoJob
    BY <2>1, <2>2, AloneTurns
  <2>4. job'[<<s, "turn">>].label # "before"
    BY <2>1, <2>2 DEF Turns, Types
  <2>5. Covered(<<s, "turn">>)'
    BY <2>4 DEF Covered
  <2> QED
    BY <2>3, <2>5, CoveredIdle DEF Covers
<1>3. ASSUME NEW s \in Session, NEW c \in DOMAIN commits, Restore(s, c) PROVE Covers'
  <2>1. Quiet /\ <<s, "rewind">> \in Thread
    BY <1>3 DEF Restore, Begins, Thread
  <2>2. \A o \in Thread : o # <<s, "rewind">> => job'[o] = NoJob
    BY <1>3, <2>1, TypesRestore, AloneTurns
  <2> QED
    BY <1>3, <2>2, CoveredIdle, CoveredRestore DEF Covers
<1>4. ASSUME NEW s \in Session, NEW swept \in BOOLEAN, Restart(s, swept) PROVE Covers'
  BY <1>4, TypesRestart, CoveredIdle DEF Covers, Restart, Quiet, InJob
<1>5. ASSUME NEW th \in Thread, ThreadSteps(th) PROVE Covers'
  <2>1. \A o \in Thread : o # th => job'[o] = NoJob
    BY <1>5, ThreadTurns, AloneTurns
  <2>2. Covered(th)'
    BY <1>5, NeverBusy, CoveredStep, CoveredCommit DEF ThreadSteps
  <2> QED
    BY <2>1, <2>2, CoveredIdle DEF Covers
<1>6. ASSUME NEW w \in Writer, NEW f \in File, Edit(w, f) PROVE Covers'
  BY <1>1, <1>6 DEF Edit, repository, history
<1>7. ASSUME NEW s \in Session, Stop(s) PROVE Covers'
  BY <1>1, <1>7 DEF Stop, repository, history
<1>8. CASE UNCHANGED vars
  BY <1>1, <1>8 DEF vars
<1> QED
  BY <1>2, <1>3, <1>4, <1>5, <1>6, <1>7, <1>8 DEF Next, ThreadSteps

UndoInvariant == CalmInvariant /\ Dated /\ KnownInCalm /\ CoversInCalm

LEMMA UndoInvariantHolds == Spec => []UndoInvariant
<1>1. Init => UndoInvariant
  BY TypesInit, AloneInit, SmallInit, DatedInit, KnownInit, CoversInit
     DEF UndoInvariant, CalmInvariant
<1>2. UndoInvariant /\ [Next]_vars => UndoInvariant'
  BY TypesNext, AloneNext, SmallNext, DatedNext, KnownNext, CoversNext
     DEF UndoInvariant, CalmInvariant
<1> QED
  BY <1>1, <1>2, PTL DEF Spec

\* In a calm environment only Apply takes a thread from its apply step.
LEMMA OnlyApplyRewinds ==
  ASSUME Types, Aimed, Alone, calm, [Next]_vars, NEW th \in Thread, Rewinds(th)
  PROVE  Apply(th)
<1>1. At(th, "apply") /\ job'[th].label = "after" /\ job[th].label = "before" /\ InJob(th)
  BY BusyInJob DEF Rewinds, At, Aimed
<1>2. ~Quiet /\ job'[th] # job[th]
  BY <1>1 DEF Quiet
<1>3. PICK o \in Thread : ThreadSteps(o)
  BY <1>2 DEF Next, ThreadSteps, vars, Edit, Send, TurnDone, Begins, Stop, Restore, Restart
<1>4. o = th
  BY <1>1, <1>3, ThreadTurns DEF Alone
<1> QED
  BY <1>1, <1>3, <1>4, NeverBusy DEF ThreadSteps, Add, AddRefused, Reset, Commit, At

\* Whatever the sessions, the user and the cap did in between: restore leaves
\* nothing its session wrote or removed after the target and was the first to
\* record as a change, if the target is within the capped history and the
\* operations do not overlap.
THEOREM RewindsAreComplete == Spec => UndoIsComplete
<1> DEFINE Complete ==
      \A th \in Thread : calm /\ Rewinds(th) /\ job[th].target >= base =>
       \A f \in File, i \in DOMAIN commits :
         /\ disk'[f].by = th[1] /\ disk'[f].at >= job[th].target
         /\ commits[i].by = th[1] /\ FirstHolds(i, f, disk'[f])
         /\ f \in FilesInCommit(i)
         => Same(disk'[f], Target(th, f))
<1>1. UndoInvariant /\ [Next]_vars => Complete
  <2> SUFFICES ASSUME UndoInvariant, [Next]_vars, NEW th \in Thread,
                      calm, Rewinds(th), job[th].target >= base,
                      NEW f \in File, NEW i \in DOMAIN commits,
                      disk'[f].by = th[1], disk'[f].at >= job[th].target,
                      commits[i].by = th[1], FirstHolds(i, f, disk'[f]),
                      f \in FilesInCommit(i)
               PROVE  Same(disk'[f], Target(th, f))
    OBVIOUS
  <2>1. /\ Types /\ Aimed /\ Alone /\ Dated /\ Covered(th)
        /\ At(th, "apply") /\ job[th].label = "before"
    BY DEF UndoInvariant, CalmInvariant, AloneInCalm, CoversInCalm, Covers,
           Rewinds, Aimed, At
  <2>2. disk'[f] = IF f \in job[th].paths THEN Rewound(th, f) ELSE disk[f]
    BY <2>1, OnlyApplyRewinds DEF Apply
  <2>3. f \in job[th].paths
    <3>1. commits[i].tree[f] = disk'[f]
      BY DEF FirstHolds
    <3>2. i > job[th].target
      <4>1. job[th].target \in Nat
        BY <2>1, TargetTyped, Times
      <4>2. commits[i].tree[f].at < i
        BY <2>1 DEF Dated
      <4> QED
        BY <2>1, <3>1, <4>1, <4>2, Times
    <3>3. OwnRecord(th[1], job[th].target, i, f)
      BY <3>1, <3>2 DEF OwnRecord
    <3>4. base <= job[th].target
      <4>1. job[th].target \in Nat /\ base \in Nat
        BY <2>1, TargetTyped, Times DEF Types
      <4> QED
        BY <4>1
    <3> QED
      BY <2>1, <3>3, <3>4 DEF Covered
  <2> DEFINE removed == [by |-> th[1], at |-> Len(commits), gone |-> TRUE, big |-> FALSE]
  <2>4. removed.gone = TRUE
    BY Zenon
  <2>5. CASE ~Target(th, f).gone
    BY <2>2, <2>3, <2>5, Zenon DEF Rewound, Same
  <2>6. CASE Target(th, f).gone
    <3>1. disk'[f] = IF disk[f].gone THEN disk[f] ELSE removed
      BY <2>2, <2>3, <2>6, Zenon DEF Rewound
    <3> HIDE DEF removed
    <3>2. disk'[f].gone
      BY <2>4, <3>1, Zenon
    <3> QED
      BY <2>6, <3>2, Zenon DEF Same
  <2> QED
    BY <2>5, <2>6
<1>2. UndoInvariant /\ [Next]_vars => [Complete]_vars
  BY <1>1
<1> HIDE DEF Complete
<1>3. Spec => [][Complete]_vars
  BY <1>2, UndoInvariantHolds, PTL DEF Spec
<1> QED
  BY <1>3 DEF Complete, UndoIsComplete

-----------------------------------------------------------------------------
(***************************************************************************)
(* What a rewind warns of.  The first commit that holds what somebody else *)
(* wrote is somebody else's, and it is a change there.                     *)
(***************************************************************************)
LEMMA LeastNatural ==
  ASSUME NEW S \in SUBSET Nat, S # {}
  PROVE  \E m \in S : \A k \in S : m <= k
<1>1. PICK m \in S : \A k \in S : ~(<<k, m>> \in OpToRel(<, Nat))
  BY NatLessThanWellFounded, WFMin
<1>2. \A k \in S : ~(k < m)
  BY <1>1 DEF OpToRel
<1> QED
  BY <1>2

LEMMA FirstExists ==
  ASSUME Types, NEW f \in File, NEW x, NEW n \in DOMAIN commits, commits[n].tree[f] = x
  PROVE  \E i \in DOMAIN commits : FirstHolds(i, f, x)
<1> DEFINE S == {i \in DOMAIN commits : commits[i].tree[f] = x}
<1>1. S \in SUBSET Nat /\ S # {}
  BY Times
<1>2. PICK i \in S : \A k \in S : i <= k
  BY <1>1, LeastNatural
<1>3. ASSUME NEW j \in 1 .. i - 1 PROVE commits[j].tree[f] # x
  <2>1. i \in Nat /\ i <= Len(commits) /\ Len(commits) \in Nat
    BY <1>2, Times
  <2>2. j \in DOMAIN commits /\ j < i /\ j \in Nat
    BY <2>1 DEF Types
  <2>3. j \notin S
    BY <1>2, <2>1, <2>2
  <2> QED
    BY <2>2, <2>3
<1> QED
  BY <1>2, <1>3 DEF FirstHolds

\* What HEAD holds and the session was not the first to record, written after
\* a checkpoint within the history, was brought in by another's commit.
LEMMA ForeignCommit ==
  ASSUME Types, Dated, NEW s \in Session, NEW c \in DOMAIN commits, base <= c,
         NEW f \in File, disk[f] = HEAD[f], ~disk[f].gone, disk[f].at >= c,
         ~FirstRecordedBy(s, f, disk[f])
  PROVE  f \in OthersTouched(c, s)
<1> DEFINE x == disk[f]
           n == Len(commits)
<1>1. n \in Nat /\ c \in Nat /\ 1 <= c /\ c <= n /\ n \in DOMAIN commits /\ base \in Nat
  BY Times DEF Types
<1>2. HEAD = commits[n].tree
  BY <1>1 DEF HEAD
<1>3. PICK i \in DOMAIN commits : FirstHolds(i, f, x)
  BY <1>1, <1>2, FirstExists
<1>4. i \in Nat /\ i <= n /\ commits[i].tree[f] = x /\ commits[i].by # s
  BY <1>3, Times DEF FirstHolds, FirstRecordedBy
<1>5. i > c
  <2>1. x.at < i /\ x.at \in Nat
    BY <1>4, Times DEF Dated
  <2> HIDE DEF x
  <2>2. x.at >= c
    BY DEF x
  <2> QED
    BY <1>1, <1>4, <2>1, <2>2
<1>6. i \in Since(c)
  BY <1>1, <1>4, <1>5, Times DEF Since, Types
<1>7. i # base /\ i - 1 \in 1 .. i - 1
  BY <1>1, <1>4, <1>5
<1>8. commits[i - 1].tree[f] # x
  BY <1>3, <1>7 DEF FirstHolds
<1>9. ~Same(commits[i - 1].tree[f], commits[i].tree[f])
  BY <1>4, <1>8 DEF Same
<1>10. f \in FilesInCommit(i)
  BY <1>7, <1>9 DEF FilesInCommit, Parent, Changed
<1> QED
  BY <1>4, <1>6, <1>10 DEF OthersTouched

\* However sessions and the user write, snapshot and rewind, one operation at a
\* time: what restore is about to take away of what others wrote after the
\* checkpoint is among the conflicts it returns, up to the cases named.
THEOREM ForeignWorkReported == Spec => ForeignWorkIsReported
<1> DEFINE Reported ==
      \A s \in Session, c \in DOMAIN commits :
       calm /\ c >= base /\ Restore(s, c) =>
         LET now == job'[<<s, "rewind">>]
         IN \A f \in now.paths :
              /\ disk[f].by # s /\ disk[f].at >= c
              /\ ~Same(disk[f], commits[c].tree[f])
              /\ ~FirstRecordedBy(s, f, disk[f]) /\ ~index[f].gone
              /\ ~(disk[f].gone /\ HEAD[f].gone)
              => f \in now.conflicts
<1>1. UndoInvariant => Reported
  <2> SUFFICES ASSUME UndoInvariant, NEW s \in Session, NEW c \in DOMAIN commits,
                      c >= base, Restore(s, c),
                      NEW f \in job'[<<s, "rewind">>].paths,
                      disk[f].at >= c,
                      ~FirstRecordedBy(s, f, disk[f]), ~index[f].gone,
                      ~(disk[f].gone /\ HEAD[f].gone)
               PROVE  f \in job'[<<s, "rewind">>].conflicts
    OBVIOUS
  <2>1. Types /\ Dated
    BY DEF UndoInvariant, CalmInvariant
  <2> DEFINE touched == SessionTouched(c, s)
             reported == (touched \cap OthersTouched(c, s)) \cup Uncommitted(touched)
             now == [step |-> "add", label |-> "before", paths |-> touched,
                     target |-> c, node |-> 0, conflicts |-> reported]
  <2>2. <<s, "rewind">> \in Thread
    BY DEF Thread
  <2>3. job'[<<s, "rewind">>] = now
    BY <2>1, <2>2 DEF Restore, Types
  <2> HIDE DEF touched, reported
  <2>4. now.paths = touched /\ now.conflicts = reported
    OBVIOUS
  <2>5. f \in touched /\ f \in File
    BY <2>1, <2>3, <2>4, TouchedTyped DEF touched
  <2>6. base <= c
    BY <2>1, Times DEF Types
  <2>7. CASE Same(disk[f], HEAD[f])
    <3>1. disk[f] = HEAD[f] /\ ~disk[f].gone
      BY <2>7 DEF Same
    <3>2. f \in OthersTouched(c, s)
      BY <2>1, <2>5, <2>6, <3>1, ForeignCommit
    <3> QED
      BY <2>3, <2>4, <2>5, <3>2 DEF reported
  <2>8. CASE ~Same(disk[f], HEAD[f])
    <3>1. f \in Uncommitted(touched)
      BY <2>5, <2>8 DEF Uncommitted
    <3> QED
      BY <2>3, <2>4, <3>1 DEF reported
  <2> QED
    BY <2>7, <2>8
<1>2. UndoInvariant /\ [Next]_vars => [Reported]_vars
  BY <1>1
<1> HIDE DEF Reported
<1>3. Spec => [][Reported]_vars
  BY <1>2, UndoInvariantHolds, PTL DEF Spec
<1> QED
  BY <1>3 DEF Reported, ForeignWorkIsReported

-----------------------------------------------------------------------------
(***************************************************************************)
(* Undoing a rewind.  A snapshot in progress has staged what is on disk;   *)
(* the commit before a rewind holds what it takes away and the one after   *)
(* it what it leaves; and a rewind to the former covers what differs.      *)
(***************************************************************************)
Staged(th) ==
  /\ job[th].step = "reset" => \A f \in job[th].paths : index[f] = disk[f]
  /\ job[th].step = "commit" => \A f \in job[th].paths : index[f] = disk[f] \/ disk[f].big
  /\ job[th].step = "apply" /\ job[th].node # 0 =>
       /\ job[th].node = Len(commits) /\ job[th].node \in DOMAIN commits
       /\ \A f \in job[th].paths : commits[job[th].node].tree[f] = disk[f] \/ disk[f].big

AllStaged == \A th \in Thread : Staged(th)

\* The commit before the rewind, and what it found.
Saved(n) ==
  /\ n \in DOMAIN commits
  /\ \A f \in undone.paths :
       /\ f \in File /\ ~disk[f].big
       /\ commits[n].tree[f] = undone.before[f] \/ undone.before[f].big

\* The commit after it is yet to come, or holds what the rewind left.
Coming(n) ==
  /\ n = Len(commits)
  /\ \E th \in Thread : /\ th[1] = undone.by /\ job[th].label = "after"
                        /\ job[th].paths = undone.paths

Left(n) ==
  /\ n + 1 \in DOMAIN commits /\ commits[n + 1].by = undone.by
  /\ \A f \in undone.paths : commits[n + 1].tree[f] = disk[f]

\* A rewind to the commit before.
GoesBack(th, n) ==
  /\ job[th].label = "before" /\ th[1] = undone.by /\ job[th].target = n /\ base <= n

Undoable ==
  LET n == undone.node IN
  n # 0 =>
    /\ Saved(n)
    /\ Coming(n) \/ Left(n)
    /\ \A th \in Thread :
         GoesBack(th, n) => Changed(commits[n].tree, commits[n + 1].tree) \subseteq job[th].paths

ReverseInCalm == calm => AllStaged /\ Undoable

LEMMA ReverseInit == Init => ReverseInCalm
<1> SUFFICES ASSUME Init PROVE AllStaged /\ Undoable
  BY DEF ReverseInCalm
<1>1. \A th \in Thread : job[th].step = "none"
  BY DEF Init, NoJob
<1>2. AllStaged
  BY <1>1 DEF AllStaged, Staged
<1>3. undone.node = 0
  BY DEF Init, Nothing
<1> QED
  BY <1>2, <1>3 DEF Undoable

LEMMA NothingUndone ==
  ASSUME undone' = Nothing
  PROVE  Undoable'
BY DEF Undoable, Nothing

LEMMA StagedIdle ==
  ASSUME NEW th \in Thread, job'[th].step \in {"none", "add"}
  PROVE  Staged(th)'
BY DEF Staged

\* The repository and the files stay, and no thread takes up or leaves a rewind.
LEMMA UndoableStays ==
  ASSUME Undoable, UNCHANGED <<disk, commits, undone>>,
         \A th \in Thread : job[th].label = "after" =>
           job'[th].label = "after" /\ job'[th].paths = job[th].paths,
         \A th \in Thread : job'[th].label = "before" =>
           /\ job[th].label = "before" /\ job'[th].target = job[th].target
           /\ job'[th].paths = job[th].paths /\ base' = base
  PROVE  Undoable'
BY DEF Undoable, Saved, Coming, Left, GoesBack

\* Once all is quiet no thread is at a rewind.
LEMMA QuietLabels ==
  ASSUME Types, Quiet
  PROVE  \A th \in Thread : job[th].label = "none" /\ job[th].step = "none"
BY DEF Quiet, InJob, NoJob

LEMMA ReverseEdit ==
  ASSUME Types, calm, AllStaged, Undoable, NEW w \in Writer, NEW f \in File, Edit(w, f)
  PROVE  AllStaged' /\ Undoable'
<1>1. Quiet /\ UNCHANGED <<commits, job, base>>
  BY DEF Edit, repository, history
<1>2. \A th \in Thread : job'[th].label = "none" /\ job'[th].step = "none"
  BY <1>1, QuietLabels
<1>3. AllStaged'
  BY <1>2, StagedIdle DEF AllStaged
<1>0. undone' = IF f \in undone.paths THEN Nothing ELSE undone
  BY DEF Edit
<1>4. CASE f \in undone.paths
  <2>1. undone' = Nothing
    BY <1>0, <1>4
  <2> QED
    BY <1>3, <2>1, NothingUndone
<1>5. CASE f \notin undone.paths
  <2>1. undone' = undone
    BY <1>0, <1>5
  <2>2. \A g \in File : g # f => disk'[g] = disk[g]
    BY DEF Edit, Types, Trees
  <2>7. undone'.node = undone.node
    BY <2>1
  <2>3. SUFFICES ASSUME undone.node # 0 PROVE Undoable'
    BY <1>3, <2>7 DEF Undoable
  <2>4. Saved(undone.node) /\ Left(undone.node)
    BY <1>1, <1>2, <2>3 DEF Undoable, Coming
  <2>5. \A g \in undone.paths : g \in File /\ g # f
    BY <1>5, <2>4 DEF Saved
  <2>6. Saved(undone.node)' /\ Left(undone.node)'
    BY <1>1, <2>1, <2>2, <2>4, <2>5 DEF Saved, Left
  <2> QED
    BY <1>2, <2>1, <2>6 DEF Undoable, GoesBack
<1> QED
  BY <1>3, <1>4, <1>5

LEMMA ReverseBegin ==
  ASSUME Types, Aimed, Alone, calm, Undoable, NEW s \in Session, Send(s) \/ TurnDone(s)
  PROVE  AllStaged' /\ Undoable'
<1>1. Quiet /\ <<s, "turn">> \in Thread /\ UNCHANGED <<disk, commits, undone, base>>
  BY DEF Send, TurnDone, Begins, Thread, repository, history
<1>2. PICK j \in Job : Turns(<<s, "turn">>, j) /\ j.step = "add" /\ j.label \in {"pre", "post"}
  BY TypesBegin
<1>3. \A o \in Thread : o # <<s, "turn">> => job'[o] = NoJob
  BY <1>1, <1>2, AloneTurns
<1>4. job'[<<s, "turn">>] = j
  BY <1>1, <1>2 DEF Turns, Types
<1>5. \A o \in Thread : job'[o].step \in {"none", "add"} /\ job'[o].label # "before"
  BY <1>2, <1>3, <1>4 DEF NoJob
<1>6. AllStaged'
  BY <1>5, StagedIdle DEF AllStaged
<1>7. \A o \in Thread : job[o].label = "none"
  BY <1>1, QuietLabels
<1> QED
  BY <1>1, <1>5, <1>6, <1>7, UndoableStays

LEMMA ReverseStop ==
  ASSUME AllStaged, Undoable, NEW s \in Session, Stop(s)
  PROVE  AllStaged' /\ Undoable'
<1>1. UNCHANGED <<disk, index, commits, base, job, undone>>
  BY DEF Stop, repository, history
<1>2. AllStaged'
  BY <1>1 DEF AllStaged, Staged
<1> QED
  BY <1>1, <1>2, UndoableStays

\* A rewind to the commit before an earlier one covers what that one changed.
LEMMA ReverseRestore ==
  ASSUME Types, Aimed, Alone, calm, Undoable,
         NEW s \in Session, NEW c \in DOMAIN commits, Restore(s, c)
  PROVE  AllStaged' /\ Undoable'
<1> DEFINE th == <<s, "rewind">>
<1>1. Quiet /\ th \in Thread /\ th[1] = s /\ UNCHANGED <<disk, commits, undone, base>>
  BY DEF Restore, Begins, Thread, repository, history
<1>2. PICK j \in Job : Turns(th, j) /\ j.step = "add" /\ j.label = "before"
                       /\ j.target = c /\ j.paths = SessionTouched(c, s)
  BY TypesRestore
<1> HIDE DEF th
<1>3. \A o \in Thread : o # th => job'[o] = NoJob
  BY <1>1, <1>2, AloneTurns
<1>4. job'[th] = j
  BY <1>1, <1>2 DEF Turns, Types
<1>5. \A o \in Thread : job'[o].step \in {"none", "add"}
  BY <1>2, <1>3, <1>4 DEF NoJob
<1>6. AllStaged'
  BY <1>5, StagedIdle DEF AllStaged
<1>7. \A o \in Thread : job[o].label = "none"
  BY <1>1, QuietLabels
<1>8. SUFFICES ASSUME undone.node # 0 PROVE Undoable'
  BY <1>1, <1>6 DEF Undoable
<1> DEFINE n == undone.node
<1>9. Saved(n) /\ Left(n)
  BY <1>7, <1>8 DEF Undoable, Coming
<1>10. Saved(n)' /\ Left(n)'
  BY <1>1, <1>9 DEF Saved, Left
<1>11. ASSUME NEW o \in Thread, GoesBack(o, n)'
       PROVE  Changed(commits[n].tree, commits[n + 1].tree) \subseteq job'[o].paths
  <2>1. o = th /\ n = c /\ undone.by = s /\ base <= n
    BY <1>1, <1>2, <1>3, <1>4, <1>11 DEF GoesBack, NoJob
  <2>2. n \in Nat /\ n + 1 \in Nat /\ base \in Nat /\ kept \in Nat /\ kept <= base
    BY <1>9, Times DEF Saved, Types
  <2>3. n + 1 \in Since(c)
    BY <1>9, <2>1, <2>2 DEF Left, Since
  <2>4. FilesInCommit(n + 1) \subseteq SessionTouched(c, s)
    BY <1>9, <2>1, <2>3 DEF SessionTouched, Left
  <2>5. n + 1 # base /\ (n + 1) - 1 = n
    BY <2>1, <2>2
  <2>6. FilesInCommit(n + 1) = Changed(commits[n].tree, commits[n + 1].tree)
    BY <2>5 DEF FilesInCommit, Parent
  <2> QED
    BY <1>2, <1>4, <2>1, <2>4, <2>6
<1> QED
  BY <1>1, <1>6, <1>10, <1>11 DEF Undoable

LEMMA ReverseRestart ==
  ASSUME Types, Aimed, calm, Undoable, NEW s \in Session, NEW swept \in BOOLEAN, Restart(s, swept)
  PROVE  AllStaged' /\ Undoable'
<1>1. Quiet /\ UNCHANGED <<disk, commits, undone>>
  BY DEF Restart, repository
<1>2. \A th \in Thread : job'[th] = NoJob
  BY <1>1, TypesRestart DEF Quiet, InJob
<1>3. \A th \in Thread : job'[th].label = "none" /\ job'[th].step = "none"
  BY <1>2 DEF NoJob
<1>4. AllStaged'
  BY <1>3, StagedIdle DEF AllStaged
<1>5. \A th \in Thread : job[th].label = "none"
  BY <1>1, QuietLabels
<1> QED
  BY <1>1, <1>3, <1>4, <1>5, UndoableStays

\* The other threads rest while one works, and what it does to its own job.
LEMMA ReverseAdd ==
  ASSUME Types, Aimed, Alone, AllStaged, Undoable, NEW th \in Thread, Add(th) \/ Reset(th)
  PROVE  AllStaged' /\ Undoable'
<1>1. UNCHANGED <<disk, commits, undone, base>> /\ InJob(th)
  BY BusyInJob DEF Add, Reset, At, history
<1>2. PICK step \in {"reset", "commit"} :
        /\ Becomes(th, step)
        /\ \/ step = "reset" /\ Add(th)
           \/ step = "commit" /\ Reset(th)
  BY DEF Add, Reset
<1>3. job[th] \in Job /\ job' = [job EXCEPT ![th].step = step]
  BY <1>2 DEF Types, Becomes
<1>4. /\ job'[th].step = step /\ job'[th].label = job[th].label
      /\ job'[th].paths = job[th].paths /\ job'[th].target = job[th].target
  BY <1>3 DEF Types, Job
<1>5. \A o \in Thread : o # th => job'[o] = job[o] /\ job[o] = NoJob
  BY <1>1, <1>3 DEF Types, Alone, InJob
<1>6. Staged(th)'
  <2>1. CASE Add(th)
    <3>1. step = "reset"
      BY <1>2, <2>1, <1>3 DEF Add, Reset, At
    <3>2. \A f \in job[th].paths : f \in File /\ index'[f] = disk[f]
      BY <1>3, <2>1 DEF Add, Job
    <3> QED
      BY <1>1, <1>4, <3>1, <3>2 DEF Staged
  <2>2. CASE Reset(th)
    <3>1. step = "commit" /\ job[th].step = "reset"
      BY <1>2, <2>2 DEF Add, Reset, At
    <3>2. \A f \in job[th].paths : f \in File /\ index[f] = disk[f]
      BY <1>3, <3>1 DEF AllStaged, Staged, Job
    <3>3. ASSUME NEW f \in job[th].paths PROVE index'[f] = disk[f] \/ disk[f].big
      BY <2>2, <3>2 DEF Reset, Oversized
    <3> QED
      BY <1>1, <1>4, <3>1, <3>3 DEF Staged
  <2> QED
    BY <2>1, <2>2
<1>7. AllStaged'
  <2>1. \A o \in Thread : o # th => job'[o].step = "none"
    BY <1>5 DEF NoJob
  <2> QED
    BY <1>6, <2>1, StagedIdle DEF AllStaged
<1>8. \A o \in Thread : job'[o].label = job[o].label /\ job'[o].paths = job[o].paths
                        /\ job'[o].target = job[o].target
  BY <1>4, <1>5
<1> QED
  BY <1>1, <1>7, <1>8, UndoableStays

LEMMA ReverseRefused ==
  ASSUME Types, Aimed, Alone, Undoable, NEW th \in Thread, AddRefused(th)
  PROVE  AllStaged' /\ Undoable'
<1>1. /\ UNCHANGED <<disk, commits, base>> /\ InJob(th)
      /\ undone' = IF job[th].label = "after" THEN Nothing ELSE undone
  BY BusyInJob DEF AddRefused, At, repository, history, Unrecorded
<1>2. job'[th] = Ended(th, 0) /\ Ended(th, 0) \in Job /\ Turns(th, Ended(th, 0))
  BY SnapshotTurns DEF AddRefused, Turns, Types
<1>3. \A o \in Thread : o # th => job'[o] = NoJob /\ job[o] = NoJob
  BY <1>1, <1>2, AloneTurns DEF Alone, InJob
<1>4. job'[th].step \in {"none", "apply"} /\ job'[th].node = 0
  <2>1. job[th] \in Job
    BY DEF Types
  <2> QED
    BY <1>2, <2>1 DEF Ended, NoJob, Job
<1>5. AllStaged'
  <2>1. \A o \in Thread : o # th => job'[o].step = "none"
    BY <1>3 DEF NoJob
  <2>2. Staged(th)'
    BY <1>4 DEF Staged
  <2> QED
    BY <2>1, <2>2, StagedIdle DEF AllStaged
<1>6. CASE job[th].label = "after"
  <2>1. undone' = Nothing
    BY <1>1, <1>6
  <2> QED
    BY <1>5, <2>1, NothingUndone
<1>7. CASE job[th].label # "after"
  <2>1. undone' = undone
    BY <1>1, <1>7
  <2>2. \A o \in Thread : job[o].label # "after"
    BY <1>3, <1>7 DEF NoJob
  <2>3. \A o \in Thread : job'[o].label = "before" =>
           /\ job[o].label = "before" /\ job'[o].target = job[o].target
           /\ job'[o].paths = job[o].paths /\ base' = base
    <3>1. job'[th].label = "before" =>
           /\ job[th].label = "before" /\ job'[th].target = job[th].target
           /\ job'[th].paths = job[th].paths
      BY <1>2, EndedAimed
    <3> QED
      BY <1>1, <1>3, <3>1 DEF NoJob
  <2> QED
    BY <1>1, <1>5, <2>1, <2>2, <2>3, UndoableStays
<1> QED
  BY <1>6, <1>7

LEMMA ReverseCommit ==
  ASSUME Types, Aimed, Alone, AllStaged, Undoable, NEW th \in Thread, Commit(th)
  PROVE  AllStaged' /\ Undoable'
<1>0. UNCHANGED <<disk, undone, base>> /\ InJob(th) /\ job[th] \in Job
      /\ job[th].step = "commit"
  <2>1. UNCHANGED <<disk, undone, base>> /\ job[th].step = "commit"
    BY DEF Commit, At, history
  <2> QED
    BY <2>1, BusyInJob DEF Types
<1>1. PICK m \in Nat, n \in Nat :
        /\ m = Len(commits) /\ n = Len(commits') /\ n = m + 1
        /\ DOMAIN commits = 1 .. m /\ DOMAIN commits' = 1 .. n
        /\ \A i \in DOMAIN commits : commits'[i] = commits[i]
  BY CommitAppends, CommitDomain
<1>2. commits'[n].by = th[1] /\ commits'[n].tree = index /\ n \in DOMAIN commits'
  <2>1. commits'[Len(commits')] = [by |-> th[1], tree |-> index]
    BY CommitAppends
  <2>2. n \in 1 .. n
    BY <1>1
  <2> QED
    BY <1>1, <2>1, <2>2
<1>3. SnapshotEnds(th, n)
  BY <1>1 DEF Commit
<1>4. job'[th] = Ended(th, n) /\ Ended(th, n) \in Job /\ Turns(th, Ended(th, n))
  BY <1>3, SnapshotTurns DEF Turns, Types
<1>5. \A o \in Thread : o # th => job'[o] = NoJob /\ job[o] = NoJob
  BY <1>0, <1>4, AloneTurns DEF Alone, InJob
<1>6. \A f \in job[th].paths : index[f] = disk[f] \/ disk[f].big
  BY <1>0 DEF AllStaged, Staged
<1>7. AllStaged'
  <2>1. \A o \in Thread : o # th => job'[o].step = "none"
    BY <1>5 DEF NoJob
  <2>2. job'[th].step \in {"none", "apply"}
    BY <1>4, EndedAimed
  <2>3. job'[th].step = "apply" => job'[th].node = n /\ job'[th].paths = job[th].paths
    BY <1>0, <1>4 DEF Ended, NoJob, Job
  <2>4. Staged(th)'
    BY <1>0, <1>1, <1>2, <1>6, <2>2, <2>3 DEF Staged
  <2> QED
    BY <2>1, <2>4, StagedIdle DEF AllStaged
<1>8. SUFFICES ASSUME undone.node # 0 PROVE Undoable'
  BY <1>0, <1>7 DEF Undoable
<1> DEFINE k == undone.node
<1>9. Saved(k) /\ k \in DOMAIN commits /\ k \in Nat
  BY <1>1, <1>8 DEF Undoable, Saved
<1>10. commits'[k] = commits[k] /\ k \in DOMAIN commits'
  BY <1>1, <1>9
<1>11. Saved(k)'
  BY <1>0, <1>9, <1>10 DEF Saved
<1>12. \A o \in Thread : job'[o].label = "before" =>
           /\ o = th /\ job[o].label = "before" /\ job'[o].target = job[o].target
           /\ job'[o].paths = job[o].paths
  <2>1. job'[th].label = "before" =>
           /\ job[th].label = "before" /\ job'[th].target = job[th].target
           /\ job'[th].paths = job[th].paths
    BY <1>4, EndedAimed
  <2> QED
    BY <1>5, <2>1 DEF NoJob
<1>13. CASE Coming(k)
  <2>1. PICK o \in Thread : /\ o[1] = undone.by /\ job[o].label = "after"
                            /\ job[o].paths = undone.paths
    BY <1>13 DEF Coming
  <2>2. o = th /\ k = m
    BY <1>1, <1>5, <1>13, <2>1 DEF Coming, NoJob
  <2>3. \A f \in undone.paths : index[f] = disk[f]
    BY <1>6, <1>9, <2>1, <2>2 DEF Saved
  <2>4. Left(k)'
    BY <1>0, <1>1, <1>2, <2>1, <2>2, <2>3 DEF Left
  <2>5. \A p \in Thread : job'[p].label # "before"
    BY <1>12, <2>1, <2>2
  <2> QED
    BY <1>0, <1>11, <2>4, <2>5 DEF Undoable, GoesBack
<1>14. CASE Left(k)
  <2>1. k + 1 \in DOMAIN commits /\ commits'[k + 1] = commits[k + 1]
        /\ k + 1 \in DOMAIN commits'
    BY <1>1, <1>14 DEF Left
  <2>2. Left(k)'
    BY <1>0, <1>14, <2>1 DEF Left
  <2>3. ASSUME NEW o \in Thread, GoesBack(o, k)'
        PROVE  Changed(commits'[k].tree, commits'[k + 1].tree) \subseteq job'[o].paths
    <3>1. GoesBack(o, k) /\ job'[o].paths = job[o].paths
      BY <1>0, <1>12, <2>3 DEF GoesBack
    <3> QED
      BY <1>8, <1>10, <2>1, <3>1 DEF Undoable
  <2> QED
    BY <1>0, <1>11, <2>2, <2>3 DEF Undoable
<1> QED
  BY <1>8, <1>13, <1>14 DEF Undoable

\* What a path is rewound to is no big file.
LEMMA RewoundSmall ==
  ASSUME Types, Aimed, Small, NEW th \in Thread, At(th, "apply"), NEW f \in File
  PROVE  ~Rewound(th, f).big
<1>1. ~Target(th, f).big
  BY TargetTyped DEF Small, NoneBig
<1>2. disk[f].gone => ~disk[f].big
  BY DEF Small, Proper
<1>3. [by |-> th[1], at |-> Len(commits), gone |-> TRUE, big |-> FALSE].big = FALSE
  BY Zenon
<1> QED
  BY <1>1, <1>2, <1>3, Zenon DEF Rewound

LEMMA ReverseApply ==
  ASSUME Types, Aimed, Alone, Small, AllStaged, Undoable, NEW th \in Thread, Apply(th)
  PROVE  AllStaged' /\ Undoable'
<1>0. /\ At(th, "apply") /\ job[th].step = "apply" /\ job[th] \in Job
      /\ commits' = commits /\ base' = base
      /\ disk' = [f \in File |-> IF f \in job[th].paths THEN Rewound(th, f) ELSE disk[f]]
      /\ undone' = IF job[th].node = 0 THEN Nothing
                   ELSE [by |-> th[1], node |-> job[th].node,
                         paths |-> job[th].paths, before |-> disk]
      /\ job' = [job EXCEPT ![th].step = "add", ![th].label = "after"]
  BY DEF Apply, At, history, Types
<1>1. /\ job'[th].step = "add" /\ job'[th].label = "after"
      /\ job'[th].paths = job[th].paths
  BY <1>0 DEF Types, Job
<1>2. InJob(th)
  BY <1>0, BusyInJob
<1>3. \A o \in Thread : o # th => job'[o] = NoJob
  BY <1>0, <1>2 DEF Types, Alone, InJob
<1>4. \A o \in Thread : job'[o].step \in {"none", "add"} /\ job'[o].label # "before"
  BY <1>1, <1>3 DEF NoJob
<1>5. AllStaged'
  BY <1>4, StagedIdle DEF AllStaged
<1>6. CASE job[th].node = 0
  <2>1. undone' = Nothing
    BY <1>0, <1>6
  <2> QED
    BY <1>5, <2>1, NothingUndone
<1>7. CASE job[th].node # 0
  <2> DEFINE new == [by |-> th[1], node |-> job[th].node,
                     paths |-> job[th].paths, before |-> disk]
  <2>10. PICK n : n = job[th].node
    OBVIOUS
  <2>1. undone' = new
    BY <1>0, <1>7
  <2>2. new.by = th[1] /\ new.node = n /\ new.paths = job[th].paths /\ new.before = disk
    BY <2>10
  <2> HIDE DEF new
  <2>3. /\ n = Len(commits) /\ n \in DOMAIN commits
        /\ \A f \in job[th].paths : commits[n].tree[f] = disk[f] \/ disk[f].big
    BY <1>0, <1>7, <2>10 DEF AllStaged, Staged
  <2>4. ASSUME NEW f \in job[th].paths PROVE f \in File /\ ~disk'[f].big
    <3>1. f \in File
      BY <1>0 DEF Job
    <3>2. disk'[f] = Rewound(th, f)
      BY <1>0, <3>1
    <3> QED
      BY <1>0, <3>1, <3>2, RewoundSmall
  <2>7. /\ undone'.by = th[1] /\ undone'.node = n
        /\ undone'.paths = job[th].paths /\ undone'.before = disk
    BY <2>1, <2>2
  <2>8. commits' = commits
    BY <1>0
  <2>5. Saved(n)'
    BY <2>3, <2>4, <2>7, <2>8 DEF Saved
  <2>6. Coming(n)'
    BY <1>1, <2>3, <2>7, <2>8 DEF Coming
  <2>9. Undoable'
    BY <1>4, <2>5, <2>6, <2>7 DEF Undoable, GoesBack
  <2> QED
    BY <1>5, <2>9
<1> QED
  BY <1>6, <1>7

LEMMA ReverseNext ==
  ASSUME Types, Aimed, AloneInCalm, SmallInCalm, ReverseInCalm, [Next]_vars
  PROVE  ReverseInCalm'
<1>0. calm' = calm
  BY DEF Next, vars, Edit, Send, TurnDone, Stop, Restore, Restart, Add, AddRefused,
         Reset, Commit, LockBusy, Apply
<1> SUFFICES ASSUME calm, Alone, Small, AllStaged, Undoable PROVE AllStaged' /\ Undoable'
  BY <1>0 DEF AloneInCalm, SmallInCalm, ReverseInCalm
<1>1. ASSUME NEW w \in Writer, NEW f \in File, Edit(w, f) PROVE AllStaged' /\ Undoable'
  BY <1>1, ReverseEdit
<1>2. ASSUME NEW s \in Session, Send(s) \/ TurnDone(s) PROVE AllStaged' /\ Undoable'
  BY <1>2, ReverseBegin
<1>3. ASSUME NEW s \in Session, Stop(s) PROVE AllStaged' /\ Undoable'
  BY <1>3, ReverseStop
<1>4. ASSUME NEW s \in Session, NEW c \in DOMAIN commits, Restore(s, c)
      PROVE  AllStaged' /\ Undoable'
  BY <1>4, ReverseRestore
<1>5. ASSUME NEW s \in Session, NEW swept \in BOOLEAN, Restart(s, swept)
      PROVE  AllStaged' /\ Undoable'
  BY <1>5, ReverseRestart
<1>6. ASSUME NEW th \in Thread, ThreadSteps(th) PROVE AllStaged' /\ Undoable'
  BY <1>6, NeverBusy, ReverseAdd, ReverseRefused, ReverseCommit, ReverseApply DEF ThreadSteps
<1>7. CASE UNCHANGED vars
  <2>1. UNCHANGED <<disk, index, commits, base, job, undone>>
    BY <1>7 DEF vars
  <2>2. AllStaged'
    BY <2>1 DEF AllStaged, Staged
  <2> QED
    BY <2>1, <2>2, UndoableStays
<1> QED
  BY <1>1, <1>2, <1>3, <1>4, <1>5, <1>6, <1>7 DEF Next, ThreadSteps

ReverseInvariant == UndoInvariant /\ ReverseInCalm

LEMMA ReverseInvariantHolds == Spec => []ReverseInvariant
<1>1. Init => ReverseInCalm
  BY ReverseInit
<1>2. UndoInvariant /\ ReverseInCalm /\ [Next]_vars => ReverseInCalm'
  BY ReverseNext DEF UndoInvariant, CalmInvariant
<1> QED
  BY <1>1, <1>2, UndoInvariantHolds, PTL DEF Spec, ReverseInvariant

\* However many rewinds follow each other, whatever the cap has dropped and the
\* files have become: a session's rewind to the commit the last rewind left
\* behind puts back what that one took away, unless somebody has written there
\* since or the file was over the cap.
THEOREM RewindsAreReversible == Spec => RewindIsReversible
<1> DEFINE Reversed ==
      \A th \in Thread :
       /\ calm /\ Rewinds(th) /\ undone.node >= base
       /\ undone.by = th[1] /\ undone.node = job[th].target
       => \A f \in undone.paths :
            undone.before[f].big \/ Same(disk'[f], undone.before[f])
<1>1. ReverseInvariant /\ [Next]_vars => Reversed
  <2> SUFFICES ASSUME ReverseInvariant, [Next]_vars, NEW th \in Thread,
                      calm, Rewinds(th), undone.node >= base,
                      undone.by = th[1], undone.node = job[th].target,
                      NEW f \in undone.paths, ~undone.before[f].big
               PROVE  Same(disk'[f], undone.before[f])
    OBVIOUS
  <2> DEFINE n == undone.node
  <2>1. /\ Types /\ Aimed /\ Alone /\ Undoable
        /\ At(th, "apply") /\ job[th].step = "apply" /\ job[th].label = "before"
    BY DEF ReverseInvariant, UndoInvariant, CalmInvariant, AloneInCalm, ReverseInCalm,
           Rewinds, Aimed, At
  <2>2. n \in DOMAIN commits /\ n \in Nat /\ base \in Nat /\ base # 0
    <3>1. n \in DOMAIN commits
      BY <2>1 DEF Aimed
    <3> QED
      BY <2>1, <3>1, Times DEF Types
  <2>3. n # 0 /\ base <= n
    BY <2>2
  <2>4. Saved(n)
    BY <2>1, <2>3 DEF Undoable
  <2>5. Left(n)
    <3>1. \A o \in Thread : job[o].label = "after" => o = th
      <4>1. \A o \in Thread : job[o].label = "after" => InJob(o)
        BY DEF InJob, NoJob
      <4>2. InJob(th)
        BY <2>1, BusyInJob
      <4> QED
        BY <2>1, <4>1, <4>2 DEF Alone
    <3>2. ~Coming(n)
      BY <2>1, <3>1 DEF Coming
    <3> QED
      BY <2>1, <2>3, <3>2 DEF Undoable
  <2>6. Changed(commits[n].tree, commits[n + 1].tree) \subseteq job[th].paths
    BY <2>1, <2>3 DEF Undoable, GoesBack
  <2>7. f \in File /\ commits[n].tree[f] = undone.before[f] /\ commits[n + 1].tree[f] = disk[f]
    BY <2>4, <2>5 DEF Saved, Left
  <2>8. disk'[f] = IF f \in job[th].paths THEN Rewound(th, f) ELSE disk[f]
    BY <2>1, <2>7, OnlyApplyRewinds DEF Apply
  <2>9. CASE f \notin job[th].paths
    <3>1. Same(commits[n].tree[f], commits[n + 1].tree[f])
      BY <2>6, <2>7, <2>9 DEF Changed
    <3> QED
      BY <2>7, <2>8, <2>9, <3>1 DEF Same
  <2>10. CASE f \in job[th].paths
    <3>1. Target(th, f) = undone.before[f]
      BY <2>1, <2>7, TargetTyped
    <3>2. CASE ~Target(th, f).gone
      BY <2>8, <2>10, <3>1, <3>2, Zenon DEF Rewound, Same
    <3>3. CASE Target(th, f).gone
      <4> DEFINE removed == [by |-> th[1], at |-> Len(commits), gone |-> TRUE, big |-> FALSE]
      <4>1. removed.gone = TRUE
        BY Zenon
      <4>2. disk'[f] = IF disk[f].gone THEN disk[f] ELSE removed
        BY <2>8, <2>10, <3>3, Zenon DEF Rewound
      <4> HIDE DEF removed
      <4>3. disk'[f].gone
        BY <4>1, <4>2, Zenon
      <4> QED
        BY <3>1, <3>3, <4>3, Zenon DEF Same
    <3> QED
      BY <3>2, <3>3
  <2> QED
    BY <2>9, <2>10
<1>2. ReverseInvariant /\ [Next]_vars => [Reversed]_vars
  BY <1>1
<1> HIDE DEF Reversed
<1>3. Spec => [][Reversed]_vars
  BY <1>2, ReverseInvariantHolds, PTL DEF Spec
<1> QED
  BY <1>3 DEF Reversed, RewindIsReversible
=============================================================================
