------------------------------ MODULE Worktrees -------------------------------
(***************************************************************************)
(* The linked worktrees sessions run in: the commands `cluxmate worktree   *)
(* create` and `remove` (src/cluxmate/core/worktree.py) over one           *)
(* repository, as a terminal and the desktop's main process run them, and  *)
(* the rows of the sessions that live in the trees (src/desktop/src/main/  *)
(* ipc-handlers.ts, worktree-guard.ts).                                    *)
(*                                                                         *)
(* A command is a short process that runs one git command after the other, *)
(* and nothing locks the repository in between: each git command is a      *)
(* step.  The desktop's handlers give way to one another at every await.   *)
(* The slugs a requested name may end up with are 1, 2, ... in the order   *)
(* they are tried; the branch cluxmate/<slug> is named like its slug.      *)
(***************************************************************************)
EXTENDS Naturals, FiniteSets

CONSTANTS Call,         \* the commands that run at a time
          Session,      \* sessions, as rows of the desktop's table
          Topic,        \* branches that are not named after a slug
          Detached,     \* a tree on no branch; no branch asked for
          MaxSlug,      \* _MAX_SLUG_SUFFIXES + 1
          Environments  \* the environments a run may take place in

Slug == 1 .. MaxSlug
Main == 0                   \* the main worktree
Place == {Main} \cup Slug
Branch == Slug \cup Topic

\* slow: git or the command may run into its time limit; restless: the user
\* changes a tree's branch or directory while it is being removed; rules: the
\* user takes the exclude line out again.  The others are bounds: commands in
\* all, changes of rows, things the user does in the repository.
Environment == [slow : BOOLEAN, restless : BOOLEAN, rules : BOOLEAN,
                calls : Nat, moves : Nat, asides : Nat]

ASSUME WorktreeAssumption ==
  /\ MaxSlug \in Nat \ {0}
  /\ Environments \subseteq Environment
  /\ Detached \notin Branch
  /\ {"terminal", "desktop"} \cap Session = {}

VARIABLES
  env,
  ignore,     \* does git ignore the container: "absent", "ours", or neither
              \* the line can be written nor does it win: "overruled"
  mainDirty,  \* the main tree has uncommitted changes
  branches,   \* the branches that exist
  tree,       \* per slug: git's entry, the directory, and what is in it
  call,       \* the commands under way
  row,        \* the sessions' rows: where each runs, the tree it records
  pending,    \* directories the desktop has yet to write into a row
  made,       \* trees created so far; numbers them
  left        \* what remains of the bounds

vars == <<env, ignore, mainDirty, branches, tree, call, row, pending, made, left>>

NoTree == [reg |-> FALSE, dir |-> FALSE, branch |-> Detached, dirty |-> FALSE,
           locked |-> FALSE, id |-> 0]
NoRow == [in |-> FALSE, at |-> Main, name |-> Main]
NoCall == [pc |-> "idle", who |-> "terminal", slug |-> 1, branch |-> Detached, id |-> 0,
           force |-> FALSE, keep |-> FALSE, allow |-> FALSE, retried |-> FALSE, late |-> {}]

Init ==
  /\ env \in Environments
  /\ ignore \in {"absent", "ours", "overruled"}
  /\ mainDirty = FALSE
  /\ branches = {}
  /\ tree = [s \in Slug |-> NoTree]
  /\ call = [c \in Call |-> NoCall]
  /\ row = [x \in Session |-> NoRow]
  /\ pending = {}
  /\ made = 0
  /\ left = [calls |-> env.calls, moves |-> env.moves, asides |-> env.asides]

Spend(what) == left[what] > 0 /\ left' = [left EXCEPT ![what] = @ - 1]

At(c, pc) == call[c].pc = pc
Goes(c, pc) == call' = [call EXCEPT ![c].pc = pc]
------------------------------------------------------------------------------
(***************************************************************************)
(* create.                                                                 *)
(***************************************************************************)
\* From a terminal, or from the desktop's dialog, which never passes
\* --allow-dirty.  A branch asked for by name must not exist.
CreateBegins(c) ==
  /\ At(c, "idle")
  /\ Spend("calls")
  /\ \E who \in {"terminal", "desktop"}, b \in Topic \cup {Detached}, allow \in BOOLEAN :
       /\ who = "desktop" => ~allow
       /\ call' = [call EXCEPT ![c] = [NoCall EXCEPT
                    !.pc = IF b \in branches THEN "refused" ELSE "slug",
                    !.who = who, !.branch = b, !.allow = allow]]
  /\ UNCHANGED <<env, ignore, mainDirty, branches, tree, row, pending, made>>

\* _free_slug, one candidate: neither its directory nor its branch exists.  Then
\* _resolve_base, which may find that the commit to start from is missing.
Free(s) == ~tree[s].dir /\ s \notin branches

TriesSlug(c) ==
  /\ At(c, "slug")
  /\ LET s == call[c].slug IN
     \/ /\ Free(s)
        /\ \E pc \in {"ignore", "refused"} :
             call' = [call EXCEPT ![c].pc = pc,
                                  ![c].branch = IF @ = Detached THEN s ELSE @]
     \/ /\ ~Free(s) /\ s < MaxSlug
        /\ call' = [call EXCEPT ![c].slug = s + 1]
     \/ /\ ~Free(s) /\ s = MaxSlug
        /\ Goes(c, "refused")
  /\ UNCHANGED <<env, ignore, mainDirty, branches, tree, row, pending, made, left>>

\* _ensure_excluded asks git, ...
ChecksIgnore(c) ==
  /\ At(c, "ignore")
  /\ Goes(c, IF ignore = "ours" THEN "status" ELSE "exclude")
  /\ UNCHANGED <<env, ignore, mainDirty, branches, tree, row, pending, made, left>>

\* Believing the write: the line may be overruled by an earlier rule.
WritesExcludeUnverified(c) ==
  /\ At(c, "exclude")
  /\ ignore' = IF ignore = "absent" THEN "ours" ELSE ignore
  /\ Goes(c, "status")
  /\ UNCHANGED <<env, mainDirty, branches, tree, row, pending, made, left>>

\* ... appends its line if need be, and asks again.
WritesExclude(c) ==
  /\ At(c, "exclude")
  /\ ignore' = IF ignore = "absent" THEN "ours" ELSE ignore
  /\ Goes(c, IF ignore' = "ours" THEN "status" ELSE "refused")
  /\ UNCHANGED <<env, mainDirty, branches, tree, row, pending, made, left>>

ChecksMain(c) ==
  /\ At(c, "status")
  /\ Goes(c, IF mainDirty /\ ~call[c].allow THEN "refused" ELSE "add")
  /\ UNCHANGED <<env, ignore, mainDirty, branches, tree, row, pending, made, left>>

\* git worktree add -b makes the branch, then looks at the path, then checks
\* out; what it has made it leaves behind when the path is taken or when it is
\* killed at its limit.  Its entry is locked ("initializing") until the
\* checkout is through.
Adds(c) ==
  /\ At(c, "add")
  /\ LET s == call[c].slug
         b == call[c].branch
         fresh == [reg |-> TRUE, dir |-> TRUE, branch |-> b, dirty |-> FALSE,
                   locked |-> FALSE, id |-> made + 1]
         partial == {fresh, [fresh EXCEPT !.dir = FALSE, !.locked = TRUE],
                     [fresh EXCEPT !.dirty = TRUE, !.locked = TRUE]}
     IN
     \/ /\ b \in branches
        /\ Goes(c, "gitFailed")
        /\ UNCHANGED <<branches, tree, made>>
     \/ /\ b \notin branches /\ (tree[s].dir \/ tree[s].reg)
        /\ Goes(c, "gitFailed")
        /\ branches' = branches \cup {b}
        /\ UNCHANGED <<tree, made>>
     \/ /\ b \notin branches /\ ~tree[s].dir /\ ~tree[s].reg
        /\ branches' = branches \cup {b}
        /\ tree' = [tree EXCEPT ![s] = fresh]
        /\ made' = made + 1
        /\ call' = [call EXCEPT ![c].pc = "created", ![c].id = made + 1]
     \/ /\ env.slow
        /\ b \notin branches /\ ~tree[s].dir /\ ~tree[s].reg
        /\ branches' = branches \cup {b}
        /\ \/ UNCHANGED <<tree, made>>
           \/ /\ \E t \in partial : tree' = [tree EXCEPT ![s] = t]
              /\ made' = made + 1
        /\ Goes(c, "gitFailed")
  /\ UNCHANGED <<env, ignore, mainDirty, row, pending, left>>
------------------------------------------------------------------------------
(***************************************************************************)
(* remove.                                                                 *)
(***************************************************************************)
\* The sessions whose row is in a tree (sessionsInTree).
Residents(p) == {x \in Session : row[x].in /\ row[x].at = p}

RemoveBegins(c) ==
  /\ At(c, "idle")
  /\ Spend("calls")
  /\ \E s \in Slug, force \in BOOLEAN, keep \in BOOLEAN :
       call' = [call EXCEPT ![c] = [NoCall EXCEPT
                 !.pc = "list", !.slug = s, !.force = force, !.keep = keep]]
  /\ UNCHANGED <<env, ignore, mainDirty, branches, tree, row, pending, made>>

\* WORKTREE_REMOVE_SESSION: a session that still runs in the tree it records,
\* and that no other session lives in.  Its engine is killed, which is an await.
DesktopRemoves(c) ==
  /\ At(c, "idle")
  /\ Spend("calls")
  /\ \E x \in Session, force \in BOOLEAN :
       /\ row[x].in /\ row[x].name # Main /\ row[x].at = row[x].name
       /\ Residents(row[x].at) = {x}
       /\ call' = [call EXCEPT ![c] = [NoCall EXCEPT
                    !.pc = "recheck", !.who = x, !.slug = row[x].at, !.force = force]]
  /\ UNCHANGED <<env, ignore, mainDirty, branches, tree, row, pending, made>>

\* As if the kill were no await.
SkipsTheRecheck(c) ==
  /\ At(c, "recheck")
  /\ Goes(c, "list")
  /\ UNCHANGED <<env, ignore, mainDirty, branches, tree, row, pending, made, left>>

\* removeTreeNow asks again after the await, and then starts the command.
Rechecks(c) ==
  /\ At(c, "recheck")
  /\ Goes(c, IF Residents(call[c].slug) \subseteq {call[c].who} THEN "list" ELSE "refused")
  /\ UNCHANGED <<env, ignore, mainDirty, branches, tree, row, pending, made, left>>

\* list_worktrees: the entry, and the branch it names from now on.
Lists(c) ==
  /\ At(c, "list")
  /\ LET t == tree[call[c].slug] IN
     call' = [call EXCEPT ![c].pc = IF t.reg THEN "look" ELSE "refused",
                          ![c].branch = t.branch, ![c].id = t.id]
  /\ UNCHANGED <<env, ignore, mainDirty, branches, tree, row, pending, made, left>>

\* os.path.isdir, and git status if there is a directory.
Looks(c) ==
  /\ At(c, "look")
  /\ LET t == tree[call[c].slug] IN
     Goes(c, IF ~t.dir THEN "prune"
             ELSE IF t.dirty /\ ~call[c].force THEN "refused" ELSE "remove")
  /\ UNCHANGED <<env, ignore, mainDirty, branches, tree, row, pending, made, left>>

\* git worktree prune drops every entry whose directory is gone, but for those
\* that are locked, and succeeds all the same.
Prunes(c) ==
  /\ At(c, "prune")
  /\ tree' = [s \in Slug |-> IF tree[s].dir \/ tree[s].locked THEN tree[s] ELSE NoTree]
  /\ \/ Goes(c, "branch")
     \/ env.slow /\ Goes(c, "gitFailed")
  /\ UNCHANGED <<env, ignore, mainDirty, branches, row, pending, made, left>>

\* git worktree remove looks at the tree itself, with --force or without, and
\* takes no locked one for a single --force.  It may fail (a process holds the
\* directory), or be killed half way.
Removes(c) ==
  /\ At(c, "remove")
  /\ LET s == call[c].slug
         allowed == tree[s].reg /\ ~tree[s].locked /\ (tree[s].dirty => call[c].force)
     IN
     \/ /\ allowed
        /\ tree' = [tree EXCEPT ![s] = NoTree]
        /\ Goes(c, "branch")
     \/ /\ Goes(c, "gitFailed")
        /\ UNCHANGED tree
     \/ /\ env.slow /\ allowed /\ tree[s].dir
        /\ \/ tree' = [tree EXCEPT ![s].dirty = TRUE]
           \/ tree' = [tree EXCEPT ![s].dir = FALSE, ![s].dirty = FALSE]
        /\ Goes(c, "gitFailed")
  /\ UNCHANGED <<env, ignore, mainDirty, branches, row, pending, made, left>>

\* git branch -D refuses a branch that a tree has checked out.
CheckedOut(b) == \E s \in Slug : tree[s].reg /\ tree[s].branch = b

\* The branch the tree was made with, instead of the one listed.
DeletesOwnBranch(c) ==
  /\ At(c, "branch")
  /\ branches' = IF call[c].keep \/ CheckedOut(call[c].slug)
                 THEN branches ELSE branches \ {call[c].slug}
  /\ Goes(c, "removed")
  /\ UNCHANGED <<env, ignore, mainDirty, tree, row, pending, made, left>>

\* The branch the listing named; one that cannot be deleted is reported, and
\* the removal has still succeeded, unless git did not answer in time.
DeletesBranch(c) ==
  /\ At(c, "branch")
  /\ LET b == call[c].branch IN
     branches' = IF call[c].keep \/ CheckedOut(b) THEN branches ELSE branches \ {b}
  /\ \/ Goes(c, "removed")
     \/ env.slow /\ Goes(c, "gitFailed")
  /\ UNCHANGED <<env, ignore, mainDirty, tree, row, pending, made, left>>
------------------------------------------------------------------------------
(***************************************************************************)
(* The answer.                                                             *)
(***************************************************************************)
\* Sessions that come to live in a tree while the desktop has its removal under
\* way, after the last look at the rows.
Running == {"list", "look", "prune", "remove", "branch", "gitFailed"}

Arrival(x, p) ==
  [c \in Call |->
     IF call[c].who \in Session /\ call[c].slug = p /\ call[c].pc \in Running
     THEN [call[c] EXCEPT !.late = @ \cup {x}] ELSE call[c]]

\* _run: a git command over its limit is killed, and the command fails.
TimesOut(c) ==
  /\ env.slow
  /\ call[c].pc \in {"slug", "ignore", "exclude", "status", "list", "look", "prune", "branch"}
  /\ Goes(c, "gitFailed")
  /\ UNCHANGED <<env, ignore, mainDirty, branches, tree, row, pending, made, left>>

\* worktreeRemoveWithRetry: once more, 1.5 s after git failed.
Retries(c) ==
  /\ At(c, "gitFailed") /\ call[c].who \in Session /\ ~call[c].retried
  /\ call' = [call EXCEPT ![c].pc = "list", ![c].retried = TRUE]
  /\ UNCHANGED <<env, ignore, mainDirty, branches, tree, row, pending, made, left>>

\* The command prints its payload, or the desktop its refusal.
Returns(c) ==
  /\ \/ At(c, "refused")
     \/ At(c, "gitFailed") /\ (call[c].who \in Session => call[c].retried)
     \/ call[c].pc \in {"created", "removed"} /\ call[c].who = "terminal"
  /\ call' = [call EXCEPT ![c] = NoCall]
  /\ UNCHANGED <<env, ignore, mainDirty, branches, tree, row, pending, made, left>>

\* A row that is not in the table, and that no handler is about to write.
Unused(x) == ~row[x].in /\ \A m \in pending : m.who # x

\* WORKTREE_CREATE_SESSION: a new session for the tree that was created.
BindsSession(c) ==
  /\ At(c, "created") /\ call[c].who = "desktop"
  /\ \E x \in Session :
       /\ Unused(x)
       /\ row' = [row EXCEPT ![x] = [in |-> TRUE, at |-> call[c].slug, name |-> call[c].slug]]
       /\ call' = [Arrival(x, call[c].slug) EXCEPT ![c] = NoCall]
  /\ UNCHANGED <<env, ignore, mainDirty, branches, tree, pending, made, left>>

\* deleteSessionFully, only once the tree is gone.
DropsSession(c) ==
  /\ At(c, "removed") /\ call[c].who \in Session
  /\ row' = [row EXCEPT ![call[c].who] = NoRow]
  /\ call' = [call EXCEPT ![c] = NoCall]
  /\ UNCHANGED <<env, ignore, mainDirty, branches, tree, pending, made, left>>

\* The desktop's own limit on the command, whose git may just have finished.
GivesUp(c) ==
  /\ env.slow
  /\ call[c].who # "terminal"
  /\ call[c].pc \notin {"idle", "recheck", "gitFailed", "refused"}
  /\ Goes(c, "refused")
  /\ UNCHANGED <<env, ignore, mainDirty, branches, tree, row, pending, made, left>>
------------------------------------------------------------------------------
(***************************************************************************)
(* The rows: SESSION_CREATE and SESSION_UPDATE_CWD ask for the project's   *)
(* root, which is an await, and then write; SESSION_DELETE.                *)
(***************************************************************************)
MoveAsked(x) ==
  /\ Spend("moves")
  /\ \E p \in Place :
       /\ p # Main => tree[p].dir
       /\ row[x].in \/ Unused(x)
       /\ pending' = pending \cup {[who |-> x, to |-> p, new |-> ~row[x].in]}
  /\ UNCHANGED <<env, ignore, mainDirty, branches, tree, call, row, made>>

\* An update of a row that has been deleted writes nothing.
MoveWritten(m) ==
  /\ m \in pending
  /\ pending' = pending \ {m}
  /\ IF m.new \/ row[m.who].in
     THEN /\ row' = [row EXCEPT ![m.who] =
                      [in |-> TRUE, at |-> m.to, name |-> IF @.name = m.to THEN @.name ELSE Main]]
          /\ call' = Arrival(m.who, m.to)
     ELSE UNCHANGED <<row, call>>
  /\ UNCHANGED <<env, ignore, mainDirty, branches, tree, made, left>>

RowDeleted(x) ==
  /\ Spend("moves")
  /\ row[x].in
  /\ row' = [row EXCEPT ![x] = NoRow]
  /\ UNCHANGED <<env, ignore, mainDirty, branches, tree, call, pending, made>>
------------------------------------------------------------------------------
(***************************************************************************)
(* The user, with git and an editor.                                       *)
(***************************************************************************)
\* In a calm environment nobody touches a tree that is being removed.
Undisturbed(s) ==
  env.restless \/ \A c \in Call : call[c].pc \notin Running \/ call[c].slug # s

EditsMain ==
  /\ Spend("asides")
  /\ mainDirty' = ~mainDirty
  /\ UNCHANGED <<env, ignore, branches, tree, call, row, pending, made>>

EditsTree(s) ==
  /\ Spend("asides")
  /\ tree[s].dir
  /\ tree' = [tree EXCEPT ![s].dirty = ~@]
  /\ UNCHANGED <<env, ignore, mainDirty, branches, call, row, pending, made>>

\* git switch, to a branch of no other tree, a new one or none.
SwitchesTree(s) ==
  /\ Spend("asides")
  /\ tree[s].reg /\ tree[s].dir /\ Undisturbed(s)
  /\ \E b \in Topic \cup {Detached} :
       /\ ~CheckedOut(b) \/ b = Detached
       /\ tree' = [tree EXCEPT ![s].branch = b]
       /\ branches' = branches \cup ({b} \ {Detached})
  /\ UNCHANGED <<env, ignore, mainDirty, call, row, pending, made>>

DeletesDirectory(s) ==
  /\ Spend("asides")
  /\ tree[s].dir /\ Undisturbed(s)
  /\ tree' = [tree EXCEPT ![s].dir = FALSE, ![s].dirty = FALSE]
  /\ UNCHANGED <<env, ignore, mainDirty, branches, call, row, pending, made>>

DropsRule ==
  /\ Spend("asides")
  /\ env.rules
  /\ ignore' = "absent"
  /\ UNCHANGED <<env, mainDirty, branches, tree, call, row, pending, made>>
------------------------------------------------------------------------------
Creates(c) ==
  \/ CreateBegins(c) \/ TriesSlug(c) \/ ChecksIgnore(c)
  \/ WritesExclude(c) \/ ChecksMain(c) \/ Adds(c)

Removal(c) ==
  \/ RemoveBegins(c) \/ DesktopRemoves(c) \/ Rechecks(c) \/ Lists(c) \/ Looks(c)
  \/ Prunes(c) \/ Removes(c) \/ DeletesBranch(c)

Answer(c) == TimesOut(c) \/ Retries(c) \/ Returns(c) \/ BindsSession(c) \/ DropsSession(c) \/ GivesUp(c)

Rows == (\E x \in Session : MoveAsked(x) \/ RowDeleted(x)) \/ (\E m \in pending : MoveWritten(m))

User ==
  \/ EditsMain \/ DropsRule
  \/ \E s \in Slug : EditsTree(s) \/ SwitchesTree(s) \/ DeletesDirectory(s)

Next == (\E c \in Call : Creates(c) \/ Removal(c) \/ Answer(c)) \/ Rows \/ User

Spec == Init /\ [][Next]_vars
------------------------------------------------------------------------------
Steps == {"idle", "slug", "ignore", "exclude", "status", "add", "recheck",
          "refused", "created", "removed"} \cup Running

Trees == [reg : BOOLEAN, dir : BOOLEAN, branch : Branch \cup {Detached},
          dirty : BOOLEAN, locked : BOOLEAN, id : Nat]

Calls == [pc : Steps, who : {"terminal", "desktop"} \cup Session, slug : Slug,
          branch : Branch \cup {Detached}, id : Nat, force : BOOLEAN, keep : BOOLEAN,
          allow : BOOLEAN, retried : BOOLEAN, late : SUBSET Session]

TypeOK ==
  /\ env \in Environment
  /\ ignore \in {"absent", "ours", "overruled"}
  /\ mainDirty \in BOOLEAN
  /\ branches \subseteq Branch
  /\ tree \in [Slug -> Trees]
  /\ call \in [Call -> Calls]
  /\ row \in [Session -> [in : BOOLEAN, at : Place, name : Place]]
  /\ pending \subseteq [who : Session, to : Place, new : BOOLEAN]
  /\ made \in Nat
  /\ left \in [calls : Nat, moves : Nat, asides : Nat]

\* Invariant.  The container never shows up among the main tree's own changes:
\* while a tree is in it, whole or left half made by a git that was killed, git
\* ignores it, unless the user has taken the rule out (create makes sure of it
\* before the tree exists, and gives up if the rule does not win).
MainStaysClean == (\E s \in Slug : tree[s].dir) => ignore = "ours" \/ env.rules

\* What a removal of a slug may take away now.
MayTake(c, s) ==
  /\ call[c].pc = "remove" /\ call[c].slug = s
  /\ tree[s].dirty => call[c].force
  /\ call[c].who \in Session => Residents(s) \subseteq {call[c].who} \cup call[c].late

\* Action property.  A command that takes a tree's directory away takes only
\* the one it was asked to, takes uncommitted changes only by force, however
\* late they were made, and, on behalf of the desktop, takes it from under no
\* other session that lived there when the rows were looked at last.  (What the
\* user deletes by hand moves no command.)
RemovalsTakeNoMore ==
  [][\A s \in Slug : tree[s].dir /\ ~tree'[s].dir =>
       call' = call \/ \E c \in Call : MayTake(c, s)]_vars

\* The tree the removal was told of by its listing, wherever it is.
Listed(c) == {s \in Slug : tree[s].reg /\ tree[s].id = call[c].id}

\* The exception: what is left of an add that was killed before it had unlocked
\* its entry, if its directory is not there.  git lists it, and prunes it never.
Remnant(s) == tree[s].locked /\ ~tree[s].dir

\* Action property.  What a command answers is so, however the commands
\* interleave: a tree that was created is there, on its branch; one that was
\* removed is gone, or it is a remnant that the pruning passed over, and with it
\* goes no branch but the one it was listed with, which is the one it was on
\* when it went if the user leaves a tree alone while it is being removed.
AnswersAreTrue ==
  [][\A c \in Call :
       LET t == tree'[call[c].slug]
           Reaches(pc) == call'[c].pc = pc /\ call[c].pc # pc
       IN
       /\ Reaches("created") =>
            t.reg /\ t.dir /\ t.id = call'[c].id /\ t.branch = call[c].branch
              /\ t.branch \in branches'
       /\ Reaches("branch") /\ ~env.restless =>
            \A s \in Listed(c) : tree[s].branch = call[c].branch
       /\ Reaches("removed") =>
            /\ \A s \in Listed(c)' : Remnant(s)'
            /\ branches \ branches' \subseteq {call[c].branch}]_vars
==============================================================================
