----------------------------- MODULE PathFences -----------------------------
(***************************************************************************)
(* The path guards of the file tools and of the shell sandboxes, over a    *)
(* finite tree of paths.  A session is [cwd, root]: the tree it works in   *)
(* and the project root (the main worktree; cwd itself outside a linked    *)
(* worktree).  A guard is what an agent was built with: its mode, the      *)
(* granted folders, the hidden roots and the sensitive-file switch.        *)
(***************************************************************************)
EXTENDS Naturals

CONSTANTS Path,            \* the paths of the model
          Up,              \* [Path -> Path], the parent; a root is its own
          Target,          \* [Path -> Path], resolve(): where links lead
          StateDir,        \* [Path -> Path], <tree>/.cluxmate
          WorktreeDir,     \* [Path -> Path], <root>/.worktrees
          MemoryFile,      \* [Path -> Path], <root>/AGENTS.md
          TempDir, GlobalMemory,
          AlwaysHidden,    \* the remote servers' credential file
          SensitiveDirs,   \* ~/.ssh and the like
          SensitiveFiles   \* paths whose name matches a built-in pattern

ASSUME PathAssumption ==
  /\ Up \in [Path -> Path]
  /\ Target \in [Path -> Path]
  /\ \A p \in Path : Target[Target[p]] = Target[p]

\* A path and everything above it.
Lineage[p \in Path] == {p} \cup (IF Up[p] = p THEN {} ELSE Lineage[Up[p]])

Ancestry == [p \in Path |-> Lineage[p]]

\* resolved == d or resolved.is_relative_to(d)
Inside(p, d) == d \in Ancestry[p]

-----------------------------------------------------------------------------
(* WriteFence                                                              *)

Roots(s, g) ==
  {s.cwd, TempDir, GlobalMemory, MemoryFile[s.root]} \cup {Target[f] : f \in g.grants}

DenyRoots(s) == {StateDir[s.cwd], StateDir[s.root], WorktreeDir[s.root]}

\* The exception for any session, one in the main worktree too.
ViolationForOwnTree(s, p) ==
  \E d \in DenyRoots(s) :
    /\ Inside(p, d)
    /\ ~(d = WorktreeDir[s.root] /\ Inside(p, s.cwd))

\* The worktree container has one exception: the session's own tree, when that
\* tree is in the container.
DenyViolation(s, p) ==
  \E d \in DenyRoots(s) :
    /\ Inside(p, d)
    /\ ~(d = WorktreeDir[s.root] /\ Inside(s.cwd, d) /\ Inside(p, s.cwd))

\* check: disabled in yolo; the deny subtrees beat the roots and an approved
\* escalation, which lifts the containment alone.
MayWrite(s, g, p, escalate) ==
  \/ g.mode = "yolo"
  \/ /\ ~DenyViolation(s, Target[p])
     /\ escalate \/ \E r \in Roots(s, g) : Inside(Target[p], r)

-----------------------------------------------------------------------------
(* ReadFence and the hidden roots                                          *)

\* ReadDenyStore.effective_paths
EffectivePaths(hidden, protect) ==
  hidden \cup {AlwaysHidden} \cup (IF protect THEN SensitiveDirs ELSE {})

\* is_denied, and check of read_file and list_dir: every mode, yolo too.
ReadDenied(g, p) ==
  \/ g.protect /\ Target[p] \in SensitiveFiles
  \/ \E d \in EffectivePaths(g.hidden, g.protect) : Inside(Target[p], Target[d])

-----------------------------------------------------------------------------
(* The shell sandboxes of Linux and macOS.  (The Low-IL token of Windows   *)
(* denies no reads, and writes wherever a label allows it: `low` of        *)
(* SessionGuard.)                                                          *)

\* A command in bubblewrap's binds or under Seatbelt's rules, the later one
\* winning: the whole disk read-only; the temporary directory, the session's tree
\* and the grants writable; the session's own state directory read-only again.
BoxWrites(s, g, p) ==
  /\ \E r \in {TempDir, s.cwd} \cup {Target[f] : f \in g.grants} : Inside(Target[p], r)
  /\ ~Inside(Target[p], StateDir[s.cwd])

\* The hidden roots are mounted over, or denied, last.
BoxReads(g, p) ==
  ~\E d \in EffectivePaths(g.hidden, g.protect) : Inside(Target[p], Target[d])
=============================================================================
