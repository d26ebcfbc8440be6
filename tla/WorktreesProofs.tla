---------------------------- MODULE WorktreesProofs -----------------------------
(***************************************************************************)
(* For any number of commands, sessions and slugs, in any environment: the *)
(* main tree stays clean of the trees CluxMate puts into it, and a removal *)
(* takes no more than it was asked to and, for the desktop, no more than   *)
(* it looked at.  What a command answers is so.                            *)
(***************************************************************************)
EXTENDS Worktrees, TLAPS

\* The container is ignored from the moment create has made sure of it.
Clean ==
  ~env.rules =>
    /\ (\E s \in Slug : tree[s].dir) => ignore = "ours"
    /\ \A c \in Call : call[c].pc \in {"status", "add"} => ignore = "ours"

\* A removal for a session is no create; past its last look at the rows it has
\* its tree to itself, but for those that came later.
Creating == {"slug", "ignore", "exclude", "status", "add", "created"}

Alone(c) == Residents(call[c].slug) \subseteq {call[c].who} \cup call[c].late

Removing(c) ==
  call[c].who \in Session =>
    /\ call[c].pc \notin Creating
    /\ call[c].pc \in Running => Alone(c)

Owned == \A c \in Call : Removing(c)

\* Past its search for a slug, a create has a branch to make.
Named ==
  \A c \in Call : call[c].pc \in {"ignore", "exclude", "status", "add"} => call[c].branch \in Branch

WorktreeInvariant == TypeOK /\ Named /\ Clean /\ Owned

\* The number of a tree is no other's, and was given out.
Numbered ==
  \A s \in Slug :
    /\ tree[s].id <= made
    /\ \A r \in Slug : tree[s].reg /\ tree[r].reg /\ tree[s].id = tree[r].id => s = r

\* What a removal listed is still at the slug it was asked for, with no directory
\* when the entry is about to be pruned, or is nowhere any more; after the pruning
\* or the removal it is nowhere, or a remnant.
Told(c) ==
  /\ call[c].pc \in {"look", "prune", "remove", "branch"} => call[c].id <= made
  /\ call[c].pc \in {"look", "prune", "remove"} =>
       \A s \in Listed(c) :
         /\ s = call[c].slug
         /\ call[c].pc = "prune" => ~tree[s].dir
         /\ ~env.restless => tree[s].branch = call[c].branch
  /\ call[c].pc = "branch" => \A s \in Listed(c) : Remnant(s)

AnswerInvariant == WorktreeInvariant /\ Numbered /\ \A c \in Call : Told(c)
------------------------------------------------------------------------------
(***************************************************************************)
(* Types.                                                                  *)
(***************************************************************************)
LEMMA Numbers ==
  /\ Main \notin Slug
  /\ \A s \in Slug : s \in Nat /\ s \in Place /\ s \in Branch
  /\ 1 \in Slug
BY WorktreeAssumption DEF Main, Slug, Place, Branch

LEMMA Empties == NoTree \in Trees /\ NoCall \in Calls /\ NoRow \in [in : BOOLEAN, at : Place, name : Place]
<1>1. NoTree \in Trees
  BY DEF NoTree, Trees
<1>2. NoCall \in Calls
  BY Numbers DEF NoCall, Calls, Steps
<1>3. NoRow \in [in : BOOLEAN, at : Place, name : Place]
  BY DEF NoRow, Place
<1>4. QED
  BY <1>1, <1>2, <1>3

\* A command that only goes on to its next step.
LEMMA GoesOn ==
  ASSUME call \in [Call -> Calls], NEW c \in Call, NEW pc \in Steps, Goes(c, pc)
  PROVE  /\ call' \in [Call -> Calls]
         /\ \A d \in Call : d # c => call'[d] = call[d]
         /\ call'[c].pc = pc
         /\ call'[c].who = call[c].who
         /\ call'[c].slug = call[c].slug
         /\ call'[c].late = call[c].late
         /\ call'[c].branch = call[c].branch
<1>1. [call[c] EXCEPT !.pc = pc] \in Calls
  BY DEF Calls
<1>2. call' = [call EXCEPT ![c] = [call[c] EXCEPT !.pc = pc]]
  BY DEF Goes
<1>3. [call[c] EXCEPT !.pc = pc].pc = pc
  BY DEF Calls
<1>4. [call[c] EXCEPT !.pc = pc].who = call[c].who
  BY DEF Calls
<1>5. [call[c] EXCEPT !.pc = pc].slug = call[c].slug
  BY DEF Calls
<1>6. [call[c] EXCEPT !.pc = pc].late = call[c].late
  BY DEF Calls
<1>7. [call[c] EXCEPT !.pc = pc].branch = call[c].branch
  BY DEF Calls
<1>8. QED
  BY <1>1, <1>2, <1>3, <1>4, <1>5, <1>6, <1>7

LEMMA Spends ==
  ASSUME left \in [calls : Nat, moves : Nat, asides : Nat],
         NEW what \in {"calls", "moves", "asides"}, Spend(what)
  PROVE  left' \in [calls : Nat, moves : Nat, asides : Nat]
BY DEF Spend

LEMMA TypeStart == Init => TypeOK
<1> SUFFICES ASSUME Init PROVE TypeOK
  OBVIOUS
<1>1. env \in Environment
  BY WorktreeAssumption DEF Init
<1>2. left \in [calls : Nat, moves : Nat, asides : Nat]
  BY <1>1 DEF Init, Environment
<1>3. tree \in [Slug -> Trees] /\ call \in [Call -> Calls]
        /\ row \in [Session -> [in : BOOLEAN, at : Place, name : Place]]
  BY Empties DEF Init
<1>4. QED
  BY <1>1, <1>2, <1>3 DEF Init, TypeOK

LEMMA CreateBeginsTypes == ASSUME TypeOK, NEW c \in Call, CreateBegins(c) PROVE TypeOK'
<1>1. PICK who \in {"terminal", "desktop"}, b \in Topic \cup {Detached}, allow \in BOOLEAN :
        call' = [call EXCEPT ![c] = [NoCall EXCEPT
                    !.pc = IF b \in branches THEN "refused" ELSE "slug",
                    !.who = who, !.branch = b, !.allow = allow]]
  BY DEF CreateBegins
<1>2. PICK pc \in Steps : pc = IF b \in branches THEN "refused" ELSE "slug"
  BY DEF Steps
<1>3. b \in Branch \cup {Detached}
  BY DEF Branch
<1>4. [NoCall EXCEPT !.pc = pc, !.who = who, !.branch = b, !.allow = allow] \in Calls
  BY <1>3, Empties DEF Calls
<1>5. call' \in [Call -> Calls]
  BY <1>1, <1>2, <1>4 DEF TypeOK
<1>6. QED
  BY <1>5, Spends DEF CreateBegins, TypeOK

LEMMA TriesSlugTypes == ASSUME TypeOK, NEW c \in Call, TriesSlug(c) PROVE TypeOK'
<1>1. call[c] \in Calls /\ call[c].slug \in Slug
  BY DEF TypeOK, Calls
<1>2. call' \in [Call -> Calls]
  <2>1. CASE \E pc \in {"ignore", "refused"} :
               call' = [call EXCEPT ![c].pc = pc,
                                    ![c].branch = IF @ = Detached THEN call[c].slug ELSE @]
    <3>1. PICK pc \in {"ignore", "refused"} :
               call' = [call EXCEPT ![c].pc = pc,
                                    ![c].branch = IF @ = Detached THEN call[c].slug ELSE @]
      BY <2>1
    <3>2. pc \in Steps
      BY DEF Steps
    <3>3. (IF call[c].branch = Detached THEN call[c].slug ELSE call[c].branch) \in Branch \cup {Detached}
      BY <1>1, Numbers DEF Calls
    <3>4. QED
      BY <1>1, <3>1, <3>2, <3>3 DEF TypeOK, Calls
  <2>2. CASE call[c].slug < MaxSlug /\ call' = [call EXCEPT ![c].slug = call[c].slug + 1]
    <3>1. call[c].slug + 1 \in Slug
      BY <1>1, <2>2, WorktreeAssumption DEF Slug
    <3>2. QED
      BY <1>1, <2>2, <3>1 DEF TypeOK, Calls
  <2>3. CASE Goes(c, "refused")
    BY <2>3, GoesOn DEF TypeOK, Steps
  <2>4. QED
    BY <2>1, <2>2, <2>3 DEF TriesSlug
<1>3. QED
  BY <1>2 DEF TriesSlug, TypeOK

LEMMA ChecksIgnoreTypes == ASSUME TypeOK, NEW c \in Call, ChecksIgnore(c) PROVE TypeOK'
<1>1. PICK pc \in Steps : Goes(c, pc)
  BY DEF ChecksIgnore, Steps, Running
<1>2. call' \in [Call -> Calls]
  BY <1>1, GoesOn DEF TypeOK
<1>3. QED
  BY <1>2 DEF ChecksIgnore, TypeOK

LEMMA WritesExcludeTypes == ASSUME TypeOK, NEW c \in Call, WritesExclude(c) PROVE TypeOK'
<1>1. PICK pc \in Steps : Goes(c, pc)
  BY DEF WritesExclude, Steps, Running
<1>2. call' \in [Call -> Calls]
  BY <1>1, GoesOn DEF TypeOK
<1>3. QED
  BY <1>2 DEF WritesExclude, TypeOK

LEMMA ChecksMainTypes == ASSUME TypeOK, NEW c \in Call, ChecksMain(c) PROVE TypeOK'
<1>1. PICK pc \in Steps : Goes(c, pc)
  BY DEF ChecksMain, Steps, Running
<1>2. call' \in [Call -> Calls]
  BY <1>1, GoesOn DEF TypeOK
<1>3. QED
  BY <1>2 DEF ChecksMain, TypeOK

LEMMA RechecksTypes == ASSUME TypeOK, NEW c \in Call, Rechecks(c) PROVE TypeOK'
<1>1. PICK pc \in Steps : Goes(c, pc)
  BY DEF Rechecks, Steps, Running
<1>2. call' \in [Call -> Calls]
  BY <1>1, GoesOn DEF TypeOK
<1>3. QED
  BY <1>2 DEF Rechecks, TypeOK

LEMMA LooksTypes == ASSUME TypeOK, NEW c \in Call, Looks(c) PROVE TypeOK'
<1>1. PICK pc \in Steps : Goes(c, pc)
  BY DEF Looks, Steps, Running
<1>2. call' \in [Call -> Calls]
  BY <1>1, GoesOn DEF TypeOK
<1>3. QED
  BY <1>2 DEF Looks, TypeOK

LEMMA DeletesBranchTypes == ASSUME TypeOK, NEW c \in Call, DeletesBranch(c) PROVE TypeOK'
<1>1. PICK pc \in Steps : Goes(c, pc)
  BY DEF DeletesBranch, Steps, Running
<1>2. call' \in [Call -> Calls]
  BY <1>1, GoesOn DEF TypeOK
<1>3. QED
  BY <1>2 DEF DeletesBranch, TypeOK

LEMMA TimesOutTypes == ASSUME TypeOK, NEW c \in Call, TimesOut(c) PROVE TypeOK'
<1>1. PICK pc \in Steps : Goes(c, pc)
  BY DEF TimesOut, Steps, Running
<1>2. call' \in [Call -> Calls]
  BY <1>1, GoesOn DEF TypeOK
<1>3. QED
  BY <1>2 DEF TimesOut, TypeOK

LEMMA GivesUpTypes == ASSUME TypeOK, NEW c \in Call, GivesUp(c) PROVE TypeOK'
<1>1. PICK pc \in Steps : Goes(c, pc)
  BY DEF GivesUp, Steps, Running
<1>2. call' \in [Call -> Calls]
  BY <1>1, GoesOn DEF TypeOK
<1>3. QED
  BY <1>2 DEF GivesUp, TypeOK

\* A tree that is new, gone, or changed by its user.
LEMMA NewTree == \A b \in Branch \cup {Detached}, d \in BOOLEAN, l \in BOOLEAN, n \in Nat :
  [reg |-> TRUE, dir |-> TRUE, branch |-> b, dirty |-> d, locked |-> l, id |-> n] \in Trees
BY DEF Trees

LEMMA AddsTypes == ASSUME TypeOK, Named, NEW c \in Call, Adds(c) PROVE TypeOK'
<1> DEFINE s == call[c].slug
           b == call[c].branch
           fresh == [reg |-> TRUE, dir |-> TRUE, branch |-> b, dirty |-> FALSE,
                     locked |-> FALSE, id |-> made + 1]
           partial == {fresh, [fresh EXCEPT !.dir = FALSE, !.locked = TRUE],
                       [fresh EXCEPT !.dirty = TRUE, !.locked = TRUE]}
<1>1. call[c] \in Calls /\ s \in Slug /\ b \in Branch \cup {Detached} /\ made + 1 \in Nat
  BY DEF TypeOK, Calls
<1>2. "gitFailed" \in Steps /\ "created" \in Steps
  BY DEF Steps, Running
<1>3. fresh \in Trees
  BY <1>1, NewTree
<1>8. fresh \in partial /\ partial \subseteq Trees
  BY <1>3 DEF Trees
<1>9. /\ tree' = tree \/ \E t \in partial : tree' = [tree EXCEPT ![s] = t]
      /\ made' \in {made, made + 1}
  BY <1>8 DEF Adds
<1>4. tree' \in [Slug -> Trees] /\ made' \in Nat
  <2> HIDE DEF fresh, partial
  <2>1. QED
    BY <1>1, <1>3, <1>8, <1>9 DEF TypeOK
<1>5. branches' \subseteq Branch
  BY <1>1 DEF Adds, At, TypeOK, Named
<1>6. call' \in [Call -> Calls]
  <2>1. CASE Goes(c, "gitFailed")
    BY <2>1, <1>2, GoesOn DEF TypeOK
  <2>2. CASE call' = [call EXCEPT ![c].pc = "created", ![c].id = made + 1]
    BY <1>1, <1>2, <2>2 DEF TypeOK, Calls
  <2>3. QED
    BY <2>1, <2>2 DEF Adds
<1>7. QED
  BY <1>4, <1>5, <1>6 DEF Adds, TypeOK

LEMMA RemoveBeginsTypes == ASSUME TypeOK, NEW c \in Call, RemoveBegins(c) PROVE TypeOK'
<1>1. PICK s \in Slug, force \in BOOLEAN, keep \in BOOLEAN :
        call' = [call EXCEPT ![c] = [NoCall EXCEPT
                 !.pc = "list", !.slug = s, !.force = force, !.keep = keep]]
  BY DEF RemoveBegins
<1>2. [NoCall EXCEPT !.pc = "list", !.slug = s, !.force = force, !.keep = keep] \in Calls
  BY Empties DEF Calls, Steps, Running
<1>3. call' \in [Call -> Calls]
  BY <1>1, <1>2 DEF TypeOK
<1>4. QED
  BY <1>3, Spends DEF RemoveBegins, TypeOK

LEMMA DesktopRemovesTypes == ASSUME TypeOK, NEW c \in Call, DesktopRemoves(c) PROVE TypeOK'
<1>1. PICK x \in Session, force \in BOOLEAN :
        /\ row[x].name # Main /\ row[x].at = row[x].name
        /\ call' = [call EXCEPT ![c] = [NoCall EXCEPT
                    !.pc = "recheck", !.who = x, !.slug = row[x].at, !.force = force]]
  BY DEF DesktopRemoves
<1>2. row[x].at \in Slug
  BY <1>1 DEF TypeOK, Place
<1>3. [NoCall EXCEPT !.pc = "recheck", !.who = x, !.slug = row[x].at, !.force = force] \in Calls
  BY <1>2, Empties DEF Calls, Steps
<1>4. call' \in [Call -> Calls]
  BY <1>1, <1>3 DEF TypeOK
<1>5. QED
  BY <1>4, Spends DEF DesktopRemoves, TypeOK

LEMMA ListsTypes == ASSUME TypeOK, NEW c \in Call, Lists(c) PROVE TypeOK'
<1> DEFINE t == tree[call[c].slug]
<1>1. call[c] \in Calls /\ t.branch \in Branch \cup {Detached} /\ t.id \in Nat
  BY DEF TypeOK, Calls, Trees
<1>2. PICK pc \in Steps : pc = IF t.reg THEN "look" ELSE "refused"
  BY DEF Steps, Running
<1>3. call' = [call EXCEPT ![c].pc = pc, ![c].branch = t.branch, ![c].id = t.id]
  BY <1>2 DEF Lists
<1>4. call' \in [Call -> Calls]
  BY <1>1, <1>3 DEF TypeOK, Calls
<1>5. QED
  BY <1>4 DEF Lists, TypeOK

LEMMA PrunesTypes == ASSUME TypeOK, NEW c \in Call, Prunes(c) PROVE TypeOK'
<1>1. PICK pc \in Steps : Goes(c, pc)
  BY DEF Prunes, Steps, Running
<1>2. call' \in [Call -> Calls]
  BY <1>1, GoesOn DEF TypeOK
<1>3. tree' \in [Slug -> Trees]
  BY Empties DEF Prunes, TypeOK
<1>4. QED
  BY <1>2, <1>3 DEF Prunes, TypeOK

LEMMA RemovesTypes == ASSUME TypeOK, NEW c \in Call, Removes(c) PROVE TypeOK'
<1>1. PICK pc \in Steps : Goes(c, pc)
  BY DEF Removes, Steps, Running
<1>2. call' \in [Call -> Calls]
  BY <1>1, GoesOn DEF TypeOK
<1>3. call[c].slug \in Slug /\ tree[call[c].slug] \in Trees
  BY DEF TypeOK, Calls
<1>4. /\ [tree[call[c].slug] EXCEPT !.dirty = TRUE] \in Trees
      /\ [tree[call[c].slug] EXCEPT !.dir = FALSE, !.dirty = FALSE] \in Trees
  BY <1>3 DEF Trees
<1>5. tree' \in [Slug -> Trees]
  BY <1>3, <1>4, Empties DEF Removes, TypeOK
<1>6. QED
  BY <1>2, <1>5 DEF Removes, TypeOK

LEMMA RetriesTypes == ASSUME TypeOK, NEW c \in Call, Retries(c) PROVE TypeOK'
<1>1. "list" \in Steps
  BY DEF Steps, Running
<1>2. call' \in [Call -> Calls]
  BY <1>1 DEF Retries, TypeOK, Calls
<1>3. QED
  BY <1>2 DEF Retries, TypeOK

LEMMA ReturnsTypes == ASSUME TypeOK, NEW c \in Call, Returns(c) PROVE TypeOK'
BY Empties DEF Returns, TypeOK

\* A session that arrives is noted by the removals of its tree.
LEMMA Arriving ==
  ASSUME call \in [Call -> Calls], NEW x \in Session, NEW p
  PROVE  /\ Arrival(x, p) \in [Call -> Calls]
         /\ \A c \in Call : /\ Arrival(x, p)[c].pc = call[c].pc
                            /\ Arrival(x, p)[c].who = call[c].who
                            /\ Arrival(x, p)[c].slug = call[c].slug
                            /\ Arrival(x, p)[c].branch = call[c].branch
                            /\ call[c].late \subseteq Arrival(x, p)[c].late
                            /\ (call[c].who \in Session /\ call[c].slug = p /\ call[c].pc \in Running)
                                 => x \in Arrival(x, p)[c].late
<1>1. \A c \in Call :
        LET r == [call[c] EXCEPT !.late = @ \cup {x}] IN
        /\ r \in Calls /\ r.pc = call[c].pc /\ r.who = call[c].who /\ r.slug = call[c].slug
        /\ r.branch = call[c].branch /\ r.late = call[c].late \cup {x}
  BY DEF Calls
<1>2. QED
  BY <1>1 DEF Arrival

LEMMA BindsSessionTypes == ASSUME TypeOK, NEW c \in Call, BindsSession(c) PROVE TypeOK'
<1>1. call[c].slug \in Place
  BY Numbers DEF TypeOK, Calls
<1>2. PICK x \in Session :
        /\ row' = [row EXCEPT ![x] = [in |-> TRUE, at |-> call[c].slug, name |-> call[c].slug]]
        /\ call' = [Arrival(x, call[c].slug) EXCEPT ![c] = NoCall]
  BY DEF BindsSession
<1>3. Arrival(x, call[c].slug) \in [Call -> Calls]
  BY Arriving DEF TypeOK
<1>4. call' \in [Call -> Calls]
  BY <1>2, <1>3, Empties
<1>5. row' \in [Session -> [in : BOOLEAN, at : Place, name : Place]]
  BY <1>1, <1>2 DEF TypeOK
<1>6. QED
  BY <1>4, <1>5 DEF BindsSession, TypeOK

LEMMA DropsSessionTypes == ASSUME TypeOK, NEW c \in Call, DropsSession(c) PROVE TypeOK'
BY Empties DEF DropsSession, TypeOK

LEMMA MoveAskedTypes == ASSUME TypeOK, NEW x \in Session, MoveAsked(x) PROVE TypeOK'
<1>1. row[x].in \in BOOLEAN
  BY DEF TypeOK
<1>4. PICK p \in Place : pending' = pending \cup {[who |-> x, to |-> p, new |-> ~row[x].in]}
  BY DEF MoveAsked
<1>5. (~row[x].in) \in BOOLEAN
  BY <1>1
<1>6. [who |-> x, to |-> p, new |-> ~row[x].in] \in [who : Session, to : Place, new : BOOLEAN]
  BY <1>5
<1>2. pending' \subseteq [who : Session, to : Place, new : BOOLEAN]
  BY <1>4, <1>6 DEF TypeOK
<1>3. QED
  BY <1>2, Spends DEF MoveAsked, TypeOK

LEMMA MoveWrittenTypes == ASSUME TypeOK, NEW m \in pending, MoveWritten(m) PROVE TypeOK'
<1>1. m.who \in Session /\ m.to \in Place
  BY DEF TypeOK
<1>2. row[m.who].name \in Place /\ Main \in Place
  BY <1>1 DEF TypeOK, Place
<1>3. call' \in [Call -> Calls]
  BY <1>1, Arriving DEF MoveWritten, TypeOK
<1>4. row' \in [Session -> [in : BOOLEAN, at : Place, name : Place]]
  <2>1. CASE row' = row
    BY <2>1 DEF TypeOK
  <2>2. CASE row' = [row EXCEPT ![m.who] = [in |-> TRUE, at |-> m.to,
                                            name |-> IF @.name = m.to THEN @.name ELSE Main]]
    <3> DEFINE n == IF row[m.who].name = m.to THEN row[m.who].name ELSE Main
    <3>1. n \in Place
      BY <1>2
    <3>2. row' = [row EXCEPT ![m.who] = [in |-> TRUE, at |-> m.to, name |-> n]]
      BY <2>2
    <3> HIDE DEF n
    <3>3. QED
      BY <1>1, <3>1, <3>2 DEF TypeOK
  <2>3. QED
    BY <2>1, <2>2 DEF MoveWritten
<1>5. QED
  BY <1>3, <1>4 DEF MoveWritten, TypeOK

LEMMA RowDeletedTypes == ASSUME TypeOK, NEW x \in Session, RowDeleted(x) PROVE TypeOK'
BY Empties, Spends DEF RowDeleted, TypeOK

LEMMA UserTypes == ASSUME TypeOK, User PROVE TypeOK'
<1>1. ASSUME EditsMain PROVE TypeOK'
  BY <1>1, Spends DEF EditsMain, TypeOK
<1>2. ASSUME DropsRule PROVE TypeOK'
  BY <1>2, Spends DEF DropsRule, TypeOK
<1>3. ASSUME NEW s \in Slug, EditsTree(s) PROVE TypeOK'
  <2>1. [tree[s] EXCEPT !.dirty = ~@] \in Trees
    BY DEF TypeOK, Trees
  <2>2. tree' \in [Slug -> Trees]
    BY <1>3, <2>1 DEF EditsTree, TypeOK
  <2>3. QED
    BY <1>3, <2>2, Spends DEF EditsTree, TypeOK
<1>4. ASSUME NEW s \in Slug, SwitchesTree(s) PROVE TypeOK'
  <2>1. PICK b \in Topic \cup {Detached} :
          /\ tree' = [tree EXCEPT ![s].branch = b]
          /\ branches' = branches \cup ({b} \ {Detached})
    BY <1>4 DEF SwitchesTree
  <2>2. b \in Branch \cup {Detached}
    BY DEF Branch
  <2>3. [tree[s] EXCEPT !.branch = b] \in Trees
    BY <2>2 DEF TypeOK, Trees
  <2>4. tree' \in [Slug -> Trees] /\ branches' \subseteq Branch
    BY <2>1, <2>2, <2>3 DEF TypeOK
  <2>5. QED
    BY <1>4, <2>4, Spends DEF SwitchesTree, TypeOK
<1>5. ASSUME NEW s \in Slug, DeletesDirectory(s) PROVE TypeOK'
  <2>1. [tree[s] EXCEPT !.dir = FALSE, !.dirty = FALSE] \in Trees
    BY DEF TypeOK, Trees
  <2>2. tree' \in [Slug -> Trees]
    BY <1>5, <2>1 DEF DeletesDirectory, TypeOK
  <2>3. QED
    BY <1>5, <2>2, Spends DEF DeletesDirectory, TypeOK
<1>6. QED
  BY <1>1, <1>2, <1>3, <1>4, <1>5 DEF User

LEMMA TypeStep == TypeOK /\ Named /\ [Next]_vars => TypeOK'
<1> SUFFICES ASSUME TypeOK, Named, [Next]_vars PROVE TypeOK'
  OBVIOUS
<1>1. ASSUME NEW c \in Call, Creates(c) PROVE TypeOK'
  BY <1>1, CreateBeginsTypes, TriesSlugTypes, ChecksIgnoreTypes, WritesExcludeTypes,
     ChecksMainTypes, AddsTypes DEF Creates
<1>2. ASSUME NEW c \in Call, Removal(c) PROVE TypeOK'
  BY <1>2, RemoveBeginsTypes, DesktopRemovesTypes, RechecksTypes, ListsTypes, LooksTypes,
     PrunesTypes, RemovesTypes, DeletesBranchTypes DEF Removal
<1>3. ASSUME NEW c \in Call, Answer(c) PROVE TypeOK'
  BY <1>3, TimesOutTypes, RetriesTypes, ReturnsTypes, BindsSessionTypes, DropsSessionTypes,
     GivesUpTypes DEF Answer
<1>4. ASSUME Rows PROVE TypeOK'
  BY <1>4, MoveAskedTypes, MoveWrittenTypes, RowDeletedTypes DEF Rows
<1>5. CASE UNCHANGED vars
  BY <1>5 DEF vars, TypeOK
<1>6. QED
  BY <1>1, <1>2, <1>3, <1>4, <1>5, UserTypes DEF Next
------------------------------------------------------------------------------
(***************************************************************************)
(* Named, Clean and Owned, action by action.                               *)
(***************************************************************************)
\* What is said of the other commands stays true while the rows stay.
LEMMA OthersStay ==
  ASSUME NEW d \in Call, call'[d] = call[d], row' = row
  PROVE  Removing(d) <=> Removing(d)'
BY DEF Removing, Alone, Residents

LEMMA CleanStays ==
  ASSUME Clean, NEW c \in Call, env' = env,
         \A d \in Call : d # c => call'[d] = call[d],
         ignore = "ours" => ignore' = "ours",
         \A s \in Slug : tree'[s].dir => tree[s].dir \/ call[c].pc = "add",
         ~env.rules /\ call'[c].pc \in {"status", "add"} => ignore' = "ours"
  PROVE  Clean'
BY DEF Clean

\* A command that only goes on to its next step, and what that step must be.
LEMMA GoesKeeps ==
  ASSUME WorktreeInvariant, NEW c \in Call, NEW pc \in Steps, Goes(c, pc), env' = env, row' = row,
         ignore = "ours" => ignore' = "ours",
         \A s \in Slug : tree'[s].dir => tree[s].dir \/ call[c].pc = "add",
         ~env.rules /\ pc \in {"status", "add"} => ignore' = "ours",
         pc \in {"ignore", "exclude", "status", "add"} =>
           call[c].pc \in {"ignore", "exclude", "status", "add"},
         call[c].who \in Session =>
           pc \notin Creating /\ (pc \in Running => call[c].pc \in Running \/ Alone(c))
  PROVE  Named' /\ Clean' /\ Owned'
<1>1. /\ \A d \in Call : d # c => call'[d] = call[d]
      /\ call'[c].pc = pc /\ call'[c].who = call[c].who /\ call'[c].slug = call[c].slug
      /\ call'[c].late = call[c].late /\ call'[c].branch = call[c].branch
  BY GoesOn DEF WorktreeInvariant, TypeOK
<1>2. Clean'
  BY <1>1, CleanStays DEF WorktreeInvariant
<1>3. Named'
  BY <1>1 DEF Named, WorktreeInvariant
<1>4. Alone(c) <=> Alone(c)'
  BY <1>1 DEF Alone, Residents
<1>5. Removing(c)'
  BY <1>1, <1>4 DEF Removing, Owned, WorktreeInvariant
<1>6. Owned'
  BY <1>1, <1>5, OthersStay DEF Owned, WorktreeInvariant
<1>7. QED
  BY <1>2, <1>3, <1>6

LEMMA ChecksIgnoreKeeps == ASSUME WorktreeInvariant, NEW c \in Call, ChecksIgnore(c) PROVE Named' /\ Clean' /\ Owned'
<1>1. PICK pc \in Steps : Goes(c, pc) /\ call[c].pc = "ignore" /\ pc \in {"status", "exclude"} /\ (pc = "status" => ignore' = "ours")
  BY DEF ChecksIgnore, Steps, Running, At
<1>2. env' = env /\ row' = row /\ (ignore = "ours" => ignore' = "ours")
  BY DEF ChecksIgnore
<1>3. \A s \in Slug : tree'[s].dir => tree[s].dir
  BY DEF ChecksIgnore
<1>4. call[c].who \in Session =>
        pc \notin Creating /\ (pc \in Running => call[c].pc \in Running \/ Alone(c))
  BY <1>1 DEF WorktreeInvariant, Owned, Removing, Creating, Running
<1>5. QED
  BY <1>1, <1>2, <1>3, <1>4, GoesKeeps

LEMMA WritesExcludeKeeps == ASSUME WorktreeInvariant, NEW c \in Call, WritesExclude(c) PROVE Named' /\ Clean' /\ Owned'
<1>1. PICK pc \in Steps : Goes(c, pc) /\ call[c].pc = "exclude" /\ pc \in {"status", "refused"} /\ (pc = "status" => ignore' = "ours")
  BY DEF WritesExclude, Steps, Running, At
<1>2. env' = env /\ row' = row /\ (ignore = "ours" => ignore' = "ours")
  BY DEF WritesExclude
<1>3. \A s \in Slug : tree'[s].dir => tree[s].dir
  BY DEF WritesExclude
<1>4. call[c].who \in Session =>
        pc \notin Creating /\ (pc \in Running => call[c].pc \in Running \/ Alone(c))
  BY <1>1 DEF WorktreeInvariant, Owned, Removing, Creating, Running
<1>5. QED
  BY <1>1, <1>2, <1>3, <1>4, GoesKeeps

LEMMA ChecksMainKeeps == ASSUME WorktreeInvariant, NEW c \in Call, ChecksMain(c) PROVE Named' /\ Clean' /\ Owned'
<1>1. PICK pc \in Steps : Goes(c, pc) /\ call[c].pc = "status" /\ pc \in {"add", "refused"} /\ (~env.rules => ignore' = "ours")
  BY DEF ChecksMain, Steps, Running, At, WorktreeInvariant, Clean
<1>2. env' = env /\ row' = row /\ (ignore = "ours" => ignore' = "ours")
  BY DEF ChecksMain
<1>3. \A s \in Slug : tree'[s].dir => tree[s].dir
  BY DEF ChecksMain
<1>4. call[c].who \in Session =>
        pc \notin Creating /\ (pc \in Running => call[c].pc \in Running \/ Alone(c))
  BY <1>1 DEF WorktreeInvariant, Owned, Removing, Creating, Running
<1>5. QED
  BY <1>1, <1>2, <1>3, <1>4, GoesKeeps

LEMMA RechecksKeeps == ASSUME WorktreeInvariant, NEW c \in Call, Rechecks(c) PROVE Named' /\ Clean' /\ Owned'
<1>1. PICK pc \in Steps : Goes(c, pc) /\ pc \in {"list", "refused"} /\ (pc = "list" => Residents(call[c].slug) \subseteq {call[c].who})
  BY DEF Rechecks, Steps, Running, At
<1>2. env' = env /\ row' = row /\ (ignore = "ours" => ignore' = "ours")
  BY DEF Rechecks
<1>3. \A s \in Slug : tree'[s].dir => tree[s].dir
  BY DEF Rechecks
<1>4. call[c].who \in Session =>
        pc \notin Creating /\ (pc \in Running => call[c].pc \in Running \/ Alone(c))
  BY <1>1 DEF Alone, Residents, Creating, Running
<1>5. QED
  BY <1>1, <1>2, <1>3, <1>4, GoesKeeps

LEMMA LooksKeeps == ASSUME WorktreeInvariant, NEW c \in Call, Looks(c) PROVE Named' /\ Clean' /\ Owned'
<1>1. PICK pc \in Steps : Goes(c, pc) /\ call[c].pc = "look" /\ pc \in {"prune", "remove", "refused"}
  BY DEF Looks, Steps, Running, At
<1>2. env' = env /\ row' = row /\ (ignore = "ours" => ignore' = "ours")
  BY DEF Looks
<1>3. \A s \in Slug : tree'[s].dir => tree[s].dir
  BY DEF Looks
<1>4. call[c].who \in Session =>
        pc \notin Creating /\ (pc \in Running => call[c].pc \in Running \/ Alone(c))
  BY <1>1 DEF WorktreeInvariant, Owned, Removing, Creating, Running
<1>5. QED
  BY <1>1, <1>2, <1>3, <1>4, GoesKeeps

LEMMA DeletesBranchKeeps == ASSUME WorktreeInvariant, NEW c \in Call, DeletesBranch(c) PROVE Named' /\ Clean' /\ Owned'
<1>1. PICK pc \in Steps : Goes(c, pc) /\ call[c].pc = "branch" /\ pc \in {"removed", "gitFailed"}
  BY DEF DeletesBranch, Steps, Running, At
<1>2. env' = env /\ row' = row /\ (ignore = "ours" => ignore' = "ours")
  BY DEF DeletesBranch
<1>3. \A s \in Slug : tree'[s].dir => tree[s].dir
  BY DEF DeletesBranch
<1>4. call[c].who \in Session =>
        pc \notin Creating /\ (pc \in Running => call[c].pc \in Running \/ Alone(c))
  BY <1>1 DEF WorktreeInvariant, Owned, Removing, Creating, Running
<1>5. QED
  BY <1>1, <1>2, <1>3, <1>4, GoesKeeps

LEMMA TimesOutKeeps == ASSUME WorktreeInvariant, NEW c \in Call, TimesOut(c) PROVE Named' /\ Clean' /\ Owned'
<1>1. PICK pc \in Steps : Goes(c, pc) /\ pc = "gitFailed" /\ call[c].pc \in Creating \cup Running
  BY DEF TimesOut, Steps, Creating, Running
<1>2. env' = env /\ row' = row /\ (ignore = "ours" => ignore' = "ours")
  BY DEF TimesOut
<1>3. \A s \in Slug : tree'[s].dir => tree[s].dir
  BY DEF TimesOut
<1>4. call[c].who \in Session =>
        pc \notin Creating /\ (pc \in Running => call[c].pc \in Running \/ Alone(c))
  BY <1>1 DEF WorktreeInvariant, Owned, Removing, Creating, Running
<1>5. QED
  BY <1>1, <1>2, <1>3, <1>4, GoesKeeps

LEMMA GivesUpKeeps == ASSUME WorktreeInvariant, NEW c \in Call, GivesUp(c) PROVE Named' /\ Clean' /\ Owned'
<1>1. PICK pc \in Steps : Goes(c, pc) /\ pc = "refused"
  BY DEF GivesUp, Steps, Running, At
<1>2. env' = env /\ row' = row /\ (ignore = "ours" => ignore' = "ours")
  BY DEF GivesUp
<1>3. \A s \in Slug : tree'[s].dir => tree[s].dir
  BY DEF GivesUp
<1>4. call[c].who \in Session =>
        pc \notin Creating /\ (pc \in Running => call[c].pc \in Running \/ Alone(c))
  BY <1>1 DEF WorktreeInvariant, Owned, Removing, Creating, Running
<1>5. QED
  BY <1>1, <1>2, <1>3, <1>4, GoesKeeps

LEMMA PrunesKeeps == ASSUME WorktreeInvariant, NEW c \in Call, Prunes(c) PROVE Named' /\ Clean' /\ Owned'
<1>1. PICK pc \in Steps : Goes(c, pc) /\ call[c].pc = "prune" /\ pc \in {"branch", "gitFailed"}
  BY DEF Prunes, Steps, Running, At
<1>2. env' = env /\ row' = row /\ (ignore = "ours" => ignore' = "ours")
  BY DEF Prunes
<1>3. \A s \in Slug : tree'[s].dir => tree[s].dir
  BY DEF Prunes, NoTree
<1>4. call[c].who \in Session =>
        pc \notin Creating /\ (pc \in Running => call[c].pc \in Running \/ Alone(c))
  BY <1>1 DEF WorktreeInvariant, Owned, Removing, Creating, Running
<1>5. QED
  BY <1>1, <1>2, <1>3, <1>4, GoesKeeps

LEMMA RemovesKeeps == ASSUME WorktreeInvariant, NEW c \in Call, Removes(c) PROVE Named' /\ Clean' /\ Owned'
<1>1. PICK pc \in Steps : Goes(c, pc) /\ call[c].pc = "remove" /\ pc \in {"branch", "gitFailed"}
  BY DEF Removes, Steps, Running, At
<1>2. env' = env /\ row' = row /\ (ignore = "ours" => ignore' = "ours")
  BY DEF Removes
<1>3. \A s \in Slug : tree'[s].dir => tree[s].dir
  BY DEF Removes, NoTree, WorktreeInvariant, TypeOK, Trees
<1>4. call[c].who \in Session =>
        pc \notin Creating /\ (pc \in Running => call[c].pc \in Running \/ Alone(c))
  BY <1>1 DEF WorktreeInvariant, Owned, Removing, Creating, Running
<1>5. QED
  BY <1>1, <1>2, <1>3, <1>4, GoesKeeps

\* A command that begins, ends, or learns something on its way.
LEMMA BecomesKeeps ==
  ASSUME WorktreeInvariant, NEW c \in Call, NEW r \in Calls, call' = [call EXCEPT ![c] = r],
         env' = env, row' = row, ignore' = ignore,
         \A s \in Slug : tree'[s].dir => tree[s].dir \/ call[c].pc = "add",
         ~env.rules /\ r.pc \in {"status", "add"} => ignore = "ours",
         r.pc \in {"ignore", "exclude", "status", "add"} => r.branch \in Branch,
         r.who \in Session =>
           r.pc \notin Creating
             /\ (r.pc \in Running => Residents(r.slug) \subseteq {r.who} \cup r.late)
  PROVE  Named' /\ Clean' /\ Owned'
<1>1. call'[c] = r /\ \A d \in Call : d # c => call'[d] = call[d]
  BY DEF WorktreeInvariant, TypeOK
<1>2. Clean'
  BY <1>1, CleanStays DEF WorktreeInvariant
<1>3. Named'
  BY <1>1 DEF Named, WorktreeInvariant
<1>4. Removing(c)'
  BY <1>1 DEF Removing, Alone, Residents
<1>5. Owned'
  BY <1>1, <1>4, OthersStay DEF Owned, WorktreeInvariant
<1>6. QED
  BY <1>2, <1>3, <1>5

LEMMA NoCallKeeps ==
  ASSUME WorktreeInvariant, NEW c \in Call, call' = [call EXCEPT ![c] = NoCall],
         env' = env, row' = row, ignore' = ignore, tree' = tree
  PROVE  Named' /\ Clean' /\ Owned'
<1>1. NoCall.pc = "idle" /\ NoCall.who = "terminal"
  BY DEF NoCall
<1>2. QED
  BY <1>1, Empties, WorktreeAssumption, BecomesKeeps

LEMMA CreateBeginsKeeps ==
  ASSUME WorktreeInvariant, NEW c \in Call, CreateBegins(c) PROVE Named' /\ Clean' /\ Owned'
<1>1. PICK who \in {"terminal", "desktop"}, b \in Topic \cup {Detached}, allow \in BOOLEAN :
        call' = [call EXCEPT ![c] = [NoCall EXCEPT
                    !.pc = IF b \in branches THEN "refused" ELSE "slug",
                    !.who = who, !.branch = b, !.allow = allow]]
  BY DEF CreateBegins
<1>2. PICK pc \in {"refused", "slug"} : pc = IF b \in branches THEN "refused" ELSE "slug"
  OBVIOUS
<1> DEFINE r == [NoCall EXCEPT !.pc = pc, !.who = who, !.branch = b, !.allow = allow]
<1>3. b \in Branch \cup {Detached} /\ pc \in Steps
  BY DEF Branch, Steps
<1>4. r \in Calls /\ r.pc = pc /\ r.who = who
  BY <1>3, Empties DEF Calls
<1>5. r.who \notin Session
  BY <1>4, WorktreeAssumption
<1>6. call' = [call EXCEPT ![c] = r] /\ env' = env /\ row' = row /\ ignore' = ignore /\ tree' = tree
  BY <1>1, <1>2 DEF CreateBegins
<1> HIDE DEF r
<1>7. QED
  BY <1>4, <1>5, <1>6, BecomesKeeps

LEMMA TriesSlugKeeps ==
  ASSUME WorktreeInvariant, NEW c \in Call, TriesSlug(c) PROVE Named' /\ Clean' /\ Owned'
<1>1. /\ call[c] \in Calls /\ call[c].slug \in Slug /\ call[c].pc = "slug"
      /\ call[c].who \notin Session
      /\ env' = env /\ row' = row /\ ignore' = ignore /\ tree' = tree
  BY DEF TriesSlug, At, WorktreeInvariant, TypeOK, Calls, Owned, Removing, Creating
<1>2. CASE \E pc \in {"ignore", "refused"} :
             call' = [call EXCEPT ![c].pc = pc,
                                  ![c].branch = IF @ = Detached THEN call[c].slug ELSE @]
  <2>1. PICK pc \in {"ignore", "refused"} :
             call' = [call EXCEPT ![c].pc = pc,
                                  ![c].branch = IF @ = Detached THEN call[c].slug ELSE @]
    BY <1>2
  <2>2. PICK b \in Branch : b = IF call[c].branch = Detached THEN call[c].slug ELSE call[c].branch
    BY <1>1, Numbers DEF Calls
  <2> DEFINE r == [call[c] EXCEPT !.pc = pc, !.branch = b]
  <2>3. r \in Calls /\ r.pc = pc /\ r.who = call[c].who /\ r.branch = b
    BY <1>1 DEF Calls, Steps
  <2>4. call' = [call EXCEPT ![c] = r]
    BY <2>1, <2>2 DEF WorktreeInvariant, TypeOK, Calls
  <2> HIDE DEF r
  <2>5. QED
    BY <1>1, <2>3, <2>4, BecomesKeeps
<1>3. CASE call[c].slug < MaxSlug /\ call' = [call EXCEPT ![c].slug = call[c].slug + 1]
  <2> DEFINE r == [call[c] EXCEPT !.slug = call[c].slug + 1]
  <2>1. call[c].slug + 1 \in Slug
    BY <1>1, <1>3, WorktreeAssumption DEF Slug
  <2>2. r \in Calls /\ r.pc = "slug" /\ r.who = call[c].who
    BY <1>1, <2>1 DEF Calls
  <2>3. call' = [call EXCEPT ![c] = r]
    BY <1>3 DEF WorktreeInvariant, TypeOK, Calls
  <2> HIDE DEF r
  <2>4. QED
    BY <1>1, <2>2, <2>3, BecomesKeeps
<1>4. CASE Goes(c, "refused")
  <2>1. "refused" \in Steps /\ "refused" \notin Creating \cup Running
    BY DEF Steps, Creating, Running
  <2>2. QED
    BY <1>1, <1>4, <2>1, GoesKeeps
<1>5. QED
  BY <1>2, <1>3, <1>4 DEF TriesSlug

LEMMA AddsKeeps ==
  ASSUME WorktreeInvariant, NEW c \in Call, Adds(c) PROVE Named' /\ Clean' /\ Owned'
<1>1. /\ call[c] \in Calls /\ call[c].slug \in Slug /\ call[c].pc = "add" /\ made \in Nat
      /\ call[c].who \notin Session
      /\ env' = env /\ row' = row /\ ignore' = ignore
  BY DEF Adds, At, WorktreeInvariant, TypeOK, Calls, Owned, Removing, Creating
<1>2. CASE Goes(c, "gitFailed")
  <2>1. "gitFailed" \in Steps
    BY DEF Steps, Running
  <2>2. QED
    BY <1>1, <1>2, <2>1, GoesKeeps
<1>3. CASE call' = [call EXCEPT ![c].pc = "created", ![c].id = made + 1]
  <2> DEFINE r == [call[c] EXCEPT !.pc = "created", !.id = made + 1]
  <2>1. r \in Calls /\ r.pc = "created" /\ r.who = call[c].who
    <3>1. made + 1 \in Nat /\ "created" \in Steps
      BY <1>1 DEF Steps
    <3>2. QED
      BY <1>1, <3>1 DEF Calls
  <2>2. call' = [call EXCEPT ![c] = r]
    BY <1>3 DEF WorktreeInvariant, TypeOK, Calls
  <2> HIDE DEF r
  <2>3. QED
    BY <1>1, <2>1, <2>2, BecomesKeeps
<1>4. QED
  BY <1>2, <1>3 DEF Adds

LEMMA RemoveBeginsKeeps ==
  ASSUME WorktreeInvariant, NEW c \in Call, RemoveBegins(c) PROVE Named' /\ Clean' /\ Owned'
<1>1. PICK s \in Slug, force \in BOOLEAN, keep \in BOOLEAN :
        call' = [call EXCEPT ![c] = [NoCall EXCEPT
                 !.pc = "list", !.slug = s, !.force = force, !.keep = keep]]
  BY DEF RemoveBegins
<1> DEFINE r == [NoCall EXCEPT !.pc = "list", !.slug = s, !.force = force, !.keep = keep]
<1>2. r \in Calls /\ r.pc = "list"
  BY Empties DEF Calls, Steps, Running
<1>3. r.who = "terminal"
  BY DEF NoCall
<1>4. r.who \notin Session
  BY <1>3, WorktreeAssumption
<1>5. call' = [call EXCEPT ![c] = r] /\ env' = env /\ row' = row /\ ignore' = ignore /\ tree' = tree
  BY <1>1 DEF RemoveBegins
<1> HIDE DEF r
<1>6. QED
  BY <1>2, <1>4, <1>5, BecomesKeeps

LEMMA DesktopRemovesKeeps ==
  ASSUME WorktreeInvariant, NEW c \in Call, DesktopRemoves(c) PROVE Named' /\ Clean' /\ Owned'
<1>1. PICK x \in Session, force \in BOOLEAN :
        /\ row[x].name # Main /\ row[x].at = row[x].name
        /\ call' = [call EXCEPT ![c] = [NoCall EXCEPT
                    !.pc = "recheck", !.who = x, !.slug = row[x].at, !.force = force]]
  BY DEF DesktopRemoves
<1>2. row[x].at \in Slug
  BY <1>1 DEF WorktreeInvariant, TypeOK, Place
<1> DEFINE r == [NoCall EXCEPT !.pc = "recheck", !.who = x, !.slug = row[x].at, !.force = force]
<1>3. r \in Calls /\ r.pc = "recheck"
  BY <1>2, Empties DEF Calls, Steps
<1>4. call' = [call EXCEPT ![c] = r] /\ env' = env /\ row' = row /\ ignore' = ignore /\ tree' = tree
  BY <1>1 DEF DesktopRemoves
<1>5. "recheck" \notin Creating \cup Running
  BY DEF Creating, Running
<1> HIDE DEF r
<1>6. QED
  BY <1>3, <1>4, <1>5, BecomesKeeps

LEMMA ListsKeeps ==
  ASSUME WorktreeInvariant, NEW c \in Call, Lists(c) PROVE Named' /\ Clean' /\ Owned'
<1> DEFINE t == tree[call[c].slug]
<1>1. /\ call[c] \in Calls /\ t.branch \in Branch \cup {Detached} /\ t.id \in Nat
      /\ call[c].pc = "list"
  BY DEF WorktreeInvariant, TypeOK, Calls, Trees, Lists, At
<1>2. PICK pc \in {"look", "refused"} : pc = IF t.reg THEN "look" ELSE "refused"
  OBVIOUS
<1> DEFINE r == [call[c] EXCEPT !.pc = pc, !.branch = t.branch, !.id = t.id]
<1>3. /\ r \in Calls /\ r.pc = pc /\ r.who = call[c].who /\ r.slug = call[c].slug
      /\ r.late = call[c].late
  BY <1>1 DEF Calls, Steps, Running
<1>4. call' = [call EXCEPT ![c] = r] /\ env' = env /\ row' = row /\ ignore' = ignore /\ tree' = tree
  BY <1>2 DEF Lists, WorktreeInvariant, TypeOK, Calls
<1>5. call[c].who \in Session => Residents(call[c].slug) \subseteq {call[c].who} \cup call[c].late
  BY <1>1 DEF WorktreeInvariant, Owned, Removing, Running, Alone
<1>6. pc \notin Creating
  BY DEF Creating
<1> HIDE DEF r
<1>7. QED
  BY <1>3, <1>4, <1>5, <1>6, BecomesKeeps

LEMMA RetriesKeeps ==
  ASSUME WorktreeInvariant, NEW c \in Call, Retries(c) PROVE Named' /\ Clean' /\ Owned'
<1> DEFINE r == [call[c] EXCEPT !.pc = "list", !.retried = TRUE]
<1>1. call[c] \in Calls /\ call[c].pc = "gitFailed"
  BY DEF WorktreeInvariant, TypeOK, Retries, At
<1>2. /\ r \in Calls /\ r.pc = "list" /\ r.who = call[c].who /\ r.slug = call[c].slug
      /\ r.late = call[c].late
  BY <1>1 DEF Calls, Steps, Running
<1>3. call' = [call EXCEPT ![c] = r] /\ env' = env /\ row' = row /\ ignore' = ignore /\ tree' = tree
  BY DEF Retries, WorktreeInvariant, TypeOK, Calls
<1>4. call[c].who \in Session => Residents(call[c].slug) \subseteq {call[c].who} \cup call[c].late
  BY <1>1 DEF WorktreeInvariant, Owned, Removing, Running, Alone
<1>5. "list" \notin Creating
  BY DEF Creating
<1> HIDE DEF r
<1>6. QED
  BY <1>2, <1>3, <1>4, <1>5, BecomesKeeps

LEMMA ReturnsKeeps ==
  ASSUME WorktreeInvariant, NEW c \in Call, Returns(c) PROVE Named' /\ Clean' /\ Owned'
BY NoCallKeeps DEF Returns
------------------------------------------------------------------------------
(***************************************************************************)
(* The rows and the user.                                                  *)
(***************************************************************************)
\* Commands that stay where they are, but for the arrivals they note.
LEMMA ArrivalKeeps ==
  ASSUME WorktreeInvariant, NEW x \in Session, NEW p \in Place,
         row' = [row EXCEPT ![x] = [in |-> TRUE, at |-> p, name |-> row'[x].name]]
  PROVE  \A d \in Call : LET e == Arrival(x, p)[d] IN
           e.who \in Session =>
             /\ e.pc \notin Creating
             /\ e.pc \in Running =>
                  \A y \in Session : row'[y].in /\ row'[y].at = e.slug => y \in {e.who} \cup e.late
<1> TAKE d \in Call
<1> DEFINE e == Arrival(x, p)[d]
<1>1. /\ e.pc = call[d].pc /\ e.who = call[d].who /\ e.slug = call[d].slug
      /\ call[d].late \subseteq e.late
      /\ (call[d].who \in Session /\ call[d].slug = p /\ call[d].pc \in Running) => x \in e.late
  BY Arriving DEF WorktreeInvariant, TypeOK
<1>2. row'[x].at = p /\ \A y \in Session \ {x} : row'[y] = row[y]
  BY DEF WorktreeInvariant, TypeOK
<1>3. \A y \in Session : row'[y].in /\ row'[y].at = call[d].slug =>
        y \in Residents(call[d].slug) \/ (y = x /\ call[d].slug = p)
  BY <1>2 DEF Residents
<1>4. Removing(d)
  BY DEF WorktreeInvariant, Owned
<1> HIDE DEF e
<1>5. ASSUME e.who \in Session, e.pc \in Running, NEW y \in Session,
             row'[y].in, row'[y].at = e.slug
      PROVE  y \in {e.who} \cup e.late
  <2>1. Residents(call[d].slug) \subseteq {call[d].who} \cup call[d].late
    BY <1>1, <1>4, <1>5 DEF Removing, Alone
  <2>2. y \in Residents(call[d].slug) \/ (y = x /\ call[d].slug = p)
    BY <1>1, <1>3, <1>5
  <2>3. QED
    BY <1>1, <1>5, <2>1, <2>2
<1>6. e.who \in Session => e.pc \notin Creating
  BY <1>1, <1>4 DEF Removing
<1>7. QED
  BY <1>5, <1>6 DEF e

\* A row leaves a tree, and every other stays.
LEMMA LeavingKeeps ==
  ASSUME WorktreeInvariant, NEW x \in Session, row' = [row EXCEPT ![x] = NoRow]
  PROVE  \A p \in Slug : Residents(p)' \subseteq Residents(p)
BY DEF WorktreeInvariant, TypeOK, Residents, NoRow

LEMMA BindsSessionKeeps ==
  ASSUME WorktreeInvariant, NEW c \in Call, BindsSession(c) PROVE Named' /\ Clean' /\ Owned'
<1>1. PICK x \in Session :
        /\ row' = [row EXCEPT ![x] = [in |-> TRUE, at |-> call[c].slug, name |-> call[c].slug]]
        /\ call' = [Arrival(x, call[c].slug) EXCEPT ![c] = NoCall]
  BY DEF BindsSession
<1> DEFINE p == call[c].slug
           A == Arrival(x, p)
<1>2. p \in Place
  BY Numbers DEF WorktreeInvariant, TypeOK, Calls
<1>3. row' = [row EXCEPT ![x] = [in |-> TRUE, at |-> p, name |-> row'[x].name]]
  BY <1>1 DEF WorktreeInvariant, TypeOK
<1>4. /\ A \in [Call -> Calls]
      /\ \A d \in Call : A[d].pc = call[d].pc /\ A[d].who = call[d].who /\ A[d].branch = call[d].branch
  BY Arriving DEF WorktreeInvariant, TypeOK
<1>5. \A d \in Call : d # c => call'[d] = A[d]
  BY <1>1, <1>4
<1>6. call'[c] = NoCall /\ NoCall.pc = "idle" /\ NoCall.who = "terminal"
  BY <1>1, <1>4 DEF NoCall
<1>7. env' = env /\ ignore' = ignore /\ tree' = tree
  BY DEF BindsSession
<1>8. \A d \in Call : A[d].who \in Session =>
        /\ A[d].pc \notin Creating
        /\ A[d].pc \in Running =>
             \A y \in Session : row'[y].in /\ row'[y].at = A[d].slug => y \in {A[d].who} \cup A[d].late
  BY <1>2, <1>3, ArrivalKeeps
<1> HIDE DEF A, p
<1>9. Named' /\ Clean'
  BY <1>4, <1>5, <1>6, <1>7 DEF WorktreeInvariant, Named, Clean
<1>10. Owned'
  <2> SUFFICES ASSUME NEW d \in Call PROVE Removing(d)'
    BY DEF Owned
  <2>1. CASE d = c
    BY <1>6, <2>1, WorktreeAssumption DEF Removing
  <2>2. CASE d # c
    BY <1>5, <1>8, <2>2 DEF Removing, Alone, Residents
  <2>3. QED
    BY <2>1, <2>2
<1>11. QED
  BY <1>9, <1>10

LEMMA DropsSessionKeeps ==
  ASSUME WorktreeInvariant, NEW c \in Call, DropsSession(c) PROVE Named' /\ Clean' /\ Owned'
<1>1. /\ call'[c] = NoCall /\ NoCall.pc = "idle" /\ NoCall.who = "terminal"
      /\ \A d \in Call : d # c => call'[d] = call[d]
  BY DEF DropsSession, WorktreeInvariant, TypeOK, NoCall
<1>2. env' = env /\ ignore' = ignore /\ tree' = tree
  BY DEF DropsSession
<1>3. Named' /\ Clean'
  BY <1>1, <1>2 DEF WorktreeInvariant, Named, Clean
<1>4. \A p \in Slug : Residents(p)' \subseteq Residents(p)
  BY LeavingKeeps DEF DropsSession
<1>5. \A d \in Call : call[d].slug \in Slug /\ Removing(d)
  BY DEF WorktreeInvariant, TypeOK, Calls, Owned
<1>6. \A d \in Call : Removing(d)'
  <2> TAKE d \in Call
  <2>1. CASE d = c
    BY <1>1, <2>1, WorktreeAssumption DEF Removing
  <2>2. CASE d # c
    BY <1>1, <1>4, <1>5, <2>2 DEF Removing, Alone
  <2>3. QED
    BY <2>1, <2>2
<1>7. QED
  BY <1>3, <1>6 DEF Owned

LEMMA MoveWrittenKeeps ==
  ASSUME WorktreeInvariant, NEW m \in pending, MoveWritten(m) PROVE Named' /\ Clean' /\ Owned'
<1>1. m.who \in Session /\ m.to \in Place
  BY DEF WorktreeInvariant, TypeOK
<1>2. env' = env /\ ignore' = ignore /\ tree' = tree
  BY DEF MoveWritten
<1>3. CASE row' = row /\ call' = call
  BY <1>2, <1>3 DEF WorktreeInvariant, Named, Clean, Owned, Removing, Alone, Residents
<1>4. CASE /\ row' = [row EXCEPT ![m.who] = [in |-> TRUE, at |-> m.to,
                                             name |-> IF @.name = m.to THEN @.name ELSE Main]]
           /\ call' = Arrival(m.who, m.to)
  <2> DEFINE A == Arrival(m.who, m.to)
  <2>1. row' = [row EXCEPT ![m.who] = [in |-> TRUE, at |-> m.to, name |-> row'[m.who].name]]
    BY <1>1, <1>4 DEF WorktreeInvariant, TypeOK
  <2>2. \A d \in Call : A[d].who \in Session =>
          /\ A[d].pc \notin Creating
          /\ A[d].pc \in Running =>
               \A y \in Session : row'[y].in /\ row'[y].at = A[d].slug => y \in {A[d].who} \cup A[d].late
    BY <1>1, <2>1, ArrivalKeeps
  <2>3. \A d \in Call : A[d].pc = call[d].pc /\ A[d].branch = call[d].branch
    BY <1>1, Arriving DEF WorktreeInvariant, TypeOK
  <2>4. call' = A
    BY <1>4
  <2> HIDE DEF A
  <2>5. Named' /\ Clean'
    BY <1>2, <2>3, <2>4 DEF WorktreeInvariant, Named, Clean
  <2>6. Owned'
    BY <2>2, <2>4 DEF Owned, Removing, Alone, Residents
  <2>7. QED
    BY <2>5, <2>6
<1>5. QED
  BY <1>3, <1>4 DEF MoveWritten

LEMMA RowDeletedKeeps ==
  ASSUME WorktreeInvariant, NEW x \in Session, RowDeleted(x) PROVE Named' /\ Clean' /\ Owned'
<1>1. env' = env /\ ignore' = ignore /\ tree' = tree /\ call' = call
  BY DEF RowDeleted
<1>2. \A p \in Slug : Residents(p)' \subseteq Residents(p)
  BY LeavingKeeps DEF RowDeleted
<1>3. \A d \in Call : call[d].slug \in Slug
  BY DEF WorktreeInvariant, TypeOK, Calls
<1>4. Owned'
  BY <1>1, <1>2, <1>3 DEF WorktreeInvariant, Owned, Removing, Alone
<1>5. QED
  BY <1>1, <1>4 DEF WorktreeInvariant, Named, Clean

\* The user makes no directory, and drops the rule only where that is allowed.
LEMMA UserKeeps == ASSUME WorktreeInvariant, User PROVE Named' /\ Clean' /\ Owned'
<1>1. env' = env /\ call' = call /\ row' = row
  BY DEF User, EditsMain, DropsRule, EditsTree, SwitchesTree, DeletesDirectory
<1>2. ignore' = ignore \/ env.rules
  BY DEF User, EditsMain, DropsRule, EditsTree, SwitchesTree, DeletesDirectory
<1>3. \A s \in Slug : tree'[s].dir => tree[s].dir
  BY DEF User, EditsMain, DropsRule, EditsTree, SwitchesTree, DeletesDirectory,
         WorktreeInvariant, TypeOK, Trees
<1>4. QED
  BY <1>1, <1>2, <1>3 DEF WorktreeInvariant, Named, Clean, Owned, Removing, Alone, Residents
------------------------------------------------------------------------------
(***************************************************************************)
(* The results.                                                            *)
(***************************************************************************)
LEMMA WorktreeStart == Init => WorktreeInvariant
<1> SUFFICES ASSUME Init PROVE WorktreeInvariant
  OBVIOUS
<1>1. \A c \in Call : call[c].pc = "idle" /\ call[c].who = "terminal"
  BY DEF Init, NoCall
<1>2. \A s \in Slug : ~tree[s].dir
  BY DEF Init, NoTree
<1>3. "terminal" \notin Session
  BY WorktreeAssumption
<1>4. QED
  BY <1>1, <1>2, <1>3, TypeStart DEF WorktreeInvariant, Named, Clean, Owned, Removing

LEMMA WorktreeStep == WorktreeInvariant /\ [Next]_vars => WorktreeInvariant'
<1> SUFFICES ASSUME WorktreeInvariant, [Next]_vars PROVE Named' /\ Clean' /\ Owned'
  BY TypeStep DEF WorktreeInvariant
<1>1. ASSUME NEW c \in Call, Creates(c) PROVE Named' /\ Clean' /\ Owned'
  BY <1>1, CreateBeginsKeeps, TriesSlugKeeps, ChecksIgnoreKeeps, WritesExcludeKeeps,
     ChecksMainKeeps, AddsKeeps DEF Creates
<1>2. ASSUME NEW c \in Call, Removal(c) PROVE Named' /\ Clean' /\ Owned'
  BY <1>2, RemoveBeginsKeeps, DesktopRemovesKeeps, RechecksKeeps, ListsKeeps, LooksKeeps,
     PrunesKeeps, RemovesKeeps, DeletesBranchKeeps DEF Removal
<1>3. ASSUME NEW c \in Call, Answer(c) PROVE Named' /\ Clean' /\ Owned'
  BY <1>3, TimesOutKeeps, RetriesKeeps, ReturnsKeeps, BindsSessionKeeps, DropsSessionKeeps,
     GivesUpKeeps DEF Answer
<1>4. ASSUME Rows PROVE Named' /\ Clean' /\ Owned'
  <2>1. ASSUME NEW x \in Session, MoveAsked(x) PROVE Named' /\ Clean' /\ Owned'
    BY <2>1 DEF MoveAsked, WorktreeInvariant, Named, Clean, Owned, Removing, Alone, Residents
  <2>2. QED
    BY <1>4, <2>1, MoveWrittenKeeps, RowDeletedKeeps DEF Rows
<1>5. CASE UNCHANGED vars
  BY <1>5 DEF vars, WorktreeInvariant, Named, Clean, Owned, Removing, Alone, Residents
<1>6. QED
  BY <1>1, <1>2, <1>3, <1>4, <1>5, UserKeeps DEF Next

LEMMA WorktreeInvariantHolds == Spec => []WorktreeInvariant
<1>1. QED
  BY WorktreeStart, WorktreeStep, PTL DEF Spec

(* A command is always at one of its steps, about a slug that may be asked   *)
(* for, and what git and the rows hold is of its kind -- create and remove  *)
(* (worktree.py:147-394).                                                   *)
THEOREM TypeCorrect == Spec => []TypeOK
<1>1. WorktreeInvariant => TypeOK
  BY DEF WorktreeInvariant
<1>2. QED
  BY <1>1, WorktreeInvariantHolds, PTL

(* No tree CluxMate puts into a repository, whole or half made, shows up     *)
(* among the changes of the main tree, unless the user has taken the rule   *)
(* out: create makes sure of it before there is a tree, by asking again     *)
(* after it wrote (worktree.py:199-230, 676-713).                           *)
THEOREM MainClean == Spec => []MainStaysClean
<1>1. WorktreeInvariant => MainStaysClean
  BY DEF WorktreeInvariant, Clean, MainStaysClean
<1>2. QED
  BY <1>1, WorktreeInvariantHolds, PTL

\* Only Removes takes a directory away while a command moves.
LEMMA OnlyRemovalsTake ==
  ASSUME WorktreeInvariant, Next, NEW s \in Slug, tree[s].dir, ~tree'[s].dir
  PROVE  call' = call \/ \E c \in Call : MayTake(c, s)
<1>1. ASSUME NEW c \in Call, Creates(c) PROVE FALSE
  <2>1. tree' = tree \/ Adds(c)
    BY <1>1 DEF Creates, CreateBegins, TriesSlug, ChecksIgnore, WritesExclude, ChecksMain
  <2>2. CASE Adds(c)
    BY <2>2 DEF Adds, WorktreeInvariant, TypeOK, Trees
  <2>3. QED
    BY <2>1, <2>2
<1>2. ASSUME NEW c \in Call, Removal(c) PROVE MayTake(c, s)
  <2>1. tree' = tree \/ Prunes(c) \/ Removes(c)
    BY <1>2 DEF Removal, RemoveBegins, DesktopRemoves, Rechecks, Lists, Looks, DeletesBranch
  <2>2. ~Prunes(c)
    BY DEF Prunes
  <2>3. CASE Removes(c)
    <3>1. /\ call[c].pc = "remove" /\ call[c].slug = s
          /\ tree[s].dirty => call[c].force
      BY <2>3 DEF Removes, At, WorktreeInvariant, TypeOK, Trees
    <3>2. "remove" \in Running
      BY DEF Running
    <3>3. QED
      BY <3>1, <3>2 DEF MayTake, WorktreeInvariant, Owned, Removing, Alone
  <2>4. QED
    BY <2>1, <2>2, <2>3
<1>3. ASSUME NEW c \in Call, Answer(c) PROVE FALSE
  BY <1>3 DEF Answer, TimesOut, Retries, Returns, BindsSession, DropsSession, GivesUp
<1>4. ASSUME Rows PROVE FALSE
  BY <1>4 DEF Rows, MoveAsked, MoveWritten, RowDeleted
<1>5. ASSUME User PROVE call' = call
  BY <1>5 DEF User, EditsMain, DropsRule, EditsTree, SwitchesTree, DeletesDirectory
<1>6. QED
  BY <1>1, <1>2, <1>3, <1>4, <1>5 DEF Next

(* A removal takes only the tree it was asked to, uncommitted changes only   *)
(* by force, and from under no session that was there when the desktop      *)
(* looked at the rows after the kill, which is what removeTreeNow asks      *)
(* again for (ipc-handlers.ts:122-161, worktree.py:337-371).                *)
THEOREM RemovalsTake == Spec => RemovalsTakeNoMore
<1>1. WorktreeInvariant /\ [Next]_vars =>
        [\A s \in Slug : tree[s].dir /\ ~tree'[s].dir =>
           call' = call \/ \E c \in Call : MayTake(c, s)]_vars
  BY OnlyRemovalsTake
<1>2. QED
  BY <1>1, WorktreeInvariantHolds, PTL DEF Spec, RemovalsTakeNoMore
------------------------------------------------------------------------------
(***************************************************************************)
(* What is answered.                                                       *)
(***************************************************************************)
\* One step of a tree: it is the tree it was, locked if it was, or none; or it is a new one, with
\* the next number.
Same(s) ==
  /\ tree'[s].id <= made
  /\ tree'[s].reg =>
       /\ tree[s].reg /\ tree'[s].id = tree[s].id /\ tree'[s].locked = tree[s].locked
       /\ tree'[s].dir => tree[s].dir
       /\ tree'[s].branch = tree[s].branch \/ Undisturbed(s)

Moves ==
  /\ env' = env
  /\ \/ made' = made /\ \A s \in Slug : Same(s)
     \/ /\ made' = made + 1
        /\ \E p \in Slug : tree'[p].id = made + 1 /\ \A s \in Slug : s # p => Same(s)

\* One step of a command that lists nothing, learns nothing of what it listed and
\* has nothing to answer yet.
Notable == {"look", "prune", "remove", "branch", "created", "removed"}

Steady(d) ==
  \/ call'[d].pc \notin Notable
  \/ /\ call'[d].pc = call[d].pc /\ call'[d].id = call[d].id
     /\ call'[d].slug = call[d].slug /\ call'[d].branch = call[d].branch

LEMMA NumberedStays ==
  ASSUME TypeOK, TypeOK', Numbered, Moves PROVE Numbered'
<1>1. /\ made \in Nat /\ \A s \in Slug : tree[s].id \in Nat /\ tree[s].id <= made
      /\ \A s \in Slug : tree'[s].id \in Nat
  BY DEF TypeOK, Trees, Numbered
<1>2. CASE made' = made /\ \A s \in Slug : Same(s)
  BY <1>1, <1>2 DEF Numbered, Same
<1>3. CASE made' = made + 1 /\ \E p \in Slug : tree'[p].id = made + 1 /\ \A s \in Slug : s # p => Same(s)
  <2>1. PICK p \in Slug : tree'[p].id = made + 1 /\ \A s \in Slug : s # p => Same(s)
    BY <1>3
  <2>2. \A s \in Slug : s # p =>
          tree'[s].id <= made /\ (tree'[s].reg => tree[s].reg /\ tree'[s].id = tree[s].id)
    BY <2>1 DEF Same
  <2>3. \A s \in Slug : s # p => tree'[s].id # tree'[p].id
    BY <1>1, <2>1, <2>2
  <2>4. \A s \in Slug : tree'[s].id <= made'
    BY <1>1, <1>3, <2>1, <2>2
  <2>5. \A s \in Slug, r \in Slug : tree'[s].reg /\ tree'[r].reg /\ tree'[s].id = tree'[r].id => s = r
    BY <2>2, <2>3 DEF Numbered
  <2>6. QED
    BY <2>4, <2>5 DEF Numbered
<1>4. QED
  BY <1>2, <1>3 DEF Moves

\* What was given out names no new tree, and names where it does what it named.
LEMMA ListedStays ==
  ASSUME TypeOK, TypeOK', Moves, NEW d \in Call, call[d].id <= made, call'[d].id = call[d].id
  PROVE  Listed(d)' \subseteq {s \in Listed(d) : Same(s)}
<1>1. made \in Nat /\ call[d].id \in Nat /\ \A s \in Slug : tree'[s].id \in Nat
  BY DEF TypeOK, Trees, Calls
<1>2. SUFFICES ASSUME NEW s \in Slug, tree'[s].reg, tree'[s].id = call[d].id
               PROVE  s \in Listed(d) /\ Same(s)
  BY DEF Listed
<1>3. tree'[s].id # made + 1
  BY <1>1, <1>2
<1>4. Same(s)
  BY <1>3 DEF Moves
<1>5. QED
  BY <1>2, <1>4 DEF Same, Listed

LEMMA SteadyIsTold ==
  ASSUME TypeOK, TypeOK', Moves, NEW d \in Call, Told(d), Steady(d)
  PROVE  Told(d)'
<1>1. CASE call'[d].pc \notin {"look", "prune", "remove", "branch"}
  BY <1>1 DEF Told
<1>2. CASE /\ call[d].pc \in {"look", "prune", "remove", "branch"}
           /\ call'[d].pc = call[d].pc /\ call'[d].id = call[d].id
           /\ call'[d].slug = call[d].slug /\ call'[d].branch = call[d].branch
  <2>1. call[d].id <= made /\ made <= made' /\ call[d].id \in Nat /\ made \in Nat /\ made' \in Nat
    BY <1>2 DEF Told, Moves, TypeOK, Calls
  <2>2. \A s \in Listed(d)' : s \in Listed(d) /\ Same(s) /\ tree'[s].reg
    BY <1>2, <2>1, ListedStays DEF Listed
  <2>3. ASSUME NEW s \in Listed(d)', call[d].pc \in {"look", "prune", "remove"}
        PROVE  /\ s = call[d].slug
               /\ call[d].pc = "prune" => ~tree'[s].dir
               /\ ~env.restless => tree'[s].branch = call[d].branch
    <3>1. /\ s = call[d].slug
          /\ call[d].pc = "prune" => ~tree[s].dir
          /\ ~env.restless => tree[s].branch = call[d].branch
      BY <2>2, <2>3 DEF Told
    <3>2. call[d].pc \in Running
      BY <2>3 DEF Running
    <3>3. ~Undisturbed(s) \/ env.restless
      BY <3>1, <3>2 DEF Undisturbed
    <3>4. QED
      BY <2>2, <3>1, <3>3 DEF Same
  <2>4. env' = env
    BY DEF Moves
  <2>5. call[d].pc = "branch" => \A s \in Listed(d)' : Remnant(s)'
    BY <2>2 DEF Told, Same, Remnant
  <2>6. call'[d].id <= made'
    BY <1>2, <2>1
  <2>7. QED
    BY <1>2, <2>3, <2>4, <2>5, <2>6 DEF Told
<1>3. QED
  BY <1>1, <1>2 DEF Steady, Notable

\* A tree that is not touched.
LEMMA Untouched ==
  ASSUME TypeOK, Numbered, NEW s \in Slug, tree'[s] = tree[s] PROVE Same(s)
BY DEF TypeOK, Numbered, Same

LEMMA AllUntouched ==
  ASSUME TypeOK, Numbered, env' = env, tree' = tree, made' = made PROVE Moves
BY Untouched DEF Moves

\* A tree whose entry and branch stay, or that goes.
LEMMA OneChanges ==
  ASSUME TypeOK, Numbered, env' = env, made' = made, NEW s \in Slug, NEW t \in Trees,
         tree' = [tree EXCEPT ![s] = t],
         \/ t = NoTree
         \/ /\ t.id = tree[s].id
            /\ t.reg => tree[s].reg
            /\ t.locked = tree[s].locked
            /\ t.dir => tree[s].dir
            /\ t.branch = tree[s].branch \/ Undisturbed(s)
  PROVE  Moves
<1>1. tree'[s] = t /\ \A r \in Slug : r # s => tree'[r] = tree[r]
  BY DEF TypeOK
<1>2. made \in Nat /\ tree[s].id <= made
  BY DEF TypeOK, Numbered
<1>3. Same(s)
  <2>1. CASE t = NoTree
    BY <1>1, <1>2, <2>1 DEF Same, NoTree
  <2>2. CASE t # NoTree
    BY <1>1, <1>2, <2>2 DEF Same
  <2>3. QED
    BY <2>1, <2>2
<1>4. \A r \in Slug : Same(r)
  BY <1>1, <1>3, Untouched
<1>5. QED
  BY <1>4 DEF Moves

LEMMA AddsMoves == ASSUME WorktreeInvariant, Numbered, NEW c \in Call, Adds(c) PROVE Moves
<1> DEFINE s == call[c].slug
           b == call[c].branch
           fresh == [reg |-> TRUE, dir |-> TRUE, branch |-> b, dirty |-> FALSE,
                     locked |-> FALSE, id |-> made + 1]
           partial == {fresh, [fresh EXCEPT !.dir = FALSE, !.locked = TRUE],
                       [fresh EXCEPT !.dirty = TRUE, !.locked = TRUE]}
<1>1. TypeOK /\ s \in Slug /\ made \in Nat
  BY DEF WorktreeInvariant, TypeOK, Calls
<1>2. env' = env
  BY DEF Adds
<1>3. CASE tree' = tree /\ made' = made
  BY <1>1, <1>2, <1>3, AllUntouched
<1>4. CASE /\ made' = made + 1
           /\ \E t \in partial : tree' = [tree EXCEPT ![s] = t]
  <2>3. \A t \in partial : t.id = made + 1
    <3>1. fresh.id = made + 1
      OBVIOUS
    <3>2. fresh \in [reg : BOOLEAN, dir : BOOLEAN, branch : {b}, dirty : BOOLEAN,
                     locked : BOOLEAN, id : {made + 1}]
      OBVIOUS
    <3> HIDE DEF fresh
    <3>3. QED
      BY <3>1, <3>2
  <2>1. tree'[s].id = made + 1 /\ \A r \in Slug : r # s => tree'[r] = tree[r]
    <3> HIDE DEF partial
    <3>1. QED
      BY <1>1, <1>4, <2>3 DEF TypeOK
  <2>2. QED
    BY <1>1, <1>2, <1>4, <2>1, Untouched DEF Moves
<1>6. fresh \in partial
  OBVIOUS
<1>5. QED
  BY <1>3, <1>4, <1>6 DEF Adds

LEMMA PrunesMoves == ASSUME WorktreeInvariant, Numbered, NEW c \in Call, Prunes(c) PROVE Moves
<1>1. made \in Nat /\ env' = env /\ made' = made
  BY DEF WorktreeInvariant, TypeOK, Prunes
<1>2. \A s \in Slug : tree'[s] = IF tree[s].dir \/ tree[s].locked THEN tree[s] ELSE NoTree
  BY DEF Prunes
<1>3. ASSUME NEW s \in Slug PROVE Same(s)
  <2>1. CASE tree[s].dir \/ tree[s].locked
    BY <1>2, <2>1, Untouched DEF WorktreeInvariant
  <2>2. CASE ~(tree[s].dir \/ tree[s].locked)
    BY <1>1, <1>2, <2>2 DEF Same, NoTree
  <2>3. QED
    BY <2>1, <2>2
<1>4. QED
  BY <1>1, <1>3 DEF Moves

LEMMA RemovesMoves == ASSUME WorktreeInvariant, Numbered, NEW c \in Call, Removes(c) PROVE Moves
<1> DEFINE s == call[c].slug
<1>1. TypeOK /\ s \in Slug /\ tree[s] \in Trees /\ env' = env /\ made' = made
  BY DEF WorktreeInvariant, TypeOK, Calls, Removes
<1>2. CASE tree' = tree
  BY <1>1, <1>2, AllUntouched
<1>3. CASE tree' = [tree EXCEPT ![s] = NoTree]
  BY <1>1, <1>3, Empties, OneChanges
<1>4. CASE tree' = [tree EXCEPT ![s].dirty = TRUE]
  <2>1. PICK t \in Trees : t = [tree[s] EXCEPT !.dirty = TRUE]
    BY <1>1 DEF Trees
  <2>2. t.id = tree[s].id /\ t.reg = tree[s].reg /\ t.locked = tree[s].locked
          /\ t.dir = tree[s].dir /\ t.branch = tree[s].branch
    BY <1>1, <2>1 DEF Trees
  <2>3. tree' = [tree EXCEPT ![s] = t]
    BY <1>4, <2>1
  <2>4. QED
    BY <1>1, <2>2, <2>3, OneChanges
<1>5. CASE tree' = [tree EXCEPT ![s].dir = FALSE, ![s].dirty = FALSE]
  <2>1. PICK t \in Trees : t = [tree[s] EXCEPT !.dir = FALSE, !.dirty = FALSE]
    BY <1>1 DEF Trees
  <2>2. t.id = tree[s].id /\ t.reg = tree[s].reg /\ t.locked = tree[s].locked
          /\ ~t.dir /\ t.branch = tree[s].branch
    BY <1>1, <2>1 DEF Trees
  <2>3. tree' = [tree EXCEPT ![s] = t]
    BY <1>1, <1>5, <2>1 DEF TypeOK, Trees
  <2>4. QED
    BY <1>1, <2>2, <2>3, OneChanges
<1>6. QED
  BY <1>2, <1>3, <1>4, <1>5 DEF Removes

LEMMA UserMoves == ASSUME WorktreeInvariant, Numbered, User PROVE Moves
<1>1. TypeOK /\ env' = env /\ made' = made
  BY DEF WorktreeInvariant, User, EditsMain, DropsRule, EditsTree, SwitchesTree, DeletesDirectory
<1>2. CASE EditsMain \/ DropsRule
  BY <1>1, <1>2, AllUntouched DEF EditsMain, DropsRule
<1>3. ASSUME NEW s \in Slug, EditsTree(s) PROVE Moves
  <2>1. PICK t \in Trees : t = [tree[s] EXCEPT !.dirty = ~@]
    BY <1>1 DEF TypeOK, Trees
  <2>2. t.id = tree[s].id /\ t.reg = tree[s].reg /\ t.locked = tree[s].locked
          /\ t.dir = tree[s].dir /\ t.branch = tree[s].branch
    BY <1>1, <2>1 DEF TypeOK, Trees
  <2>3. tree' = [tree EXCEPT ![s] = t]
    BY <1>3, <2>1 DEF EditsTree
  <2>4. QED
    BY <1>1, <2>2, <2>3, OneChanges
<1>4. ASSUME NEW s \in Slug, SwitchesTree(s) PROVE Moves
  <2>1. PICK b \in Topic \cup {Detached} : tree' = [tree EXCEPT ![s].branch = b]
    BY <1>4 DEF SwitchesTree
  <2>2. PICK t \in Trees : t = [tree[s] EXCEPT !.branch = b]
    BY <1>1 DEF TypeOK, Trees, Branch
  <2>3. t.id = tree[s].id /\ t.reg = tree[s].reg /\ t.locked = tree[s].locked /\ t.dir = tree[s].dir
    BY <1>1, <2>2 DEF TypeOK, Trees
  <2>4. tree' = [tree EXCEPT ![s] = t]
    BY <2>1, <2>2
  <2>5. Undisturbed(s)
    BY <1>4 DEF SwitchesTree
  <2>6. QED
    BY <1>1, <2>3, <2>4, <2>5, OneChanges
<1>5. ASSUME NEW s \in Slug, DeletesDirectory(s) PROVE Moves
  <2>1. PICK t \in Trees : t = [tree[s] EXCEPT !.dir = FALSE, !.dirty = FALSE]
    BY <1>1 DEF TypeOK, Trees
  <2>2. t.id = tree[s].id /\ t.reg = tree[s].reg /\ t.locked = tree[s].locked
          /\ ~t.dir /\ t.branch = tree[s].branch
    BY <1>1, <2>1 DEF TypeOK, Trees
  <2>3. tree' = [tree EXCEPT ![s] = t]
    BY <1>1, <1>5, <2>1 DEF DeletesDirectory, TypeOK, Trees
  <2>4. QED
    BY <1>1, <2>2, <2>3, OneChanges
<1>6. QED
  BY <1>2, <1>3, <1>4, <1>5 DEF User

LEMMA NextMoves == ASSUME WorktreeInvariant, Numbered, [Next]_vars PROVE Moves
<1>1. TypeOK
  BY DEF WorktreeInvariant
<1>2. ASSUME NEW c \in Call, Creates(c) PROVE Moves
  BY <1>1, <1>2, AllUntouched, AddsMoves
     DEF Creates, CreateBegins, TriesSlug, ChecksIgnore, WritesExclude, ChecksMain
<1>3. ASSUME NEW c \in Call, Removal(c) PROVE Moves
  BY <1>1, <1>3, AllUntouched, PrunesMoves, RemovesMoves
     DEF Removal, RemoveBegins, DesktopRemoves, Rechecks, Lists, Looks, DeletesBranch
<1>4. ASSUME NEW c \in Call, Answer(c) PROVE Moves
  BY <1>1, <1>4, AllUntouched DEF Answer, TimesOut, Retries, Returns, BindsSession, DropsSession, GivesUp
<1>5. ASSUME Rows PROVE Moves
  BY <1>1, <1>5, AllUntouched DEF Rows, MoveAsked, MoveWritten, RowDeleted
<1>6. CASE UNCHANGED vars
  BY <1>1, <1>6, AllUntouched DEF vars
<1>7. QED
  BY <1>2, <1>3, <1>4, <1>5, <1>6, UserMoves DEF Next

\* One command goes on, and learns nothing of what it listed.
LEMMA OneGoes ==
  ASSUME TypeOK, NEW c \in Call, NEW pc \in Steps, Goes(c, pc),
         pc \notin Notable, NEW d \in Call
  PROVE  Steady(d)
<1>1. call'[c].pc = pc /\ \A e \in Call : e # c => call'[e] = call[e]
  BY GoesOn DEF TypeOK
<1>2. QED
  BY <1>1 DEF Steady

LEMMA CreatesSteady ==
  ASSUME WorktreeInvariant, NEW c \in Call, Creates(c), NEW d \in Call
  PROVE  Steady(d) \/ (d = c /\ Adds(c))
<1>1. TypeOK /\ call \in [Call -> Calls]
  BY DEF WorktreeInvariant, TypeOK
<1>2. (call'[c].pc \notin Notable \/ Adds(c)) /\ \A e \in Call : e # c => call'[e] = call[e]
  <2>1. CASE CreateBegins(c)
    <3>1. PICK who \in {"terminal", "desktop"}, b \in Topic \cup {Detached}, allow \in BOOLEAN :
             call' = [call EXCEPT ![c] = [NoCall EXCEPT
                    !.pc = IF b \in branches THEN "refused" ELSE "slug",
                    !.who = who, !.branch = b, !.allow = allow]]
      BY <2>1 DEF CreateBegins
    <3>2. call'[c].pc = IF b \in branches THEN "refused" ELSE "slug"
      BY <1>1, <3>1 DEF NoCall
    <3>3. call'[c].pc \notin Notable
      BY <3>2 DEF Notable
    <3>4. QED
      BY <1>1, <3>1, <3>3
  <2>2. CASE TriesSlug(c)
    BY <1>1, <2>2 DEF TriesSlug, Goes, At, Calls, Notable
  <2>3. CASE ChecksIgnore(c)
    BY <1>1, <2>3 DEF ChecksIgnore, Goes, Calls, Notable
  <2>4. CASE WritesExclude(c)
    BY <1>1, <2>4 DEF WritesExclude, Goes, Calls, Notable
  <2>5. CASE ChecksMain(c)
    BY <1>1, <2>5 DEF ChecksMain, Goes, Calls, Notable
  <2>6. CASE Adds(c)
    BY <1>1, <2>6 DEF Adds, Goes
  <2>7. QED
    BY <2>1, <2>2, <2>3, <2>4, <2>5, <2>6 DEF Creates
<1>3. QED
  BY <1>2 DEF Steady

LEMMA RemovalSteady ==
  ASSUME WorktreeInvariant, NEW c \in Call, Removal(c), NEW d \in Call
  PROVE  Steady(d) \/ (d = c /\ (Lists(c) \/ Looks(c) \/ Prunes(c) \/ Removes(c) \/ DeletesBranch(c)))
<1>1. TypeOK /\ call \in [Call -> Calls]
  BY DEF WorktreeInvariant, TypeOK
<1>2. CASE RemoveBegins(c)
  <2>1. PICK s \in Slug, force \in BOOLEAN, keep \in BOOLEAN :
        call' = [call EXCEPT ![c] = [NoCall EXCEPT
                 !.pc = "list", !.slug = s, !.force = force, !.keep = keep]]
    BY <1>2 DEF RemoveBegins
  <2>2. call'[c].pc = "list"
    BY <1>1, <2>1 DEF NoCall
  <2>3. \A e \in Call : e # c => call'[e] = call[e]
    BY <1>1, <2>1
  <2>4. QED
    BY <2>2, <2>3 DEF Steady, Notable
<1>3. CASE DesktopRemoves(c)
  <2>1. PICK x \in Session, force \in BOOLEAN :
          call' = [call EXCEPT ![c] = [NoCall EXCEPT
                    !.pc = "recheck", !.who = x, !.slug = row[x].at, !.force = force]]
    BY <1>3 DEF DesktopRemoves
  <2>2. call'[c].pc = "recheck"
    BY <1>1, <2>1 DEF NoCall
  <2>3. \A e \in Call : e # c => call'[e] = call[e]
    BY <1>1, <2>1, Zenon
  <2>4. QED
    BY <2>2, <2>3 DEF Steady, Notable
<1>4. CASE Rechecks(c)
  <2>1. PICK pc \in {"list", "refused"} : Goes(c, pc)
    BY <1>4 DEF Rechecks
  <2>2. pc \in Steps /\ pc \notin Notable
    BY DEF Steps, Running, Notable
  <2>3. Steady(d)
    BY <1>1, <2>1, <2>2, OneGoes
  <2>4. QED
    BY <2>3
<1>5. CASE Lists(c) \/ Looks(c) \/ Prunes(c) \/ Removes(c) \/ DeletesBranch(c)
  <2>1. \A e \in Call : e # c => call'[e] = call[e]
    BY <1>1, <1>5 DEF Lists, Looks, Prunes, Removes, DeletesBranch, Goes
  <2>2. QED
    BY <1>5, <2>1 DEF Steady
<1>6. QED
  BY <1>2, <1>3, <1>4, <1>5 DEF Removal

\* Commands that only note an arrival.
LEMMA ArrivalSteady ==
  ASSUME TypeOK, NEW x \in Session, NEW p \in Place, NEW d \in Call
  PROVE  LET e == Arrival(x, p)[d] IN
         e.pc = call[d].pc /\ e.id = call[d].id /\ e.slug = call[d].slug /\ e.branch = call[d].branch
BY DEF Arrival, TypeOK, Calls

LEMMA AnswerSteady == ASSUME WorktreeInvariant, NEW c \in Call, Answer(c), NEW d \in Call PROVE Steady(d)
<1>1. TypeOK /\ call \in [Call -> Calls] /\ NoCall.pc = "idle"
  BY DEF WorktreeInvariant, TypeOK, NoCall
<1>2. CASE TimesOut(c)
  BY <1>1, <1>2 DEF TimesOut, Goes, Calls, Notable, Steady
<1>3. CASE Retries(c)
  BY <1>1, <1>3 DEF Retries, Calls, Notable, Steady
<1>4. CASE Returns(c) \/ DropsSession(c)
  BY <1>1, <1>4 DEF Returns, DropsSession, Notable, Steady
<1>5. CASE GivesUp(c)
  BY <1>1, <1>5 DEF GivesUp, Goes, Calls, Notable, Steady
<1>6. CASE BindsSession(c)
  <2>1. PICK x \in Session : call' = [Arrival(x, call[c].slug) EXCEPT ![c] = NoCall]
    BY <1>6 DEF BindsSession
  <2>2. call[c].slug \in Place
    BY <1>1, Numbers DEF Calls
  <2>3. Arrival(x, call[c].slug) \in [Call -> Calls]
    BY <1>1, <2>2, Arriving DEF TypeOK
  <2>4. CASE d = c
    BY <1>1, <2>1, <2>3, <2>4 DEF Steady, Notable
  <2>5. CASE d # c
    <3>1. call'[d] = Arrival(x, call[c].slug)[d]
      BY <2>1, <2>3, <2>5
    <3>2. QED
      BY <1>1, <2>2, <3>1, ArrivalSteady DEF Steady
  <2>6. QED
    BY <2>4, <2>5
<1>7. QED
  BY <1>2, <1>3, <1>4, <1>5, <1>6 DEF Answer

LEMMA RowsSteady == ASSUME WorktreeInvariant, Rows, NEW d \in Call PROVE Steady(d)
<1>1. TypeOK
  BY DEF WorktreeInvariant
<1>2. CASE call' = call
  BY <1>2 DEF Steady
<1>3. ASSUME NEW m \in pending, MoveWritten(m), call' = Arrival(m.who, m.to) PROVE Steady(d)
  <2>1. m.who \in Session /\ m.to \in Place
    BY <1>1, <1>3 DEF TypeOK
  <2>2. QED
    BY <1>1, <1>3, <2>1, ArrivalSteady DEF Steady
<1>4. QED
  BY <1>2, <1>3 DEF Rows, MoveAsked, RowDeleted, MoveWritten

LEMMA ListsIsTold == ASSUME TypeOK, TypeOK', Numbered, NEW c \in Call, Lists(c) PROVE Told(c)'
<1> DEFINE t == tree[call[c].slug]
<1>1. /\ call[c] \in Calls /\ call[c].slug \in Slug /\ tree' = tree /\ made' = made
      /\ \A s \in Slug : tree[s].id <= made
  BY DEF TypeOK, Calls, Lists, Numbered
<1>2. /\ call'[c].pc = IF t.reg THEN "look" ELSE "refused"
      /\ call'[c].branch = t.branch /\ call'[c].id = t.id /\ call'[c].slug = call[c].slug
  BY <1>1 DEF Lists, TypeOK, Calls
<1>3. CASE ~t.reg
  BY <1>2, <1>3 DEF Told
<1>4. CASE t.reg
  <2>1. \A s \in Listed(c)' : s = call[c].slug
    BY <1>1, <1>2, <1>4 DEF Listed, Numbered
  <2>2. QED
    BY <1>1, <1>2, <1>4, <2>1 DEF Told
<1>5. QED
  BY <1>3, <1>4

LEMMA LooksIsTold == ASSUME TypeOK, NEW c \in Call, Told(c), Looks(c) PROVE Told(c)'
<1>1. PICK pc \in {"prune", "refused", "remove"} :
        /\ Goes(c, pc)
        /\ pc = "prune" => ~tree[call[c].slug].dir
  BY DEF Looks
<1>2. pc \in Steps
  BY DEF Steps, Running
<1>3. /\ call'[c].pc = pc /\ call'[c].slug = call[c].slug /\ call'[c].branch = call[c].branch
      /\ call'[c].id = call[c].id
  BY <1>1 DEF Goes, TypeOK, Calls
<1>4. call[c].pc = "look" /\ tree' = tree /\ made' = made /\ env' = env
  BY DEF Looks, At
<1>5. Listed(c)' = Listed(c)
  BY <1>3, <1>4 DEF Listed
<1>6. QED
  BY <1>1, <1>3, <1>4, <1>5 DEF Told

\* Once its entry is gone, or a remnant, so is what was listed.
LEMMA GoneIsTold ==
  ASSUME TypeOK, TypeOK', Moves, NEW c \in Call, Told(c), call[c].pc \in {"prune", "remove"},
         Goes(c, "branch"),
         \/ ~tree'[call[c].slug].reg
         \/ Remnant(call[c].slug)'
         \/ call[c].slug \notin Listed(c)
  PROVE  Told(c)'
<1>1. /\ call'[c].pc = "branch" /\ call'[c].id = call[c].id /\ call[c].slug \in Slug
  BY DEF Goes, TypeOK, Calls
<1>2. call[c].id <= made /\ \A s \in Listed(c) : s = call[c].slug
  BY DEF Told
<1>3. Listed(c)' \subseteq Listed(c)
  BY <1>1, <1>2, ListedStays
<1>4. \A s \in Listed(c)' : Remnant(s)'
  <2>1. call'[c].slug = call[c].slug
    BY DEF Goes, TypeOK, Calls
  <2>2. QED
    BY <1>2, <1>3, <2>1 DEF Listed, Remnant
<1>5. call'[c].id <= made'
  BY <1>1, <1>2 DEF Moves, TypeOK, Calls
<1>6. QED
  BY <1>1, <1>4, <1>5 DEF Told

LEMMA PrunesIsTold == ASSUME TypeOK, TypeOK', Moves, NEW c \in Call, Told(c), Prunes(c) PROVE Told(c)'
<1>1. call[c].pc = "prune" /\ call[c].slug \in Slug
  BY DEF Prunes, At, TypeOK, Calls
<1>2. CASE Goes(c, "branch")
  <2>1. call[c].slug \in Listed(c) => ~tree[call[c].slug].dir
    BY <1>1 DEF Told
  <2>2. ~tree[call[c].slug].dir =>
          \/ ~tree'[call[c].slug].reg
          \/ tree'[call[c].slug].locked /\ ~tree'[call[c].slug].dir
    BY <1>1 DEF Prunes, NoTree
  <2>3. QED
    <3>1. call'[c].slug = call[c].slug
      BY <1>2 DEF Goes, TypeOK, Calls
    <3>2. QED
      BY <1>1, <1>2, <2>1, <2>2, <3>1, GoneIsTold DEF Remnant
<1>3. CASE Goes(c, "gitFailed")
  BY <1>3 DEF Goes, TypeOK, Told
<1>4. QED
  BY <1>2, <1>3 DEF Prunes

LEMMA RemovesIsTold == ASSUME TypeOK, TypeOK', Moves, NEW c \in Call, Told(c), Removes(c) PROVE Told(c)'
<1>1. call[c].pc = "remove" /\ call[c].slug \in Slug
  BY DEF Removes, At, TypeOK, Calls
<1>2. CASE Goes(c, "branch") /\ tree' = [tree EXCEPT ![call[c].slug] = NoTree]
  <2>1. ~tree'[call[c].slug].reg
    BY <1>1, <1>2 DEF TypeOK, NoTree
  <2>2. QED
    BY <1>1, <1>2, <2>1, GoneIsTold
<1>3. CASE Goes(c, "gitFailed")
  BY <1>3 DEF Goes, TypeOK, Told
<1>4. QED
  BY <1>2, <1>3 DEF Removes

LEMMA WhoSteps ==
  ASSUME WorktreeInvariant, [Next]_vars, NEW d \in Call
  PROVE  \/ Steady(d) \/ Adds(d) \/ Lists(d) \/ Looks(d) \/ Prunes(d) \/ Removes(d) \/ DeletesBranch(d)
<1>1. CASE User \/ UNCHANGED vars
  BY <1>1 DEF User, EditsMain, DropsRule, EditsTree, SwitchesTree, DeletesDirectory, vars, Steady
<1>2. CASE \E c \in Call : Creates(c) \/ Removal(c) \/ Answer(c)
  BY <1>2, CreatesSteady, RemovalSteady, AnswerSteady
<1>3. CASE Rows
  BY <1>3, RowsSteady
<1>4. QED
  BY <1>1, <1>2, <1>3 DEF Next

\* Where a command gets to.
LEMMA Lands ==
  ASSUME TypeOK, NEW d \in Call, NEW pc, Goes(d, pc)
  PROVE  call'[d].pc = pc /\ call'[d].id = call[d].id
BY DEF TypeOK, Calls, Goes

LEMMA WhereTo ==
  ASSUME TypeOK, NEW d \in Call
  PROVE  /\ Adds(d) => call'[d].pc \in {"created", "gitFailed"}
         /\ Prunes(d) \/ Removes(d) =>
              call[d].pc \in {"prune", "remove"} /\ call'[d].pc \in {"branch", "gitFailed"}
         /\ Lists(d) \/ Looks(d) => call'[d].pc \in {"look", "refused", "prune", "remove"}
         /\ DeletesBranch(d) =>
              /\ call[d].pc = "branch" /\ call'[d].pc \in {"removed", "gitFailed"}
              /\ call'[d].id = call[d].id
<1>1. ASSUME Adds(d) PROVE call'[d].pc \in {"created", "gitFailed"}
  <2>1. Goes(d, "gitFailed") \/ call' = [call EXCEPT ![d].pc = "created", ![d].id = made + 1]
    BY <1>1 DEF Adds
  <2>2. QED
    BY <2>1, Lands DEF TypeOK, Calls
<1>2. ASSUME Prunes(d) PROVE call[d].pc = "prune" /\ call'[d].pc \in {"branch", "gitFailed"}
  BY <1>2, Lands DEF Prunes, At
<1>3. ASSUME Removes(d) PROVE call[d].pc = "remove" /\ call'[d].pc \in {"branch", "gitFailed"}
  BY <1>3, Lands DEF Removes, At
<1>4. ASSUME Lists(d) PROVE call'[d].pc \in {"look", "refused"}
  BY <1>4 DEF Lists, TypeOK, Calls
<1>5. ASSUME Looks(d) PROVE call'[d].pc \in {"prune", "refused", "remove"}
  <2>1. PICK pc \in {"prune", "refused", "remove"} : Goes(d, pc)
    BY <1>5 DEF Looks
  <2>2. QED
    BY <2>1, Lands
<1>6. ASSUME DeletesBranch(d)
      PROVE  /\ call[d].pc = "branch" /\ call'[d].pc \in {"removed", "gitFailed"}
             /\ call'[d].id = call[d].id
  BY <1>6, Lands DEF DeletesBranch, At
<1>7. QED
  BY <1>1, <1>2, <1>3, <1>4, <1>5, <1>6

LEMMA AnswerStep == AnswerInvariant /\ [Next]_vars => AnswerInvariant'
<1> SUFFICES ASSUME AnswerInvariant, [Next]_vars PROVE AnswerInvariant'
  OBVIOUS
<1>1. WorktreeInvariant /\ WorktreeInvariant' /\ TypeOK /\ TypeOK' /\ Numbered
  BY WorktreeStep DEF AnswerInvariant, WorktreeInvariant
<1>2. Moves
  BY <1>1, NextMoves
<1>3. Numbered'
  BY <1>1, <1>2, NumberedStays
<1>4. ASSUME NEW d \in Call PROVE Told(d)'
  <2>1. Told(d)
    BY DEF AnswerInvariant
  <2>2. CASE Steady(d)
    BY <1>1, <1>2, <2>1, <2>2, SteadyIsTold
  <2>3. CASE Lists(d) \/ Looks(d) \/ Prunes(d) \/ Removes(d)
    BY <1>1, <1>2, <2>1, <2>3, ListsIsTold, LooksIsTold, PrunesIsTold, RemovesIsTold
  <2>4. CASE Adds(d) \/ DeletesBranch(d)
    BY <1>1, <2>4, WhereTo DEF Told
  <2>5. QED
    BY <1>1, <2>2, <2>3, <2>4, WhoSteps
<1>5. QED
  BY <1>1, <1>3, <1>4 DEF AnswerInvariant

LEMMA AnswerStart == Init => AnswerInvariant
<1> SUFFICES ASSUME Init PROVE AnswerInvariant
  OBVIOUS
<1>1. \A c \in Call : call[c].pc = "idle"
  BY DEF Init, NoCall
<1>2. made = 0 /\ \A s \in Slug : tree[s].id = 0 /\ ~tree[s].reg
  BY DEF Init, NoTree
<1>3. Numbered
  BY <1>2 DEF Numbered
<1>4. \A c \in Call : Told(c)
  BY <1>1 DEF Told
<1>5. QED
  BY <1>3, <1>4, WorktreeStart DEF AnswerInvariant

\* What one step may answer.
Answers(c) ==
  LET t == tree'[call[c].slug]
      Reaches(pc) == call'[c].pc = pc /\ call[c].pc # pc
  IN
  /\ Reaches("created") =>
       t.reg /\ t.dir /\ t.id = call'[c].id /\ t.branch = call[c].branch
         /\ t.branch \in branches'
  /\ Reaches("branch") /\ ~env.restless =>
       \A s \in Listed(c) : tree[s].branch = call[c].branch
  /\ Reaches("removed") =>
       /\ \A s \in Listed(c)' : Remnant(s)'
       /\ branches \ branches' \subseteq {call[c].branch}

LEMMA AnswersStep ==
  ASSUME AnswerInvariant, AnswerInvariant', [Next]_vars, NEW d \in Call PROVE Answers(d)
<1> DEFINE s == call[d].slug
           b == call[d].branch
<1>1. WorktreeInvariant /\ TypeOK /\ TypeOK' /\ Told(d) /\ Told(d)'
  BY DEF AnswerInvariant, WorktreeInvariant
<1>2. CASE call'[d].pc = call[d].pc \/ call'[d].pc \notin Notable
  BY <1>2 DEF Answers, Notable
<1>3. CASE Adds(d)
  <2> DEFINE fresh == [reg |-> TRUE, dir |-> TRUE, branch |-> b, dirty |-> FALSE,
                       locked |-> FALSE, id |-> made + 1]
  <2>1. CASE Goes(d, "gitFailed")
    BY <1>1, <2>1 DEF Goes, TypeOK, Answers
  <2>2. CASE /\ branches' = branches \cup {b}
             /\ tree' = [tree EXCEPT ![s] = fresh]
             /\ call' = [call EXCEPT ![d].pc = "created", ![d].id = made + 1]
    <3>1. s \in Slug
      BY <1>1 DEF TypeOK, Calls
    <3>2. call'[d].pc = "created" /\ call'[d].id = made + 1
      BY <1>1, <2>2 DEF TypeOK, Calls
    <3>3. tree'[s] = fresh
      BY <1>1, <2>2, <3>1 DEF TypeOK
    <3>4. QED
      BY <2>2, <3>2, <3>3 DEF Answers
  <2>3. QED
    BY <1>3, <2>1, <2>2 DEF Adds
<1>4. CASE Prunes(d) \/ Removes(d)
  <2>1. call[d].pc \in {"prune", "remove"} /\ call'[d].pc \in {"branch", "gitFailed"}
    BY <1>1, <1>4, WhereTo
  <2>2. ~env.restless => \A r \in Listed(d) : tree[r].branch = b
    BY <1>1, <2>1 DEF Told
  <2>3. QED
    BY <2>1, <2>2 DEF Answers
<1>5. CASE DeletesBranch(d)
  <2>1. call[d].pc = "branch" /\ call'[d].pc \in {"removed", "gitFailed"} /\ call'[d].id = call[d].id
    BY <1>1, <1>5, WhereTo
  <2>2. (\A r \in Listed(d) : Remnant(r)) /\ tree' = tree /\ branches \ branches' \subseteq {b}
    BY <1>1, <1>5, <2>1 DEF DeletesBranch, Told
  <2>3. \A r \in Listed(d)' : Remnant(r)'
    BY <2>1, <2>2 DEF Listed, Remnant
  <2>4. QED
    BY <2>1, <2>2, <2>3 DEF Answers
<1>6. CASE Lists(d) \/ Looks(d)
  <2>1. call'[d].pc \in {"look", "refused", "prune", "remove"}
    BY <1>1, <1>6, WhereTo
  <2>2. QED
    BY <2>1 DEF Answers
<1>7. QED
  BY <1>1, <1>2, <1>3, <1>4, <1>5, <1>6, WhoSteps DEF Steady

LEMMA AnswerInvariantHolds == Spec => []AnswerInvariant
<1>1. QED
  BY AnswerStart, AnswerStep, PTL DEF Spec

(* A tree that was created is there on its branch; one that was removed is *)
(* gone, but for the locked entry an unfinished add has left, which git    *)
(* worktree prune passes over; and the one branch that went with it is the *)
(* one the removal listed, which is the one the tree was on when it went   *)
(* unless the user switched it meanwhile: the listing, the look, the       *)
(* removal and the deletion of the branch are four git commands with       *)
(* nothing locked between them (worktree.py:222-269, 310-394).             *)
THEOREM AnswersTrue == Spec => AnswersAreTrue
<1>1. AnswerInvariant /\ AnswerInvariant' /\ [Next]_vars => [\A c \in Call : Answers(c)]_vars
  BY AnswersStep
<1>2. Spec => [][\A c \in Call : Answers(c)]_vars
  BY <1>1, AnswerInvariantHolds, PTL DEF Spec
<1>3. QED
  BY <1>2 DEF AnswersAreTrue, Answers
==============================================================================
