-------------------------- MODULE SessionGuardProofs --------------------------
(***************************************************************************)
(* The agent that serves the next turn carries the fences of the settings, *)
(* for every tree of paths, every session and any number of requests,      *)
(* builds and crashes.  The invariant follows a setting on its way: from   *)
(* the store, through the draft a build read it into, to the agent.  The   *)
(* proxy that is open is the agent's, whatever builds and subagents leave. *)
(***************************************************************************)
EXTENDS SessionGuard, TLAPS

Guards == [mode : Modes \cup {"none"}, grants : SUBSET Grantable, hidden : SUBSET Hideable,
           protect : BOOLEAN, egress : EgressModes, allow : AllowList \cup {"none"},
           proxy : Proxy \cup {NoProxy}]

Building == {"create", "start", "tell", "swap"}

Jobs == [pc : {"idle", "read", "hide"} \cup Building, draft : Guards, want : SUBSET Hideable]
Slots == [proxy : Proxy \cup {NoProxy}, allow : AllowList \cup {"none"}]

\* A session is one that a scenario started.
SessionIsSound ==
  /\ ~Inside(session.root, WorktreeDir[session.root])
  /\ StateDir[session.cwd] # WorktreeDir[session.root]
  /\ StateDir[session.root] # WorktreeDir[session.root]

GuardTypes ==
  /\ SessionIsSound
  /\ asked \in Modes
  /\ grants \in SUBSET Grantable
  /\ hidden \in SUBSET Hideable
  /\ protect \in BOOLEAN
  /\ egress \in EgressModes
  /\ allow \in AllowList
  /\ slot \in [Holder -> Slots]
  /\ job \in [Thread -> Jobs]
  /\ agent \in Guards

\* The fences and the sandbox of a build are those of the settings.
Follows(g) == g.mode = asked /\ g.grants = grants /\ g.hidden = hidden /\ g.protect = protect

\* A setting is on its way: only the dispatch thread changes one, and it builds
\* after it; a draft of the loader counts while the dispatch thread is idle.
Way ==
  /\ job["dispatch"].pc \in Building => Follows(job["dispatch"].draft)
  /\ job["dispatch"].pc \in Building => job["loader"].pc \notin Building
  /\ job["dispatch"].pc = "start" => slot["session"].proxy # NoProxy
  /\ job["dispatch"].pc = "idle" /\ job["loader"].pc \in Building => Follows(job["loader"].draft)
  /\ job["dispatch"].pc = "idle" /\ agent # NoAgent => Follows(agent)

OnItsWay == "overlap" \notin odd => Way

GuardInvariant == GuardTypes /\ OnItsWay

-----------------------------------------------------------------------------
(* The paths: no state, no steps.                                          *)

\* The deny roots reject at least what must stay protected.
LEMMA DeniedIsProtected ==
  ASSUME NEW p, SessionIsSound, Protected(p)
  PROVE  DenyViolation(session, p)
<1>1. CASE \E tree \in {session.cwd, session.root} : Inside(p, StateDir[tree])
  <2>1. PICK tree \in {session.cwd, session.root} : Inside(p, StateDir[tree])
    BY <1>1
  <2>2. StateDir[tree] \in DenyRoots(session) /\ StateDir[tree] # WorktreeDir[session.root]
    BY <2>1 DEF DenyRoots, SessionIsSound
  <2>3. QED
    BY <2>1, <2>2 DEF DenyViolation
<1>2. CASE Inside(p, WorktreeDir[session.root]) /\ ~(session.cwd # session.root /\ Inside(p, session.cwd))
  <2>1. WorktreeDir[session.root] \in DenyRoots(session)
    BY DEF DenyRoots
  <2>2. ~(Inside(session.cwd, WorktreeDir[session.root]) /\ Inside(p, session.cwd))
    BY <1>2 DEF SessionIsSound
  <2>3. QED
    BY <1>2, <2>1, <2>2 DEF DenyViolation
<1>3. QED
  BY <1>1, <1>2 DEF Protected

\* An agent with the fences of the settings guards what they ask for.
LEMMA FollowingGuards ==
  ASSUME SessionIsSound, mode = asked, Follows(agent)
  PROVE  GuardsFollowSettings
<1>1. /\ agent.mode = mode /\ agent.grants = grants
      /\ agent.hidden = hidden /\ agent.protect = protect
  BY DEF Follows
<1>2. mode # "yolo" => \A p \in Path, escalate \in BOOLEAN :
        MayWrite(session, agent, p, escalate) =>
          /\ ~Protected(Target[p])
          /\ ~escalate => \E r \in {session.cwd, TempDir, GlobalMemory, MemoryFile[session.root]}
                                      \cup {Target[f] : f \in grants} : Inside(Target[p], r)
  <2>1. SUFFICES ASSUME mode # "yolo", NEW p \in Path, NEW escalate \in BOOLEAN,
                        MayWrite(session, agent, p, escalate)
        PROVE  /\ ~Protected(Target[p])
               /\ ~escalate => \E r \in {session.cwd, TempDir, GlobalMemory, MemoryFile[session.root]}
                                      \cup {Target[f] : f \in grants} : Inside(Target[p], r)
    OBVIOUS
  <2>2. ~DenyViolation(session, Target[p])
        /\ (escalate \/ \E r \in Roots(session, agent) : Inside(Target[p], r))
    BY <1>1, <2>1 DEF MayWrite
  <2>3. ~Protected(Target[p])
    BY <2>2, DeniedIsProtected
  <2>4. Roots(session, agent) = {session.cwd, TempDir, GlobalMemory, MemoryFile[session.root]}
                                  \cup {Target[f] : f \in grants}
    BY <1>1 DEF Roots
  <2>5. QED
    BY <2>2, <2>3, <2>4
<1>3. \A p \in Path, f \in grants : Inside(Target[p], Target[f]) =>
        \/ \E d \in DenyRoots(session) : Inside(Target[p], d)
        \/ MayWrite(session, agent, p, FALSE)
  <2>1. SUFFICES ASSUME NEW p \in Path, NEW f \in grants, Inside(Target[p], Target[f]),
                        ~\E d \in DenyRoots(session) : Inside(Target[p], d)
        PROVE  MayWrite(session, agent, p, FALSE)
    OBVIOUS
  <2>2. ~DenyViolation(session, Target[p])
    BY <2>1 DEF DenyViolation
  <2>3. Target[f] \in Roots(session, agent)
    BY <1>1 DEF Roots
  <2>4. QED
    BY <2>1, <2>2, <2>3 DEF MayWrite
<1>4. \A p \in Path : Hidden(p) => ReadDenied(agent, p) /\ ~BoxReads(agent, p)
  BY <1>1 DEF Hidden, ReadDenied, BoxReads
<1>5. ShellFollowsSettings
  BY <1>1, <1>4 DEF ShellFollowsSettings, BoxWrites
<1>6. mode = "plan" <=> agent.mode = "plan"
  BY <1>1
<1>7. QED
  BY <1>2, <1>3, <1>4, <1>5, <1>6 DEF GuardsFollowSettings
-----------------------------------------------------------------------------
(* The initial states.                                                     *)

\* What an empty slot, a thread at rest and no agent look like.
LEMMA Blanks ==
  /\ NoAgent \in Guards /\ EmptySlot \in Slots
  /\ Free \in Jobs /\ Free.pc = "idle" /\ Free.draft = NoAgent
  /\ \A pc \in {"idle", "read", "hide"}, want \in SUBSET Hideable :
       [Free EXCEPT !.pc = pc, !.want = want] \in Jobs
  /\ [Free EXCEPT !.pc = "read"] \in Jobs
<1>1. NoAgent \in Guards
  BY DEF NoAgent, Guards, EgressModes
<1>2. EmptySlot \in Slots
  BY DEF EmptySlot, Slots
<1>3. Free \in Jobs /\ Free.pc = "idle" /\ Free.draft = NoAgent
  BY <1>1 DEF Free, Jobs
<1>4. \A pc \in {"idle", "read", "hide"}, want \in SUBSET Hideable :
        [Free EXCEPT !.pc = pc, !.want = want] \in Jobs
  BY <1>3 DEF Jobs
<1>5. [Free EXCEPT !.pc = "read"] \in Jobs
  BY <1>3 DEF Jobs
<1>6. QED
  BY <1>1, <1>2, <1>3, <1>4, <1>5

\* A process that starts, with its first build due.
LEMMA StartingTypes ==
  /\ [h \in Holder |-> EmptySlot] \in [Holder -> Slots]
  /\ [t \in Thread |-> IF t = "dispatch" THEN [Free EXCEPT !.pc = "read"] ELSE Free] \in [Thread -> Jobs]
  /\ [t \in Thread |-> IF t = "dispatch" THEN [Free EXCEPT !.pc = "read"] ELSE Free]["dispatch"].pc = "read"
<1>1. [Free EXCEPT !.pc = "read"].pc = "read"
  BY Blanks DEF Jobs
<1>2. QED
  BY <1>1, Blanks DEF Thread

\* The invariant holds when the program starts.
LEMMA GuardStarts == Init => GuardInvariant
<1>1. SUFFICES ASSUME Init PROVE GuardInvariant
  OBVIOUS
<1>2. PICK s \in Scenarios :
        /\ session = [cwd |-> s.cwd, root |-> s.root, platform |-> s.platform, backend |-> s.backend]
        /\ hidden = s.hidden /\ egress = s.egress /\ allow = s.allow
  BY <1>1 DEF Init
<1>3. SessionIsSound
  BY <1>2, GuardAssumption DEF SessionIsSound
<1>4. asked \in Modes /\ grants \in SUBSET Grantable /\ protect \in BOOLEAN
  BY <1>1 DEF Init, Modes
<1>5. hidden \in SUBSET Hideable /\ egress \in EgressModes /\ allow \in AllowList
  BY <1>2, GuardAssumption
<1>6. slot \in [Holder -> Slots] /\ job \in [Thread -> Jobs] /\ agent \in Guards
      /\ job["dispatch"].pc = "read"
  BY <1>1, StartingTypes, Blanks DEF Init
<1>7. Way
  BY <1>6 DEF Way, Building
<1>8. QED
  BY <1>3, <1>4, <1>5, <1>6, <1>7 DEF GuardInvariant, GuardTypes, OnItsWay

-----------------------------------------------------------------------------
(* Steps that disturb nothing, and requests.                               *)

\* A step that leaves the settings, the slots, the jobs and the agent alone.
LEMMA QuietStep ==
  ASSUME GuardInvariant,
         UNCHANGED <<session, asked, grants, hidden, protect, egress, slot, job, agent>>,
         allow' \in AllowList, odd \subseteq odd'
  PROVE  GuardInvariant'
<1>1. GuardTypes'
  BY DEF GuardInvariant, GuardTypes, SessionIsSound
<1>2. Way => Way'
  BY DEF Way, Follows
<1>3. QED
  BY <1>1, <1>2 DEF GuardInvariant, OnItsWay

\* While the dispatch thread has a build ahead of it nothing is asked of the
\* settings, the drafts and the agent.
LEMMA BuildAhead ==
  ASSUME job'["dispatch"].pc \in {"read", "hide"}
  PROVE  Way'
BY DEF Way, Building

\* A request hands the dispatch thread its build.
LEMMA Handed ==
  ASSUME GuardTypes, NEW pc \in {"read", "hide"}, NEW want \in SUBSET Hideable, Dispatch(pc, want)
  PROVE  job' \in [Thread -> Jobs] /\ job'["dispatch"].pc = pc
<1>1. [Free EXCEPT !.pc = pc, !.want = want] \in Jobs
  BY Blanks
<1>2. [Free EXCEPT !.pc = pc, !.want = want].pc = pc
  BY Blanks DEF Jobs
<1>3. QED
  BY <1>1, <1>2 DEF GuardTypes, Dispatch, Thread

\* A request that leads to a build.
LEMMA RequestStep ==
  ASSUME GuardInvariant, NEW pc \in {"read", "hide"}, NEW want \in SUBSET Hideable,
         Dispatch(pc, want), UNCHANGED <<session, allow, agent>>,
         asked' \in Modes, grants' \in SUBSET Grantable, hidden' \in SUBSET Hideable,
         protect' \in BOOLEAN, egress' \in EgressModes, slot' \in [Holder -> Slots]
  PROVE  GuardInvariant'
<1>1. job' \in [Thread -> Jobs] /\ job'["dispatch"].pc = pc
  BY Handed DEF GuardInvariant
<1>2. Way'
  BY <1>1, BuildAhead
<1>3. GuardTypes'
  BY <1>1 DEF GuardInvariant, GuardTypes, SessionIsSound
<1>4. QED
  BY <1>2, <1>3 DEF GuardInvariant, OnItsWay

\* Emptying or filling a slot.
LEMMA SlotTypes ==
  ASSUME slot \in [Holder -> Slots], NEW h \in Holder
  PROVE  /\ StopProxy(h) \/ ForgetProxy(h) => slot' \in [Holder -> Slots]
         /\ \A x \in Slots : [slot EXCEPT ![h] = x] \in [Holder -> Slots]
<1>1. \A x \in Slots : [slot EXCEPT ![h] = x] \in [Holder -> Slots]
  OBVIOUS
<1>2. QED
  BY <1>1, Blanks DEF StopProxy, ForgetProxy

LEMMA RequestKeeps ==
  ASSUME GuardInvariant, Request
  PROVE  GuardInvariant'
<1>1. GuardTypes
  BY DEF GuardInvariant
<1>2. "session" \in Holder /\ {} \in SUBSET Hideable
  BY DEF Holder
<1>3. ASSUME NEW m \in Modes, Initialize(m) PROVE GuardInvariant'
  <2>1. StopProxy("session") /\ Dispatch("read", {}) /\ asked' = m
        /\ UNCHANGED <<session, grants, hidden, protect, egress, allow, agent>>
    BY <1>3 DEF Initialize
  <2>2. slot' \in [Holder -> Slots]
    BY <1>1, <1>2, <2>1, SlotTypes DEF GuardTypes
  <2>3. QED
    BY <1>1, <1>2, <2>1, <2>2, RequestStep DEF GuardTypes
<1>4. ASSUME NEW m \in Modes, SetMode(m) PROVE GuardInvariant'
  <2>1. Dispatch("read", {}) /\ asked' = m
        /\ UNCHANGED <<session, grants, hidden, protect, egress, allow, agent, slot>>
    BY <1>4 DEF SetMode
  <2>2. QED
    BY <1>1, <1>2, <2>1, RequestStep DEF GuardTypes
<1>5. ASSUME PermissionsUpdate PROVE GuardInvariant'
  BY <1>1, <1>5, QuietStep DEF PermissionsUpdate, GuardTypes
<1>6. ASSUME NEW folders \in SUBSET Grantable, SetGrants(folders) PROVE GuardInvariant'
  <2>1. Dispatch("read", {}) /\ grants' = folders
        /\ UNCHANGED <<session, asked, hidden, protect, egress, allow, agent, slot>>
    BY <1>6 DEF SetGrants, Regrant
  <2>2. QED
    BY <1>1, <1>2, <2>1, RequestStep DEF GuardTypes
<1>7. ASSUME NEW paths \in SUBSET Hideable, SetHidden(paths) PROVE GuardInvariant'
  <2>1. Dispatch("hide", paths)
        /\ UNCHANGED <<session, asked, grants, hidden, protect, egress, allow, agent, slot>>
    BY <1>7 DEF SetHidden, settingVars
  <2>2. QED
    BY <1>1, <1>2, <2>1, RequestStep DEF GuardTypes
<1>8. ASSUME SetProtect PROVE GuardInvariant'
  <2>1. Dispatch("read", {}) /\ protect' = ~protect
        /\ UNCHANGED <<session, asked, grants, hidden, egress, allow, agent, slot>>
    BY <1>8 DEF SetProtect
  <2>2. protect' \in BOOLEAN
    BY <2>1
  <2>3. QED
    BY <1>1, <1>2, <2>1, <2>2, RequestStep DEF GuardTypes
<1>9. ASSUME NEW list \in AllowList, SetSsrf(list) PROVE GuardInvariant'
  BY <1>1, <1>9, QuietStep DEF SetSsrf, GuardTypes
<1>10. ASSUME NEW m \in EgressModes, SetEgress(m) PROVE GuardInvariant'
  <2>1. Dispatch("read", {}) /\ egress' = m
        /\ UNCHANGED <<session, asked, grants, hidden, protect, allow, agent, slot>>
    BY <1>10 DEF SetEgress
  <2>2. QED
    BY <1>1, <1>2, <2>1, RequestStep DEF GuardTypes
<1>11. QED
  BY <1>3, <1>4, <1>5, <1>6, <1>7, <1>8, <1>9, <1>10 DEF Request

\* forbid-read/set at work, one path at a time, and its end.
LEMMA HidingKeeps ==
  ASSUME GuardInvariant, HideOne \/ RevealOne \/ HidingDone
  PROVE  GuardInvariant'
<1>1. GuardTypes
  BY DEF GuardInvariant
<1>2. ASSUME HideOne \/ RevealOne PROVE GuardInvariant'
  <2>1. job["dispatch"].pc = "hide"
        /\ UNCHANGED <<session, asked, grants, protect, egress, allow, agent, slot, job>>
    BY <1>2 DEF HideOne, RevealOne, Hiding
  <2>2. job["dispatch"] \in Jobs
    BY <1>1 DEF GuardTypes, Thread
  <2>3. Wanted \in SUBSET Hideable
    BY <2>2 DEF Wanted, Jobs
  <2>4. hidden' \in SUBSET Hideable
    BY <1>1, <1>2, <2>3 DEF HideOne, RevealOne, GuardTypes
  <2>5. Way'
    BY <2>1, BuildAhead
  <2>6. GuardTypes'
    BY <1>1, <2>1, <2>4 DEF GuardTypes, SessionIsSound
  <2>7. QED
    BY <2>5, <2>6 DEF GuardInvariant, OnItsWay
<1>3. ASSUME HidingDone PROVE GuardInvariant'
  <2>1. Dispatch("read", {})
        /\ UNCHANGED <<session, asked, grants, hidden, protect, egress, allow, agent, slot>>
    BY <1>3 DEF HidingDone, settingVars
  <2>2. QED
    BY <1>1, <2>1, RequestStep DEF GuardTypes
<1>4. QED
  BY <1>2, <1>3

-----------------------------------------------------------------------------
(* The builds.                                                             *)

\* What a build reads is what the settings are.
LEMMA DraftFollows == GuardTypes => Draft \in Guards /\ Follows(Draft)
BY DEF GuardTypes, Draft, Guards, Follows, EgressModes

\* Moving a thread on, with the draft it has, with another, and to its rest.
LEMMA Moved ==
  ASSUME job \in [Thread -> Jobs], NEW t \in Thread, NEW pc \in Building,
         job' = [job EXCEPT ![t].pc = pc]
  PROVE  job' \in [Thread -> Jobs] /\ job'[t].pc = pc /\ job'[t].draft = job[t].draft
<1>1. job[t] \in Jobs
  OBVIOUS
<1>2. job'[t] = [job[t] EXCEPT !.pc = pc]
  OBVIOUS
<1>3. job'[t] \in Jobs /\ job'[t].pc = pc /\ job'[t].draft = job[t].draft
  BY <1>1, <1>2 DEF Jobs
<1>4. QED
  BY <1>3

LEMMA Drafted ==
  ASSUME job \in [Thread -> Jobs], NEW t \in Thread, NEW pc \in Building, NEW g \in Guards,
         job' = [job EXCEPT ![t].pc = pc, ![t].draft = g]
  PROVE  job' \in [Thread -> Jobs] /\ job'[t].pc = pc /\ job'[t].draft = g
<1>1. job[t] \in Jobs
  OBVIOUS
<1>2. job'[t] = [job[t] EXCEPT !.pc = pc, !.draft = g]
  OBVIOUS
<1>3. job'[t] \in Jobs /\ job'[t].pc = pc /\ job'[t].draft = g
  BY <1>1, <1>2 DEF Jobs
<1>4. QED
  BY <1>3

LEMMA Rested ==
  ASSUME job \in [Thread -> Jobs], NEW t \in Thread, job' = [job EXCEPT ![t] = Free]
  PROVE  job' \in [Thread -> Jobs] /\ job'[t].pc = "idle"
BY Blanks

\* A started build knows its proxy, and nothing else changes in its draft.
LEMMA ProxyTypes ==
  ASSUME job \in [Thread -> Jobs], NEW t \in Thread, NEW q \in Proxy \cup {NoProxy},
         NEW pc \in Building, job' = [job EXCEPT ![t].pc = pc, ![t].draft.proxy = q]
  PROVE  /\ job' \in [Thread -> Jobs]
         /\ job'[t].pc = pc
         /\ Follows(job[t].draft) /\ UNCHANGED <<asked, grants, hidden, protect>>
              => Follows(job[t].draft)' /\ Follows(job'[t].draft)
         /\ \A u \in Thread \ {t} : job'[u] = job[u]
<1>1. job[t] \in Jobs /\ job[t].draft \in Guards
  BY DEF Jobs
<1>2. [job[t].draft EXCEPT !.proxy = q] \in Guards
  BY <1>1 DEF Guards
<1>3. job'[t] = [job[t] EXCEPT !.pc = pc, !.draft = [job[t].draft EXCEPT !.proxy = q]]
  BY <1>1 DEF Jobs
<1>4. job'[t] \in Jobs /\ job'[t].pc = pc /\ job'[t].draft = [job[t].draft EXCEPT !.proxy = q]
  BY <1>1, <1>2, <1>3 DEF Jobs
<1>5. /\ [job[t].draft EXCEPT !.proxy = q].mode = job[t].draft.mode
      /\ [job[t].draft EXCEPT !.proxy = q].grants = job[t].draft.grants
      /\ [job[t].draft EXCEPT !.proxy = q].hidden = job[t].draft.hidden
      /\ [job[t].draft EXCEPT !.proxy = q].protect = job[t].draft.protect
  BY <1>1 DEF Guards
<1>6. QED
  BY <1>1, <1>4, <1>5 DEF Follows

\* A thread's step of a build leaves the settings and the other threads alone.
LEMMA BuildTouches ==
  ASSUME GuardTypes, NEW t \in Thread, BuildStep(t)
  PROVE  /\ UNCHANGED <<session, asked, grants, hidden, protect, egress, allow>>
         /\ odd \subseteq odd'
         /\ \A u \in Thread \ {t} : job'[u] = job[u]
<1>1. job \in [Thread -> Jobs]
  BY DEF GuardTypes
<1>2. CASE BuildReads(t)
  BY <1>1, <1>2 DEF BuildReads, settingVars
<1>3. CASE BuildCreates(t)
  BY <1>1, <1>3 DEF BuildCreates, settingVars
<1>4. CASE BuildStarts(t)
  BY <1>1, <1>4 DEF BuildStarts, settingVars
<1>5. CASE BuildTells(t)
  BY <1>1, <1>5 DEF BuildTells, settingVars
<1>6. CASE BuildSwaps(t)
  BY <1>1, <1>6 DEF BuildSwaps, settingVars
<1>7. QED
  BY <1>2, <1>3, <1>4, <1>5, <1>6 DEF BuildStep

LEMMA BuildTypes ==
  ASSUME GuardTypes, NEW t \in Thread, BuildStep(t)
  PROVE  GuardTypes'
<1>1. job \in [Thread -> Jobs] /\ slot \in [Holder -> Slots] /\ agent \in Guards
  BY DEF GuardTypes
<1>2. HolderOf(t) \in Holder /\ "session" \in Holder /\ "child" \in Holder
  BY DEF HolderOf, Holder
<1>3. UNCHANGED <<session, asked, grants, hidden, protect, egress, allow>>
  BY BuildTouches
<1>4. SUFFICES job' \in [Thread -> Jobs] /\ slot' \in [Holder -> Slots] /\ agent' \in Guards
  BY <1>3 DEF GuardTypes, SessionIsSound
<1>5. CASE BuildReads(t)
  <2>1. agent' = agent /\ (slot' = slot \/ StopProxy(HolderOf(t)))
    BY <1>5 DEF BuildReads
  <2>2. \E pc \in Building : job' = [job EXCEPT ![t].pc = pc, ![t].draft = Draft]
    BY <1>5 DEF BuildReads, Building
  <2>3. QED
    <3>1. Draft \in Guards
      BY DraftFollows
    <3>2. job' \in [Thread -> Jobs]
      BY <1>1, <2>2, <3>1, Drafted
    <3>3. slot' \in [Holder -> Slots]
      BY <1>1, <1>2, <2>1, SlotTypes
    <3>4. QED
      BY <1>1, <2>1, <3>2, <3>3
<1>6. CASE BuildCreates(t)
  <2>1. agent' = agent /\ job' = [job EXCEPT ![t].pc = "start"]
    BY <1>6 DEF BuildCreates
  <2>2. job' \in [Thread -> Jobs]
    BY <1>1, <2>1, Moved DEF Building
  <2>3. job[t].draft.allow \in AllowList \cup {"none"}
    BY <1>1 DEF Jobs, Guards
  <2>4. \A q \in Unused : [proxy |-> q, allow |-> job[t].draft.allow] \in Slots
    BY <2>3 DEF Unused, Slots
  <2>5. slot' = slot \/ \E q \in Unused :
           slot' = [slot EXCEPT ![HolderOf(t)] = [proxy |-> q, allow |-> job[t].draft.allow]]
    BY <1>6 DEF BuildCreates
  <2>6. slot' \in [Holder -> Slots]
    BY <1>1, <1>2, <2>4, <2>5, SlotTypes
  <2>7. QED
    BY <1>1, <2>1, <2>2, <2>6
<1>7. CASE BuildStarts(t)
  <2>1. slot' = slot /\ agent' = agent
    BY <1>7 DEF BuildStarts
  <2>2. slot[HolderOf(t)].proxy \in Proxy \cup {NoProxy}
    BY <1>1, <1>2 DEF Slots
  <2>3. \/ job' = [job EXCEPT ![t] = Free]
        \/ \E pc \in Building, q \in Proxy \cup {NoProxy} :
             job' = [job EXCEPT ![t].pc = pc, ![t].draft.proxy = q]
    BY <1>7, <2>2 DEF BuildStarts, Building
  <2>4. job' \in [Thread -> Jobs]
    BY <1>1, <2>3, Rested, ProxyTypes
  <2>5. QED
    BY <1>1, <2>1, <2>4
<1>8. CASE BuildTells(t)
  <2>1. slot' = slot /\ agent' = agent /\ job' = [job EXCEPT ![t].pc = "swap"]
    BY <1>8 DEF BuildTells
  <2>2. QED
    BY <1>1, <2>1, Moved DEF Building
<1>9. CASE BuildSwaps(t)
  <2>1. job' = [job EXCEPT ![t] = Free] /\ (agent' = agent \/ agent' = job[t].draft)
        /\ (slot' = slot \/ slot' = [slot EXCEPT !["child"] = EmptySlot])
    BY <1>9 DEF BuildSwaps
  <2>2. agent' \in Guards
    BY <1>1, <2>1 DEF Jobs
  <2>3. job' \in [Thread -> Jobs]
    BY <1>1, <2>1, Rested
  <2>4. slot' \in [Holder -> Slots]
    BY <1>1, <1>2, <2>1, SlotTypes, Blanks
  <2>5. QED
    BY <2>2, <2>3, <2>4
<1>10. QED
  BY <1>5, <1>6, <1>7, <1>8, <1>9 DEF BuildStep

\* The dispatch thread's build carries the settings to the agent.
LEMMA DispatchBuilds ==
  ASSUME GuardInvariant, BuildStep("dispatch"), "overlap" \notin odd'
  PROVE  Way'
<1>1. GuardTypes /\ job \in [Thread -> Jobs] /\ slot \in [Holder -> Slots]
  BY DEF GuardInvariant, GuardTypes
<1>2. "dispatch" \in Thread /\ "loader" \in Thread \ {"dispatch"} /\ "session" \in Holder
      /\ HolderOf("dispatch") = "session"
  BY DEF Thread, Holder, HolderOf
<1>3. /\ UNCHANGED <<session, asked, grants, hidden, protect, egress, allow>>
      /\ odd \subseteq odd' /\ job'["loader"] = job["loader"]
  BY <1>1, <1>2, BuildTouches
<1>4. Way
  BY <1>3 DEF GuardInvariant, OnItsWay
<1>5. CASE BuildReads("dispatch")
  <2>1. PICK pc \in {"create", "swap"} :
          job' = [job EXCEPT !["dispatch"].pc = pc, !["dispatch"].draft = Draft]
    BY <1>5 DEF BuildReads
  <2>2. job'["dispatch"].pc = pc /\ job'["dispatch"].draft = Draft
    BY <1>1, <1>2, <2>1, Drafted, DraftFollows DEF Building
  <2>3. job["loader"].pc \notin Building
    BY <1>2, <1>5 DEF BuildReads, Overlap, Building
  <2>4. Follows(job["dispatch"].draft)'
    BY <1>1, <1>3, <2>2, DraftFollows DEF Follows
  <2>5. QED
    BY <1>3, <2>2, <2>3, <2>4 DEF Way, Building
<1>6. CASE BuildCreates("dispatch")
  <2>1. job["dispatch"].pc = "create" /\ job' = [job EXCEPT !["dispatch"].pc = "start"]
    BY <1>6 DEF BuildCreates
  <2>2. job'["dispatch"].pc = "start" /\ job'["dispatch"].draft = job["dispatch"].draft
    BY <1>1, <1>2, <2>1, Moved DEF Building
  <2>3. slot'["session"].proxy # NoProxy
    <3>1. CASE slot["session"].proxy # NoProxy
      BY <1>2, <1>6, <3>1 DEF BuildCreates
    <3>2. CASE slot["session"].proxy = NoProxy
      <4>1. PICK q \in Unused :
              slot' = [slot EXCEPT !["session"] = [proxy |-> q, allow |-> job["dispatch"].draft.allow]]
        BY <1>2, <1>6, <3>2 DEF BuildCreates
      <4>2. q \in Proxy
        BY DEF Unused
      <4>3. QED
        BY <1>1, <1>2, <4>1, <4>2, GuardAssumption
    <3>3. QED
      BY <3>1, <3>2
  <2>4. job["loader"].pc \notin Building /\ Follows(job["dispatch"].draft)'
    BY <1>3, <1>4, <2>1, <2>2 DEF Way, Building, Follows
  <2>5. QED
    BY <1>3, <2>2, <2>3, <2>4 DEF Way, Building
<1>7. CASE BuildStarts("dispatch")
  <2>1. job["dispatch"].pc = "start" /\ slot["session"].proxy # NoProxy
    BY <1>4, <1>7 DEF BuildStarts, Way
  <2>2. slot["session"].proxy \in Proxy \cup {NoProxy}
    BY <1>1, <1>2 DEF Slots
  <2>3. PICK pc \in {"swap", "tell"}, q \in Proxy \cup {NoProxy} :
          job' = [job EXCEPT !["dispatch"].pc = pc, !["dispatch"].draft.proxy = q]
    BY <1>2, <1>7, <2>1, <2>2 DEF BuildStarts
  <2>4. Follows(job["dispatch"].draft) /\ job["loader"].pc \notin Building
    BY <1>4, <2>1 DEF Way, Building
  <2>5. job'["dispatch"].pc = pc /\ Follows(job["dispatch"].draft)'
    BY <1>1, <1>2, <1>3, <2>3, <2>4, ProxyTypes DEF Building
  <2>6. QED
    BY <1>3, <2>4, <2>5 DEF Way, Building
<1>8. CASE BuildTells("dispatch")
  <2>1. job["dispatch"].pc = "tell" /\ job' = [job EXCEPT !["dispatch"].pc = "swap"]
    BY <1>8 DEF BuildTells
  <2>2. job'["dispatch"].pc = "swap" /\ job'["dispatch"].draft = job["dispatch"].draft
    BY <1>1, <1>2, <2>1, Moved DEF Building
  <2>3. job["loader"].pc \notin Building /\ Follows(job["dispatch"].draft)'
    BY <1>3, <1>4, <2>1, <2>2 DEF Way, Building, Follows
  <2>4. QED
    BY <1>3, <2>2, <2>3 DEF Way, Building
<1>9. CASE BuildSwaps("dispatch")
  <2>1. job["dispatch"].pc = "swap" /\ job' = [job EXCEPT !["dispatch"] = Free]
        /\ agent' = job["dispatch"].draft
    BY <1>9 DEF BuildSwaps
  <2>2. job'["dispatch"].pc = "idle"
    BY <1>1, <1>2, <2>1, Rested
  <2>3. job["loader"].pc \notin Building /\ Follows(agent)'
    BY <1>3, <1>4, <2>1 DEF Way, Building, Follows
  <2>4. QED
    BY <1>3, <2>2, <2>3 DEF Way, Building
<1>10. QED
  BY <1>5, <1>6, <1>7, <1>8, <1>9 DEF BuildStep

\* The loader's build carries the settings too, while nobody changes them.
LEMMA LoaderBuilds ==
  ASSUME GuardInvariant, BuildStep("loader"), "overlap" \notin odd'
  PROVE  Way'
<1>1. GuardTypes /\ job \in [Thread -> Jobs] /\ slot \in [Holder -> Slots]
  BY DEF GuardInvariant, GuardTypes
<1>2. "loader" \in Thread /\ "dispatch" \in Thread \ {"loader"} /\ "session" \in Holder
      /\ HolderOf("loader") = "session"
  BY DEF Thread, Holder, HolderOf
<1>3. /\ UNCHANGED <<session, asked, grants, hidden, protect, egress, allow>>
      /\ odd \subseteq odd' /\ job'["dispatch"] = job["dispatch"]
  BY <1>1, <1>2, BuildTouches
<1>4. Way
  BY <1>3 DEF GuardInvariant, OnItsWay
<1>5. CASE BuildReads("loader")
  <2>1. PICK pc \in {"create", "swap"} :
          job' = [job EXCEPT !["loader"].pc = pc, !["loader"].draft = Draft]
    BY <1>5 DEF BuildReads
  <2>2. job'["loader"].draft = Draft
    BY <1>1, <1>2, <2>1, Drafted, DraftFollows DEF Building
  <2>3. job["dispatch"].pc \notin Building /\ agent' = agent
    BY <1>2, <1>5 DEF BuildReads, Overlap, Building
  <2>4. Follows(job["loader"].draft)'
    BY <1>1, <1>3, <2>2, DraftFollows DEF Follows
  <2>5. QED
    BY <1>3, <1>4, <2>3, <2>4 DEF Way, Building, Follows
<1>6. ASSUME job["loader"].pc \in Building,
             agent' = agent,
             \/ job'["loader"].pc = "idle"
             \/ Follows(job["loader"].draft) => Follows(job["loader"].draft)'
      PROVE  Way'
  <2>1. job["dispatch"].pc \notin Building
    BY <1>4, <1>6 DEF Way
  <2>2. CASE job["dispatch"].pc = "idle"
    <3>1. Follows(job["loader"].draft)
      BY <1>4, <1>6, <2>2 DEF Way
    <3>2. (agent # NoAgent => Follows(agent))'
      BY <1>3, <1>4, <1>6, <2>2 DEF Way, Follows
    <3>3. QED
      BY <1>3, <1>6, <2>1, <2>2, <3>1, <3>2 DEF Way, Building
  <2>3. CASE job["dispatch"].pc # "idle"
    BY <1>3, <2>1, <2>3 DEF Way, Building
  <2>4. QED
    BY <2>2, <2>3
<1>7. CASE BuildCreates("loader")
  <2>1. job["loader"].pc = "create" /\ job' = [job EXCEPT !["loader"].pc = "start"] /\ agent' = agent
    BY <1>7 DEF BuildCreates
  <2>2. job'["loader"].draft = job["loader"].draft
    BY <1>1, <1>2, <2>1, Moved DEF Building
  <2>3. QED
    BY <1>3, <1>6, <2>1, <2>2 DEF Building, Follows
<1>8. CASE BuildStarts("loader")
  <2>1. job["loader"].pc = "start" /\ agent' = agent
    BY <1>8 DEF BuildStarts
  <2>2. slot["session"].proxy \in Proxy \cup {NoProxy}
    BY <1>1, <1>2 DEF Slots
  <2>3. \/ job' = [job EXCEPT !["loader"] = Free]
        \/ \E pc \in {"swap", "tell"}, q \in Proxy \cup {NoProxy} :
             job' = [job EXCEPT !["loader"].pc = pc, !["loader"].draft.proxy = q]
    BY <1>2, <1>8, <2>2 DEF BuildStarts
  <2>4. CASE job' = [job EXCEPT !["loader"] = Free]
    BY <1>1, <1>2, <1>6, <2>1, <2>4, Rested DEF Building
  <2>5. CASE \E pc \in {"swap", "tell"}, q \in Proxy \cup {NoProxy} :
               job' = [job EXCEPT !["loader"].pc = pc, !["loader"].draft.proxy = q]
    <3>1. Follows(job["loader"].draft) => Follows(job["loader"].draft)'
      BY <1>1, <1>2, <1>3, <2>5, ProxyTypes DEF Building
    <3>2. QED
      BY <1>6, <2>1, <3>1 DEF Building
  <2>6. QED
    BY <2>3, <2>4, <2>5
<1>9. CASE BuildTells("loader")
  <2>1. job["loader"].pc = "tell" /\ job' = [job EXCEPT !["loader"].pc = "swap"] /\ agent' = agent
    BY <1>9 DEF BuildTells
  <2>2. job'["loader"].draft = job["loader"].draft
    BY <1>1, <1>2, <2>1, Moved DEF Building
  <2>3. QED
    BY <1>3, <1>6, <2>1, <2>2 DEF Building, Follows
<1>10. CASE BuildSwaps("loader")
  <2>1. job["loader"].pc = "swap" /\ job' = [job EXCEPT !["loader"] = Free]
        /\ agent' = job["loader"].draft
    BY <1>10 DEF BuildSwaps
  <2>2. job'["loader"].pc = "idle"
    BY <1>1, <1>2, <2>1, Rested
  <2>3. job["dispatch"].pc \notin Building
    BY <1>4, <2>1 DEF Way, Building
  <2>4. job["dispatch"].pc = "idle" => Follows(agent)'
    BY <1>3, <1>4, <2>1 DEF Way, Building, Follows
  <2>5. QED
    BY <1>3, <2>2, <2>3, <2>4 DEF Way, Building
<1>11. QED
  BY <1>5, <1>7, <1>8, <1>9, <1>10 DEF BuildStep

\* A subagent's build stays in its own slot.
LEMMA ChildBuilds ==
  ASSUME GuardInvariant, BuildStep("turn"), "overlap" \notin odd'
  PROVE  Way'
<1>1. GuardTypes /\ slot \in [Holder -> Slots]
  BY DEF GuardInvariant, GuardTypes
<1>2. "turn" \in Thread /\ "dispatch" \in Thread \ {"turn"} /\ "loader" \in Thread \ {"turn"}
      /\ HolderOf("turn") = "child" /\ "session" # "child"
  BY DEF Thread, HolderOf
<1>3. /\ UNCHANGED <<session, asked, grants, hidden, protect, egress, allow>>
      /\ odd \subseteq odd' /\ job'["dispatch"] = job["dispatch"] /\ job'["loader"] = job["loader"]
  BY <1>1, <1>2, BuildTouches
<1>4. Way
  BY <1>3 DEF GuardInvariant, OnItsWay
<1>5. agent' = agent
  BY <1>2 DEF BuildStep, BuildReads, BuildCreates, BuildStarts, BuildTells, BuildSwaps
<1>6. slot'["session"] = slot["session"]
  <2>1. CASE BuildReads("turn")
    BY <1>1, <1>2, <2>1 DEF BuildReads, StopProxy, Holder
  <2>2. CASE BuildCreates("turn")
    BY <1>1, <1>2, <2>2 DEF BuildCreates, Holder
  <2>3. CASE BuildStarts("turn") \/ BuildTells("turn")
    BY <2>3 DEF BuildStarts, BuildTells
  <2>4. CASE BuildSwaps("turn")
    BY <1>1, <1>2, <2>4 DEF BuildSwaps, Holder
  <2>5. QED
    BY <2>1, <2>2, <2>3, <2>4 DEF BuildStep
<1>7. QED
  BY <1>3, <1>4, <1>5, <1>6 DEF Way, Follows

-----------------------------------------------------------------------------
(* The remaining steps, and the theorem.                                   *)

\* The loader's end starts its build or none.
LEMMA LoadEndsKeeps ==
  ASSUME GuardInvariant, LoadEnds
  PROVE  GuardInvariant'
<1>1. GuardTypes /\ job \in [Thread -> Jobs] /\ "loader" \in Thread /\ "dispatch" \in Thread
  BY DEF GuardInvariant, GuardTypes, Thread
<1>2. UNCHANGED <<session, asked, grants, hidden, protect, egress, allow, slot, agent, odd>>
  BY DEF LoadEnds, settingVars
<1>3. CASE job' = job
  BY <1>1, <1>2, <1>3, QuietStep DEF GuardTypes
<1>4. CASE job' = [job EXCEPT !["loader"].pc = "read"]
  <2>1. job["loader"] \in Jobs
    BY <1>1
  <2>2. job'["loader"] \in Jobs /\ job'["loader"].pc = "read"
    BY <1>1, <1>4, <2>1 DEF Jobs
  <2>3. job' \in [Thread -> Jobs] /\ job'["dispatch"] = job["dispatch"]
    BY <1>1, <1>4, <2>2
  <2>4. GuardTypes'
    BY <1>1, <1>2, <2>3 DEF GuardTypes, SessionIsSound
  <2>5. Way => Way'
    BY <1>2, <2>2, <2>3 DEF Way, Follows, Building
  <2>6. QED
    BY <1>2, <2>4, <2>5 DEF GuardInvariant, OnItsWay
<1>5. QED
  BY <1>3, <1>4 DEF LoadEnds

\* A crash leaves the files, and a first build.
LEMMA CrashKeeps ==
  ASSUME GuardInvariant, Crash
  PROVE  GuardInvariant'
<1>1. GuardTypes
  BY DEF GuardInvariant
<1>2. session' = session /\ asked' = "default" /\ grants' = grants /\ egress' = egress
      /\ allow' = allow /\ agent' = NoAgent
  BY DEF Crash
<1>3. slot' = [h \in Holder |-> EmptySlot]
      /\ job' = [t \in Thread |-> IF t = "dispatch" THEN [Free EXCEPT !.pc = "read"] ELSE Free]
  BY DEF Crash
<1>4. slot' \in [Holder -> Slots] /\ job' \in [Thread -> Jobs] /\ job'["dispatch"].pc = "read"
  BY <1>3, StartingTypes
<1>5. hidden' \in SUBSET Hideable /\ protect' \in BOOLEAN
  BY <1>1 DEF Crash, GuardTypes
<1>6. asked' \in Modes /\ agent' \in Guards
  BY <1>2, Blanks DEF Modes
<1>7. GuardTypes'
  BY <1>1, <1>2, <1>4, <1>5, <1>6 DEF GuardTypes, SessionIsSound
<1>8. Way'
  BY <1>4, BuildAhead
<1>9. QED
  BY <1>7, <1>8 DEF GuardInvariant, OnItsWay

\* A new subagent copies the session's slot into its own.
LEMMA ChildSpawnsKeeps ==
  ASSUME GuardInvariant, ChildSpawns
  PROVE  GuardInvariant'
<1>1. GuardTypes /\ job \in [Thread -> Jobs] /\ slot \in [Holder -> Slots]
      /\ "turn" \in Thread /\ "child" \in Holder /\ "session" \in Holder
  BY DEF GuardInvariant, GuardTypes, Thread, Holder
<1>2. UNCHANGED <<session, asked, grants, hidden, protect, egress, allow, agent, odd>>
  BY DEF ChildSpawns, settingVars
<1>3. slot' = [slot EXCEPT !["child"] = slot["session"]] /\ job' = [job EXCEPT !["turn"].pc = "read"]
  BY DEF ChildSpawns
<1>4. slot' \in [Holder -> Slots] /\ slot'["session"] = slot["session"]
  BY <1>1, <1>3
<1>5. job["turn"] \in Jobs
  BY <1>1
<1>6. [job["turn"] EXCEPT !.pc = "read"] \in Jobs
  BY <1>5 DEF Jobs
<1>7. job' \in [Thread -> Jobs] /\ job'["dispatch"] = job["dispatch"] /\ job'["loader"] = job["loader"]
  BY <1>1, <1>3, <1>6 DEF Thread
<1>8. GuardTypes'
  BY <1>1, <1>2, <1>4, <1>7 DEF GuardTypes, SessionIsSound
<1>9. Way => Way'
  BY <1>2, <1>4, <1>7 DEF Way, Follows
<1>10. QED
  BY <1>2, <1>8, <1>9 DEF GuardInvariant, OnItsWay

LEMMA BuildKeeps ==
  ASSUME GuardInvariant, NEW t \in Thread, BuildStep(t)
  PROVE  GuardInvariant'
<1>1. GuardTypes'
  BY BuildTypes DEF GuardInvariant
<1>2. "overlap" \notin odd' => Way'
  BY DispatchBuilds, LoaderBuilds, ChildBuilds DEF Thread
<1>3. QED
  BY <1>1, <1>2 DEF GuardInvariant, OnItsWay

\* The turn's other steps, and its commands', see none of it.
LEMMA TurnKeeps ==
  ASSUME GuardInvariant,
         \/ TurnBegins
         \/ \E c \in Call, escalate \in BOOLEAN : CommandStarts(c, escalate)
         \/ CommandSteps
         \/ TurnEnds \/ TurnKills \/ TurnIsOver
  PROVE  GuardInvariant'
<1>1. allow \in AllowList
  BY DEF GuardInvariant, GuardTypes
<1>2. CASE TurnBegins
  BY <1>1, <1>2, QuietStep DEF TurnBegins, settingVars
<1>3. ASSUME NEW c \in Call, NEW escalate \in BOOLEAN, CommandStarts(c, escalate)
      PROVE  GuardInvariant'
  BY <1>1, <1>3, QuietStep DEF CommandStarts, settingVars
<1>4. CASE CommandSteps
  BY <1>1, <1>4, QuietStep DEF CommandSteps, CommandEffects, settingVars
<1>5. CASE TurnEnds
  BY <1>1, <1>5, QuietStep DEF TurnEnds, settingVars
<1>6. CASE TurnKills
  BY <1>1, <1>6, QuietStep DEF TurnKills, guardVars, settingVars
<1>7. CASE TurnIsOver
  BY <1>1, <1>7, QuietStep DEF TurnIsOver, settingVars
<1>8. QED
  BY <1>2, <1>3, <1>4, <1>5, <1>6, <1>7

LEMMA GuardStep == GuardInvariant /\ [Next]_vars => GuardInvariant'
<1>1. SUFFICES ASSUME GuardInvariant, [Next]_vars PROVE GuardInvariant'
  OBVIOUS
<1>2. allow \in AllowList
  BY <1>1 DEF GuardInvariant, GuardTypes
<1>3. CASE UNCHANGED vars
  BY <1>1, <1>2, <1>3, QuietStep DEF vars, guardVars, settingVars
<1>4. CASE Request
  BY <1>1, <1>4, RequestKeeps
<1>5. CASE DispatchStep
  BY <1>1, <1>5, HidingKeeps, BuildKeeps DEF DispatchStep, Thread
<1>6. CASE LoadEnds
  BY <1>1, <1>6, LoadEndsKeeps
<1>7. CASE BuildStep("loader") \/ BuildStep("turn")
  BY <1>1, <1>7, BuildKeeps DEF Thread
<1>8. CASE Crash
  BY <1>1, <1>8, CrashKeeps
<1>9. CASE ChildSpawns
  BY <1>1, <1>9, ChildSpawnsKeeps
<1>10. CASE \/ TurnBegins
            \/ \E c \in Call, escalate \in BOOLEAN : CommandStarts(c, escalate)
            \/ CommandSteps
            \/ TurnEnds \/ TurnKills \/ TurnIsOver
  BY <1>1, <1>10, TurnKeeps
<1>11. QED
  BY <1>1, <1>3, <1>4, <1>5, <1>6, <1>7, <1>8, <1>9, <1>10 DEF Next

\* Once the requests are answered, the agent the next turn gets guards what the
\* settings ask for.
LEMMA InvariantGuards == GuardInvariant => GuardsFollowSettings
<1>1. SUFFICES ASSUME GuardInvariant, Settled, mode = asked PROVE GuardsFollowSettings
  BY DEF GuardsFollowSettings
<1>2. SessionIsSound /\ Follows(agent)
  BY <1>1 DEF GuardInvariant, GuardTypes, OnItsWay, Way, Settled, DispatchIdle
<1>3. QED
  BY <1>1, <1>2, FollowingGuards

\* Whatever the paths, the settings and the order of requests, builds, turns and
\* crashes: what the requests asked for is what the next turn's tools get.
THEOREM GuardsFollow == Spec => []GuardsFollowSettings
<1>1. Init => GuardInvariant
  BY GuardStarts
<1>2. GuardInvariant /\ [Next]_vars => GuardInvariant'
  BY GuardStep
<1>3. GuardInvariant => GuardsFollowSettings
  BY InvariantGuards
<1>4. QED
  BY <1>1, <1>2, <1>3, PTL DEF Spec

\* What a step may take off the list of hidden paths.
Revealing == \A p \in hidden \ hidden' : (Hiding /\ p \notin Wanted) \/ "torn" \in odd'

\* A step that leaves the list alone reveals nothing.
LEMMA NothingRevealed == hidden' = hidden => Revealing
BY DEF Revealing

\* forbid-read/set adds before it removes, and no other request, build, turn or
\* crash short of a torn write takes a path off the list.
THEOREM RevealsAreAsked == Spec => OnlyUnlistedIsRevealed
<1>1. ASSUME [Next]_vars PROVE Revealing
  <2>1. CASE UNCHANGED vars
    BY <2>1, NothingRevealed DEF vars, guardVars, settingVars
  <2>2. CASE Request
    BY <2>2, NothingRevealed
       DEF Request, Initialize, SetMode, PermissionsUpdate, SetGrants, SetHidden, SetProtect,
           SetSsrf, SetEgress, settingVars
  <2>3. CASE DispatchStep
    <3>1. CASE HideOne
      BY <3>1 DEF HideOne, Revealing
    <3>2. CASE RevealOne
      BY <3>2 DEF RevealOne, Revealing
    <3>3. CASE HidingDone
      BY <3>3, NothingRevealed DEF HidingDone, settingVars
    <3>4. CASE BuildStep("dispatch")
      BY <3>4, NothingRevealed
         DEF BuildStep, BuildReads, BuildCreates, BuildStarts, BuildTells, BuildSwaps, settingVars
    <3>5. QED
      BY <2>3, <3>1, <3>2, <3>3, <3>4 DEF DispatchStep
  <2>4. CASE LoadEnds \/ BuildStep("loader") \/ BuildStep("turn")
    BY <2>4, NothingRevealed
       DEF LoadEnds, BuildStep, BuildReads, BuildCreates, BuildStarts, BuildTells, BuildSwaps,
           settingVars
  <2>5. CASE Crash
    BY <2>5 DEF Crash, Revealing
  <2>6. CASE TurnBegins \/ ChildSpawns \/ TurnEnds \/ TurnKills \/ TurnIsOver
    BY <2>6, NothingRevealed
       DEF TurnBegins, ChildSpawns, TurnEnds, TurnKills, TurnIsOver, guardVars, settingVars
  <2>7. CASE CommandSteps \/ \E c \in Call, escalate \in BOOLEAN : CommandStarts(c, escalate)
    BY <2>7, NothingRevealed DEF CommandSteps, CommandEffects, CommandStarts, settingVars
  <2>8. QED
    BY <1>1, <2>1, <2>2, <2>3, <2>4, <2>5, <2>6, <2>7 DEF Next
<1>2. [Next]_vars => [Revealing]_vars
  BY <1>1
<1>3. QED
  BY <1>2, PTL DEF Spec, OnlyUnlistedIsRevealed, Revealing
-----------------------------------------------------------------------------
(* The commands of a turn.  What the pids are worth: as long as none came  *)
(* back too early, each is one command's, and whoever holds it knows it.    *)

Cmds == [pc : {"idle", "thread", "spawn", "add", "wait", "kill", "drain", "finally"},
         route : {"bounded", "lowil"}, folders : SUBSET Grantable, tool : Tool \cup {0},
         epoch : Nat, pid : Pid \cup {NoPid}, tree : SUBSET Member,
         over : BOOLEAN, early : BOOLEAN, timed : BOOLEAN, hit : BOOLEAN]

Registries == [epoch : Nat, kills : SUBSET Pid]
Turns == [pc : {"idle", "run", "stopping"}, agent : Guards, call : Call \cup {NoCall}]

\* A command has a pid once it is spawned, and runs on a tool.
Placed(c) ==
  /\ cmd[c].pc \in {"idle", "thread", "spawn"} <=> cmd[c].pid = NoPid
  /\ c \in Busy => cmd[c].tool \in Tool

ShellTypes ==
  /\ cmd \in [Call -> Cmds]
  /\ live \in [Tool -> Registries]
  /\ tool \in Tool
  /\ hits \in SUBSET Pid
  /\ turn \in Turns
  /\ \A c \in Call : Placed(c)

\* The tool is the current turn's, unless the turn that asked is over.
Current(c) == c \in Busy => cmd[c].over \/ (turn.pc = "run" /\ cmd[c].tool = tool)

\* Where a cancel finds it: before it is registered, by its epoch; then, by its pid.
Reached(c) ==
  /\ cmd[c].pc \in {"spawn", "add"} /\ ~cmd[c].over => cmd[c].epoch = live[cmd[c].tool].epoch
  /\ cmd[c].pc \in {"spawn", "add"} /\ cmd[c].over /\ cmd[c].early =>
       cmd[c].epoch < live[cmd[c].tool].epoch
  /\ cmd[c].pc = "wait" /\ ~cmd[c].over => cmd[c].pid \in live[cmd[c].tool].kills
  /\ cmd[c].pc = "wait" /\ cmd[c].over /\ cmd[c].early =>
       cmd[c].tree \cap Group = {} \/ cmd[c].pid \in hits

\* Who is killed, or about to be.
Deserved(c) ==
  /\ cmd[c].hit \/ cmd[c].pc = "kill" => cmd[c].timed \/ cmd[c].over
  /\ cmd[c].pid \in hits => cmd[c].over

Sound(c) == Current(c) /\ Reached(c) /\ Deserved(c)

Apart == \A c, d \in Call : c # d /\ cmd[c].pid = cmd[d].pid => cmd[c].pid = NoPid
Struck == turn.pc # "stopping" => hits = {}

Kept == Apart /\ Struck /\ \A c \in Call : Sound(c)

KillsInvariant == ShellTypes /\ (~reused => Kept)

-----------------------------------------------------------------------------
(* A step of one command.                                                  *)

LEMMA RestingCommand == Resting \in Cmds /\ Resting.pc = "idle" /\ Resting.pid = NoPid
                        /\ ~Resting.hit /\ Resting.folders = {}
BY DEF Resting, Cmds

\* What rests needs nothing.
LEMMA RestingSound ==
  ASSUME NEW c \in Call, cmd'[c] = Resting, hits' \in SUBSET Pid
  PROVE  Placed(c)' /\ Sound(c)'
BY RestingCommand, ShellAssumption DEF Sound, Placed, Current, Reached, Deserved, Busy

\* The other commands do not notice, if their pids stay in the registries.
LEMMA CommandMoves ==
  ASSUME KillsInvariant, NEW c \in Call, NEW r \in Cmds, cmd' = [cmd EXCEPT ![c] = r],
         turn' \in Turns, turn'.pc = turn.pc, tool' = tool, hits' = hits,
         live' \in [Tool -> Registries],
         \A t \in Tool : live'[t].epoch = live[t].epoch,
         \A t \in Tool : live[t].kills \subseteq live'[t].kills \cup {cmd[c].pid},
         reused => reused',
         ~reused' => r.pid = cmd[c].pid \/ r.pid = NoPid \/ \A d \in Call : cmd[d].pid # r.pid,
         ShellTypes /\ cmd'[c] = r => Placed(c)',
         ~reused' /\ ShellTypes /\ Kept /\ cmd'[c] = r => Sound(c)'
  PROVE  KillsInvariant'
<1>1. ShellTypes
  BY DEF KillsInvariant
<1>2. cmd' \in [Call -> Cmds] /\ cmd'[c] = r /\ \A d \in Call \ {c} : cmd'[d] = cmd[d]
  BY <1>1 DEF ShellTypes
<1>3. \A d \in Call \ {c} : Placed(d)'
  BY <1>1, <1>2 DEF ShellTypes, Placed, Busy
<1>4. ShellTypes'
  BY <1>1, <1>2, <1>3 DEF ShellTypes
<1>5. SUFFICES ASSUME ~reused' PROVE Kept'
  BY <1>4 DEF KillsInvariant
<1>6. Kept
  BY <1>5 DEF KillsInvariant
<1>7. Struck'
  BY <1>6 DEF Kept, Struck
<1>8. Apart'
  BY <1>2, <1>5, <1>6 DEF Kept, Apart
<1>9. ASSUME NEW d \in Call, d # c PROVE Sound(d)'
  <2>1. Sound(d) /\ Placed(d) /\ cmd'[d] = cmd[d]
    BY <1>1, <1>2, <1>6, <1>9 DEF Kept, ShellTypes
  <2>2. Current(d)'
    BY <2>1 DEF Sound, Current, Busy
  <2>3. cmd[d].pc = "wait" => cmd[d].pid # cmd[c].pid
    BY <1>6, <1>9, <2>1 DEF Kept, Apart, Placed
  <2>4. cmd[d].pc \in {"spawn", "add", "wait"} => cmd[d].tool \in Tool
    BY <2>1 DEF Placed, Busy
  <2>5. Reached(d)'
    BY <2>1, <2>3, <2>4 DEF Sound, Reached
  <2>6. Deserved(d)'
    BY <2>1 DEF Sound, Deserved
  <2>7. QED
    BY <2>2, <2>5, <2>6 DEF Sound
<1>10. QED
  BY <1>1, <1>2, <1>5, <1>6, <1>7, <1>8, <1>9 DEF Kept

\* The epoch a running turn's command reads is its tool's; after the turn it is not early.
LEMMA ReadsEpochKeeps ==
  ASSUME KillsInvariant, NEW c \in Call, ReadsEpoch(c), turn' \in Turns, turn'.pc = turn.pc
  PROVE  KillsInvariant'
<1> DEFINE r == [cmd[c] EXCEPT !.pc = "spawn", !.epoch = live[cmd[c].tool].epoch, !.early = ~cmd[c].over]
<1>1. ShellTypes /\ cmd[c] \in Cmds /\ Placed(c)
  BY DEF KillsInvariant, ShellTypes
<1>2. cmd[c].pc = "thread" /\ cmd' = [cmd EXCEPT ![c] = r] /\ UNCHANGED <<live, tool, hits, reused>>
  BY <1>1 DEF ReadsEpoch, ShellTypes
<1>3. r \in Cmds
  BY <1>1, <1>2 DEF Cmds, Placed, Busy, ShellTypes, Registries
<1>4. r.pid = cmd[c].pid \/ r.pid = NoPid
  BY <1>1 DEF Cmds
<1>5. cmd'[c] = r => Placed(c)'
  BY <1>1, <1>2 DEF Placed, Busy, Cmds
<1>6. Kept /\ cmd'[c] = r => Sound(c)'
  BY <1>1, <1>2 DEF Kept, Sound, Current, Reached, Deserved, Busy, Cmds, ShellTypes
<1> HIDE DEF r
<1>7. QED
  BY <1>1, <1>2, <1>3, <1>4, <1>5, <1>6, CommandMoves DEF ShellTypes

\* A failed spawn leaves nothing.
LEMMA SpawnFailsKeeps ==
  ASSUME KillsInvariant, NEW c \in Call, SpawnFails(c), turn' \in Turns, turn'.pc = turn.pc
  PROVE  KillsInvariant'
<1> DEFINE r == Resting
<1>1. ShellTypes /\ cmd[c] \in Cmds /\ Placed(c)
  BY DEF KillsInvariant, ShellTypes
<1>2. cmd[c].pc = "spawn" /\ cmd' = [cmd EXCEPT ![c] = r] /\ UNCHANGED <<live, tool, hits, reused>>
  BY <1>1 DEF SpawnFails, ShellTypes
<1>3. r \in Cmds
  BY <1>1, <1>2, RestingCommand DEF Cmds
<1>4. r.pid = cmd[c].pid \/ r.pid = NoPid
  BY <1>1, RestingCommand DEF Cmds
<1>5. cmd'[c] = r => Placed(c)'
  BY <1>1, <1>2, RestingCommand DEF Placed, Busy, Cmds
<1>6. Kept /\ cmd'[c] = r => Sound(c)'
  BY <1>1, <1>2, RestingSound DEF Kept, Sound, Current, Reached, Deserved, Busy, Cmds, ShellTypes
<1> HIDE DEF r
<1>7. QED
  BY <1>1, <1>2, <1>3, <1>4, <1>5, <1>6, CommandMoves DEF ShellTypes

\* A command that is no longer waited for need not be reached.
LEMMA FinishesKeeps ==
  ASSUME KillsInvariant, NEW c \in Call, Finishes(c), turn' \in Turns, turn'.pc = turn.pc
  PROVE  KillsInvariant'
<1> DEFINE r == [cmd[c] EXCEPT !.pc = "finally"]
<1>1. ShellTypes /\ cmd[c] \in Cmds /\ Placed(c)
  BY DEF KillsInvariant, ShellTypes
<1>2. cmd[c].pc = "wait" /\ cmd' = [cmd EXCEPT ![c] = r] /\ UNCHANGED <<live, tool, hits, reused>>
  BY <1>1 DEF Finishes, ShellTypes
<1>3. r \in Cmds
  BY <1>1, <1>2 DEF Cmds, Placed, Busy, ShellTypes, Registries
<1>4. r.pid = cmd[c].pid \/ r.pid = NoPid
  BY <1>1 DEF Cmds
<1>5. cmd'[c] = r => Placed(c)'
  BY <1>1, <1>2 DEF Placed, Busy, Cmds
<1>6. Kept /\ cmd'[c] = r => Sound(c)'
  BY <1>1, <1>2 DEF Kept, Sound, Current, Reached, Deserved, Busy, Cmds, ShellTypes
<1> HIDE DEF r
<1>7. QED
  BY <1>1, <1>2, <1>3, <1>4, <1>5, <1>6, CommandMoves DEF ShellTypes

\* A timeout is a reason to kill.
LEMMA TimesOutKeeps ==
  ASSUME KillsInvariant, NEW c \in Call, TimesOut(c), turn' \in Turns, turn'.pc = turn.pc
  PROVE  KillsInvariant'
<1> DEFINE r == [cmd[c] EXCEPT !.pc = "kill", !.timed = TRUE]
<1>1. ShellTypes /\ cmd[c] \in Cmds /\ Placed(c)
  BY DEF KillsInvariant, ShellTypes
<1>2. cmd[c].pc = "wait" /\ cmd' = [cmd EXCEPT ![c] = r] /\ UNCHANGED <<live, tool, hits, reused>>
  BY <1>1 DEF TimesOut, ShellTypes
<1>3. r \in Cmds
  BY <1>1, <1>2 DEF Cmds, Placed, Busy, ShellTypes, Registries
<1>4. r.pid = cmd[c].pid \/ r.pid = NoPid
  BY <1>1 DEF Cmds
<1>5. cmd'[c] = r => Placed(c)'
  BY <1>1, <1>2 DEF Placed, Busy, Cmds
<1>6. Kept /\ cmd'[c] = r => Sound(c)'
  BY <1>1, <1>2 DEF Kept, Sound, Current, Reached, Deserved, Busy, Cmds, ShellTypes
<1> HIDE DEF r
<1>7. QED
  BY <1>1, <1>2, <1>3, <1>4, <1>5, <1>6, CommandMoves DEF ShellTypes

\* The thread kills its own child, for the reason it came here.
LEMMA KillKeeps ==
  ASSUME KillsInvariant, NEW c \in Call, Kill(c), turn' \in Turns, turn'.pc = turn.pc
  PROVE  KillsInvariant'
<1> DEFINE hit == cmd[c].hit \/ cmd[c].tree \cap Group # {}
           tree == cmd[c].tree \ Group
           r == [cmd[c] EXCEPT !.hit = hit, !.tree = tree, !.pc = "drain"]
<1>1. ShellTypes /\ cmd[c] \in Cmds /\ Placed(c) /\ hit \in BOOLEAN /\ tree \in SUBSET Member
  BY DEF KillsInvariant, ShellTypes, Cmds
<1>2. cmd[c].pc = "kill" /\ cmd' = [cmd EXCEPT ![c] = r] /\ UNCHANGED <<live, tool, hits, reused>>
  BY <1>1 DEF Kill, KillTree, ShellTypes
<1> HIDE DEF hit, tree
<1>3. r \in Cmds
  BY <1>1 DEF Cmds
<1>4. r.pid = cmd[c].pid \/ r.pid = NoPid
  BY <1>1 DEF Cmds
<1>5. cmd'[c] = r => Placed(c)'
  BY <1>1, <1>2 DEF Placed, Busy, Cmds
<1>6. Kept /\ cmd'[c] = r => Sound(c)'
  BY <1>1, <1>2 DEF Kept, Sound, Current, Reached, Deserved, Busy, Cmds, ShellTypes
<1> HIDE DEF r
<1>7. QED
  BY <1>1, <1>2, <1>3, <1>4, <1>5, <1>6, CommandMoves DEF ShellTypes

LEMMA DrainKeeps ==
  ASSUME KillsInvariant, NEW c \in Call, Drain(c), turn' \in Turns, turn'.pc = turn.pc
  PROVE  KillsInvariant'
<1> DEFINE r == [cmd[c] EXCEPT !.pc = "finally"]
<1>1. ShellTypes /\ cmd[c] \in Cmds /\ Placed(c)
  BY DEF KillsInvariant, ShellTypes
<1>2. cmd[c].pc = "drain" /\ cmd' = [cmd EXCEPT ![c] = r] /\ UNCHANGED <<live, tool, hits, reused>>
  BY <1>1 DEF Drain, ShellTypes
<1>3. r \in Cmds
  BY <1>1, <1>2 DEF Cmds, Placed, Busy, ShellTypes, Registries
<1>4. r.pid = cmd[c].pid \/ r.pid = NoPid
  BY <1>1 DEF Cmds
<1>5. cmd'[c] = r => Placed(c)'
  BY <1>1, <1>2 DEF Placed, Busy, Cmds
<1>6. Kept /\ cmd'[c] = r => Sound(c)'
  BY <1>1, <1>2 DEF Kept, Sound, Current, Reached, Deserved, Busy, Cmds, ShellTypes
<1> HIDE DEF r
<1>7. QED
  BY <1>1, <1>2, <1>3, <1>4, <1>5, <1>6, CommandMoves DEF ShellTypes

\* A pid nobody holds is nobody else's.
LEMMA SpawnKeeps ==
  ASSUME KillsInvariant, NEW c \in Call, NEW pid \in Pid, NEW tree \in SUBSET Member,
         Spawn(c, pid, tree), turn' \in Turns, turn'.pc = turn.pc
  PROVE  KillsInvariant'
<1> DEFINE r == [cmd[c] EXCEPT !.pc = "add", !.pid = pid, !.tree = tree]
<1>1. ShellTypes /\ cmd[c] \in Cmds /\ Placed(c)
  BY DEF KillsInvariant, ShellTypes
<1>2. cmd[c].pc = "spawn" /\ cmd' = [cmd EXCEPT ![c] = r] /\ UNCHANGED <<live, tool, hits>>
      /\ reused' = (reused \/ pid \in hits \cup {cmd[d].pid : d \in Busy}
                              \cup UNION {live[t].kills : t \in Tool})
  BY <1>1 DEF Spawn, ShellTypes
<1>3. r \in Cmds
  BY <1>1 DEF Cmds
<1>4. ~reused' => pid \notin hits /\ \A d \in Call : cmd[d].pid # r.pid
  <2>1. r.pid = pid /\ pid # NoPid
    BY <1>1, ShellAssumption DEF Cmds
  <2>2. ~reused' => pid \notin hits /\ \A d \in Busy : cmd[d].pid # pid
    BY <1>2
  <2>3. \A d \in Call : d \in Busy \/ cmd[d].pid = NoPid
    BY <1>1 DEF ShellTypes, Placed, Busy
  <2>4. QED
    BY <2>1, <2>2, <2>3
<1>5. cmd'[c] = r => Placed(c)'
  BY <1>1, <1>2, ShellAssumption DEF Placed, Busy, Cmds
<1>6. ~reused' /\ Kept /\ cmd'[c] = r => Sound(c)'
  BY <1>1, <1>2, <1>4 DEF Kept, Sound, Current, Reached, Deserved, Busy, Cmds, ShellTypes
<1> HIDE DEF r
<1>7. QED
  BY <1>1, <1>2, <1>3, <1>4, <1>5, <1>6, CommandMoves DEF ShellTypes

\* A child whose epoch is current is registered; the turn of one whose is not is over.
LEMMA AddKeeps ==
  ASSUME KillsInvariant, NEW c \in Call, Add(c), turn' \in Turns, turn'.pc = turn.pc
  PROVE  KillsInvariant'
<1> DEFINE t == cmd[c].tool
<1>1. /\ ShellTypes /\ cmd[c] \in Cmds /\ Placed(c)
      /\ cmd[c].pc = "add" /\ t \in Tool /\ cmd[c].pid \in Pid
      /\ UNCHANGED <<tool, hits, reused>>
  BY DEF KillsInvariant, ShellTypes, Add, Placed, Busy, Cmds
<1>2. CASE cmd[c].epoch = live[t].epoch
  <2> DEFINE r == [cmd[c] EXCEPT !.pc = "wait"]
  <2>1. cmd' = [cmd EXCEPT ![c] = r] /\ live' = [live EXCEPT ![t].kills = @ \cup {cmd[c].pid}]
    BY <1>1, <1>2 DEF Add, ShellTypes
  <2>2. /\ live' \in [Tool -> Registries]
        /\ \A u \in Tool : live'[u].epoch = live[u].epoch /\ live[u].kills \subseteq live'[u].kills
        /\ cmd[c].pid \in live'[t].kills
    BY <1>1, <2>1 DEF ShellTypes, Registries
  <2>3. r \in Cmds
    BY <1>1 DEF Cmds
  <2>4. r.pid = cmd[c].pid
    BY <1>1 DEF Cmds
  <2>5. cmd'[c] = r => Placed(c)'
    BY <1>1 DEF Placed, Busy, Cmds
  <2>6. Kept /\ cmd'[c] = r => Sound(c)'
    BY <1>1, <1>2, <2>2 DEF Kept, Sound, Current, Reached, Deserved, Busy, Cmds, ShellTypes, Registries
  <2> HIDE DEF r
  <2>7. QED
    BY <1>1, <2>1, <2>2, <2>3, <2>4, <2>5, <2>6, CommandMoves
<1>3. CASE cmd[c].epoch # live[t].epoch
  <2> DEFINE r == [cmd[c] EXCEPT !.pc = "kill"]
  <2>1. cmd' = [cmd EXCEPT ![c] = r] /\ live' = live
    BY <1>1, <1>3 DEF Add, ShellTypes
  <2>2. r \in Cmds
    BY <1>1 DEF Cmds
  <2>3. r.pid = cmd[c].pid
    BY <1>1 DEF Cmds
  <2>4. cmd'[c] = r => Placed(c)'
    BY <1>1 DEF Placed, Busy, Cmds
  <2>5. Kept /\ cmd'[c] = r => Sound(c)'
    BY <1>1, <1>3, <2>1 DEF Kept, Sound, Current, Reached, Deserved, Busy, Cmds, ShellTypes
  <2> HIDE DEF r
  <2>6. QED
    BY <1>1, <2>1, <2>2, <2>3, <2>4, <2>5, CommandMoves DEF ShellTypes
<1>4. QED
  BY <1>2, <1>3

\* Programs that end leave fewer to reach.
LEMMA ProcessEndsKeeps ==
  ASSUME KillsInvariant, NEW c \in Call, NEW member, ProcessEnds(c, member),
         turn' \in Turns, turn'.pc = turn.pc
  PROVE  KillsInvariant'
<1> DEFINE r == [cmd[c] EXCEPT !.tree = @ \ {member}]
<1>1. ShellTypes /\ cmd[c] \in Cmds /\ Placed(c)
  BY DEF KillsInvariant, ShellTypes
<1>2. cmd[c].pc = "wait" /\ cmd' = [cmd EXCEPT ![c] = r] /\ UNCHANGED <<live, tool, hits, reused>>
  BY <1>1 DEF ProcessEnds, ShellTypes
<1>3. cmd[c].tree \ {member} \in SUBSET Member
  BY <1>1 DEF Cmds
<1>4. r \in Cmds /\ r.pid = cmd[c].pid
  BY <1>1, <1>3 DEF Cmds
<1>5. cmd'[c] = r => Placed(c)'
  BY <1>1, <1>2 DEF Placed, Busy, Cmds
<1>6. r.tree \cap Group \subseteq cmd[c].tree \cap Group
  BY <1>1 DEF Cmds
<1>7. Kept /\ cmd'[c] = r => Sound(c)'
  BY <1>1, <1>2, <1>6 DEF Kept, Sound, Current, Reached, Deserved, Busy, Cmds, ShellTypes
<1> HIDE DEF r
<1>8. QED
  BY <1>1, <1>2, <1>4, <1>5, <1>7, CommandMoves DEF ShellTypes

\* What Return discards is the command's own.
LEMMA ReturnKeeps ==
  ASSUME KillsInvariant, NEW c \in Call, Return(c), turn' \in Turns, turn'.pc = turn.pc
  PROVE  KillsInvariant'
<1>1. /\ ShellTypes /\ Placed(c) /\ cmd[c].pc = "finally" /\ cmd[c].tool \in Tool
      /\ UNCHANGED <<tool, hits, reused>>
      /\ cmd' = [cmd EXCEPT ![c] = Resting]
      /\ live' = [live EXCEPT ![cmd[c].tool].kills = @ \ {cmd[c].pid}]
  BY DEF KillsInvariant, ShellTypes, Return, Placed, Busy
<1>2. /\ live' \in [Tool -> Registries]
      /\ \A u \in Tool : live'[u].epoch = live[u].epoch
      /\ \A u \in Tool : live[u].kills \subseteq live'[u].kills \cup {cmd[c].pid}
  BY <1>1 DEF ShellTypes, Registries
<1>3. cmd'[c] = Resting => Placed(c)' /\ Sound(c)'
  BY <1>1, RestingSound DEF ShellTypes
<1>4. QED
  BY <1>1, <1>2, <1>3, RestingCommand, CommandMoves

\* One step of one command.
LEMMA CommandKeeps ==
  ASSUME KillsInvariant, CommandSteps
  PROVE  KillsInvariant'
<1>1. turn' \in Turns /\ turn'.pc = turn.pc
  <2>1. turn \in Turns
    BY DEF KillsInvariant, ShellTypes
  <2>2. turn' \in {turn, [turn EXCEPT !.call = NoCall]}
    BY DEF CommandSteps, CommandEffects
  <2>3. QED
    BY <2>1, <2>2 DEF Turns
<1>2. PICK c \in Call : ThreadStep(c) \/ \E m \in Member : ProcessEnds(c, m)
  BY DEF CommandSteps, CommandStep
<1>3. CASE \E m \in Member : ProcessEnds(c, m)
  BY <1>1, <1>3, ProcessEndsKeeps
<1>4. CASE \E pid \in Pid, tree \in SUBSET {"job", "stray"} : Spawn(c, pid, {"shell"} \cup tree)
  <2>1. PICK pid \in Pid, tree \in SUBSET {"job", "stray"} : Spawn(c, pid, {"shell"} \cup tree)
    BY <1>4
  <2>2. {"shell"} \cup tree \in SUBSET Member
    BY DEF Member
  <2>3. QED
    BY <1>1, <2>1, <2>2, SpawnKeeps
<1>5. CASE ReadsEpoch(c) \/ SpawnFails(c) \/ Add(c) \/ Finishes(c) \/ TimesOut(c) \/ Kill(c)
           \/ Drain(c) \/ Return(c)
  BY <1>1, <1>5, ReadsEpochKeeps, SpawnFailsKeeps, AddKeeps, FinishesKeeps, TimesOutKeeps,
     KillKeeps, DrainKeeps, ReturnKeeps
<1>6. QED
  BY <1>2, <1>3, <1>4, <1>5 DEF ThreadStep

-----------------------------------------------------------------------------
(* The turn's steps.                                                       *)

\* Nothing of it changes.
LEMMA ShellsStay ==
  ASSUME KillsInvariant, UNCHANGED shellVars, turn' = turn
  PROVE  KillsInvariant'
<1>1. ShellTypes'
  BY DEF KillsInvariant, ShellTypes, shellVars, Placed, Busy
<1>2. Kept => Kept'
  BY DEF Kept, Apart, Struck, Sound, Current, Reached, Deserved, Busy, shellVars
<1>3. QED
  BY <1>1, <1>2 DEF KillsInvariant, shellVars

\* When a turn begins, what still runs is of turns that are over, and keeps its
\* tool's registry.
LEMMA TurnBeginsKeeps ==
  ASSUME KillsInvariant, agent \in Guards, TurnBegins
  PROVE  KillsInvariant'
<1>1. /\ ShellTypes /\ turn.pc = "idle" /\ UNCHANGED <<cmd, hits, reused>>
      /\ turn' = [NoTurn EXCEPT !.pc = "run", !.agent = agent]
  BY DEF KillsInvariant, TurnBegins, TakeFreshTool, shellVars
<1>2. turn' \in Turns /\ turn'.pc = "run"
  BY <1>1 DEF NoTurn, Turns
<1>3. /\ tool' \in Tool
      /\ live' \in [Tool -> Registries]
      /\ \A c \in Busy : live'[cmd[c].tool] = live[cmd[c].tool]
  <2>1. CASE UNCHANGED shellVars
    BY <1>1, <2>1 DEF ShellTypes, shellVars
  <2>2. CASE TakeFreshTool
    <3>1. NobodyLive \in Registries
      BY DEF NobodyLive, Registries
    <3>2. \A c \in Busy : cmd[c].tool \in Tool
      BY <1>1 DEF ShellTypes, Placed, Busy
    <3>3. QED
      BY <1>1, <2>2, <3>1, <3>2 DEF ShellTypes, TakeFreshTool
  <2>3. QED
    BY <2>1, <2>2 DEF TurnBegins
<1>4. ShellTypes'
  BY <1>1, <1>2, <1>3 DEF ShellTypes, Placed, Busy
<1>5. ASSUME Kept PROVE Kept'
  <2>1. Apart' /\ Struck'
    BY <1>1, <1>2, <1>5 DEF Kept, Apart, Struck
  <2>2. ASSUME NEW c \in Call PROVE Sound(c)'
    <3>1. Sound(c)
      BY <1>5 DEF Kept
    <3>2. Current(c)' /\ (c \in Busy => cmd[c].over)
      BY <1>1, <3>1 DEF Sound, Current, Busy
    <3>3. Reached(c)' /\ Deserved(c)'
      BY <1>1, <1>3, <3>1 DEF Sound, Reached, Deserved, Busy
    <3>4. QED
      BY <3>2, <3>3 DEF Sound
  <2>3. QED
    BY <2>1, <2>2 DEF Kept
<1>6. QED
  BY <1>1, <1>4, <1>5 DEF KillsInvariant

\* A command begins on the tool of the turn that asks.
LEMMA CommandStartsKeeps ==
  ASSUME KillsInvariant, NEW c \in Call, NEW escalate \in BOOLEAN, CommandStarts(c, escalate)
  PROVE  KillsInvariant'
<1> DEFINE lowil == Boxed(turn.agent, escalate) /\ session.platform = "windows"
           route == IF lowil THEN "lowil" ELSE "bounded"
           folders == IF lowil THEN turn.agent.grants ELSE {}
           r == [Resting EXCEPT !.pc = "thread", !.route = route, !.tool = tool, !.folders = folders]
<1>1. ShellTypes /\ cmd[c] \in Cmds /\ Placed(c) /\ turn \in Turns /\ turn.pc = "run" /\ c \notin Busy
  BY DEF KillsInvariant, ShellTypes, CommandStarts, Execute, TurnReady, Busy
<1>2. cmd' = [cmd EXCEPT ![c] = r] /\ UNCHANGED <<live, tool, hits, reused>>
      /\ turn' = [turn EXCEPT !.call = c]
  BY DEF CommandStarts, Execute
<1>3. turn' \in Turns /\ turn'.pc = turn.pc
  BY <1>1, <1>2 DEF Turns
<1>4. route \in {"bounded", "lowil"} /\ folders \in SUBSET Grantable
  BY <1>1 DEF Turns, Guards
<1> HIDE DEF lowil, route, folders
<1>5. r \in Cmds /\ r.pc = "thread" /\ r.tool = tool /\ r.pid = NoPid /\ ~r.hit
  BY <1>1, <1>4 DEF Resting, Cmds, ShellTypes
<1> HIDE DEF r
<1>6. cmd'[c] = r => Placed(c)'
  BY <1>1, <1>2, <1>5 DEF Placed, Busy, ShellTypes
<1>7. cmd'[c] = r => Sound(c)'
  BY <1>1, <1>2, <1>3, <1>5, ShellAssumption DEF Sound, Current, Reached, Deserved, Busy, ShellTypes
<1>8. QED
  BY <1>1, <1>2, <1>3, <1>5, <1>6, <1>7, CommandMoves DEF ShellTypes

\* The end of a turn takes all the pids of its tool, and makes stale the epochs
\* of its commands that have none yet.
LEMMA TurnEndsKeeps ==
  ASSUME KillsInvariant, TurnEnds
  PROVE  KillsInvariant'
<1>1. /\ ShellTypes /\ turn.pc = "run" /\ turn' = [turn EXCEPT !.pc = "stopping", !.call = NoCall]
      /\ live' = [live EXCEPT ![tool] = [epoch |-> @.epoch + 1, kills |-> {}]]
      /\ hits' = live[tool].kills
      /\ cmd' = [c \in Call |-> IF c \in Busy THEN [cmd[c] EXCEPT !.over = TRUE] ELSE cmd[c]]
      /\ UNCHANGED <<tool, reused>>
  BY DEF KillsInvariant, TurnEnds, CancelAll
<1>2. turn' \in Turns /\ turn'.pc = "stopping"
  BY <1>1 DEF ShellTypes, Turns
<1>3. /\ live' \in [Tool -> Registries]
      /\ hits' \in SUBSET Pid
      /\ live'[tool].epoch = live[tool].epoch + 1
      /\ \A t \in Tool \ {tool} : live'[t] = live[t]
      /\ \A t \in Tool : live[t].epoch \in Nat
  BY <1>1 DEF ShellTypes, Registries
<1>4. ASSUME NEW c \in Call
      PROVE  /\ cmd'[c] \in Cmds
             /\ c \in Busy => cmd'[c] = [cmd[c] EXCEPT !.over = TRUE] /\ cmd'[c].over
             /\ c \notin Busy => cmd'[c] = cmd[c]
             /\ cmd'[c].pc = cmd[c].pc /\ cmd'[c].pid = cmd[c].pid /\ cmd'[c].tool = cmd[c].tool
             /\ cmd'[c].epoch = cmd[c].epoch /\ cmd'[c].early = cmd[c].early
             /\ cmd'[c].tree = cmd[c].tree
             /\ cmd'[c].hit = cmd[c].hit /\ cmd'[c].timed = cmd[c].timed
             /\ cmd[c].epoch \in Nat
             /\ c \in Busy <=> cmd[c].pc # "idle"
  <2>1. cmd[c] \in Cmds /\ (c \in Busy <=> cmd[c].pc # "idle")
    BY <1>1, <1>4 DEF ShellTypes, Busy
  <2>2. CASE c \in Busy
    <3>1. cmd'[c] = [cmd[c] EXCEPT !.over = TRUE]
      BY <1>1, <2>2
    <3>2. QED
      BY <2>1, <2>2, <3>1 DEF Cmds
  <2>3. CASE c \notin Busy
    <3>1. cmd'[c] = cmd[c]
      BY <1>1, <1>4, <2>3
    <3>2. QED
      BY <2>1, <2>3, <3>1 DEF Cmds
  <2>4. QED
    BY <2>2, <2>3
<1>5. ShellTypes'
  <2>1. cmd' \in [Call -> Cmds]
    BY <1>1, <1>4
  <2>2. \A c \in Call : Placed(c)'
    BY <1>1, <1>4 DEF ShellTypes, Placed, Busy
  <2>3. QED
    BY <1>1, <1>2, <1>3, <2>1, <2>2 DEF ShellTypes
<1>6. ASSUME Kept PROVE Kept'
  <2>1. Apart' /\ Struck'
    <3>1. \A c \in Call : cmd'[c].pid = cmd[c].pid
      BY <1>4
    <3>2. QED
      BY <1>2, <1>6, <3>1 DEF Kept, Apart, Struck
  <2>2. ASSUME NEW c \in Call PROVE Sound(c)'
    <3>1. Sound(c) /\ Placed(c) /\ hits = {}
      BY <1>1, <1>6 DEF Kept, Struck, ShellTypes
    <3>2. Current(c)'
      BY <1>4 DEF Current, Busy
    <3>3. Deserved(c)'
      <4>1. cmd[c].pid \in hits' => c \in Busy
        BY <1>3, <1>4, <3>1, ShellAssumption DEF Placed
      <4>2. QED
        BY <1>4, <3>1, <4>1 DEF Sound, Deserved, Busy
    <3>4. Reached(c)'
      <4>1. CASE c \notin Busy
        BY <1>4, <4>1 DEF Reached
      <4>2. CASE c \in Busy /\ ~cmd[c].over
        <5>1. cmd[c].tool = tool
          BY <3>1, <4>2 DEF Sound, Current
        <5>2. cmd[c].pc \in {"spawn", "add"} => cmd[c].epoch < live'[tool].epoch
          BY <1>1, <1>3, <1>4, <3>1, <4>2, <5>1 DEF Sound, Reached, ShellTypes
        <5>3. cmd[c].pc = "wait" => cmd[c].pid \in hits'
          BY <1>1, <3>1, <4>2, <5>1 DEF Sound, Reached
        <5>4. QED
          BY <1>4, <4>2, <5>1, <5>2, <5>3 DEF Reached
      <4>3. CASE c \in Busy /\ cmd[c].over
        <5>1. cmd[c].tool \in Tool
          BY <3>1, <4>3 DEF Placed
        <5>2. live[cmd[c].tool].epoch <= live'[cmd[c].tool].epoch
              /\ live[cmd[c].tool].epoch \in Nat /\ live'[cmd[c].tool].epoch \in Nat
          BY <1>3, <5>1
        <5>3. cmd[c].pc \in {"spawn", "add"} /\ cmd[c].early => cmd[c].epoch < live'[cmd[c].tool].epoch
          <6>1. cmd[c].pc \in {"spawn", "add"} /\ cmd[c].early => cmd[c].epoch < live[cmd[c].tool].epoch
            BY <3>1, <4>3 DEF Sound, Reached
          <6>2. cmd[c].epoch \in Nat
            BY <1>4
          <6>3. QED
            BY <5>2, <6>1, <6>2
        <5>4. QED
          BY <1>4, <3>1, <4>3, <5>3 DEF Sound, Reached
      <4>4. QED
        BY <4>1, <4>2, <4>3
    <3>5. QED
      BY <3>2, <3>3, <3>4 DEF Sound
  <2>3. QED
    BY <2>1, <2>2 DEF Kept
<1>7. QED
  BY <1>1, <1>5, <1>6 DEF KillsInvariant

\* A pid that is struck belongs to a command whose turn is over.
LEMMA TurnKillsKeeps ==
  ASSUME KillsInvariant, TurnKills
  PROVE  KillsInvariant'
<1>1. PICK pid \in hits : KillHit(pid)
  BY DEF TurnKills
<1>2. /\ ShellTypes /\ turn' = turn /\ turn.pc = "stopping" /\ pid \in Pid
      /\ hits' = hits \ {pid} /\ UNCHANGED <<live, tool, reused>>
      /\ cmd' = [c \in Call |-> IF cmd[c].pid = pid /\ Holds(c) THEN KillTree(c) ELSE cmd[c]]
  BY <1>1 DEF KillsInvariant, ShellTypes, TurnKills, KillHit, guardVars
<1>3. ASSUME NEW c \in Call
      PROVE  /\ cmd'[c] \in Cmds
             /\ cmd'[c].pc = cmd[c].pc /\ cmd'[c].pid = cmd[c].pid /\ cmd'[c].tool = cmd[c].tool
             /\ cmd'[c].epoch = cmd[c].epoch /\ cmd'[c].early = cmd[c].early
             /\ cmd'[c].over = cmd[c].over /\ cmd'[c].timed = cmd[c].timed
             /\ cmd'[c].tree \subseteq cmd[c].tree
             /\ cmd[c].pid # pid => cmd'[c] = cmd[c]
             /\ cmd[c].pid = pid /\ cmd[c].pc = "wait" => cmd'[c].tree \cap Group = {}
             /\ c \in Busy' <=> c \in Busy
  <2>1. cmd[c] \in Cmds
    BY <1>2, <1>3 DEF ShellTypes
  <2> DEFINE hit == cmd[c].hit \/ cmd[c].tree \cap Group # {}
             tree == cmd[c].tree \ Group
  <2>2. hit \in BOOLEAN /\ tree \in SUBSET Member /\ tree \subseteq cmd[c].tree /\ tree \cap Group = {}
    BY <2>1 DEF Cmds
  <2>3. KillTree(c) = [cmd[c] EXCEPT !.hit = hit, !.tree = tree]
    BY <2>1 DEF KillTree
  <2> HIDE DEF hit, tree
  <2>4. CASE cmd[c].pid = pid /\ Holds(c)
    <3>1. cmd'[c] = [cmd[c] EXCEPT !.hit = hit, !.tree = tree]
      BY <1>2, <1>3, <2>3, <2>4
    <3>2. QED
      BY <1>3, <2>1, <2>2, <2>4, <3>1 DEF Cmds, Busy
  <2>5. CASE ~(cmd[c].pid = pid /\ Holds(c))
    <3>1. cmd'[c] = cmd[c]
      BY <1>2, <1>3, <2>5
    <3>2. QED
      BY <1>3, <2>1, <2>5, <3>1 DEF Busy, Holds
  <2>6. QED
    BY <2>4, <2>5
<1>4. ShellTypes'
  <2>1. cmd' \in [Call -> Cmds]
    BY <1>2, <1>3
  <2>2. \A c \in Call : Placed(c)'
    BY <1>2, <1>3 DEF ShellTypes, Placed
  <2>3. QED
    BY <1>2, <2>1, <2>2 DEF ShellTypes
<1>5. ASSUME Kept PROVE Kept'
  <2>1. Apart' /\ Struck'
    <3>1. \A c \in Call : cmd'[c].pid = cmd[c].pid
      BY <1>3
    <3>2. QED
      BY <1>2, <1>5, <3>1 DEF Kept, Apart, Struck
  <2>2. ASSUME NEW c \in Call PROVE Sound(c)'
    <3>1. Sound(c)
      BY <1>5 DEF Kept
    <3>2. Current(c)'
      BY <1>2, <1>3, <3>1 DEF Sound, Current
    <3>3. Deserved(c)'
      <4>1. CASE cmd[c].pid = pid
        BY <1>1, <1>3, <3>1, <4>1 DEF Sound, Deserved
      <4>2. CASE cmd[c].pid # pid
        BY <1>2, <1>3, <3>1, <4>2 DEF Sound, Deserved
      <4>3. QED
        BY <4>1, <4>2
    <3>4. Reached(c)'
      <4>1. CASE cmd[c].pid = pid
        BY <1>2, <1>3, <3>1, <4>1 DEF Sound, Reached
      <4>2. CASE cmd[c].pid # pid
        BY <1>2, <1>3, <3>1, <4>2 DEF Sound, Reached
      <4>3. QED
        BY <4>1, <4>2
    <3>5. QED
      BY <3>2, <3>3, <3>4 DEF Sound
  <2>3. QED
    BY <2>1, <2>2 DEF Kept
<1>6. QED
  BY <1>2, <1>4, <1>5 DEF KillsInvariant

LEMMA NoTurnTypes == NoTurn \in Turns
<1>1. NoAgent \in Guards
  BY DEF NoAgent, Guards, EgressModes
<1>2. QED
  BY <1>1 DEF NoTurn, Turns

LEMMA TurnIsOverKeeps ==
  ASSUME KillsInvariant, TurnIsOver
  PROVE  KillsInvariant'
<1>1. turn.pc = "stopping" /\ hits = {} /\ turn' = NoTurn /\ NoTurn.pc = "idle"
      /\ UNCHANGED <<cmd, live, tool, hits, reused>>
  BY DEF TurnIsOver, shellVars, NoTurn
<1>2. NoTurn \in Turns
  BY NoTurnTypes
<1>3. ShellTypes'
  BY <1>1, <1>2 DEF KillsInvariant, ShellTypes, Placed, Busy
<1>4. Kept => Kept'
  BY <1>1 DEF Kept, Apart, Struck, Sound, Current, Reached, Deserved, Busy
<1>5. QED
  BY <1>1, <1>3, <1>4 DEF KillsInvariant

\* A process that starts, anew or again, has no commands.
LEMMA NoCommands ==
  ASSUME cmd' = [c \in Call |-> Resting], live' = [t \in Tool |-> NobodyLive],
         hits' = {}, tool' \in Tool, turn' = NoTurn
  PROVE  KillsInvariant'
<1>1. NoTurn \in Turns /\ NobodyLive \in Registries
  BY NoTurnTypes DEF NobodyLive, Registries
<1>2. \A c \in Call : cmd'[c] = Resting /\ Placed(c)' /\ Sound(c)'
  BY RestingSound
<1>3. ShellTypes'
  BY <1>1, <1>2, RestingCommand DEF ShellTypes
<1>4. Kept'
  BY <1>2, RestingCommand DEF Kept, Apart, Struck
<1>5. QED
  BY <1>3, <1>4 DEF KillsInvariant

\* The first state, as a state of its own.
LEMMA KillsStart == Init => KillsInvariant
<1>1. SUFFICES ASSUME Init PROVE KillsInvariant
  OBVIOUS
<1>2. /\ cmd = [c \in Call |-> Resting] /\ live = [t \in Tool |-> NobodyLive]
      /\ hits = {} /\ turn = NoTurn /\ tool \in Tool
  BY <1>1, ShellAssumption DEF Init, ShellInit
<1>3. NoTurn \in Turns /\ NobodyLive \in Registries
  BY NoTurnTypes DEF NobodyLive, Registries
<1>4. \A c \in Call : cmd[c] = Resting /\ Placed(c) /\ Sound(c)
  BY <1>2, RestingCommand, ShellAssumption
     DEF Sound, Placed, Current, Reached, Deserved, Busy
<1>5. ShellTypes
  BY <1>2, <1>3, <1>4, RestingCommand DEF ShellTypes
<1>6. Kept
  BY <1>2, <1>4, RestingCommand DEF Kept, Apart, Struck
<1>7. QED
  BY <1>5, <1>6 DEF KillsInvariant

LEMMA KillsStep == GuardInvariant /\ KillsInvariant /\ [Next]_vars => KillsInvariant'
<1>1. SUFFICES ASSUME GuardInvariant, KillsInvariant, [Next]_vars PROVE KillsInvariant'
  OBVIOUS
<1>2. agent \in Guards
  BY <1>1 DEF GuardInvariant, GuardTypes
<1>3. CASE UNCHANGED vars
  BY <1>1, <1>3, ShellsStay DEF vars, guardVars
<1>4. CASE Request
  BY <1>1, <1>4, ShellsStay
     DEF Request, Initialize, SetMode, PermissionsUpdate, SetGrants, SetHidden, SetProtect,
         SetSsrf, SetEgress
<1>5. CASE HideOne \/ RevealOne \/ HidingDone \/ LoadEnds \/ ChildSpawns
  BY <1>1, <1>5, ShellsStay DEF HideOne, RevealOne, HidingDone, LoadEnds, ChildSpawns
<1>6. CASE \E t \in Thread : BuildStep(t)
  BY <1>1, <1>6, ShellsStay
     DEF BuildStep, BuildReads, BuildCreates, BuildStarts, BuildTells, BuildSwaps
<1>7. CASE Crash
  <2>1. tool' \in Tool
    BY <1>1, <1>7 DEF Crash, KillsInvariant, ShellTypes
  <2>2. QED
    BY <1>7, <2>1, NoCommands DEF Crash
<1>8. CASE TurnBegins
  BY <1>1, <1>2, <1>8, TurnBeginsKeeps
<1>9. CASE \E c \in Call, escalate \in BOOLEAN : CommandStarts(c, escalate)
  BY <1>1, <1>9, CommandStartsKeeps
<1>10. CASE CommandSteps
  BY <1>1, <1>10, CommandKeeps
<1>11. CASE TurnEnds
  BY <1>1, <1>11, TurnEndsKeeps
<1>12. CASE TurnKills
  BY <1>1, <1>12, TurnKillsKeeps
<1>13. CASE TurnIsOver
  BY <1>1, <1>13, TurnIsOverKeeps
<1>14. QED
  BY <1>1, <1>3, <1>4, <1>5, <1>6, <1>7, <1>8, <1>9, <1>10, <1>11, <1>12, <1>13
     DEF Next, DispatchStep, Thread

LEMMA KillsFollow == KillsInvariant => CalmKillsAreRight
<1>1. SUFFICES ASSUME ~reused, Kept PROVE CancelledDie /\ OnlyOwnTurnKills
  BY DEF KillsInvariant, CalmKillsAreRight, CancelledDie, OnlyOwnTurnKills
<1>2. CancelledDie
  BY <1>1 DEF CancelledDie, Kept, Struck, Sound, Reached
<1>3. OnlyOwnTurnKills
  BY <1>1 DEF OnlyOwnTurnKills, Kept, Sound, Deserved
<1>4. QED
  BY <1>2, <1>3

\* However many commands, tools and turns: as long as no pid comes back while
\* somebody holds it, the end of a turn kills its commands, whether they were
\* being spawned, registered or waited for, and nobody else's.
THEOREM KillsAreRight == Spec => []CalmKillsAreRight
<1>1. Init => GuardInvariant /\ KillsInvariant
  BY GuardStarts, KillsStart
<1>2. GuardInvariant /\ KillsInvariant /\ [Next]_vars => (GuardInvariant /\ KillsInvariant)'
  BY GuardStep, KillsStep
<1>3. GuardInvariant /\ KillsInvariant => CalmKillsAreRight
  BY KillsFollow
<1>4. QED
  BY <1>1, <1>2, <1>3, PTL DEF Spec

-----------------------------------------------------------------------------
(* The labels of the Windows backend: what is Low, or may still be labelled *)
(* so, is granted.                                                          *)

LowInvariant ==
  "late" \notin odd =>
    /\ low \subseteq grants
    /\ turn.agent.grants \subseteq grants
    /\ \A c \in Call : cmd[c].folders \subseteq grants

\* A step that labels nothing and takes no grant back.
LEMMA LabelsStay ==
  ASSUME LowInvariant, low' = low, grants' = grants, odd \subseteq odd',
         "late" \notin odd' => turn'.agent.grants \subseteq grants,
         \A c \in Call : cmd'[c].folders \subseteq cmd[c].folders
  PROVE  LowInvariant'
BY DEF LowInvariant

\* No step of a command gives it other folders.
LEMMA FoldersStay ==
  ASSUME ShellTypes, NEW c \in Call,
         ThreadStep(c) \/ \E m \in Member : ProcessEnds(c, m)
  PROVE  \A d \in Call : cmd'[d].folders \subseteq cmd[d].folders
<1>1. cmd \in [Call -> Cmds]
  BY DEF ShellTypes
<1>2. CASE SpawnFails(c) \/ Return(c)
  BY <1>1, <1>2, RestingCommand DEF SpawnFails, Return, Cmds
<1>3. CASE ReadsEpoch(c) \/ Finishes(c) \/ TimesOut(c) \/ Drain(c)
  BY <1>1, <1>3 DEF ReadsEpoch, Finishes, TimesOut, Drain, Cmds
<1>4. CASE \E pid \in Pid, tree \in SUBSET {"job", "stray"} : Spawn(c, pid, {"shell"} \cup tree)
  BY <1>1, <1>4 DEF Spawn, Cmds
<1>5. CASE Add(c)
  BY <1>1, <1>5 DEF Add, Cmds
<1>6. CASE Kill(c)
  BY <1>1, <1>6 DEF Kill, KillTree, Cmds
<1>7. CASE \E m \in Member : ProcessEnds(c, m)
  BY <1>1, <1>7 DEF ProcessEnds, Cmds
<1>8. QED
  BY <1>2, <1>3, <1>4, <1>5, <1>6, <1>7 DEF ThreadStep

\* Killing a tree leaves alone what its command labelled.
LEMMA KillTreeKeepsFolders ==
  ASSUME NEW c \in Call, cmd[c] \in Cmds
  PROVE  KillTree(c).folders = cmd[c].folders
<1> DEFINE hit == cmd[c].hit \/ cmd[c].tree \cap Group # {}
           tree == cmd[c].tree \ Group
<1>1. KillTree(c) = [cmd[c] EXCEPT !.hit = hit, !.tree = tree]
  BY DEF KillTree, Cmds
<1> HIDE DEF hit, tree
<1>2. QED
  BY <1>1 DEF Cmds

\* The labels, through every step of the session.
LEMMA LowStep == KillsInvariant /\ LowInvariant /\ [Next]_vars => LowInvariant'
<1>1. SUFFICES ASSUME KillsInvariant, LowInvariant, [Next]_vars PROVE LowInvariant'
  OBVIOUS
<1>2. ShellTypes /\ cmd \in [Call -> Cmds] /\ turn \in Turns
  BY <1>1 DEF KillsInvariant, ShellTypes
<1>3. "late" \notin odd => turn.agent.grants \subseteq grants
  BY <1>1 DEF LowInvariant
<1>4. CASE UNCHANGED vars
  BY <1>1, <1>3, <1>4, LabelsStay DEF vars, guardVars, settingVars, shellVars
<1>5. CASE Request
  <2>1. CASE \E folders \in SUBSET Grantable : SetGrants(folders)
    BY <1>1, <2>1 DEF SetGrants, Regrant, Late, LowInvariant, shellVars
  <2>2. CASE ~\E folders \in SUBSET Grantable : SetGrants(folders)
    BY <1>1, <1>3, <1>5, <2>2, LabelsStay
       DEF Request, Initialize, SetMode, PermissionsUpdate, SetHidden, SetProtect, SetSsrf,
           SetEgress, shellVars, settingVars
  <2>3. QED
    BY <2>1, <2>2
<1>6. CASE HideOne \/ RevealOne \/ HidingDone \/ LoadEnds \/ ChildSpawns
  BY <1>1, <1>3, <1>6, LabelsStay
     DEF HideOne, RevealOne, HidingDone, LoadEnds, ChildSpawns, shellVars, settingVars
<1>7. CASE \E t \in Thread : BuildStep(t)
  BY <1>1, <1>3, <1>7, LabelsStay
     DEF BuildStep, BuildReads, BuildCreates, BuildStarts, BuildTells, BuildSwaps,
         shellVars, settingVars
<1>8. CASE Crash
  <2>1. low' = low /\ grants' = grants /\ odd \subseteq odd' /\ turn'.agent.grants = {}
    BY <1>8 DEF Crash, NoTurn, NoAgent
  <2>2. \A c \in Call : cmd'[c].folders = {}
    BY <1>8, RestingCommand DEF Crash
  <2>3. QED
    BY <1>1, <2>1, <2>2, LabelsStay
<1>9. CASE TurnBegins
  <2>1. turn'.agent = agent
    BY <1>9 DEF TurnBegins, NoTurn
  <2>2. cmd' = cmd /\ low' = low /\ grants' = grants
        /\ odd' = IF agent.grants \subseteq grants THEN odd ELSE odd \cup {"late"}
    BY <1>9 DEF TurnBegins, TakeFreshTool, shellVars, settingVars
  <2>3. QED
    BY <1>1, <2>1, <2>2, LabelsStay
<1>10. CASE \E c \in Call, escalate \in BOOLEAN : CommandStarts(c, escalate)
  <2>1. PICK c \in Call, escalate \in BOOLEAN : CommandStarts(c, escalate)
    BY <1>10
  <2>2. low' = low /\ grants' = grants /\ odd' = odd /\ turn'.agent = turn.agent
    BY <1>2, <2>1 DEF CommandStarts, settingVars, Turns
  <2>3. \A d \in Call : cmd'[d].folders \subseteq cmd[d].folders \cup turn.agent.grants
    BY <1>2, <2>1 DEF CommandStarts, Execute, Resting, Cmds
  <2>4. QED
    BY <1>1, <2>2, <2>3 DEF LowInvariant
<1>11. CASE CommandSteps
  <2>1. PICK c \in Call : ThreadStep(c) \/ \E m \in Member : ProcessEnds(c, m)
    BY <1>11 DEF CommandSteps, CommandStep
  <2>2. \A d \in Call : cmd'[d].folders \subseteq cmd[d].folders
    BY <1>2, <2>1, FoldersStay
  <2>3. grants' = grants /\ odd' = odd /\ turn'.agent = turn.agent
        /\ low' \subseteq low \cup UNION {cmd[d].folders : d \in Call}
    BY <1>2, <1>11 DEF CommandSteps, CommandEffects, settingVars, Turns
  <2>4. QED
    BY <1>1, <2>2, <2>3 DEF LowInvariant
<1>12. CASE TurnEnds
  <2>1. low' = low /\ grants' = grants /\ odd' = odd /\ turn'.agent = turn.agent
    BY <1>2, <1>12 DEF TurnEnds, settingVars, Turns
  <2>2. \A c \in Call : cmd'[c].folders = cmd[c].folders
    BY <1>2, <1>12 DEF TurnEnds, CancelAll, Cmds
  <2>3. QED
    BY <1>1, <1>3, <2>1, <2>2, LabelsStay
<1>13. CASE TurnKills
  <2>1. low' = low /\ grants' = grants /\ odd' = odd /\ turn' = turn
    BY <1>13 DEF TurnKills, guardVars, settingVars
  <2>2. PICK pid \in hits : KillHit(pid)
    BY <1>13 DEF TurnKills
  <2>3. ASSUME NEW c \in Call
        PROVE  cmd'[c].folders = cmd[c].folders
    <3>1. cmd'[c] = IF cmd[c].pid = pid /\ Holds(c) THEN KillTree(c) ELSE cmd[c]
      BY <2>2, <2>3 DEF KillHit
    <3>2. KillTree(c).folders = cmd[c].folders
      BY <1>2, <2>3, KillTreeKeepsFolders
    <3>3. QED
      BY <3>1, <3>2
  <2>4. QED
    BY <1>1, <1>3, <2>1, <2>3, LabelsStay
<1>14. CASE TurnIsOver
  BY <1>1, <1>14, LabelsStay DEF TurnIsOver, NoTurn, NoAgent, shellVars, settingVars
<1>15. QED
  BY <1>1, <1>4, <1>5, <1>6, <1>7, <1>8, <1>9, <1>10, <1>11, <1>12, <1>13, <1>14
     DEF Next, DispatchStep, Thread

\* However often folders are granted and taken back: one that is still labelled
\* Low is granted, unless a turn or a command that began with it was running
\* when it was taken back.
THEOREM LowIsGranted == Spec => []CalmLowIsGranted
<1>1. Init => GuardInvariant /\ KillsInvariant /\ LowInvariant
  <2>1. Init => LowInvariant
    BY RestingCommand DEF Init, ShellInit, LowInvariant, NoTurn, NoAgent
  <2>2. QED
    BY <2>1, GuardStarts, KillsStart
<1>2. GuardInvariant /\ KillsInvariant /\ LowInvariant /\ [Next]_vars
        => (GuardInvariant /\ KillsInvariant /\ LowInvariant)'
  BY GuardStep, KillsStep, LowStep
<1>3. LowInvariant => CalmLowIsGranted
  BY DEF LowInvariant, CalmLowIsGranted
<1>4. QED
  BY <1>1, <1>2, <1>3, PTL DEF Spec

-----------------------------------------------------------------------------
(* The filtering proxy.                                                    *)

Servers == [Proxy -> [up : BOOLEAN, told : BOOLEAN]]

\* The threads that build the session's agent, and the proxy of its builder.
Sessions == {"dispatch", "loader"}
Mine == slot["session"].proxy

\* The builder's proxy is open and knows its address.
Heard == Mine # NoProxy /\ server[Mine].up /\ server[Mine].told

\* An agent's commands go through the builder's proxy, or there is none.
Served(g) ==
  IF g.egress = "proxy" THEN Heard /\ g.proxy = Mine /\ slot["session"].allow = g.allow
  ELSE Mine = NoProxy

\* No port is open but the builder's.
Ports == \A q \in Proxy : server[q].up => q = Mine

\* Threads build one at a time.
Alone == \A t, u \in Thread : job[t].pc \in Building /\ job[u].pc \in Building => t = u

\* A builder's proxy is open, except between its creation and the end of start().
Open == Mine # NoProxy /\ (\A t \in Sessions : job[t].pc \notin {"start", "tell"}) => Heard

\* How far a build of the session's has come with the proxy it needs.
BuildIsSound(t) ==
  LET d == job[t].draft IN
  /\ job[t].pc \in {"create", "start", "tell"} =>
        /\ d.mode # "plan" /\ d.egress = "proxy"
        /\ Mine = NoProxy \/ slot["session"].allow = d.allow
  /\ job[t].pc \in {"start", "tell"} => Mine # NoProxy
  /\ job[t].pc = "start" => (server[Mine].up => server[Mine].told)
  /\ job[t].pc = "tell" => d.proxy = Mine /\ server[Mine].up
  /\ job[t].pc = "swap" /\ d.mode # "plan" => Served(d)

Builds == \A t \in Sessions : BuildIsSound(t)

\* The agent is served unless a build is due or under way.
AgentIsServed ==
  agent # NoAgent /\ agent.mode # "plan" /\ job["dispatch"].pc \notin Building \cup {"read"}
    /\ job["loader"].pc \notin Building => Served(agent)

\* A subagent's builder has the session's proxy or none, and has nothing to start.
ChildShares ==
  /\ job["turn"].pc \in Building \cup {"read"} => slot["child"].proxy \in {NoProxy, Mine}
  /\ job["turn"].pc = "start" => slot["child"].proxy # NoProxy
  /\ job["turn"].pc # "tell"

ProxyIsOrderly == Ports /\ Alone /\ Open /\ Builds /\ AgentIsServed /\ ChildShares

\* The builds of the session did not overlap, and no subagent touched a proxy.
Calm == "overlap" \notin odd /\ "child" \notin odd

ProxyInvariant ==
  /\ server \in Servers
  /\ load # "none" => job["loader"].pc = "idle"
  /\ Calm => ProxyIsOrderly

\* What the proofs below need of the types.
LEMMA ProxyStates ==
  ASSUME GuardTypes
  PROVE  /\ job \in [Thread -> Jobs] /\ slot \in [Holder -> Slots] /\ agent \in Guards
         /\ Mine \in Proxy \cup {NoProxy} /\ slot["child"].proxy \in Proxy \cup {NoProxy}
         /\ slot["session"] \in Slots /\ slot["child"] \in Slots
         /\ \A t \in Thread : job[t] \in Jobs /\ job[t].draft \in Guards
<1>1. job \in [Thread -> Jobs] /\ slot \in [Holder -> Slots] /\ agent \in Guards
  BY DEF GuardTypes
<1>2. slot["session"] \in Slots /\ slot["child"] \in Slots
  BY <1>1 DEF Holder
<1>3. \A t \in Thread : job[t] \in Jobs
  BY <1>1
<1>4. QED
  BY <1>1, <1>2, <1>3 DEF Mine, Slots, Jobs

LEMMA ProxyStarts == Init => ProxyInvariant
<1>1. SUFFICES ASSUME Init PROVE ProxyInvariant
  OBVIOUS
<1>2. server = [q \in Proxy |-> Closed] /\ slot = [h \in Holder |-> EmptySlot]
      /\ job = [t \in Thread |-> IF t = "dispatch" THEN [Free EXCEPT !.pc = "read"] ELSE Free]
      /\ agent = NoAgent
  BY <1>1 DEF Init
<1>3. server \in Servers /\ \A q \in Proxy : ~server[q].up
  BY <1>2 DEF Servers, Closed
<1>4. [Free EXCEPT !.pc = "read"].pc = "read" /\ Free.pc = "idle"
  BY DEF Free
<1>5. job["dispatch"].pc = "read" /\ job["loader"].pc = "idle" /\ job["turn"].pc = "idle"
  BY <1>2, <1>4 DEF Thread
<1>6. Mine = NoProxy /\ slot["child"] = EmptySlot
  BY <1>2 DEF Mine, Holder, EmptySlot
<1>7. Ports /\ Open /\ AgentIsServed
  BY <1>2, <1>3, <1>6 DEF Ports, Open, AgentIsServed
<1>8. Alone
  BY <1>5 DEF Alone, Thread, Building
<1>9. Builds
  BY <1>5 DEF Builds, BuildIsSound, Sessions
<1>10. ChildShares
  BY <1>5 DEF ChildShares, Building
<1>11. QED
  BY <1>3, <1>5, <1>7, <1>8, <1>9, <1>10 DEF ProxyInvariant, ProxyIsOrderly

\* A thread that does not build asks nothing of the proxy.
LEMMA RestingBuild ==
  ASSUME NEW t, job[t].pc \notin Building
  PROVE  BuildIsSound(t)
BY DEF BuildIsSound, Building

\* A step that leaves the proxy, the builds and the agent alone.
LEMMA ProxyStays ==
  ASSUME ProxyInvariant, UNCHANGED <<slot, server, job, agent, load>>, odd \subseteq odd'
  PROVE  ProxyInvariant'
<1>1. ProxyIsOrderly => ProxyIsOrderly'
  BY DEF ProxyIsOrderly, Ports, Alone, Open, Builds, BuildIsSound, AgentIsServed, ChildShares,
         Mine, Heard, Served
<1>2. QED
  BY <1>1 DEF ProxyInvariant, Calm

\* A request that leads to a build, or the first of its writes.
LEMMA ProxyRequested ==
  ASSUME GuardTypes, ProxyInvariant, NEW pc \in {"read", "hide"}, NEW want \in SUBSET Hideable,
         Dispatch(pc, want), UNCHANGED <<slot, server, agent, load>>, odd \subseteq odd',
         job["dispatch"].pc = "idle" \/ (job["dispatch"].pc = "hide" /\ pc = "read")
  PROVE  ProxyInvariant'
<1>1. job' \in [Thread -> Jobs] /\ job'["dispatch"].pc = pc
  BY Handed
<1>2. job'["loader"] = job["loader"] /\ job'["turn"] = job["turn"]
  BY ProxyStates DEF Dispatch, Thread
<1>3. Calm' => Calm
  BY DEF Calm
<1>4. ASSUME ProxyIsOrderly PROVE ProxyIsOrderly'
  <2>1. Ports' /\ ChildShares'
    BY <1>2, <1>4 DEF ProxyIsOrderly, Ports, ChildShares, Mine
  <2>2. Alone'
    BY <1>1, <1>2, <1>4 DEF ProxyIsOrderly, Alone, Thread, Building
  <2>3. Open'
    BY <1>1, <1>2, <1>4 DEF ProxyIsOrderly, Open, Sessions, Heard, Mine
  <2>4. BuildIsSound("dispatch")'
    BY <1>1 DEF BuildIsSound
  <2>5. BuildIsSound("loader")'
    BY <1>2, <1>4 DEF ProxyIsOrderly, Builds, Sessions, BuildIsSound, Served, Heard, Mine
  <2>6. AgentIsServed'
    BY <1>1, <1>2, <1>4 DEF ProxyIsOrderly, AgentIsServed, Building, Served, Heard, Mine
  <2>7. QED
    BY <2>1, <2>2, <2>3, <2>4, <2>5, <2>6 DEF ProxyIsOrderly, Builds, Sessions
<1>5. QED
  BY <1>2, <1>3, <1>4 DEF ProxyInvariant

\* Stopping the builder's proxy closes the only port, or there was none.
LEMMA ProxyStopped ==
  ASSUME GuardTypes, server \in Servers, Ports, StopProxy("session")
  PROVE  /\ server' \in Servers /\ \A q \in Proxy : ~server'[q].up
         /\ Mine' = NoProxy /\ slot'["child"] = slot["child"]
         /\ slot'["session"] = EmptySlot
<1>1. slot'["session"] = EmptySlot /\ slot'["child"] = slot["child"]
  BY ProxyStates DEF StopProxy, Holder
<1>2. Closed \in [up : BOOLEAN, told : BOOLEAN] /\ ~Closed.up
  BY DEF Closed
<1>3. server' = IF Mine = NoProxy THEN server ELSE [server EXCEPT ![Mine] = Closed]
  BY DEF StopProxy, Mine
<1>4. Mine \in Proxy \cup {NoProxy} /\ NoProxy \notin Proxy
  BY ProxyStates, GuardAssumption
<1>5. server' \in Servers
  BY <1>2, <1>3, <1>4 DEF Servers
<1>6. ASSUME NEW q \in Proxy PROVE ~server'[q].up
  <2>1. CASE Mine = NoProxy
    BY <1>3, <1>4, <2>1 DEF Ports
  <2>2. CASE Mine # NoProxy /\ q = Mine
    BY <1>2, <1>3, <2>2 DEF Servers
  <2>3. CASE Mine # NoProxy /\ q # Mine
    BY <1>3, <2>3 DEF Ports, Servers
  <2>4. QED
    BY <2>1, <2>2, <2>3
<1>7. QED
  BY <1>1, <1>5, <1>6 DEF Mine, EmptySlot

\* The types of the servers, whatever the order of events.
LEMMA ServersKept ==
  ASSUME GuardTypes, server \in Servers, NEW h \in Holder, StopProxy(h)
  PROVE  server' \in Servers
<1>1. slot[h].proxy \in Proxy \cup {NoProxy}
  BY ProxyStates DEF Holder, Mine
<1>2. Closed \in [up : BOOLEAN, told : BOOLEAN]
  BY DEF Closed
<1>3. QED
  BY <1>1, <1>2 DEF StopProxy, Servers

LEMMA ProxyRequests ==
  ASSUME GuardTypes, ProxyInvariant, Request
  PROVE  ProxyInvariant'
<1>1. {} \in SUBSET Hideable
  OBVIOUS
<1>2. ASSUME NEW m \in Modes, Initialize(m) PROVE ProxyInvariant'
  <2>1. /\ StopProxy("session") /\ Dispatch("read", {}) /\ job["loader"].pc = "idle"
        /\ agent' = agent /\ odd' = odd \cup Overlap("dispatch")
    BY <1>2 DEF Initialize
  <2>2. job'["dispatch"].pc = "read"
    BY <1>1, <2>1, Handed
  <2>3. job'["loader"] = job["loader"] /\ job'["turn"] = job["turn"]
    BY <2>1, ProxyStates DEF Dispatch, Thread
  <2>4. server' \in Servers
    BY <2>1, ServersKept DEF ProxyInvariant, Holder
  <2>5. ASSUME Calm' PROVE ProxyIsOrderly'
    <3>1. ProxyIsOrderly /\ Overlap("dispatch") = {}
      BY <2>1, <2>5 DEF ProxyInvariant, Calm, Overlap
    <3>2. job["turn"].pc \notin Building \cup {"read"}
      BY <3>1 DEF Overlap, Thread, Building
    <3>3. /\ Mine' = NoProxy /\ slot'["child"] = slot["child"]
          /\ \A q \in Proxy : ~server'[q].up
      BY <2>1, <3>1, ProxyStopped DEF ProxyInvariant, ProxyIsOrderly
    <3>4. Ports' /\ Open' /\ AgentIsServed'
      BY <2>2, <3>3 DEF Ports, Open, AgentIsServed
    <3>5. Alone'
      BY <2>1, <2>2, <2>3, <3>2 DEF Alone, Thread, Building
    <3>6. Builds'
      BY <2>1, <2>2, <2>3 DEF Builds, BuildIsSound, Sessions
    <3>7. ChildShares'
      BY <2>3, <3>1, <3>2, <3>3 DEF ProxyIsOrderly, ChildShares, Building
    <3>8. QED
      BY <3>4, <3>5, <3>6, <3>7 DEF ProxyIsOrderly
  <2>6. QED
    BY <2>1, <2>3, <2>4, <2>5 DEF ProxyInvariant
<1>3. ASSUME NEW m \in Modes, SetMode(m) PROVE ProxyInvariant'
  BY <1>1, <1>3, ProxyRequested DEF SetMode, DispatchIdle
<1>4. ASSUME PermissionsUpdate PROVE ProxyInvariant'
  BY <1>4, ProxyStays DEF PermissionsUpdate
<1>5. ASSUME NEW folders \in SUBSET Grantable, SetGrants(folders) PROVE ProxyInvariant'
  BY <1>1, <1>5, ProxyRequested DEF SetGrants, DispatchIdle
<1>6. ASSUME NEW paths \in SUBSET Hideable, SetHidden(paths) PROVE ProxyInvariant'
  BY <1>6, ProxyRequested DEF SetHidden, DispatchIdle
<1>7. ASSUME SetProtect PROVE ProxyInvariant'
  BY <1>1, <1>7, ProxyRequested DEF SetProtect, DispatchIdle
<1>8. ASSUME NEW list \in AllowList, SetSsrf(list) PROVE ProxyInvariant'
  BY <1>8, ProxyStays DEF SetSsrf
<1>9. ASSUME NEW m \in EgressModes, SetEgress(m) PROVE ProxyInvariant'
  BY <1>1, <1>9, ProxyRequested DEF SetEgress, DispatchIdle
<1>10. QED
  BY <1>2, <1>3, <1>4, <1>5, <1>6, <1>7, <1>8, <1>9 DEF Request

LEMMA ProxyHiding ==
  ASSUME GuardTypes, ProxyInvariant, HideOne \/ RevealOne \/ HidingDone
  PROVE  ProxyInvariant'
<1>1. CASE HideOne \/ RevealOne
  BY <1>1, ProxyStays DEF HideOne, RevealOne
<1>2. CASE HidingDone
  <2>1. {} \in SUBSET Hideable
    OBVIOUS
  <2>2. QED
    BY <1>2, <2>1, ProxyRequested DEF HidingDone, Hiding
<1>3. QED
  BY <1>1, <1>2

-----------------------------------------------------------------------------
(* The session's builds.                                                   *)

\* What only a thread's pc and draft could disturb, while the others rest.
LEMMA OthersRest ==
  ASSUME NEW t \in Sessions, Alone, job[t].pc \in Building
  PROVE  \A u \in Thread \ {t} : job[u].pc \notin Building
BY DEF Alone, Thread, Sessions

LEMMA OnlyOneBuilds ==
  ASSUME NEW t \in Thread, \A u \in Thread \ {t} : job'[u] = job[u],
         \A u \in Thread \ {t} : job[u].pc \notin Building
  PROVE  Alone'
BY DEF Alone

\* While one thread of the session builds, the invariant is about that build.
LEMMA BuildGoesOn ==
  ASSUME NEW t \in Sessions, \A u \in Thread \ {t} : job'[u] = job[u],
         \A u \in Thread \ {t} : job[u].pc \notin Building,
         job'[t].pc \in Building, Ports', Open', BuildIsSound(t)', ChildShares'
  PROVE  ProxyIsOrderly'
<1>1. Alone'
  BY OnlyOneBuilds DEF Sessions, Thread
<1>2. \A u \in Sessions \ {t} : job'[u].pc \notin Building
  BY DEF Sessions, Thread
<1>3. \A u \in Sessions \ {t} : BuildIsSound(u)'
  BY <1>2, RestingBuild DEF BuildIsSound, Building
<1>4. Builds'
  BY <1>3 DEF Builds
<1>5. AgentIsServed'
  BY DEF AgentIsServed, Sessions
<1>6. QED
  BY <1>1, <1>4, <1>5 DEF ProxyIsOrderly

\* A draft keeps all but the proxy it is told of.
LEMMA DraftKeeps ==
  ASSUME GuardTypes, NEW t \in Thread, NEW q \in Proxy \cup {NoProxy}, NEW pc \in Building,
         job' = [job EXCEPT ![t].pc = pc, ![t].draft.proxy = q]
  PROVE  /\ job'[t].pc = pc /\ job'[t].draft.proxy = q
         /\ job'[t].draft.mode = job[t].draft.mode
         /\ job'[t].draft.egress = job[t].draft.egress
         /\ job'[t].draft.allow = job[t].draft.allow
<1>1. job \in [Thread -> Jobs] /\ job[t] \in Jobs /\ job[t].draft \in Guards
  BY ProxyStates
<1>2. job'[t] = [job[t] EXCEPT !.pc = pc, !.draft = [job[t].draft EXCEPT !.proxy = q]]
  BY <1>1 DEF Jobs
<1>3. job'[t].pc = pc /\ job'[t].draft = [job[t].draft EXCEPT !.proxy = q]
  BY <1>1, <1>2 DEF Jobs
<1>4. QED
  BY <1>1, <1>3 DEF Guards

LEMMA ServerTypes ==
  ASSUME GuardTypes, server \in Servers, NEW t \in Thread, BuildStep(t)
  PROVE  server' \in Servers
<1>1. HolderOf(t) \in Holder
  BY DEF HolderOf, Holder
<1>2. CASE BuildReads(t)
  BY <1>1, <1>2, ServersKept DEF BuildReads
<1>3. CASE BuildCreates(t) \/ BuildSwaps(t)
  BY <1>3 DEF BuildCreates, BuildSwaps
<1>4. CASE BuildStarts(t)
  BY <1>4 DEF BuildStarts, Servers
<1>5. CASE BuildTells(t)
  <2>1. CASE job[t].draft.proxy \in Proxy
    BY <1>5, <2>1 DEF BuildTells, Servers
  <2>2. CASE job[t].draft.proxy \notin Proxy
    <3>1. server' = server
      BY <1>5, <2>2 DEF BuildTells, Servers
    <3>2. QED
      BY <3>1
  <2>3. QED
    BY <2>1, <2>2
<1>6. QED
  BY <1>2, <1>3, <1>4, <1>5 DEF BuildStep

\* A build is of a thread that is not idle.
LEMMA LoadStays ==
  ASSUME GuardTypes, ProxyInvariant, NEW t \in Thread, BuildStep(t)
  PROVE  load' # "none" => job'["loader"].pc = "idle"
<1>1. job[t].pc # "idle"
  BY DEF BuildStep, BuildReads, BuildCreates, BuildStarts, BuildTells, BuildSwaps
<1>2. \A u \in Thread \ {t} : job'[u] = job[u]
  BY BuildTouches
<1>3. load' # "none" => load # "none"
  BY DEF BuildStep, BuildReads, BuildCreates, BuildStarts, BuildTells, BuildSwaps
<1>4. QED
  BY <1>1, <1>2, <1>3 DEF ProxyInvariant, Thread

LEMMA SessionReads ==
  ASSUME GuardTypes, server \in Servers, ProxyIsOrderly, NEW t \in Sessions,
         BuildReads(t), Calm'
  PROVE  ProxyIsOrderly'
<1>1. t \in Thread /\ HolderOf(t) = "session" /\ job[t].pc = "read"
  BY DEF Sessions, Thread, HolderOf, BuildReads
<1>2. \A u \in Thread \ {t} : job'[u] = job[u]
  BY <1>1, BuildTouches DEF BuildStep
<1>3. Overlap(t) = {}
  BY DEF BuildReads, Calm, Overlap
<1>4. /\ \A u \in Thread \ {t} : job[u].pc \notin Building
      /\ job["turn"].pc \notin Building \cup {"read"}
  BY <1>3 DEF Overlap, Sessions, Thread, Building
<1>5. DEFINE proxied == asked \notin {"plan", "yolo"} /\ egress = "proxy"
             stale == Mine # NoProxy /\ slot["session"].allow # allow
             pc == IF proxied THEN "create" ELSE "swap"
<1>6. job' = [job EXCEPT ![t].pc = pc, ![t].draft = Draft]
      /\ IF asked # "plan" /\ (~proxied \/ stale) THEN StopProxy("session") ELSE UNCHANGED <<slot, server>>
  BY <1>1 DEF BuildReads, Mine
<1>7. job'[t].pc = pc /\ job'[t].draft = Draft
  BY <1>1, <1>6, Drafted, ProxyStates, DraftFollows DEF Building
<1>8. /\ Draft.mode = asked /\ Draft.allow = allow
      /\ Draft.egress = IF asked = "yolo" THEN "shared" ELSE egress
  BY DEF Draft
<1>9. job'["turn"].pc \notin Building \cup {"read"}
  BY <1>2, <1>4 DEF Sessions, Thread
<1>10. CASE asked # "plan" /\ (~proxied \/ stale)
  <2>1. /\ Mine' = NoProxy /\ slot'["child"] = slot["child"]
        /\ \A q \in Proxy : ~server'[q].up
    BY <1>6, <1>10, ProxyStopped DEF ProxyIsOrderly
  <2>2. Ports' /\ Open'
    BY <2>1 DEF Ports, Open
  <2>3. ChildShares'
    BY <1>9, <2>1 DEF ProxyIsOrderly, ChildShares, Building
  <2>4. BuildIsSound(t)'
    <3>1. CASE proxied
      BY <1>7, <1>8, <2>1, <3>1 DEF BuildIsSound
    <3>2. CASE ~proxied
      <4>1. Draft.egress # "proxy"
        BY <1>8, <1>10, <3>2
      <4>2. Served(job[t].draft)'
        BY <1>7, <2>1, <4>1 DEF Served
      <4>3. QED
        BY <1>7, <3>2, <4>2 DEF BuildIsSound
    <3>3. QED
      BY <3>1, <3>2
  <2>5. QED
    BY <1>2, <1>4, <1>7, <2>2, <2>3, <2>4, BuildGoesOn DEF Building
<1>11. CASE ~(asked # "plan" /\ (~proxied \/ stale))
  <2>1. UNCHANGED <<slot, server>>
    BY <1>6, <1>11
  <2>2. Mine' = Mine
    BY <2>1 DEF Mine
  <2>3. Ports' /\ Mine \in Proxy \cup {NoProxy} 
    BY <2>1, <2>2, ProxyStates DEF ProxyIsOrderly, Ports
  <2>4. Mine # NoProxy => Heard
    BY <1>1, <1>4 DEF ProxyIsOrderly, Open, Sessions, Building, Thread
  <2>5. Open'
    BY <2>1, <2>2, <2>4 DEF Open, Heard
  <2>6. ChildShares'
    BY <1>9, <2>1 DEF ProxyIsOrderly, ChildShares, Building
  <2>7. BuildIsSound(t)'
    BY <1>7, <1>8, <1>11, <2>1, <2>2 DEF BuildIsSound
  <2>8. QED
    BY <1>2, <1>4, <1>7, <2>3, <2>5, <2>6, <2>7, BuildGoesOn DEF Building
<1>12. QED
  BY <1>10, <1>11

LEMMA SessionCreates ==
  ASSUME GuardTypes, server \in Servers, ProxyIsOrderly, NEW t \in Sessions,
         BuildCreates(t), Calm'
  PROVE  ProxyIsOrderly'
<1>1. t \in Thread /\ HolderOf(t) = "session" /\ job[t].pc = "create" /\ server' = server
      /\ job' = [job EXCEPT ![t].pc = "start"]
  BY DEF Sessions, Thread, HolderOf, BuildCreates
<1>2. \A u \in Thread \ {t} : job'[u] = job[u]
  BY <1>1, BuildTouches DEF BuildStep
<1>3. \A u \in Thread \ {t} : job[u].pc \notin Building
  BY <1>1, OthersRest DEF ProxyIsOrderly, Building
<1>4. job'[t].pc = "start" /\ job'[t].draft = job[t].draft
  BY <1>1, Moved, ProxyStates DEF Building
<1>5. Open'
  BY <1>4 DEF Open
<1>6. /\ job[t].draft.mode # "plan" /\ job[t].draft.egress = "proxy"
      /\ Mine = NoProxy \/ slot["session"].allow = job[t].draft.allow
  BY <1>1 DEF ProxyIsOrderly, Builds, BuildIsSound
<1>7. Mine \in Proxy \cup {NoProxy} /\ NoProxy \notin Proxy
  BY ProxyStates, GuardAssumption
<1>8. job'["turn"] = job["turn"] /\ job["turn"].pc \notin Building
  BY <1>2, <1>3 DEF Sessions, Thread
<1>9. CASE Mine # NoProxy
  <2>1. slot' = slot
    BY <1>1, <1>9 DEF BuildCreates, Mine
  <2>2. Heard
    BY <1>1, <1>3, <1>9 DEF ProxyIsOrderly, Open, Sessions, Building, Thread
  <2>3. Ports' /\ ChildShares'
    BY <1>1, <1>8, <2>1 DEF ProxyIsOrderly, Ports, Mine, ChildShares
  <2>4. BuildIsSound(t)'
    BY <1>1, <1>4, <1>6, <1>9, <2>1, <2>2 DEF BuildIsSound, Mine, Heard
  <2>5. QED
    BY <1>2, <1>3, <1>4, <1>5, <2>3, <2>4, BuildGoesOn DEF Building
<1>10. CASE Mine = NoProxy
  <2>1. PICK q \in Proxy :
          slot' = [slot EXCEPT !["session"] = [proxy |-> q, allow |-> job[t].draft.allow]]
    BY <1>1, <1>10 DEF BuildCreates, Mine, Unused
  <2>2. /\ Mine' = q /\ slot'["session"].allow = job[t].draft.allow
        /\ slot'["child"] = slot["child"]
    BY <2>1, ProxyStates DEF Mine, Holder
  <2>3. \A p \in Proxy : ~server'[p].up
    BY <1>1, <1>7, <1>10 DEF ProxyIsOrderly, Ports
  <2>4. Ports'
    BY <2>3 DEF Ports
  <2>5. ChildShares'
    <3>1. job["turn"].pc = "read" => slot["child"].proxy = NoProxy
      BY <1>10 DEF ProxyIsOrderly, ChildShares
    <3>2. QED
      BY <1>8, <2>2, <3>1 DEF ProxyIsOrderly, ChildShares
  <2>6. BuildIsSound(t)'
    BY <1>4, <1>6, <1>7, <2>2, <2>3 DEF BuildIsSound
  <2>7. QED
    BY <1>2, <1>3, <1>4, <1>5, <2>4, <2>5, <2>6, BuildGoesOn DEF Building
<1>11. QED
  BY <1>9, <1>10

LEMMA SessionStarts ==
  ASSUME GuardTypes, server \in Servers, ProxyIsOrderly, NEW t \in Sessions,
         BuildStarts(t), Calm'
  PROVE  ProxyIsOrderly'
<1>1. t \in Thread /\ HolderOf(t) = "session" /\ job[t].pc = "start" /\ slot' = slot
  BY DEF Sessions, Thread, HolderOf, BuildStarts
<1>2. \A u \in Thread \ {t} : job'[u] = job[u]
  BY <1>1, BuildTouches DEF BuildStep
<1>3. \A u \in Thread \ {t} : job[u].pc \notin Building
  BY <1>1, OthersRest DEF ProxyIsOrderly, Building
<1>4. job'["turn"] = job["turn"] /\ job["turn"].pc \notin Building
  BY <1>2, <1>3 DEF Sessions, Thread
<1>5. ChildShares' /\ Mine' = Mine
  BY <1>1, <1>4 DEF ProxyIsOrderly, ChildShares, Mine
<1>6. /\ job[t].draft.mode # "plan" /\ job[t].draft.egress = "proxy" /\ Mine # NoProxy
      /\ slot["session"].allow = job[t].draft.allow
      /\ server[Mine].up => server[Mine].told
  BY <1>1 DEF ProxyIsOrderly, Builds, BuildIsSound
<1>7. Mine \in Proxy
  BY <1>6, ProxyStates
<1>8. CASE server[Mine].up
  <2>1. server' = server /\ job' = [job EXCEPT ![t].pc = "swap", ![t].draft.proxy = Mine]
    BY <1>1, <1>6, <1>8 DEF BuildStarts, Mine
  <2>2. /\ job'[t].pc = "swap" /\ job'[t].draft.proxy = Mine
        /\ job'[t].draft.mode = job[t].draft.mode
        /\ job'[t].draft.egress = job[t].draft.egress
        /\ job'[t].draft.allow = job[t].draft.allow
    BY <1>1, <1>7, <2>1, DraftKeeps DEF Building
  <2>3. Heard'
    BY <1>5, <1>6, <1>8, <2>1 DEF Heard
  <2>4. Ports' /\ Open'
    BY <1>5, <2>1, <2>3 DEF ProxyIsOrderly, Ports, Open
  <2>5. BuildIsSound(t)'
    BY <1>1, <1>5, <1>6, <2>2, <2>3 DEF BuildIsSound, Served
  <2>6. QED
    BY <1>2, <1>3, <1>5, <2>2, <2>4, <2>5, BuildGoesOn DEF Building
<1>9. CASE ~server[Mine].up
  <2>1. server' = [server EXCEPT ![Mine].up = TRUE]
        /\ job' = [job EXCEPT ![t].pc = "tell", ![t].draft.proxy = Mine]
    BY <1>1, <1>6, <1>9 DEF BuildStarts, Mine
  <2>2. /\ job'[t].pc = "tell" /\ job'[t].draft.proxy = Mine
        /\ job'[t].draft.mode = job[t].draft.mode
        /\ job'[t].draft.egress = job[t].draft.egress
        /\ job'[t].draft.allow = job[t].draft.allow
    BY <1>1, <1>7, <2>1, DraftKeeps DEF Building
  <2>3. server'[Mine].up /\ \A q \in Proxy : q # Mine => server'[q] = server[q]
    BY <1>7, <2>1 DEF Servers
  <2>4. Ports' /\ Open'
    BY <1>5, <2>2, <2>3 DEF ProxyIsOrderly, Ports, Open
  <2>5. BuildIsSound(t)'
    BY <1>1, <1>5, <1>6, <2>2, <2>3 DEF BuildIsSound
  <2>6. QED
    BY <1>2, <1>3, <1>5, <2>2, <2>4, <2>5, BuildGoesOn DEF Building
<1>10. QED
  BY <1>8, <1>9

LEMMA SessionTells ==
  ASSUME GuardTypes, server \in Servers, ProxyIsOrderly, NEW t \in Sessions,
         BuildTells(t), Calm'
  PROVE  ProxyIsOrderly'
<1>1. t \in Thread /\ job[t].pc = "tell" /\ slot' = slot /\ job' = [job EXCEPT ![t].pc = "swap"]
  BY DEF Sessions, Thread, BuildTells
<1>2. \A u \in Thread \ {t} : job'[u] = job[u]
  BY <1>1, BuildTouches DEF BuildStep
<1>3. \A u \in Thread \ {t} : job[u].pc \notin Building
  BY <1>1, OthersRest DEF ProxyIsOrderly, Building
<1>4. job'["turn"] = job["turn"]
  BY <1>2 DEF Sessions, Thread
<1>5. ChildShares' /\ Mine' = Mine
  BY <1>1, <1>4 DEF ProxyIsOrderly, ChildShares, Mine
<1>6. job'[t].pc = "swap" /\ job'[t].draft = job[t].draft
  BY <1>1, Moved, ProxyStates DEF Building
<1>7. /\ job[t].draft.egress = "proxy" /\ Mine # NoProxy
      /\ slot["session"].allow = job[t].draft.allow
      /\ job[t].draft.proxy = Mine /\ server[Mine].up
  BY <1>1 DEF ProxyIsOrderly, Builds, BuildIsSound
<1>8. Mine \in Proxy
  BY <1>7, ProxyStates
<1>9. server' = [server EXCEPT ![Mine].told = server[Mine].up]
  BY <1>7 DEF BuildTells
<1>10. server'[Mine].up /\ server'[Mine].told /\ \A q \in Proxy : q # Mine => server'[q] = server[q]
  BY <1>7, <1>8, <1>9 DEF Servers
<1>11. Heard'
  BY <1>5, <1>7, <1>10 DEF Heard
<1>12. Ports' /\ Open'
  BY <1>5, <1>10, <1>11 DEF ProxyIsOrderly, Ports, Open
<1>13. BuildIsSound(t)'
  BY <1>1, <1>5, <1>6, <1>7, <1>11 DEF BuildIsSound, Served
<1>14. QED
  BY <1>2, <1>3, <1>5, <1>6, <1>12, <1>13, BuildGoesOn DEF Building

LEMMA SessionSwaps ==
  ASSUME GuardTypes, server \in Servers, ProxyIsOrderly, NEW t \in Sessions,
         BuildSwaps(t), Calm'
  PROVE  ProxyIsOrderly'
<1>1. t \in Thread /\ t # "turn" /\ job[t].pc = "swap" /\ job' = [job EXCEPT ![t] = Free]
      /\ slot' = slot /\ server' = server /\ agent' = job[t].draft
  BY DEF Sessions, Thread, BuildSwaps
<1>2. \A u \in Thread \ {t} : job'[u] = job[u]
  BY <1>1, BuildTouches DEF BuildStep
<1>3. \A u \in Thread \ {t} : job[u].pc \notin Building
  BY <1>1, OthersRest DEF ProxyIsOrderly, Building
<1>4. job'[t].pc = "idle"
  BY <1>1, Rested, ProxyStates
<1>5. \A u \in Thread : job'[u].pc \notin Building
  BY <1>2, <1>3, <1>4 DEF Building
<1>6. Alone' /\ Builds'
  BY <1>5 DEF Alone, Builds, BuildIsSound, Building, Sessions, Thread
<1>7. job'["turn"] = job["turn"] /\ Mine' = Mine
  BY <1>1, <1>2 DEF Mine, Thread
<1>8. Ports' /\ ChildShares'
  BY <1>1, <1>7 DEF ProxyIsOrderly, Ports, ChildShares
<1>9. Open'
  BY <1>1, <1>3, <1>7 DEF ProxyIsOrderly, Open, Sessions, Building, Thread, Heard
<1>10. job[t].draft.mode # "plan" => Served(job[t].draft)
  BY <1>1 DEF ProxyIsOrderly, Builds, BuildIsSound
<1>11. AgentIsServed'
  BY <1>1, <1>7, <1>10 DEF AgentIsServed, Served, Heard
<1>12. QED
  BY <1>6, <1>8, <1>9, <1>11 DEF ProxyIsOrderly

-----------------------------------------------------------------------------
(* A subagent's builds, and the rest.                                      *)

\* A subagent's build that leaves the session's proxy alone.
LEMMA ChildLeaves ==
  ASSUME GuardTypes, ProxyIsOrderly, UNCHANGED <<server, agent>>,
         slot'["session"] = slot["session"],
         job'["dispatch"] = job["dispatch"], job'["loader"] = job["loader"],
         Alone', ChildShares'
  PROVE  ProxyIsOrderly'
<1>1. Mine' = Mine /\ (Heard' <=> Heard)
  BY DEF Mine, Heard
<1>2. Ports' /\ Open'
  BY <1>1 DEF ProxyIsOrderly, Ports, Open, Sessions
<1>3. Builds'
  BY <1>1 DEF ProxyIsOrderly, Builds, BuildIsSound, Sessions, Served
<1>4. AgentIsServed'
  BY <1>1 DEF ProxyIsOrderly, AgentIsServed, Served
<1>5. QED
  BY <1>2, <1>3, <1>4 DEF ProxyIsOrderly

LEMMA ChildOrderly ==
  ASSUME GuardTypes, server \in Servers, ProxyIsOrderly, BuildStep("turn"), Calm'
  PROVE  ProxyIsOrderly'
<1>1. "turn" \in Thread /\ HolderOf("turn") = "child" /\ "session" # "child"
      /\ "dispatch" \in Thread \ {"turn"} /\ "loader" \in Thread \ {"turn"}
  BY DEF Thread, HolderOf
<1>2. \A u \in Thread \ {"turn"} : job'[u] = job[u]
  BY <1>1, BuildTouches
<1>3. job'["dispatch"] = job["dispatch"] /\ job'["loader"] = job["loader"]
  BY <1>1, <1>2
<1>5. slot["child"].proxy \in Proxy \cup {NoProxy} /\ EmptySlot.proxy = NoProxy
  BY ProxyStates DEF EmptySlot
<1>6. CASE BuildReads("turn")
  <2>1. Overlap("turn") = {}
    BY <1>6 DEF BuildReads, Calm, Overlap
  <2>2. \A u \in Thread \ {"turn"} : job[u].pc \notin Building
    BY <2>1 DEF Overlap, Building
  <2>3. Alone'
    BY <1>1, <1>2, <2>2, OnlyOneBuilds
  <2>4. \E pc \in {"create", "swap"} : job' = [job EXCEPT !["turn"].pc = pc, !["turn"].draft = Draft]
    BY <1>6 DEF BuildReads
  <2>5. job'["turn"].pc \in {"create", "swap"}
    BY <1>1, <2>4, Drafted, ProxyStates, DraftFollows DEF Building
  <2>6. slot' = slot /\ server' = server
    <3>1. CASE UNCHANGED <<slot, server>>
      BY <3>1
    <3>2. CASE ~UNCHANGED <<slot, server>>
      <4>1. StopProxy("child")
        BY <1>1, <1>6, <3>2 DEF BuildReads
      <4>2. slot["child"] = EmptySlot
        BY <1>1, <1>6, <3>2 DEF BuildReads, Calm
      <4>3. QED
        BY <1>5, <4>1, <4>2, ProxyStates DEF StopProxy
    <3>3. QED
      BY <3>1, <3>2
  <2>7. agent' = agent /\ job["turn"].pc = "read"
    BY <1>6 DEF BuildReads
  <2>8. ChildShares'
    BY <2>5, <2>6, <2>7 DEF ProxyIsOrderly, ChildShares, Mine
  <2>9. QED
    BY <1>3, <2>3, <2>6, <2>7, <2>8, ChildLeaves
<1>7. CASE job["turn"].pc \in Building
  <2>1. \A u \in Thread \ {"turn"} : job[u].pc \notin Building
    BY <1>1, <1>7 DEF ProxyIsOrderly, Alone
  <2>2. Alone'
    BY <1>1, <1>2, <2>1, OnlyOneBuilds
  <2>3. Mine # NoProxy => Heard
    BY <2>1 DEF ProxyIsOrderly, Open, Sessions, Building, Thread
  <2>4. CASE BuildCreates("turn")
    <3>1. job["turn"].pc = "create" /\ job' = [job EXCEPT !["turn"].pc = "start"]
          /\ server' = server /\ agent' = agent
      BY <2>4 DEF BuildCreates
    <3>2. slot["child"].proxy # NoProxy /\ slot' = slot
      BY <1>1, <2>4 DEF BuildCreates, Calm
    <3>3. job'["turn"].pc = "start"
      BY <1>1, <3>1, Moved, ProxyStates DEF Building
    <3>4. ChildShares'
      BY <1>7, <3>2, <3>3 DEF ProxyIsOrderly, ChildShares, Mine
    <3>5. QED
      BY <1>3, <2>2, <3>1, <3>2, <3>4, ChildLeaves
  <2>5. CASE BuildStarts("turn")
    <3>1. job["turn"].pc = "start" /\ slot' = slot /\ agent' = agent
      BY <2>5 DEF BuildStarts
    <3>2. slot["child"].proxy # NoProxy /\ slot["child"].proxy = Mine
      BY <1>5, <1>7, <3>1 DEF ProxyIsOrderly, ChildShares, Mine
    <3>3. server[slot["child"].proxy].up
      BY <2>3, <3>2 DEF Heard
    <3>4. server' = server /\ \E q \in Proxy \cup {NoProxy} :
            job' = [job EXCEPT !["turn"].pc = "swap", !["turn"].draft.proxy = q]
      BY <1>1, <1>5, <2>5, <3>2, <3>3 DEF BuildStarts
    <3>5. job'["turn"].pc = "swap"
      BY <1>1, <3>4, DraftKeeps DEF Building
    <3>6. ChildShares'
      BY <1>7, <3>1, <3>5 DEF ProxyIsOrderly, ChildShares, Mine
    <3>7. QED
      BY <1>3, <2>2, <3>1, <3>4, <3>6, ChildLeaves
  <2>6. CASE BuildTells("turn")
    BY <2>6 DEF BuildTells, ProxyIsOrderly, ChildShares
  <2>7. CASE BuildSwaps("turn")
    <3>1. job' = [job EXCEPT !["turn"] = Free] /\ slot' = [slot EXCEPT !["child"] = EmptySlot]
          /\ server' = server /\ agent' = agent
      BY <2>7 DEF BuildSwaps
    <3>2. slot'["session"] = slot["session"] /\ slot'["child"] = EmptySlot
      BY <3>1, ProxyStates DEF Holder
    <3>3. job'["turn"].pc = "idle"
      BY <1>1, <3>1, Rested, ProxyStates
    <3>4. ChildShares'
      BY <3>2, <3>3, <1>5 DEF ChildShares, Building, Mine
    <3>5. QED
      BY <1>3, <2>2, <3>1, <3>2, <3>4, ChildLeaves
  <2>8. CASE BuildReads("turn")
    BY <1>6, <2>8
  <2>9. QED
    BY <2>4, <2>5, <2>6, <2>7, <2>8 DEF BuildStep
<1>8. QED
  BY <1>6, <1>7 DEF BuildStep, BuildCreates, BuildStarts, BuildTells, BuildSwaps, Building

LEMMA ProxyBuilds ==
  ASSUME GuardTypes, ProxyInvariant, NEW t \in Thread, BuildStep(t)
  PROVE  ProxyInvariant'
<1>1. server' \in Servers
  BY ServerTypes DEF ProxyInvariant
<1>2. load' # "none" => job'["loader"].pc = "idle"
  BY LoadStays
<1>3. ASSUME Calm' PROVE ProxyIsOrderly'
  <2>1. ProxyIsOrderly
    BY <1>3, BuildTouches DEF ProxyInvariant, Calm
  <2>2. CASE t \in Sessions
    BY <1>3, <2>1, <2>2, SessionReads, SessionCreates, SessionStarts, SessionTells, SessionSwaps
       DEF BuildStep, ProxyInvariant
  <2>3. CASE t = "turn"
    BY <1>3, <2>1, <2>3, ChildOrderly DEF ProxyInvariant
  <2>4. QED
    BY <2>2, <2>3 DEF Thread, Sessions
<1>4. QED
  BY <1>1, <1>2, <1>3 DEF ProxyInvariant

LEMMA ProxyLoadEnds ==
  ASSUME GuardTypes, ProxyInvariant, LoadEnds
  PROVE  ProxyInvariant'
<1>1. load = "running" /\ load' = "none" /\ UNCHANGED <<slot, server, agent, odd>>
  BY DEF LoadEnds
<1>2. job["loader"].pc = "idle"
  BY <1>1 DEF ProxyInvariant
<1>3. /\ \A u \in Thread \ {"loader"} : job'[u] = job[u]
      /\ job'["loader"].pc \in {"idle", "read"}
  <2>1. CASE job' = job
    BY <1>2, <2>1
  <2>2. CASE job' = [job EXCEPT !["loader"].pc = "read"]
    BY <2>2, ProxyStates DEF Thread, Jobs
  <2>3. QED
    BY <2>1, <2>2 DEF LoadEnds
<1>4. job'["dispatch"] = job["dispatch"] /\ job'["turn"] = job["turn"]
  BY <1>3 DEF Thread
<1>5. ASSUME ProxyIsOrderly PROVE ProxyIsOrderly'
  <2>1. Ports' /\ ChildShares' /\ Mine' = Mine /\ (Heard' <=> Heard)
    BY <1>1, <1>4, <1>5 DEF ProxyIsOrderly, Ports, ChildShares, Mine, Heard
  <2>2. Alone'
    BY <1>3, <1>4, <1>5 DEF ProxyIsOrderly, Alone, Thread, Building
  <2>3. Open' /\ AgentIsServed'
    BY <1>1, <1>2, <1>3, <1>4, <1>5, <2>1
       DEF ProxyIsOrderly, Open, AgentIsServed, Sessions, Building, Served
  <2>4. BuildIsSound("loader")'
    BY <1>3 DEF BuildIsSound
  <2>5. BuildIsSound("dispatch")'
    BY <1>1, <1>4, <1>5, <2>1 DEF ProxyIsOrderly, Builds, Sessions, BuildIsSound, Served
  <2>6. QED
    BY <2>1, <2>2, <2>3, <2>4, <2>5 DEF ProxyIsOrderly, Builds, Sessions
<1>6. QED
  BY <1>1, <1>5 DEF ProxyInvariant, Calm

LEMMA ProxyCrash ==
  ASSUME GuardTypes, ProxyInvariant, Crash
  PROVE  ProxyInvariant'
<1>1. /\ slot' = [h \in Holder |-> EmptySlot] /\ server' = [q \in Proxy |-> Closed]
      /\ job' = [t \in Thread |-> IF t = "dispatch" THEN [Free EXCEPT !.pc = "read"] ELSE Free]
      /\ agent' = NoAgent
  BY DEF Crash
<1>2. server' \in Servers /\ \A q \in Proxy : ~server'[q].up
  BY <1>1 DEF Servers, Closed
<1>3. [Free EXCEPT !.pc = "read"].pc = "read" /\ Free.pc = "idle"
  BY DEF Free
<1>4. job'["dispatch"].pc = "read" /\ job'["loader"].pc = "idle" /\ job'["turn"].pc = "idle"
  BY <1>1, <1>3 DEF Thread
<1>5. Mine' = NoProxy /\ slot'["child"] = EmptySlot
  BY <1>1 DEF Mine, Holder, EmptySlot
<1>6. Ports' /\ Open' /\ AgentIsServed'
  BY <1>1, <1>2, <1>5 DEF Ports, Open, AgentIsServed
<1>7. Alone'
  BY <1>4 DEF Alone, Thread, Building
<1>8. Builds' /\ ChildShares'
  BY <1>4, <1>5 DEF Builds, BuildIsSound, Sessions, ChildShares, Building
<1>9. QED
  BY <1>2, <1>4, <1>6, <1>7, <1>8 DEF ProxyInvariant, ProxyIsOrderly

LEMMA ProxyChildSpawns ==
  ASSUME GuardTypes, ProxyInvariant, ChildSpawns
  PROVE  ProxyInvariant'
<1>1. /\ slot' = [slot EXCEPT !["child"] = slot["session"]]
      /\ job' = [job EXCEPT !["turn"].pc = "read"] /\ job["turn"].pc = "idle"
      /\ UNCHANGED <<server, agent, load, odd>>
  BY DEF ChildSpawns, TurnReady
<1>2. slot'["session"] = slot["session"] /\ slot'["child"] = slot["session"]
  BY <1>1, ProxyStates DEF Holder
<1>3. \A u \in Thread \ {"turn"} : job'[u] = job[u]
  BY <1>1, ProxyStates DEF Thread
<1>4. job'["dispatch"] = job["dispatch"] /\ job'["loader"] = job["loader"]
  BY <1>3 DEF Thread
<1>5. job'["turn"].pc = "read"
  BY <1>1, ProxyStates DEF Thread, Jobs
<1>6. ASSUME ProxyIsOrderly PROVE ProxyIsOrderly'
  <2>1. Alone'
    BY <1>3, <1>5, <1>6 DEF ProxyIsOrderly, Alone, Building
  <2>3. ChildShares'
    BY <1>2, <1>5 DEF ChildShares, Mine
  <2>4. QED
    BY <1>1, <1>2, <1>4, <1>6, <2>1, <2>3, ChildLeaves
<1>7. QED
  BY <1>1, <1>4, <1>6 DEF ProxyInvariant, Calm

LEMMA ProxyStep == GuardInvariant /\ ProxyInvariant /\ [Next]_vars => ProxyInvariant'
<1>1. SUFFICES ASSUME GuardTypes, ProxyInvariant, [Next]_vars PROVE ProxyInvariant'
  BY DEF GuardInvariant
<1>2. CASE UNCHANGED vars
  BY <1>1, <1>2, ProxyStays DEF vars, guardVars
<1>3. CASE Request
  BY <1>1, <1>3, ProxyRequests
<1>4. CASE DispatchStep
  BY <1>1, <1>4, ProxyHiding, ProxyBuilds DEF DispatchStep, Thread
<1>5. CASE LoadEnds
  BY <1>1, <1>5, ProxyLoadEnds
<1>6. CASE BuildStep("loader") \/ BuildStep("turn")
  BY <1>1, <1>6, ProxyBuilds DEF Thread
<1>7. CASE Crash
  BY <1>1, <1>7, ProxyCrash
<1>8. CASE ChildSpawns
  BY <1>1, <1>8, ProxyChildSpawns
<1>9. CASE TurnBegins
  BY <1>1, <1>9, ProxyStays DEF TurnBegins
<1>10. ASSUME NEW c \in Call, NEW escalate \in BOOLEAN, CommandStarts(c, escalate)
       PROVE  ProxyInvariant'
  BY <1>1, <1>10, ProxyStays DEF CommandStarts
<1>11. CASE CommandSteps
  BY <1>1, <1>11, ProxyStays DEF CommandSteps, CommandEffects
<1>12. CASE TurnEnds \/ TurnKills \/ TurnIsOver
  BY <1>1, <1>12, ProxyStays DEF TurnEnds, TurnKills, TurnIsOver, guardVars
<1>13. QED
  BY <1>1, <1>2, <1>3, <1>4, <1>5, <1>6, <1>7, <1>8, <1>9, <1>10, <1>11, <1>12 DEF Next

LEMMA ProxyFollows ==
  ASSUME GuardInvariant, ProxyInvariant
  PROVE  CalmProxyIsTheAgents
<1>1. SUFFICES ASSUME Settled, "child" \notin odd, agent.mode # "plan"
      PROVE  LET open == {q \in Proxy : server[q].up} IN
             IF agent.egress = "proxy"
             THEN open = {agent.proxy} /\ server[agent.proxy].told /\ slot["session"].allow = agent.allow
             ELSE open = {}
  BY DEF CalmProxyIsTheAgents
<1>2. Served(agent) /\ Ports
  BY <1>1 DEF ProxyInvariant, Calm, ProxyIsOrderly, AgentIsServed, Settled, DispatchIdle, Building
<1>3. Mine \in Proxy \cup {NoProxy} /\ NoProxy \notin Proxy
  BY ProxyStates, GuardAssumption DEF GuardInvariant
<1>4. CASE agent.egress = "proxy"
  BY <1>2, <1>3, <1>4 DEF Served, Heard, Ports
<1>5. CASE agent.egress # "proxy"
  BY <1>2, <1>3, <1>5 DEF Served, Ports
<1>6. QED
  BY <1>4, <1>5

\* However the modes, the network settings and the builds of the two threads
\* follow each other: once they are done one port is open exactly when the
\* agent's commands go through the proxy, and it is the agent's.
THEOREM ProxyIsTheAgents == Spec => []CalmProxyIsTheAgents
<1>1. Init => GuardInvariant /\ ProxyInvariant
  BY GuardStarts, ProxyStarts
<1>2. GuardInvariant /\ ProxyInvariant /\ [Next]_vars => (GuardInvariant /\ ProxyInvariant)'
  BY GuardStep, ProxyStep
<1>3. GuardInvariant /\ ProxyInvariant => CalmProxyIsTheAgents
  BY ProxyFollows
<1>4. QED
  BY <1>1, <1>2, <1>3, PTL DEF Spec

=============================================================================
