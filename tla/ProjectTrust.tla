----------------------------- MODULE ProjectTrust -----------------------------
(***************************************************************************)
(* Whose project configuration a session obeys.  Sessions (one process      *)
(* each) and `cluxmate trust` in a terminal share ~/.cluxmate/trust.json;   *)
(* sessions of one project share its .cluxmate/permissions.json.  Neither   *)
(* file is locked between processes: both are read whole, and written whole *)
(* from memory by a truncate and a write.                                   *)
(*                                                                          *)
(* A session resolves the trust of its project when it is initialized, and  *)
(* binds a policy to it; a turn keeps the policy it started with.  A click  *)
(* on an approval card may trust the project and remember a rule at once.   *)
(***************************************************************************)
EXTENDS Naturals, FiniteSets

CONSTANTS
  Servers,     \* session processes
  Terminals,   \* processes that run one `cluxmate trust` command after another
  Dirs,        \* directories a session may have as its cwd
  MainOf,      \* [Dirs -> Dirs]: the main worktree of a linked one
  Shipped,     \* [Dirs -> SUBSET Rules]: the rules a directory came with
  Asked,       \* the kinds of tool calls that occur
  MaxStimuli,  \* bound on requests, commands, turns and clicks together
  MaxFaults    \* bound on failed probes and failed writes together

VARIABLES
  registry,  \* trust.json: the answers, and whether it is truncated just now
  ruleFile,  \* the permissions.json of each directory
  store,     \* TrustStore of each process; current: its stamp is the file's
  roots,     \* project_root._CACHE of each session process
  job,       \* the request its dispatch thread (or the command) is in
  server,    \* _project_root and the status of _trust
  policy,    \* _policy (live), and the one an earlier turn still holds (held)
  turn,      \* the turn: the policy it uses and the call its card is about
  left,      \* what remains of MaxStimuli and of MaxFaults
  consent,   \* ghost: <<who, dir>>: a process, or everyone, may load dir
  clicked,   \* ghost: <<dir, rule>>: rules a user clicked "always allow" for
  strays,    \* ghost: directories that one of the races named below reached
  unasked    \* ghost: <<dir, rule>>: rules that approved a call unconsented

disk == <<registry, ruleFile>>
ghosts == <<consent, clicked, strays, unasked>>
vars == <<disk, store, roots, job, server, policy, turn, left, ghosts>>

Procs == Servers \union Terminals
Unknown == [d \in Dirs |-> "unknown"]

(* What _grant_always and is_auto_approved look at in a call.               *)
Call ==
  [edit   |-> [risk |-> "write",     needs |-> {"edit"},             escalated |-> FALSE],
   shell  |-> [risk |-> "dangerous", needs |-> {"bash:a", "bash:b"}, escalated |-> FALSE],
   mcp    |-> [risk |-> "dangerous", needs |-> {"mcp"},              escalated |-> FALSE],
   format |-> [risk |-> "critical",  needs |-> {},                   escalated |-> FALSE],
   bare   |-> [risk |-> "dangerous", needs |-> {"bash:a"},           escalated |-> TRUE]]

Rules == {"edit", "bash:a", "bash:b", "mcp"}

ASSUME TrustAssumption ==
  /\ Servers \intersect Terminals = {} /\ "everyone" \notin Procs
  /\ Asked \subseteq {"edit", "shell", "mcp", "format", "bare"}
  /\ Shipped \in [Dirs -> SUBSET Rules]

NoPolicy == [root |-> "-", trusted |-> FALSE, rules |-> {}, mode |-> "default",
             stale |-> FALSE, sound |-> TRUE]
NoTurn == [on |-> FALSE, holds |-> "live", call |-> "-"]
NoJob == [pc |-> "idle", kind |-> "-", root |-> "-", arg |-> "-", todo |-> {},
          seen |-> FALSE, over |-> FALSE]

FreshStore == [cache |-> IF registry.torn THEN Unknown ELSE registry.answers,
               current |-> TRUE, session |-> Unknown, adrift |-> FALSE]
NoStore == [cache |-> Unknown, current |-> FALSE, session |-> Unknown, adrift |-> FALSE]

Init ==
  /\ \E r \in [Dirs -> {"unknown", "trusted", "denied"}] :
       /\ \A d \in Dirs : MainOf[d] # d => r[d] = "unknown"
       /\ registry = [answers |-> r, torn |-> FALSE]
       /\ consent = {"everyone"} \X {d \in Dirs : r[d] = "trusted"}
  /\ ruleFile = [d \in Dirs |-> [rules |-> Shipped[d], torn |-> FALSE]]
  /\ store = [p \in Procs |-> IF p \in Servers THEN FreshStore ELSE NoStore]
  /\ roots = [p \in Procs |-> [d \in Dirs |-> "-"]]
  /\ job = [p \in Procs |-> NoJob]
  /\ server = [p \in Servers |-> [root |-> "-", status |-> "unknown"]]
  /\ policy = [p \in Servers |-> [live |-> NoPolicy, held |-> NoPolicy]]
  /\ turn = [p \in Servers |-> NoTurn]
  /\ left = [stimuli |-> MaxStimuli, faults |-> MaxFaults]
  /\ clicked = {} /\ strays = {} /\ unasked = {}

Spend == left.stimuli > 0 /\ left' = [left EXCEPT !.stimuli = @ - 1]
Fault == left.faults > 0 /\ left' = [left EXCEPT !.faults = @ - 1]
Idle(p) == job[p].pc = "idle"
At(p, j) == job' = [job EXCEPT ![p] = j]
Go(p, pc) == At(p, [job[p] EXCEPT !.pc = pc])
-----------------------------------------------------------------------------
(* A git probe that fails or takes too long answers nothing.                *)
GitAnswers(x) == {x, "none"}

(* The common git directory and the git directory of d, each named by the   *)
(* working tree it belongs to; they differ in a linked worktree.            *)
Probed(d, common, gitDir) ==
  IF common # "none" /\ gitDir \notin {"none", common} THEN common ELSE d

(* project_root.resolve, cached for the life of the process: a failed probe *)
(* answers the directory itself.  A command's process asks each time.       *)
Ask(p, d, r) ==
  LET fails == roots[p][d] = "-" /\ r # MainOf[d]
  IN  /\ Idle(p)
      /\ r \in IF roots[p][d] # "-" THEN {roots[p][d]}
               ELSE {Probed(d, c, g) : c \in GitAnswers(MainOf[d]), g \in GitAnswers(d)}
      /\ left.stimuli > 0 /\ (fails => left.faults > 0)
      /\ left' = [stimuli |-> left.stimuli - 1, faults |-> left.faults - (IF fails THEN 1 ELSE 0)]
      /\ roots' = IF p \in Servers THEN [roots EXCEPT ![p][d] = r] ELSE roots

(* An override in the request is this run's answer; it, or an earlier one,  *)
(* is found before the registry is looked at.                               *)
InitializeStarts(p, d, r, override) ==
  LET session == IF override = "-" THEN store[p].session
                                   ELSE [store[p].session EXCEPT ![r] = override]
  IN  /\ Ask(p, d, r)
      /\ store' = [store EXCEPT ![p].session = session]
      /\ consent' = CASE override = "trusted" -> consent \union {<<p, r>>}
                      [] override = "denied" -> consent \ {<<p, r>>}
                      [] OTHER -> consent
      /\ At(p, [NoJob EXCEPT !.kind = "initialize", !.root = r,
                  !.pc = IF session[r] = "unknown" THEN "stat" ELSE "apply"])
      /\ UNCHANGED <<disk, server, policy, turn, clicked, strays, unasked>>

TrustSet(p, d, r, status) ==
  /\ p \in Servers /\ Ask(p, d, r)
  /\ At(p, [NoJob EXCEPT !.pc = "stat", !.kind = "set", !.root = r, !.arg = status])
  /\ UNCHANGED <<disk, store, server, policy, turn, ghosts>>

TrustSetForThisRun(p, d, r, status) ==
  /\ p \in Servers /\ Ask(p, d, r)
  /\ store' = [store EXCEPT ![p].session[r] = status]
  /\ consent' = IF status = "trusted" THEN consent \union {<<p, r>>} ELSE consent \ {<<p, r>>}
  /\ At(p, [NoJob EXCEPT !.pc = "report", !.kind = "get", !.root = r])
  /\ UNCHANGED <<disk, server, policy, turn, clicked, strays, unasked>>

TrustRemove(p, d, r) ==
  /\ p \in Servers /\ Ask(p, d, r)
  /\ At(p, [NoJob EXCEPT !.pc = "stat", !.kind = "remove", !.root = r])
  /\ UNCHANGED <<disk, store, server, policy, turn, ghosts>>

(* `cluxmate trust add | deny | remove`: a new process loads the file.      *)
TerminalAnswers(p, d, r, status) ==
  /\ p \in Terminals /\ Ask(p, d, r)
  /\ store' = [store EXCEPT ![p] = FreshStore]
  /\ At(p, [NoJob EXCEPT !.pc = "stat", !.kind = IF status = "unknown" THEN "remove" ELSE "set",
              !.root = r, !.arg = status, !.over = registry.torn])
  /\ UNCHANGED <<disk, server, policy, turn, ghosts>>
-----------------------------------------------------------------------------
AnswersFromTheCache(p) ==
  /\ job[p].pc = "stat" /\ Go(p, "apply")
  /\ UNCHANGED <<disk, store, roots, server, policy, turn, left, ghosts>>

StampIsTakenUnread(p) ==
  /\ job[p].pc = "stat" /\ Go(p, "apply")
  /\ store' = [store EXCEPT ![p].current = TRUE]
  /\ UNCHANGED <<disk, roots, server, policy, turn, left, ghosts>>

(* _refresh: the stamp is taken first, so that a write that comes between   *)
(* leaves an old stamp on new contents, which the next look repairs.  Every *)
(* truncate and every write changes the stamp.                              *)
RegistryIsStatted(p) ==
  /\ job[p].pc = "stat"
  /\ At(p, [job[p] EXCEPT !.pc = IF store[p].current THEN "apply" ELSE "load",
                          !.seen = ~store[p].current, !.over = @ \/ registry.torn])
  /\ UNCHANGED <<disk, store, roots, server, policy, turn, left, ghosts>>

(* A truncated file does not parse and is an empty registry.                *)
Loaded(p, current) ==
  [store[p] EXCEPT !.cache = FreshStore.cache, !.current = current, !.adrift = FALSE]

RegistryIsLoaded(p) ==
  /\ job[p].pc = "load"
  /\ store' = [store EXCEPT ![p] = Loaded(p, job[p].seen)]
  /\ At(p, [job[p] EXCEPT !.pc = "apply", !.seen = FALSE, !.over = @ \/ registry.torn])
  /\ UNCHANGED <<disk, roots, server, policy, turn, left, ghosts>>

Resolved(p, r) ==
  IF store[p].session[r] # "unknown" THEN store[p].session[r] ELSE store[p].cache[r]

Consented(p, r) ==
  \/ consent \intersect {<<p, r>>, <<"everyone", r>>} # {}
  \/ r \in strays \/ store[p].adrift \/ job[p].over

RulesOf(r) == IF ruleFile[r].torn THEN {} ELSE ruleFile[r].rules

NewPolicyForAnyone(p, r) ==
  [NoPolicy EXCEPT !.root = r, !.trusted = Resolved(p, r) = "trusted", !.rules = RulesOf(r),
                   !.stale = ruleFile[r].torn, !.sound = Consented(p, r)]

(* PermissionPolicy: an untrusted directory's rules are not even read.      *)
NewPolicy(p, r) ==
  LET trusted == Resolved(p, r) = "trusted"
  IN  [NoPolicy EXCEPT !.root = r, !.trusted = trusted,
                       !.rules = IF trusted THEN RulesOf(r) ELSE {},
                       !.stale = trusted /\ ruleFile[r].torn, !.sound = Consented(p, r)]

InitializeResolves(p) ==
  LET r == job[p].root
      keeps == turn[p].on /\ turn[p].holds = "live"
  IN  /\ job[p].pc = "apply" /\ job[p].kind = "initialize"
      /\ server' = [server EXCEPT ![p] = [root |-> r, status |-> Resolved(p, r)]]
      /\ policy' = [policy EXCEPT ![p] =
                      [live |-> NewPolicy(p, r), held |-> IF keeps THEN @.live ELSE @.held]]
      /\ turn' = IF keeps THEN [turn EXCEPT ![p].holds = "held"] ELSE turn
      /\ At(p, NoJob)
      /\ UNCHANGED <<disk, store, roots, left, ghosts>>

(* trust/get looks once more, here in one step; a click goes on to remember *)
(* its rules.                                                               *)
TrustIsReported(p) ==
  /\ job[p].pc = "report"
  /\ store' = IF store[p].current THEN store ELSE [store EXCEPT ![p] = Loaded(p, TRUE)]
  /\ At(p, IF job[p].todo = {} THEN NoJob ELSE [job[p] EXCEPT !.pc = "grant"])
  /\ UNCHANGED <<disk, roots, server, policy, turn, left, ghosts>>
-----------------------------------------------------------------------------
(* TrustStore.set and remove: change the cache, save, take the stamp again. *)

(* The others are busy with a file that is not what they looked at.         *)
Alarmed(p) ==
  [q \in Procs |-> IF q = p \/ Idle(q) THEN job[q]
                                      ELSE [job[q] EXCEPT !.seen = FALSE, !.over = TRUE]]
NoneIsCurrent(s) == [q \in Procs |-> [s[q] EXCEPT !.current = FALSE]]

(* The answer the save is to carry, in memory.                              *)
Answered(p) ==
  [store[p] EXCEPT !.cache[job[p].root] = IF job[p].kind = "remove" THEN "unknown" ELSE job[p].arg]

Answers(p) ==
  /\ job[p].pc = "apply" /\ job[p].kind \in {"set", "remove", "adopt"}
  /\ job[p].kind = "remove" => store[p].cache[job[p].root] # "unknown"

(* What a session does after the save: it reports, or goes on adopting.     *)
Saved(p) ==
  IF p \in Terminals THEN NoJob
  ELSE IF job[p].kind = "adopt" THEN [job[p] EXCEPT !.kind = "readopt", !.pc = "stat", !.over = FALSE]
  ELSE [NoJob EXCEPT !.kind = "get", !.pc = "report"]

NothingToRemove(p) ==
  /\ job[p].pc = "apply" /\ job[p].kind = "remove"
  /\ store[p].cache[job[p].root] = "unknown"
  /\ At(p, Saved(p))
  /\ UNCHANGED <<disk, store, roots, server, policy, turn, left, ghosts>>

RegistryIsTruncated(p) ==
  /\ Answers(p)
  /\ store' = NoneIsCurrent([store EXCEPT ![p] = Answered(p)])
  /\ registry' = [registry EXCEPT !.torn = TRUE]
  /\ job' = [Alarmed(p) EXCEPT ![p].pc = "write"]
  /\ UNCHANGED <<ruleFile, roots, server, policy, turn, left, ghosts>>

(* A persisted answer supersedes this run's.                                *)
SessionAfter(p) ==
  IF job[p].kind = "remove" THEN store[p].session
                            ELSE [store[p].session EXCEPT ![job[p].root] = "unknown"]

(* Ghost: an answer is p's own until the file says it to everyone.          *)
ConsentAfterSave(p) ==
  LET r == job[p].root
      mine == IF job[p].kind = "remove" THEN {} ELSE {<<p, r>>}
  IN  IF job[p].arg = "trusted" THEN (consent \ mine) \union {<<"everyone", r>>}
                                ELSE consent \ (mine \union {<<"everyone", r>>})

RegistryIsWritten(p) ==
  /\ job[p].pc = "write"
  /\ registry' = [answers |-> store[p].cache, torn |-> FALSE]
  /\ consent' = ConsentAfterSave(p)
  /\ strays' = IF job[p].over \/ store[p].adrift
                 THEN strays \union {d \in Dirs \ {job[p].root} : store[p].cache[d] # registry.answers[d]}
                 ELSE strays
  /\ job' = [Alarmed(p) EXCEPT ![p] = IF p \in Terminals THEN NoJob
                                        ELSE [@ EXCEPT !.pc = "restat", !.over = FALSE]]
  /\ store' = NoneIsCurrent(IF p \in Terminals THEN [store EXCEPT ![p] = NoStore] ELSE store)
  /\ UNCHANGED <<ruleFile, roots, server, policy, turn, left, clicked, unasked>>

(* The stamp may already be that of somebody else's write.                  *)
RegistryIsRestatted(p) ==
  /\ job[p].pc = "restat"
  /\ store' = [store EXCEPT ![p].current = TRUE, ![p].adrift = job[p].over,
                            ![p].session = SessionAfter(p)]
  /\ At(p, Saved(p))
  /\ UNCHANGED <<disk, roots, server, policy, turn, left, ghosts>>

(* Ghost: one that could not be saved stays p's own; removing the answer of *)
(* the file takes none back that was given for this run.                    *)
ConsentUnsaved(p) ==
  LET r == job[p].root IN
  IF job[p].arg = "trusted" THEN consent \union {<<p, r>>}
  ELSE IF job[p].kind = "remove" /\ store[p].session[r] = "trusted" THEN consent
  ELSE consent \ {<<p, r>>}

(* A failed write is swallowed: the answer holds in this process only.      *)
RegistryIsNotSaved(p) ==
  /\ Answers(p) /\ Fault
  /\ store' = [store EXCEPT ![p] = IF p \in Terminals THEN NoStore
                 ELSE [Answered(p) EXCEPT !.adrift = TRUE, !.session = SessionAfter(p)]]
  /\ consent' = ConsentUnsaved(p)
  /\ At(p, Saved(p))
  /\ UNCHANGED <<disk, roots, server, policy, turn, clicked, strays, unasked>>
-----------------------------------------------------------------------------
(* A turn, its cards and the click on one.                                  *)

Held(p) == policy[p][turn[p].holds]

IsAutoApproved(pol, c) ==
  \/ pol.mode = "yolo"
  \/ /\ ~c.escalated
     /\ \/ /\ c.risk = "write"
           /\ pol.mode = "acceptEdits" \/ c.needs \subseteq pol.rules
        \/ c.risk = "dangerous" /\ c.needs # {} /\ c.needs \subseteq pol.rules

ByMode(pol, c) == pol.mode = "yolo" \/ (c.risk = "write" /\ pol.mode = "acceptEdits")

(* always_allow_verdict for a project that is trusted.                      *)
Grantable(c) == ~c.escalated /\ c.risk # "critical" /\ c.needs # {"mcp"}

(* The rules add_always_allow and add_always_allow_dangerous accept.        *)
Persistable(c) == IF c.risk \in {"write", "dangerous"} THEN c.needs \ {"mcp"} ELSE {}

(* A turn starts on the dispatch thread and asks on its own.                *)
ToolStarts(p, k) ==
  LET c == Call[k]
      pol == Held(p)
      auto == IsAutoApproved(pol, c)
      allowed == IF pol.sound THEN {x \in Rules : <<pol.root, x>> \in clicked} \union Shipped[pol.root]
                              ELSE {}
  IN  /\ server[p].root # "-" /\ turn[p].call = "-" /\ Spend
      /\ turn[p].on \/ Idle(p)
      /\ turn' = [turn EXCEPT ![p].on = TRUE, ![p].call = IF auto THEN "-" ELSE k]
      /\ unasked' = IF auto /\ ~ByMode(pol, c)
                      THEN unasked \union ({pol.root} \X (c.needs \ allowed))
                      ELSE unasked
      /\ UNCHANGED <<disk, store, roots, job, server, policy, consent, clicked, strays>>

Settled(p) == turn' = [turn EXCEPT ![p].call = "-"]

(* Approved once, or denied.                                                *)
CardIsSettled(p) ==
  /\ turn[p].call # "-" /\ Idle(p)
  /\ Settled(p)
  /\ UNCHANGED <<disk, store, roots, job, server, policy, left, ghosts>>

TurnEnds(p) ==
  /\ turn[p].on /\ Idle(p)
  /\ turn' = [turn EXCEPT ![p] = NoTurn]
  /\ policy' = [policy EXCEPT ![p].held = NoPolicy]
  /\ UNCHANGED <<disk, store, roots, job, server, left, ghosts>>

(* "Always allow", and, if the user is asked that too, "trust": honoured in *)
(* an undecided project, for a call that could be remembered.  It is the    *)
(* server's project that is adopted, the card's policy that must agree.     *)
Adopts(p) == Grantable(Call[turn[p].call]) /\ server[p].status = "unknown"

AlwaysIsClicked(p, trust) ==
  LET todo == Persistable(Call[turn[p].call])
      root == Held(p).root
  IN  /\ turn[p].call # "-" /\ Idle(p) /\ Spend
      /\ IF Held(p).trusted \/ (trust /\ Adopts(p))
           THEN clicked' = clicked \union ({root} \X todo)
           ELSE UNCHANGED clicked
      /\ \/ /\ Held(p).trusted /\ todo # {}
            /\ At(p, [NoJob EXCEPT !.pc = "grant", !.kind = "grant", !.todo = todo])
            /\ UNCHANGED <<turn, strays>>
         \/ /\ ~Held(p).trusted /\ trust /\ Adopts(p)
            /\ At(p, [NoJob EXCEPT !.pc = "stat", !.kind = "adopt", !.root = server[p].root,
                                   !.arg = "trusted", !.todo = todo])
            /\ strays' = strays \union ({server[p].root} \ {root})
            /\ UNCHANGED turn
         \/ /\ IF Held(p).trusted THEN todo = {} ELSE ~(trust /\ Adopts(p))
            /\ Settled(p)
            /\ UNCHANGED <<job, strays>>
      /\ UNCHANGED <<disk, store, roots, server, policy, consent, unasked>>

(* mark_trusted: the rules on disk are merged into the session's.           *)
MarkTrusted(p) ==
  LET pol == policy[p].live
  IN  IF pol.trusted THEN pol
      ELSE [pol EXCEPT !.trusted = TRUE, !.rules = @ \union RulesOf(pol.root),
                       !.stale = ruleFile[pol.root].torn, !.sound = Consented(p, pol.root)]

ProjectIsAdopted(p) ==
  LET live == MarkTrusted(p)
      grants == turn[p].holds = "live"
  IN  /\ job[p].pc = "apply" /\ job[p].kind = "readopt"
      /\ server' = [server EXCEPT ![p].status = Resolved(p, job[p].root)]
      /\ policy' = [policy EXCEPT ![p].live = live]
      /\ At(p, [NoJob EXCEPT !.kind = "get", !.pc = "report",
                              !.todo = IF grants THEN job[p].todo ELSE {}])
      /\ IF grants THEN UNCHANGED turn ELSE Settled(p)
      /\ UNCHANGED <<disk, store, roots, left, ghosts>>

(* add_always_allow*: one rule after the other, each with a save of the     *)
(* whole file; a rule already in force is not saved again.                  *)
Granted(p, todo) ==
  IF todo = {} THEN At(p, NoJob) /\ Settled(p)
               ELSE At(p, [job[p] EXCEPT !.pc = "grant", !.todo = todo]) /\ UNCHANGED turn

RuleIsInForce(p) ==
  /\ job[p].pc = "grant"
  /\ \E x \in job[p].todo \intersect Held(p).rules : Granted(p, job[p].todo \ {x})
  /\ UNCHANGED <<disk, store, roots, server, policy, left, ghosts>>

RuleIsAdded(p) ==
  /\ job[p].pc = "grant"
  /\ \E x \in job[p].todo \ Held(p).rules :
       /\ policy' = [policy EXCEPT ![p][turn[p].holds].rules = @ \union {x}]
       /\ At(p, [job[p] EXCEPT !.todo = @ \ {x}, !.pc = "rules"])
  /\ ruleFile' = [ruleFile EXCEPT ![Held(p).root].torn = TRUE]
  /\ UNCHANGED <<registry, store, roots, server, turn, left, ghosts>>

(* Ghost: every other policy over that file is now out of date.             *)
RulesAreWritten(p) ==
  LET r == Held(p).root
      told(pol, q, h) == IF pol.root = r /\ <<q, h>> # <<p, turn[p].holds>>
                           THEN [pol EXCEPT !.stale = TRUE] ELSE pol
  IN  /\ job[p].pc = "rules"
      /\ ruleFile' = [ruleFile EXCEPT ![r] = [rules |-> Held(p).rules, torn |-> FALSE]]
      /\ policy' = [q \in Servers |-> [h \in {"live", "held"} |-> told(policy[q][h], q, h)]]
      /\ Granted(p, job[p].todo)
      /\ UNCHANGED <<registry, store, roots, server, left, ghosts>>

(* The rule is in force, and reported as granted, but not on disk.          *)
RuleIsNotSaved(p) ==
  /\ job[p].pc = "grant" /\ Fault
  /\ \E x \in job[p].todo \ Held(p).rules :
       /\ policy' = [policy EXCEPT ![p][turn[p].holds].rules = @ \union {x}]
       /\ Granted(p, job[p].todo \ {x})
  /\ UNCHANGED <<disk, store, roots, server, ghosts>>

(* The mode is the live policy's and is never written down.                 *)
SetMode(p, m) ==
  /\ server[p].root # "-" /\ Idle(p) /\ policy[p].live.mode # m /\ Spend
  /\ policy' = [policy EXCEPT ![p].live.mode = m]
  /\ UNCHANGED <<disk, store, roots, job, server, turn, ghosts>>

(* permissions/update, the older switch: off does not undo yolo or plan.    *)
SetAcceptEdits(p, on) ==
  LET mode == policy[p].live.mode
  IN  /\ server[p].root # "-" /\ Idle(p) /\ Spend
      /\ IF on THEN mode # "acceptEdits" ELSE mode = "acceptEdits"
      /\ policy' = [policy EXCEPT ![p].live.mode = IF on THEN "acceptEdits" ELSE "default"]
      /\ UNCHANGED <<disk, store, roots, job, server, turn, ghosts>>
-----------------------------------------------------------------------------
Next ==
  \/ \E p \in Servers, d \in Dirs, r \in Dirs :
       \/ \E o \in {"-", "trusted", "denied"} : InitializeStarts(p, d, r, o)
       \/ \E s \in {"trusted", "denied"} : TrustSet(p, d, r, s) \/ TrustSetForThisRun(p, d, r, s)
       \/ TrustRemove(p, d, r)
  \/ \E p \in Terminals, d \in Dirs, r \in Dirs, s \in {"trusted", "denied", "unknown"} :
       TerminalAnswers(p, d, r, s)
  \/ \E p \in Procs :
       \/ RegistryIsStatted(p) \/ RegistryIsLoaded(p)
       \/ NothingToRemove(p) \/ RegistryIsTruncated(p)
       \/ RegistryIsWritten(p) \/ RegistryIsRestatted(p) \/ RegistryIsNotSaved(p)
  \/ \E p \in Servers :
       \/ InitializeResolves(p) \/ TrustIsReported(p)
       \/ \E k \in Asked : ToolStarts(p, k)
       \/ CardIsSettled(p) \/ TurnEnds(p) \/ ProjectIsAdopted(p)
       \/ \E trust \in BOOLEAN : AlwaysIsClicked(p, trust)
       \/ RuleIsInForce(p) \/ RuleIsAdded(p) \/ RulesAreWritten(p) \/ RuleIsNotSaved(p)
       \/ SetMode(p, "yolo") \/ SetMode(p, "default")
       \/ \E on \in BOOLEAN : SetAcceptEdits(p, on)

Spec == Init /\ [][Next]_vars
-----------------------------------------------------------------------------
(* A process never goes by a superseded answer: if its stamp is the file's, *)
(* its cache is what the file says -- unless another process wrote between  *)
(* its own write and its stamp, or its own write failed (trust.py:139-155). *)
DecisionsAreSeen ==
  \A p \in Procs :
    (Idle(p) /\ store[p].current /\ ~registry.torn /\ ~store[p].adrift)
      => store[p].cache = registry.answers

(* No rule lets a call run unasked unless a user clicked "always allow" for *)
(* it in that project, or the project came with it and was trusted by the   *)
(* last answer when the policy was made -- up to an answer overwritten by a *)
(* process that had not seen it, and a click on a card that outlived an     *)
(* initialize (permissions.py:126-168, jsonrpc_server.py:172-228).          *)
CalmNothingRunsUnasked == \A u \in unasked : u[1] \in strays

(* Answers are only changed by their own user: a save of trust.json leaves  *)
(* the answers about other directories as they are, if nobody else touched  *)
(* the file since the saver looked at it (trust.py:193-227).                *)
CalmAnswersAreKept ==
  [][\A p \in Procs :
       (job[p].pc = "write" /\ job'[p].pc # "write" /\ ~job[p].over /\ ~store[p].adrift)
         => \A d \in Dirs \ {job[p].root} : registry'.answers[d] = registry.answers[d]]_vars

(* A save of permissions.json loses no rule, whether it was clicked for or  *)
(* came with the project, unless another session wrote the file since the   *)
(* saver read it (permissions.py:148-168, 304-349).                         *)
CalmRulesAreKept ==
  [][\A p \in Servers :
       (job[p].pc = "rules" /\ job'[p].pc # "rules" /\ ~Held(p).stale)
         => \A d \in Dirs : ruleFile[d].rules \subseteq ruleFile'[d].rules]_vars

(* What others put into either file survives a save, up to those overlaps.  *)
CalmFilesAreKept == CalmAnswersAreKept /\ CalmRulesAreKept
=============================================================================
