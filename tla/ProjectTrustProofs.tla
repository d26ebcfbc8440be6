--------------------------- MODULE ProjectTrustProofs ---------------------------
(***************************************************************************)
(* The two shared files keep what others put into them, and a process goes  *)
(* by what the registry says; and no rule lets a call run that its user did *)
(* not ask for.  For any number of sessions and terminals, any directories, *)
(* and whatever is clicked, answered, failed and interleaved.               *)
(***************************************************************************)
EXTENDS ProjectTrust, TLAPS

Roots == Dirs \cup {"-"}
Says == {"-", "unknown", "trusted", "denied"}
Replies == [Dirs -> Says]

Stores == [cache : Replies, current : BOOLEAN, session : Replies, adrift : BOOLEAN]
Pcs == {"idle", "stat", "load", "apply", "write", "restat", "report", "grant", "rules"}
Kinds == {"-", "initialize", "set", "remove", "get", "adopt", "readopt", "grant"}
Jobs == [pc : Pcs, kind : Kinds, root : Roots, arg : Says, todo : SUBSET Rules,
         seen : BOOLEAN, over : BOOLEAN]
Policies == [root : Roots, trusted : BOOLEAN, rules : SUBSET Rules, mode : {"default", "acceptEdits", "yolo"},
             stale : BOOLEAN, sound : BOOLEAN]
Turns == [on : BOOLEAN, holds : {"live", "held"}, call : Asked \cup {"-"}]

TrustTypes ==
  /\ registry \in [answers : Replies, torn : BOOLEAN]
  /\ ruleFile \in [Dirs -> [rules : SUBSET Rules, torn : BOOLEAN]]
  /\ store \in [Procs -> Stores]
  /\ job \in [Procs -> Jobs]
  /\ server \in [Servers -> [root : Roots, status : Says]]
  /\ policy \in [Servers -> [live : Policies, held : Policies]]
  /\ turn \in [Servers -> Turns]

\* A request about a directory, and a card of a session that has one.
About(p, j) ==
  /\ j.kind \in {"initialize", "set", "remove", "adopt", "readopt"} => j.root \in Dirs
  /\ j.kind \in {"adopt", "readopt"} /\ p \in Servers => policy[p].live.root \in Dirs

Rooted ==
  /\ \A p \in Procs : About(p, job[p])
  /\ \A p \in Servers : /\ turn[p].call # "-" => server[p].root \in Dirs
                        /\ server[p].root \in Dirs => policy[p].live.root \in Dirs

\* What a process may go by: a cache whose stamp is the file's, a stamp taken
\* after its own write, a look at the file before an answer, an answer half saved.
Fresh(p) ==
  store[p].current /\ ~registry.torn /\ ~store[p].adrift => store[p].cache = registry.answers

Stamping(p) ==
  job[p].pc = "restat" /\ ~job[p].over => ~registry.torn /\ store[p].cache = registry.answers

Answering(p) ==
  /\ job[p].pc = "apply" /\ job[p].kind \in {"set", "remove", "adopt"}
  /\ ~job[p].over /\ ~store[p].adrift
  => ~registry.torn /\ store[p].cache = registry.answers

Saving(p) ==
  job[p].pc = "write" /\ ~job[p].over /\ ~store[p].adrift =>
    \A d \in Dirs \ {job[p].root} : store[p].cache[d] = registry.answers[d]

Informed(p) == Fresh(p) /\ Stamping(p) /\ Answering(p) /\ Saving(p)

\* A trusting policy that nobody wrote behind has the rules of its file, and only
\* a trusting policy is granted more.
Complete(pol) ==
  pol.trusted /\ ~pol.stale /\ pol.root \in Dirs => ruleFile[pol.root].rules \subseteq pol.rules

Grants(j) == j.pc \in {"grant", "rules"} \/ (j.pc = "report" /\ j.todo # {})
Granting(p) == Grants(job[p]) => Held(p).trusted

Knowing(p) == Complete(policy[p].live) /\ Complete(policy[p].held) /\ Granting(p)

TrustInvariant ==
  /\ TrustTypes
  /\ Rooted
  /\ \A p \in Procs : Informed(p)
  /\ \A p \in Servers : Knowing(p)

-----------------------------------------------------------------------------
(* Types.                                                                  *)

LEMMA BlankTypes ==
  /\ NoJob \in Jobs /\ NoPolicy \in Policies /\ NoTurn \in Turns /\ NoStore \in Stores
  /\ Unknown \in Replies
<1>1. Unknown \in Replies
  BY DEF Unknown, Replies, Says
<1>2. NoStore \in Stores
  BY <1>1 DEF NoStore, Stores
<1>3. NoJob \in Jobs
  BY DEF NoJob, Jobs, Roots, Says, Pcs, Kinds
<1>4. NoPolicy \in Policies /\ NoTurn \in Turns
  BY DEF NoPolicy, Policies, NoTurn, Turns, Roots
<1>5. QED
  BY <1>1, <1>2, <1>3, <1>4

\* A file just read, and the store of a process that starts.
LEMMA FreshTypes ==
  ASSUME registry \in [answers : Replies, torn : BOOLEAN]
  PROVE  /\ FreshStore \in Stores /\ FreshStore.current /\ ~FreshStore.adrift
         /\ ~registry.torn => FreshStore.cache = registry.answers
<1>1. (IF registry.torn THEN Unknown ELSE registry.answers) \in Replies
  BY BlankTypes
<1>2. QED
  BY <1>1, BlankTypes DEF FreshStore, Stores

LEMMA TrustTypesStart == Init => TrustTypes
<1>1. SUFFICES ASSUME Init PROVE TrustTypes
  OBVIOUS
<1>2. registry \in [answers : Replies, torn : BOOLEAN]
  BY <1>1 DEF Init, Replies, Says
<1>3. store \in [Procs -> Stores]
  BY <1>1, <1>2, FreshTypes, BlankTypes DEF Init
<1>4. ruleFile \in [Dirs -> [rules : SUBSET Rules, torn : BOOLEAN]]
  BY <1>1, TrustAssumption DEF Init
<1>5. job \in [Procs -> Jobs] /\ turn \in [Servers -> Turns]
      /\ policy \in [Servers -> [live : Policies, held : Policies]]
  BY <1>1, BlankTypes DEF Init
<1>6. server \in [Servers -> [root : Roots, status : Says]]
  BY <1>1 DEF Init, Roots, Says
<1>7. QED
  BY <1>2, <1>3, <1>4, <1>5, <1>6 DEF TrustTypes

\* The records a process keeps, field by field.
LEMMA FieldTypes ==
  ASSUME TrustTypes, NEW p \in Procs
  PROVE  /\ store[p] \in Stores /\ job[p] \in Jobs
         /\ store[p].cache \in Replies /\ store[p].session \in Replies
         /\ store[p].current \in BOOLEAN /\ store[p].adrift \in BOOLEAN
         /\ job[p].root \in Roots /\ job[p].arg \in Says /\ job[p].todo \in SUBSET Rules
         /\ job[p].seen \in BOOLEAN /\ job[p].over \in BOOLEAN
         /\ job[p].pc \in Pcs /\ job[p].kind \in Kinds
         /\ registry.answers \in Replies /\ registry.torn \in BOOLEAN
<1>1. store[p] \in Stores /\ job[p] \in Jobs
  BY DEF TrustTypes
<1>2. registry.answers \in Replies /\ registry.torn \in BOOLEAN
  BY DEF TrustTypes
<1>3. QED
  BY <1>1, <1>2 DEF Stores, Jobs

LEMMA ServerTypes ==
  ASSUME TrustTypes, NEW p \in Servers
  PROVE  /\ policy[p] \in [live : Policies, held : Policies]
         /\ policy[p].live \in Policies /\ policy[p].held \in Policies
         /\ turn[p] \in Turns /\ turn[p].holds \in {"live", "held"}
         /\ Held(p) \in Policies
         /\ server[p].root \in Roots /\ server[p].status \in Says
         /\ p \in Procs
<1>1. policy[p] \in [live : Policies, held : Policies] /\ turn[p] \in Turns
      /\ server[p] \in [root : Roots, status : Says]
  BY DEF TrustTypes
<1>2. turn[p].holds \in {"live", "held"}
  BY <1>1 DEF Turns
<1>3. QED
  BY <1>1, <1>2 DEF Held, Procs

\* A new job, and the next step of one.
LEMMA AtTypes ==
  ASSUME TrustTypes, NEW p \in Procs
  PROVE  /\ \A j \in Jobs : At(p, j) => job' \in [Procs -> Jobs] /\ job'[p] = j
                                       /\ \A q \in Procs \ {p} : job'[q] = job[q]
         /\ \A pc \in Pcs : [job[p] EXCEPT !.pc = pc] \in Jobs
         /\ \A pc \in Pcs : Go(p, pc) => job' \in [Procs -> Jobs] /\ job'[p] = [job[p] EXCEPT !.pc = pc]
                                       /\ \A q \in Procs \ {p} : job'[q] = job[q]
<1>1. job \in [Procs -> Jobs]
  BY DEF TrustTypes
<1>2. \A pc \in Pcs : [job[p] EXCEPT !.pc = pc] \in Jobs
  BY <1>1 DEF Jobs
<1>3. \A j \in Jobs : At(p, j) => job' \in [Procs -> Jobs] /\ job'[p] = j
                                 /\ \A q \in Procs \ {p} : job'[q] = job[q]
  BY <1>1 DEF At
<1>4. QED
  BY <1>2, <1>3 DEF Go

LEMMA LoadedTypes ==
  ASSUME TrustTypes, NEW p \in Procs, NEW current \in BOOLEAN
  PROVE  /\ Loaded(p, current) \in Stores
         /\ Loaded(p, current).current = current /\ ~Loaded(p, current).adrift
         /\ Loaded(p, current).session = store[p].session
         /\ ~registry.torn => Loaded(p, current).cache = registry.answers
<1>1. FreshStore.cache \in Replies
  BY FreshTypes DEF TrustTypes, Stores
<1>2. store[p] \in Stores
  BY FieldTypes
<1>3. ~registry.torn => FreshStore.cache = registry.answers
  BY FreshTypes DEF TrustTypes
<1>4. QED
  BY <1>1, <1>2, <1>3 DEF Loaded, Stores

-----------------------------------------------------------------------------
(* What a step must show.                                                  *)

\* One process moves and the registry stays as it is.
LEMMA OthersStayInformed ==
  ASSUME \A q \in Procs : Informed(q), NEW p \in Procs, registry' = registry, Informed(p)',
         \A q \in Procs \ {p} : job'[q] = job[q] /\ store'[q] = store[q]
  PROVE  \A q \in Procs : Informed(q)'
<1>1. SUFFICES ASSUME NEW q \in Procs \ {p} PROVE Informed(q)'
  OBVIOUS
<1>2. job'[q] = job[q] /\ store'[q] = store[q] /\ Informed(q)
  OBVIOUS
<1>3. QED
  BY <1>2 DEF Informed, Fresh, Stamping, Answering, Saving

\* The registry changes: nobody else goes by what it was.
LEMMA OthersAreAlarmed ==
  ASSUME NEW p \in Procs, Informed(p)',
         \A q \in Procs \ {p} : ~store'[q].current /\ (job'[q].pc = "idle" \/ job'[q].over)
  PROVE  \A q \in Procs : Informed(q)'
<1>1. SUFFICES ASSUME NEW q \in Procs \ {p} PROVE Informed(q)'
  OBVIOUS
<1>2. ~store'[q].current /\ (job'[q].pc = "idle" \/ job'[q].over)
  OBVIOUS
<1>3. QED
  BY <1>2 DEF Informed, Fresh, Stamping, Answering, Saving

\* A step of one process's request that leaves the rules and the sessions alone.
LEMMA JobStep ==
  ASSUME TrustInvariant, NEW p \in Procs, NEW j \in Jobs, At(p, j),
         UNCHANGED <<registry, ruleFile, server, policy, turn>>,
         store' \in [Procs -> Stores], \A q \in Procs \ {p} : store'[q] = store[q],
         About(p, j), Grants(j) => p \in Servers /\ Held(p).trusted,
         job'[p] = j => Informed(p)'
  PROVE  TrustInvariant'
<1>1. job' \in [Procs -> Jobs] /\ job'[p] = j /\ \A q \in Procs \ {p} : job'[q] = job[q]
  BY AtTypes DEF TrustInvariant
<1>2. TrustTypes'
  BY <1>1 DEF TrustInvariant, TrustTypes
<1>3. Rooted'
  BY <1>1 DEF TrustInvariant, Rooted, About
<1>4. \A q \in Procs : Informed(q)'
  BY <1>1, OthersStayInformed DEF TrustInvariant
<1>5. ASSUME NEW q \in Servers PROVE Knowing(q)'
  <2>1. Knowing(q) /\ Held(q)' = Held(q) /\ q \in Procs
    BY DEF TrustInvariant, Held, Procs
  <2>2. Complete(policy[q].live)' /\ Complete(policy[q].held)'
    BY <2>1 DEF Knowing, Complete
  <2>3. Granting(q)'
    BY <1>1, <2>1 DEF Knowing, Granting, Grants
  <2>4. QED
    BY <2>2, <2>3 DEF Knowing
<1>6. QED
  BY <1>2, <1>3, <1>4, <1>5 DEF TrustInvariant

\* A step of a session that leaves the registry and what is known of it alone.
LEMMA SessionStep ==
  ASSUME TrustInvariant, NEW p \in Servers, UNCHANGED <<registry, store>>,
         job' \in [Procs -> Jobs], \A q \in Procs \ {p} : job'[q] = job[q],
         job'[p] = job[p] \/ job'[p].pc \in {"idle", "stat", "report", "grant", "rules"},
         \A q \in Procs : About(q, job[q])',
         ruleFile' \in [Dirs -> [rules : SUBSET Rules, torn : BOOLEAN]],
         server' \in [Servers -> [root : Roots, status : Says]],
         policy' \in [Servers -> [live : Policies, held : Policies]],
         turn' \in [Servers -> Turns],
         \A q \in Servers : /\ turn'[q].call # "-" => server'[q].root \in Dirs
                            /\ server'[q].root \in Dirs => policy'[q].live.root \in Dirs,
         \A q \in Servers : Knowing(q)'
  PROVE  TrustInvariant'
<1>1. TrustTypes'
  BY DEF TrustInvariant, TrustTypes
<1>2. Rooted'
  BY DEF TrustInvariant, Rooted, About
<1>3. p \in Procs /\ Informed(p)
  BY DEF TrustInvariant, Procs
<1>4. Informed(p)'
  BY <1>3 DEF Informed, Fresh, Stamping, Answering, Saving
<1>5. \A q \in Procs : Informed(q)'
  BY <1>3, <1>4, OthersStayInformed DEF TrustInvariant
<1>6. QED
  BY <1>1, <1>2, <1>5 DEF TrustInvariant

-----------------------------------------------------------------------------
(* Requests and commands that look at the registry.                        *)

\* What a new answer for this run alone changes in a store.
LEMMA SessionTypes ==
  ASSUME TrustTypes, NEW p \in Procs, NEW s \in Replies, store' = [store EXCEPT ![p].session = s]
  PROVE  /\ store' \in [Procs -> Stores]
         /\ store'[p].cache = store[p].cache /\ store'[p].current = store[p].current
         /\ store'[p].adrift = store[p].adrift /\ store'[p].session = s
         /\ \A q \in Procs \ {p} : store'[q] = store[q]
<1>1. store \in [Procs -> Stores] /\ store[p] \in Stores
  BY DEF TrustTypes
<1>2. store' = [store EXCEPT ![p] = [store[p] EXCEPT !.session = s]]
  BY <1>1
<1>3. [store[p] EXCEPT !.session = s] \in Stores
  BY <1>1 DEF Stores
<1>4. store'[p] = [store[p] EXCEPT !.session = s]
  BY <1>1, <1>2
<1>5. QED
  BY <1>1, <1>2, <1>3, <1>4 DEF Stores

LEMMA InitializeStartsKeeps ==
  ASSUME TrustInvariant, NEW p \in Servers, NEW d \in Dirs, NEW r \in Dirs,
         NEW o \in {"-", "trusted", "denied"}, InitializeStarts(p, d, r, o)
  PROVE  TrustInvariant'
<1> DEFINE s == IF o = "-" THEN store[p].session ELSE [store[p].session EXCEPT ![r] = o]
           j == [NoJob EXCEPT !.kind = "initialize", !.root = r,
                              !.pc = IF s[r] = "unknown" THEN "stat" ELSE "apply"]
<1>1. TrustTypes /\ p \in Procs
  BY DEF TrustInvariant, Procs
<1>2. s \in Replies
  <2>1. store[p].session \in Replies
    BY <1>1, FieldTypes
  <2>2. QED
    BY <2>1 DEF Replies, Says
<1>3. j \in Jobs /\ About(p, j) /\ ~Grants(j) /\ j.kind = "initialize" /\ j.pc \in {"stat", "apply"}
  BY BlankTypes DEF Jobs, Roots, Pcs, Kinds, About, Grants
<1>4. At(p, j) /\ store' = [store EXCEPT ![p].session = s]
      /\ UNCHANGED <<registry, ruleFile, server, policy, turn>>
  BY DEF InitializeStarts, disk
<1> HIDE DEF s, j
<1>5. /\ store' \in [Procs -> Stores]
      /\ store'[p].cache = store[p].cache /\ store'[p].current = store[p].current
      /\ store'[p].adrift = store[p].adrift
      /\ \A q \in Procs \ {p} : store'[q] = store[q]
  BY <1>1, <1>2, <1>4, SessionTypes
<1>6. job'[p] = j => Informed(p)'
  BY <1>1, <1>3, <1>4, <1>5 DEF TrustInvariant, Informed, Fresh, Stamping, Answering, Saving
<1>7. QED
  BY <1>1, <1>3, <1>4, <1>5, <1>6, JobStep

\* trust/set and trust/remove on their way to the registry.
LEMMA TrustRequestKeeps ==
  ASSUME TrustInvariant, NEW p \in Servers, NEW d \in Dirs, NEW r \in Dirs,
         NEW status \in {"trusted", "denied"},
         TrustSet(p, d, r, status) \/ TrustRemove(p, d, r)
  PROVE  TrustInvariant'
<1>1. TrustTypes /\ p \in Procs /\ store \in [Procs -> Stores]
  BY DEF TrustInvariant, TrustTypes, Procs
<1>2. PICK j \in Jobs : At(p, j) /\ j.pc = "stat" /\ About(p, j)
  <2>1. /\ [NoJob EXCEPT !.pc = "stat", !.kind = "set", !.root = r, !.arg = status] \in Jobs
        /\ [NoJob EXCEPT !.pc = "stat", !.kind = "set", !.root = r, !.arg = status].pc = "stat"
        /\ About(p, [NoJob EXCEPT !.pc = "stat", !.kind = "set", !.root = r, !.arg = status])
    BY BlankTypes DEF Jobs, Roots, Pcs, Kinds, Says, About
  <2>2. /\ [NoJob EXCEPT !.pc = "stat", !.kind = "remove", !.root = r] \in Jobs
        /\ [NoJob EXCEPT !.pc = "stat", !.kind = "remove", !.root = r].pc = "stat"
        /\ About(p, [NoJob EXCEPT !.pc = "stat", !.kind = "remove", !.root = r])
    BY BlankTypes DEF Jobs, Roots, Pcs, Kinds, Says, About
  <2>3. QED
    BY <2>1, <2>2 DEF TrustSet, TrustRemove
<1>3. UNCHANGED <<registry, ruleFile, store, server, policy, turn>>
  BY DEF TrustSet, TrustRemove, disk
<1>4. job'[p] = j => Informed(p)'
  BY <1>1, <1>2, <1>3 DEF TrustInvariant, Informed, Fresh, Stamping, Answering, Saving
<1>5. ~Grants(j)
  BY <1>2 DEF Grants
<1>6. QED
  BY <1>1, <1>2, <1>3, <1>4, <1>5, JobStep

LEMMA TrustSetForThisRunKeeps ==
  ASSUME TrustInvariant, NEW p \in Servers, NEW d \in Dirs, NEW r \in Dirs,
         NEW status \in {"trusted", "denied"}, TrustSetForThisRun(p, d, r, status)
  PROVE  TrustInvariant'
<1> DEFINE j == [NoJob EXCEPT !.pc = "report", !.kind = "get", !.root = r]
<1>1. TrustTypes /\ p \in Procs
  BY DEF TrustInvariant, Procs
<1>2. j \in Jobs /\ About(p, j) /\ ~Grants(j) /\ j.pc = "report"
  BY BlankTypes DEF Jobs, NoJob, Roots, Pcs, Kinds, About, Grants
<1>3. store[p] \in Stores /\ store[p].session \in Replies
  BY <1>1, FieldTypes
<1>4. At(p, j) /\ store' = [store EXCEPT ![p].session = [store[p].session EXCEPT ![r] = status]]
      /\ UNCHANGED <<registry, ruleFile, server, policy, turn>>
  BY <1>3 DEF TrustSetForThisRun, disk, Stores
<1>5. [store[p].session EXCEPT ![r] = status] \in Replies
  BY <1>3 DEF Replies, Says
<1> HIDE DEF j
<1>6. /\ store' \in [Procs -> Stores]
      /\ store'[p].cache = store[p].cache /\ store'[p].current = store[p].current
      /\ store'[p].adrift = store[p].adrift
      /\ \A q \in Procs \ {p} : store'[q] = store[q]
  BY <1>1, <1>4, <1>5, SessionTypes
<1>7. job'[p] = j => Informed(p)'
  BY <1>1, <1>2, <1>4, <1>6 DEF TrustInvariant, Informed, Fresh, Stamping, Answering, Saving
<1>8. QED
  BY <1>1, <1>2, <1>4, <1>6, <1>7, JobStep

LEMMA TerminalAnswersKeeps ==
  ASSUME TrustInvariant, NEW p \in Terminals, NEW d \in Dirs, NEW r \in Dirs,
         NEW status \in {"trusted", "denied", "unknown"}, TerminalAnswers(p, d, r, status)
  PROVE  TrustInvariant'
<1> DEFINE j == [NoJob EXCEPT !.pc = "stat", !.kind = IF status = "unknown" THEN "remove" ELSE "set",
                              !.root = r, !.arg = status, !.over = registry.torn]
<1>1. TrustTypes /\ p \in Procs /\ store \in [Procs -> Stores]
      /\ registry \in [answers : Replies, torn : BOOLEAN]
  BY DEF TrustInvariant, TrustTypes, Procs
<1>2. registry.torn \in BOOLEAN
  BY <1>1
<1>3. j \in Jobs /\ About(p, j) /\ ~Grants(j) /\ j.pc = "stat"
  BY <1>2, BlankTypes DEF Jobs, NoJob, Roots, Pcs, Kinds, Says, About, Grants
<1>4. At(p, j) /\ store' = [store EXCEPT ![p] = FreshStore]
      /\ UNCHANGED <<registry, ruleFile, server, policy, turn>>
  BY DEF TerminalAnswers, disk
<1> HIDE DEF j
<1>5. /\ store' \in [Procs -> Stores] /\ store'[p] = FreshStore
      /\ \A q \in Procs \ {p} : store'[q] = store[q]
  BY <1>1, <1>4, FreshTypes
<1>6. job'[p] = j => Informed(p)'
  BY <1>1, <1>3, <1>4, <1>5, FreshTypes DEF Informed, Fresh, Stamping, Answering, Saving
<1>7. QED
  BY <1>1, <1>3, <1>4, <1>5, <1>6, JobStep

\* A look at the stamp: a current one answers for an intact file.
LEMMA RegistryIsStattedKeeps ==
  ASSUME TrustInvariant, NEW p \in Procs, RegistryIsStatted(p)
  PROVE  TrustInvariant'
<1> DEFINE j == [job[p] EXCEPT !.pc = IF store[p].current THEN "apply" ELSE "load",
                               !.seen = ~store[p].current, !.over = @ \/ registry.torn]
<1>1. TrustTypes /\ store \in [Procs -> Stores] /\ Informed(p) /\ About(p, job[p])
  BY DEF TrustInvariant, TrustTypes, Rooted
<1>2. /\ job[p] \in Jobs /\ registry.torn \in BOOLEAN /\ store[p].current \in BOOLEAN
      /\ job[p].over \in BOOLEAN
  BY <1>1, FieldTypes
<1>3. (~store[p].current) \in BOOLEAN /\ (job[p].over \/ registry.torn) \in BOOLEAN
      /\ (IF store[p].current THEN "apply" ELSE "load") \in Pcs
  BY DEF Pcs
<1>4. j \in Jobs /\ j.pc = (IF store[p].current THEN "apply" ELSE "load")
      /\ j.kind = job[p].kind /\ j.root = job[p].root /\ (j.over = (job[p].over \/ registry.torn))
  BY <1>2, <1>3 DEF Jobs
<1>5. At(p, j) /\ UNCHANGED <<registry, ruleFile, store, server, policy, turn>>
  BY DEF RegistryIsStatted, disk
<1> HIDE DEF j
<1>6. About(p, j) /\ ~Grants(j)
  BY <1>1, <1>4 DEF About, Grants
<1>7. job'[p] = j => Informed(p)'
  <2>1. SUFFICES ASSUME job'[p] = j PROVE Informed(p)'
    OBVIOUS
  <2>2. Fresh(p)'
    BY <1>1, <1>5 DEF Informed, Fresh
  <2>3. Stamping(p)' /\ Saving(p)'
    BY <1>4, <2>1 DEF Stamping, Saving
  <2>4. Answering(p)'
    BY <1>1, <1>2, <1>4, <1>5, <2>1 DEF Informed, Fresh, Answering
  <2>5. QED
    BY <2>2, <2>3, <2>4 DEF Informed
<1>8. QED
  BY <1>1, <1>4, <1>5, <1>6, <1>7, JobStep

LEMMA RegistryIsLoadedKeeps ==
  ASSUME TrustInvariant, NEW p \in Procs, RegistryIsLoaded(p)
  PROVE  TrustInvariant'
<1> DEFINE j == [job[p] EXCEPT !.pc = "apply", !.seen = FALSE, !.over = @ \/ registry.torn]
           s == Loaded(p, job[p].seen)
<1>1. TrustTypes /\ store \in [Procs -> Stores] /\ About(p, job[p])
  BY DEF TrustInvariant, TrustTypes, Rooted
<1>2. /\ job[p] \in Jobs /\ registry.torn \in BOOLEAN
      /\ job[p].over \in BOOLEAN /\ job[p].seen \in BOOLEAN
  BY <1>1, FieldTypes
<1>3. (job[p].over \/ registry.torn) \in BOOLEAN
  OBVIOUS
<1>4. j \in Jobs /\ j.pc = "apply"
      /\ j.kind = job[p].kind /\ j.root = job[p].root /\ (j.over = (job[p].over \/ registry.torn))
  BY <1>2, <1>3 DEF Jobs, Pcs
<1>5. s \in Stores /\ s.current = job[p].seen /\ ~s.adrift
      /\ (~registry.torn => s.cache = registry.answers)
  BY <1>1, <1>2, LoadedTypes
<1>6. At(p, j) /\ store' = [store EXCEPT ![p] = s]
      /\ UNCHANGED <<registry, ruleFile, server, policy, turn>>
  BY DEF RegistryIsLoaded, disk
<1> HIDE DEF j, s
<1>7. About(p, j) /\ ~Grants(j)
  BY <1>1, <1>4 DEF About, Grants
<1>8. store' \in [Procs -> Stores] /\ store'[p] = s /\ \A q \in Procs \ {p} : store'[q] = store[q]
  BY <1>1, <1>5, <1>6
<1>9. job'[p] = j => Informed(p)'
  <2>1. SUFFICES ASSUME job'[p] = j PROVE Informed(p)'
    OBVIOUS
  <2>2. Fresh(p)'
    BY <1>5, <1>6, <1>8 DEF Fresh
  <2>3. Stamping(p)' /\ Saving(p)'
    BY <1>4, <2>1 DEF Stamping, Saving
  <2>4. Answering(p)'
    BY <1>2, <1>4, <1>5, <1>6, <1>8, <2>1 DEF Answering
  <2>5. QED
    BY <2>2, <2>3, <2>4 DEF Informed
<1>10. QED
  BY <1>1, <1>4, <1>6, <1>7, <1>8, <1>9, JobStep

\* trust/get looks once more; a click's rules wait for it.
LEMMA TrustIsReportedKeeps ==
  ASSUME TrustInvariant, NEW p \in Servers, TrustIsReported(p)
  PROVE  TrustInvariant'
<1> DEFINE j == IF job[p].todo = {} THEN NoJob ELSE [job[p] EXCEPT !.pc = "grant"]
           s == Loaded(p, TRUE)
<1>1. TrustTypes /\ p \in Procs /\ store \in [Procs -> Stores] /\ About(p, job[p]) /\ Informed(p)
      /\ Granting(p)
  BY DEF TrustInvariant, TrustTypes, Rooted, Procs, Knowing
<1>2. job[p] \in Jobs
  BY <1>1, FieldTypes
<1>3. /\ job[p].pc = "report" /\ At(p, j)
      /\ store' = IF store[p].current THEN store ELSE [store EXCEPT ![p] = s]
      /\ UNCHANGED <<registry, ruleFile, server, policy, turn>>
  BY DEF TrustIsReported, disk
<1>4. j \in Jobs /\ j.pc \in {"idle", "grant"} /\ About(p, j)
  BY <1>1, <1>2, BlankTypes DEF Jobs, NoJob, Pcs, About
<1>5. Grants(j) => p \in Servers /\ Held(p).trusted
  <2>1. CASE job[p].todo = {}
    BY <2>1 DEF NoJob, Grants
  <2>2. CASE job[p].todo # {}
    BY <1>1, <1>3, <2>2 DEF Granting, Grants
  <2>3. QED
    BY <2>1, <2>2
<1>6. s \in Stores /\ ~s.adrift /\ (~registry.torn => s.cache = registry.answers)
  BY <1>1, LoadedTypes
<1> HIDE DEF j, s
<1>7. store' \in [Procs -> Stores] /\ (store'[p] = s \/ store'[p] = store[p])
      /\ \A q \in Procs \ {p} : store'[q] = store[q]
  BY <1>1, <1>3, <1>6
<1>8. job'[p] = j => Informed(p)'
  <2>1. SUFFICES ASSUME job'[p] = j PROVE Informed(p)'
    OBVIOUS
  <2>2. Fresh(p)'
    BY <1>1, <1>3, <1>6, <1>7 DEF Informed, Fresh
  <2>3. Stamping(p)' /\ Saving(p)' /\ Answering(p)'
    BY <1>4, <2>1 DEF Stamping, Saving, Answering
  <2>4. QED
    BY <2>2, <2>3 DEF Informed
<1>9. QED
  BY <1>1, <1>3, <1>4, <1>5, <1>7, <1>8, JobStep

\* Where a save leads.
LEMMA SavedTypes ==
  ASSUME TrustTypes, NEW p \in Procs, About(p, job[p])
  PROVE  Saved(p) \in Jobs /\ About(p, Saved(p)) /\ Saved(p).pc \in {"idle", "stat", "report"}
         /\ ~Grants(Saved(p))
<1>1. job[p] \in Jobs
  BY FieldTypes
<1>2. CASE p \in Terminals
  <2>1. Saved(p) = NoJob
    BY <1>2 DEF Saved
  <2>2. NoJob.pc = "idle" /\ About(p, NoJob)
    BY DEF NoJob, About
  <2>3. QED
    BY <2>1, <2>2, BlankTypes DEF Grants
<1>3. CASE p \notin Terminals /\ job[p].kind = "adopt"
  <2>1. Saved(p) = [job[p] EXCEPT !.kind = "readopt", !.pc = "stat", !.over = FALSE]
    BY <1>3 DEF Saved
  <2>2. QED
    BY <1>1, <1>3, <2>1 DEF Jobs, Pcs, Kinds, About, Grants
<1>4. CASE p \notin Terminals /\ job[p].kind # "adopt"
  <2>1. Saved(p) = [NoJob EXCEPT !.kind = "get", !.pc = "report"]
    BY <1>4 DEF Saved
  <2>2. QED
    BY <2>1, BlankTypes DEF NoJob, Jobs, Pcs, Kinds, About, Grants
<1>5. QED
  BY <1>2, <1>3, <1>4

LEMMA NothingToRemoveKeeps ==
  ASSUME TrustInvariant, NEW p \in Procs, NothingToRemove(p)
  PROVE  TrustInvariant'
<1>1. TrustTypes /\ store \in [Procs -> Stores] /\ About(p, job[p]) /\ Informed(p)
  BY DEF TrustInvariant, TrustTypes, Rooted
<1>2. At(p, Saved(p)) /\ UNCHANGED <<registry, ruleFile, store, server, policy, turn>>
  BY DEF NothingToRemove, disk
<1>3. PICK j \in Jobs : At(p, j) /\ About(p, j) /\ j.pc \in {"idle", "stat", "report"} /\ ~Grants(j)
  BY <1>1, <1>2, SavedTypes
<1>4. job'[p] = j => Informed(p)'
  BY <1>1, <1>2, <1>3 DEF Informed, Fresh, Stamping, Answering, Saving
<1>5. QED
  BY <1>1, <1>2, <1>3, <1>4, JobStep

\* This run's answers after a save, and the registry's answers before one.
LEMMA AnsweredTypes ==
  ASSUME TrustTypes, NEW p \in Procs
  PROVE  /\ SessionAfter(p) \in Replies
         /\ Answered(p) \in Stores
         /\ Answered(p).adrift = store[p].adrift /\ Answered(p).session = store[p].session
         /\ \A d \in Dirs \ {job[p].root} : Answered(p).cache[d] = store[p].cache[d]
         /\ job[p].root \in Dirs =>
              Answered(p).cache[job[p].root] = IF job[p].kind = "remove" THEN "unknown" ELSE job[p].arg
<1>1. /\ store[p] \in Stores /\ store[p].cache \in Replies /\ store[p].session \in Replies
      /\ job[p].arg \in Says
  BY FieldTypes
<1>2. SessionAfter(p) \in Replies
  BY <1>1 DEF SessionAfter, Replies, Says
<1> DEFINE says == IF job[p].kind = "remove" THEN "unknown" ELSE job[p].arg
           c == [store[p].cache EXCEPT ![job[p].root] = says]
<1>3. says \in Says
  BY <1>1 DEF Says
<1>4. /\ c \in Replies /\ \A d \in Dirs \ {job[p].root} : c[d] = store[p].cache[d]
      /\ job[p].root \in Dirs => c[job[p].root] = says
  BY <1>1, <1>3 DEF Replies
<1>5. Answered(p) = [store[p] EXCEPT !.cache = c]
  BY <1>1 DEF Answered, Stores
<1> HIDE DEF c
<1>6. QED
  BY <1>1, <1>2, <1>4, <1>5 DEF Stores

\* The stamp after one's own write.
LEMMA RegistryIsRestattedKeeps ==
  ASSUME TrustInvariant, NEW p \in Procs, RegistryIsRestatted(p)
  PROVE  TrustInvariant'
<1>1. TrustTypes /\ store \in [Procs -> Stores] /\ About(p, job[p]) /\ Informed(p)
  BY DEF TrustInvariant, TrustTypes, Rooted
<1>2. /\ job[p].pc = "restat" /\ At(p, Saved(p))
      /\ store' = [store EXCEPT ![p].current = TRUE, ![p].adrift = job[p].over,
                                ![p].session = SessionAfter(p)]
      /\ UNCHANGED <<registry, ruleFile, server, policy, turn>>
  BY DEF RegistryIsRestatted, disk
<1>3. PICK j \in Jobs : At(p, j) /\ About(p, j) /\ j.pc \in {"idle", "stat", "report"} /\ ~Grants(j)
  BY <1>1, <1>2, SavedTypes
<1>4. store[p] \in Stores /\ job[p].over \in BOOLEAN /\ SessionAfter(p) \in Replies
  BY <1>1, FieldTypes, AnsweredTypes
<1> DEFINE s == [store[p] EXCEPT !.current = TRUE, !.adrift = job[p].over, !.session = SessionAfter(p)]
<1>5. s \in Stores /\ s.cache = store[p].cache /\ s.adrift = job[p].over
  BY <1>4 DEF Stores
<1>6. store'[p] = s
  BY <1>1, <1>2
<1>7. store' = [store EXCEPT ![p] = s]
  BY <1>1, <1>2, <1>6
<1> HIDE DEF s
<1>8. store' \in [Procs -> Stores] /\ \A q \in Procs \ {p} : store'[q] = store[q]
  BY <1>1, <1>5, <1>7
<1>9. job'[p] = j => Informed(p)'
  <2>1. SUFFICES ASSUME job'[p] = j PROVE Informed(p)'
    OBVIOUS
  <2>2. Fresh(p)'
    BY <1>1, <1>2, <1>4, <1>5, <1>6 DEF Informed, Stamping, Fresh
  <2>3. Stamping(p)' /\ Saving(p)' /\ Answering(p)'
    BY <1>3, <2>1 DEF Stamping, Saving, Answering
  <2>4. QED
    BY <2>2, <2>3 DEF Informed
<1>10. QED
  BY <1>1, <1>2, <1>3, <1>8, <1>9, JobStep

\* A save that failed: the answer holds in this process, which is adrift.
LEMMA RegistryIsNotSavedKeeps ==
  ASSUME TrustInvariant, NEW p \in Procs, RegistryIsNotSaved(p)
  PROVE  TrustInvariant'
<1> DEFINE s == IF p \in Terminals THEN NoStore
                ELSE [Answered(p) EXCEPT !.adrift = TRUE, !.session = SessionAfter(p)]
<1>1. TrustTypes /\ store \in [Procs -> Stores] /\ About(p, job[p])
  BY DEF TrustInvariant, TrustTypes, Rooted
<1>2. /\ At(p, Saved(p)) /\ store' = [store EXCEPT ![p] = s]
      /\ UNCHANGED <<registry, ruleFile, server, policy, turn>>
  BY DEF RegistryIsNotSaved, disk
<1>3. PICK j \in Jobs : At(p, j) /\ About(p, j) /\ j.pc \in {"idle", "stat", "report"} /\ ~Grants(j)
  BY <1>1, <1>2, SavedTypes
<1>4. Answered(p) \in Stores /\ SessionAfter(p) \in Replies
  BY <1>1, AnsweredTypes
<1>5. NoStore \in Stores /\ ~NoStore.current
  BY BlankTypes DEF NoStore
<1>6. s \in Stores /\ (~s.current \/ s.adrift)
  BY <1>4, <1>5 DEF Stores
<1> HIDE DEF s
<1>7. store' \in [Procs -> Stores] /\ store'[p] = s /\ \A q \in Procs \ {p} : store'[q] = store[q]
  BY <1>1, <1>2, <1>6
<1>8. job'[p] = j => Informed(p)'
  BY <1>3, <1>6, <1>7 DEF Informed, Fresh, Stamping, Answering, Saving
<1>9. QED
  BY <1>1, <1>2, <1>3, <1>7, <1>8, JobStep

-----------------------------------------------------------------------------
(* A write of the registry, and what it does to everybody else.            *)

LEMMA NoneIsCurrentTypes ==
  ASSUME NEW f \in [Procs -> Stores]
  PROVE  /\ NoneIsCurrent(f) \in [Procs -> Stores]
         /\ \A q \in Procs : /\ ~NoneIsCurrent(f)[q].current
                             /\ NoneIsCurrent(f)[q].cache = f[q].cache
                             /\ NoneIsCurrent(f)[q].adrift = f[q].adrift
                             /\ NoneIsCurrent(f)[q].session = f[q].session
<1>1. \A q \in Procs : /\ [f[q] EXCEPT !.current = FALSE] \in Stores
                       /\ ~[f[q] EXCEPT !.current = FALSE].current
                       /\ [f[q] EXCEPT !.current = FALSE].cache = f[q].cache
                       /\ [f[q] EXCEPT !.current = FALSE].adrift = f[q].adrift
                       /\ [f[q] EXCEPT !.current = FALSE].session = f[q].session
  BY DEF Stores
<1>2. QED
  BY <1>1 DEF NoneIsCurrent

\* The others' jobs, alarmed; p's own, as it was.
LEMMA AlarmedTypes ==
  ASSUME TrustTypes, Rooted, NEW p \in Procs
  PROVE  /\ Alarmed(p) \in [Procs -> Jobs]
         /\ Alarmed(p)[p] = job[p]
         /\ \A q \in Procs \ {p} : Alarmed(p)[q].pc = "idle" \/ Alarmed(p)[q].over
         /\ \A q \in Procs : /\ About(q, Alarmed(p)[q])
                             /\ Grants(Alarmed(p)[q]) => Grants(job[q])
                             /\ Alarmed(p)[q].pc = job[q].pc /\ Alarmed(p)[q].kind = job[q].kind
                             /\ Alarmed(p)[q].root = job[q].root /\ Alarmed(p)[q].arg = job[q].arg
                             /\ Alarmed(p)[q].todo = job[q].todo
                             /\ Alarmed(p)[q] = job[q] \/ Alarmed(p)[q].over
<1>1. SUFFICES ASSUME NEW q \in Procs
      PROVE  LET a == Alarmed(p)[q] IN
             /\ a \in Jobs /\ About(q, a) /\ (Grants(a) => Grants(job[q]))
             /\ (q = p => a = job[p]) /\ (q # p => a.pc = "idle" \/ a.over)
             /\ a.pc = job[q].pc /\ a.kind = job[q].kind /\ a.root = job[q].root
             /\ a.arg = job[q].arg /\ a.todo = job[q].todo /\ (a = job[q] \/ a.over)
  BY DEF Alarmed
<1>2. job[q] \in Jobs /\ About(q, job[q])
  BY FieldTypes DEF Rooted
<1>3. CASE q = p \/ Idle(q)
  BY <1>2, <1>3 DEF Alarmed, Idle
<1>4. CASE ~(q = p \/ Idle(q))
  <2>1. Alarmed(p)[q] = [job[q] EXCEPT !.seen = FALSE, !.over = TRUE]
    BY <1>4 DEF Alarmed
  <2>2. QED
    BY <1>2, <1>4, <2>1 DEF Jobs, About, Grants
<1>5. QED
  BY <1>3, <1>4

LEMMA SharedStep ==
  ASSUME TrustInvariant, NEW p \in Procs, NEW j \in Jobs, NEW f \in [Procs -> Stores],
         job' = [Alarmed(p) EXCEPT ![p] = j], store' = NoneIsCurrent(f),
         registry' \in [answers : Replies, torn : BOOLEAN],
         UNCHANGED <<ruleFile, server, policy, turn>>, About(p, j), ~Grants(j),
         job'[p] = j => Informed(p)'
  PROVE  TrustInvariant'
<1>1. TrustTypes /\ Rooted
  BY DEF TrustInvariant
<1>2. /\ Alarmed(p) \in [Procs -> Jobs]
      /\ \A q \in Procs \ {p} : Alarmed(p)[q].pc = "idle" \/ Alarmed(p)[q].over
      /\ \A q \in Procs : About(q, Alarmed(p)[q]) /\ (Grants(Alarmed(p)[q]) => Grants(job[q]))
  BY <1>1, AlarmedTypes
<1>3. job' \in [Procs -> Jobs] /\ job'[p] = j /\ \A q \in Procs \ {p} : job'[q] = Alarmed(p)[q]
  BY <1>2
<1>4. store' \in [Procs -> Stores] /\ \A q \in Procs : ~store'[q].current
  BY NoneIsCurrentTypes
<1>5. TrustTypes'
  BY <1>1, <1>3, <1>4 DEF TrustTypes
<1>6. Rooted'
  BY <1>1, <1>2, <1>3 DEF Rooted, About
<1>7. \A q \in Procs : Informed(q)'
  BY <1>2, <1>3, <1>4, OthersAreAlarmed
<1>8. ASSUME NEW q \in Servers PROVE Knowing(q)'
  <2>1. Knowing(q) /\ Held(q)' = Held(q) /\ q \in Procs
    BY DEF TrustInvariant, Held, Procs
  <2>2. Complete(policy[q].live)' /\ Complete(policy[q].held)'
    BY <2>1 DEF Knowing, Complete
  <2>3. Grants(job'[q]) => Grants(job[q])
    BY <1>2, <1>3, <2>1
  <2>4. Granting(q)'
    BY <2>1, <2>3 DEF Knowing, Granting, Grants
  <2>5. QED
    BY <2>2, <2>4 DEF Knowing
<1>9. QED
  BY <1>5, <1>6, <1>7, <1>8 DEF TrustInvariant

LEMMA RegistryIsTruncatedKeeps ==
  ASSUME TrustInvariant, NEW p \in Procs, RegistryIsTruncated(p)
  PROVE  TrustInvariant'
<1> DEFINE f == [store EXCEPT ![p] = Answered(p)]
           j == [job[p] EXCEPT !.pc = "write"]
<1>1. TrustTypes /\ Rooted /\ store \in [Procs -> Stores] /\ About(p, job[p]) /\ Informed(p)
      /\ registry \in [answers : Replies, torn : BOOLEAN]
  BY DEF TrustInvariant, TrustTypes, Rooted
<1>2. /\ job[p].pc = "apply" /\ job[p].kind \in {"set", "remove", "adopt"}
      /\ store' = NoneIsCurrent(f) /\ registry' = [registry EXCEPT !.torn = TRUE]
      /\ job' = [Alarmed(p) EXCEPT ![p].pc = "write"]
      /\ UNCHANGED <<ruleFile, server, policy, turn>>
  BY DEF RegistryIsTruncated, Answers
<1>3. f \in [Procs -> Stores] /\ f[p] = Answered(p)
  BY <1>1, AnsweredTypes
<1>4. job[p] \in Jobs
  BY <1>1, FieldTypes
<1>5. /\ j \in Jobs /\ About(p, j) /\ ~Grants(j) /\ j.pc = "write"
      /\ j.root = job[p].root /\ j.over = job[p].over
  BY <1>1, <1>4 DEF Jobs, Pcs, About, Grants
<1>6. Alarmed(p) \in [Procs -> Jobs] /\ Alarmed(p)[p] = job[p]
  BY <1>1, AlarmedTypes
<1>7. job' = [Alarmed(p) EXCEPT ![p] = j]
  BY <1>2, <1>6
<1>8. registry' \in [answers : Replies, torn : BOOLEAN] /\ registry'.answers = registry.answers
  BY <1>1, <1>2
<1> HIDE DEF f, j
<1>9. ~store'[p].current /\ store'[p].cache = Answered(p).cache /\ store'[p].adrift = Answered(p).adrift
  BY <1>2, <1>3, NoneIsCurrentTypes
<1>10. job'[p] = j => Informed(p)'
  <2>1. SUFFICES ASSUME job'[p] = j PROVE Informed(p)'
    OBVIOUS
  <2>2. Fresh(p)' /\ Stamping(p)' /\ Answering(p)'
    BY <1>5, <1>9, <2>1 DEF Fresh, Stamping, Answering
  <2>3. ~job[p].over /\ ~store[p].adrift => store[p].cache = registry.answers
    BY <1>1, <1>2 DEF Informed, Answering
  <2>4. Saving(p)'
    BY <1>1, <1>5, <1>8, <1>9, <2>1, <2>3, AnsweredTypes DEF Saving
  <2>5. QED
    BY <2>2, <2>4 DEF Informed
<1>11. QED
  BY <1>2, <1>3, <1>5, <1>7, <1>8, <1>10, SharedStep

LEMMA RegistryIsWrittenKeeps ==
  ASSUME TrustInvariant, NEW p \in Procs, RegistryIsWritten(p)
  PROVE  TrustInvariant'
<1> DEFINE f == IF p \in Terminals THEN [store EXCEPT ![p] = NoStore] ELSE store
           j == IF p \in Terminals THEN NoJob ELSE [job[p] EXCEPT !.pc = "restat", !.over = FALSE]
<1>1. TrustTypes /\ Rooted /\ store \in [Procs -> Stores] /\ About(p, job[p])
  BY DEF TrustInvariant, TrustTypes, Rooted
<1>2. Alarmed(p) \in [Procs -> Jobs] /\ Alarmed(p)[p] = job[p]
  BY <1>1, AlarmedTypes
<1>3. /\ store' = NoneIsCurrent(f) /\ registry' = [answers |-> store[p].cache, torn |-> FALSE]
      /\ job' = [Alarmed(p) EXCEPT ![p] = j]
      /\ UNCHANGED <<ruleFile, server, policy, turn>>
  BY <1>2 DEF RegistryIsWritten
<1>4. f \in [Procs -> Stores] /\ (p \notin Terminals => f[p] = store[p])
  BY <1>1, BlankTypes
<1>5. job[p] \in Jobs /\ store[p].cache \in Replies
  BY <1>1, FieldTypes
<1>6. j \in Jobs /\ About(p, j) /\ ~Grants(j) /\ j.pc \in {"idle", "restat"}
      /\ (j.pc = "restat" => p \notin Terminals)
  <2>1. CASE p \in Terminals
    BY <2>1, BlankTypes DEF NoJob, About, Grants
  <2>2. CASE p \notin Terminals
    BY <1>1, <1>5, <2>2 DEF Jobs, Pcs, About, Grants
  <2>3. QED
    BY <2>1, <2>2
<1>7. registry' \in [answers : Replies, torn : BOOLEAN] /\ registry'.answers = store[p].cache
      /\ ~registry'.torn
  BY <1>3, <1>5
<1> HIDE DEF f, j
<1>8. ~store'[p].current /\ store'[p].cache = f[p].cache
  BY <1>3, <1>4, NoneIsCurrentTypes
<1>9. job'[p] = j => Informed(p)'
  BY <1>4, <1>6, <1>7, <1>8 DEF Informed, Fresh, Stamping, Answering, Saving
<1>10. QED
  BY <1>3, <1>4, <1>6, <1>7, <1>9, SharedStep

-----------------------------------------------------------------------------
(* Policies.                                                               *)

\* A policy made now reads the rules there are now, or none.
LEMMA NewPolicyTypes ==
  ASSUME TrustTypes, NEW p \in Servers, NEW r \in Dirs
  PROVE  /\ NewPolicy(p, r) \in Policies /\ NewPolicy(p, r).root = r
         /\ Complete(NewPolicy(p, r))
         /\ Resolved(p, r) \in Says
<1>1. ruleFile[r] \in [rules : SUBSET Rules, torn : BOOLEAN] /\ p \in Procs
  BY DEF TrustTypes, Procs
<1>2. store[p].session \in Replies /\ store[p].cache \in Replies
  BY <1>1, FieldTypes
<1>3. Resolved(p, r) \in Says
  BY <1>2 DEF Resolved, Replies
<1>4. RulesOf(r) \in SUBSET Rules /\ (~ruleFile[r].torn => RulesOf(r) = ruleFile[r].rules)
  BY <1>1 DEF RulesOf
<1> DEFINE trusted == Resolved(p, r) = "trusted"
<1>5. trusted \in BOOLEAN /\ (trusted /\ ruleFile[r].torn) \in BOOLEAN /\ Consented(p, r) \in BOOLEAN
  BY DEF Consented
<1>6. NewPolicy(p, r) = [NoPolicy EXCEPT !.root = r, !.trusted = trusted,
                           !.rules = IF trusted THEN RulesOf(r) ELSE {},
                           !.stale = trusted /\ ruleFile[r].torn, !.sound = Consented(p, r)]
  BY DEF NewPolicy
<1> HIDE DEF trusted
<1>7. /\ NewPolicy(p, r) \in Policies /\ NewPolicy(p, r).root = r
      /\ NewPolicy(p, r).trusted = trusted
      /\ NewPolicy(p, r).stale = (trusted /\ ruleFile[r].torn)
      /\ NewPolicy(p, r).rules = IF trusted THEN RulesOf(r) ELSE {}
  BY <1>4, <1>5, <1>6, BlankTypes DEF Policies, Roots
<1>8. Complete(NewPolicy(p, r))
  BY <1>1, <1>4, <1>7 DEF Complete
<1>9. QED
  BY <1>3, <1>7, <1>8

\* Trusting a project adds the rules on disk to the policy's.
LEMMA MarkTrustedTypes ==
  ASSUME TrustTypes, NEW p \in Servers, policy[p].live.root \in Dirs, Complete(policy[p].live)
  PROVE  /\ MarkTrusted(p) \in Policies /\ MarkTrusted(p).root = policy[p].live.root
         /\ MarkTrusted(p).trusted
         /\ Complete(MarkTrusted(p))
<1> DEFINE pol == policy[p].live
<1>1. pol \in Policies
  BY ServerTypes
<1>2. ruleFile[pol.root] \in [rules : SUBSET Rules, torn : BOOLEAN]
  BY DEF TrustTypes
<1>3. RulesOf(pol.root) \in SUBSET Rules
      /\ (~ruleFile[pol.root].torn => RulesOf(pol.root) = ruleFile[pol.root].rules)
  BY <1>2 DEF RulesOf
<1>4. Consented(p, pol.root) \in BOOLEAN
  BY DEF Consented
<1>5. CASE pol.trusted
  BY <1>1, <1>5 DEF MarkTrusted
<1>6. CASE ~pol.trusted
  <2>1. MarkTrusted(p) = [pol EXCEPT !.trusted = TRUE, !.rules = pol.rules \cup RulesOf(pol.root),
                            !.stale = ruleFile[pol.root].torn, !.sound = Consented(p, pol.root)]
    BY <1>1, <1>6 DEF MarkTrusted, Policies
  <2> HIDE DEF pol
  <2>2. /\ MarkTrusted(p) \in Policies /\ MarkTrusted(p).root = pol.root
        /\ MarkTrusted(p).trusted /\ MarkTrusted(p).stale = ruleFile[pol.root].torn
        /\ MarkTrusted(p).rules = pol.rules \cup RulesOf(pol.root)
    BY <1>1, <1>2, <1>3, <1>4, <2>1 DEF Policies
  <2>3. Complete(MarkTrusted(p))
    BY <1>3, <2>2 DEF Complete
  <2>4. QED
    BY <2>2, <2>3 DEF pol
<1>7. QED
  BY <1>5, <1>6

\* A rule more in the policy the turn uses.
Gains(p, x) == policy' = [policy EXCEPT ![p][turn[p].holds].rules = @ \union {x}]

LEMMA GrantedRuleTypes ==
  ASSUME TrustTypes, NEW p \in Servers, NEW x \in Rules,
         Gains(p, x)
  PROVE  /\ policy' \in [Servers -> [live : Policies, held : Policies]]
         /\ \A q \in Servers, h \in {"live", "held"} :
              /\ policy'[q][h].root = policy[q][h].root
              /\ policy'[q][h].trusted = policy[q][h].trusted
              /\ policy'[q][h].stale = policy[q][h].stale
              /\ policy[q][h].rules \subseteq policy'[q][h].rules
<1> DEFINE h == turn[p].holds
           pol == [policy[p][h] EXCEPT !.rules = policy[p][h].rules \cup {x}]
<1>1. policy \in [Servers -> [live : Policies, held : Policies]] /\ h \in {"live", "held"}
      /\ policy[p][h] \in Policies /\ policy[p] \in [live : Policies, held : Policies]
  BY ServerTypes DEF TrustTypes, Held
<1>2. /\ pol \in Policies /\ pol.root = policy[p][h].root /\ pol.trusted = policy[p][h].trusted
      /\ pol.stale = policy[p][h].stale /\ policy[p][h].rules \subseteq pol.rules
  BY <1>1 DEF Policies
<1>3. policy' = [policy EXCEPT ![p] = [policy[p] EXCEPT ![h] = pol]]
  BY <1>1 DEF Policies, Gains
<1> HIDE DEF pol
<1>4. [policy[p] EXCEPT ![h] = pol] \in [live : Policies, held : Policies]
      /\ [policy[p] EXCEPT ![h] = pol][h] = pol
      /\ \A g \in {"live", "held"} \ {h} : [policy[p] EXCEPT ![h] = pol][g] = policy[p][g]
  BY <1>1, <1>2
<1>5. policy' \in [Servers -> [live : Policies, held : Policies]]
      /\ policy'[p] = [policy[p] EXCEPT ![h] = pol]
      /\ \A q \in Servers \ {p} : policy'[q] = policy[q]
  BY <1>1, <1>3, <1>4
<1>6. QED
  BY <1>2, <1>4, <1>5

\* And nothing else.
LEMMA GrantedRuleIsAll ==
  ASSUME TrustTypes, NEW p \in Servers, NEW x \in Rules,
         Gains(p, x),
         NEW q \in Servers, NEW h \in {"live", "held"}
  PROVE  /\ policy'[q][h].sound = policy[q][h].sound
         /\ policy'[q][h].rules \subseteq policy[q][h].rules \cup {x}
         /\ ~(q = p /\ h = turn[p].holds) => policy'[q][h] = policy[q][h]
<1> DEFINE g == turn[p].holds
           pol == [policy[p][g] EXCEPT !.rules = policy[p][g].rules \cup {x}]
<1>1. policy \in [Servers -> [live : Policies, held : Policies]] /\ g \in {"live", "held"}
      /\ policy[p][g] \in Policies /\ policy[p] \in [live : Policies, held : Policies]
  BY ServerTypes DEF TrustTypes, Held
<1>2. /\ pol \in Policies /\ pol.root = policy[p][g].root /\ pol.trusted = policy[p][g].trusted
      /\ pol.stale = policy[p][g].stale /\ policy[p][g].rules \subseteq pol.rules
      /\ pol.sound = policy[p][g].sound /\ pol.rules \subseteq policy[p][g].rules \cup {x}
  BY <1>1 DEF Policies
<1>3. policy' = [policy EXCEPT ![p] = [policy[p] EXCEPT ![g] = pol]]
  BY <1>1 DEF Policies, Gains
<1> HIDE DEF pol
<1>4. [policy[p] EXCEPT ![g] = pol] \in [live : Policies, held : Policies]
      /\ [policy[p] EXCEPT ![g] = pol][g] = pol
      /\ \A e \in {"live", "held"} \ {g} : [policy[p] EXCEPT ![g] = pol][e] = policy[p][e]
  BY <1>1, <1>2
<1>5. policy' \in [Servers -> [live : Policies, held : Policies]]
      /\ policy'[p] = [policy[p] EXCEPT ![g] = pol]
      /\ \A o \in Servers \ {p} : policy'[o] = policy[o]
  BY <1>1, <1>3, <1>4
<1>6. QED
  BY <1>2, <1>4, <1>5

\* Policies that only gain rules, over files whose rules stay.
LEMMA PoliciesGrow ==
  ASSUME TrustInvariant, \A d \in Dirs : ruleFile'[d].rules = ruleFile[d].rules,
         \A q \in Servers, h \in {"live", "held"} :
           /\ policy'[q][h].root = policy[q][h].root
           /\ policy'[q][h].trusted = policy[q][h].trusted
           /\ policy'[q][h].stale = policy[q][h].stale
           /\ policy[q][h].rules \subseteq policy'[q][h].rules,
         \A q \in Servers : Grants(job'[q]) => turn'[q].holds = turn[q].holds /\ Held(q).trusted
  PROVE  \A q \in Servers : Knowing(q)'
<1>1. SUFFICES ASSUME NEW q \in Servers PROVE Knowing(q)'
  OBVIOUS
<1>2. Knowing(q) /\ turn[q].holds \in {"live", "held"}
  BY ServerTypes DEF TrustInvariant
<1>3. Complete(policy[q].live)'
  <2>1. /\ policy'[q].live.root = policy[q].live.root
        /\ policy'[q].live.trusted = policy[q].live.trusted
        /\ policy'[q].live.stale = policy[q].live.stale
        /\ policy[q].live.rules \subseteq policy'[q].live.rules
    OBVIOUS
  <2>2. QED
    BY <1>2, <2>1 DEF Knowing, Complete
<1>4. Complete(policy[q].held)'
  <2>1. /\ policy'[q].held.root = policy[q].held.root
        /\ policy'[q].held.trusted = policy[q].held.trusted
        /\ policy'[q].held.stale = policy[q].held.stale
        /\ policy[q].held.rules \subseteq policy'[q].held.rules
    OBVIOUS
  <2>2. QED
    BY <1>2, <2>1 DEF Knowing, Complete
<1>5. Granting(q)'
  BY <1>2 DEF Granting, Held, Grants
<1>6. QED
  BY <1>3, <1>4, <1>5 DEF Knowing

-----------------------------------------------------------------------------
(* The turn and its cards.                                                 *)

\* Steps that change a turn's card and the job, and no policy and no file.
LEMMA CardStep ==
  ASSUME TrustInvariant, NEW p \in Servers, UNCHANGED <<registry, ruleFile, store, server, policy>>,
         job' \in [Procs -> Jobs], \A q \in Procs \ {p} : job'[q] = job[q],
         job'[p] = job[p] \/ job'[p].pc \in {"idle", "stat", "report", "grant", "rules"},
         About(p, job'[p]), Grants(job'[p]) => Held(p).trusted,
         turn' \in [Servers -> Turns], \A q \in Servers : turn'[q].holds = turn[q].holds,
         \A q \in Servers : turn'[q].call # "-" => turn[q].call # "-" \/ server[q].root # "-"
  PROVE  TrustInvariant'
<1>1. TrustTypes /\ Rooted
  BY DEF TrustInvariant
<1>2. \A q \in Procs : About(q, job[q])'
  BY <1>1 DEF Rooted, About
<1>3. \A q \in Servers : server[q].root # "-" => server[q].root \in Dirs
  BY <1>1, ServerTypes DEF Roots
<1>4. \A q \in Servers : /\ turn'[q].call # "-" => server'[q].root \in Dirs
                         /\ server'[q].root \in Dirs => policy'[q].live.root \in Dirs
  BY <1>1, <1>3 DEF Rooted
<1>5. \A q \in Servers : Grants(job'[q]) => Held(q).trusted
  BY DEF TrustInvariant, Knowing, Granting, Procs
<1>6. \A q \in Servers : Knowing(q)'
  BY <1>5, PoliciesGrow
<1>7. QED
  BY <1>1, <1>2, <1>4, <1>6, SessionStep DEF TrustTypes

LEMMA SettledTypes ==
  ASSUME TrustTypes, NEW p \in Servers, Settled(p)
  PROVE  /\ turn' \in [Servers -> Turns]
         /\ \A q \in Servers : turn'[q].holds = turn[q].holds
         /\ \A q \in Servers : turn'[q].call # "-" => turn[q].call # "-"
<1>1. turn \in [Servers -> Turns] /\ turn[p] \in Turns
  BY DEF TrustTypes
<1>2. [turn[p] EXCEPT !.call = "-"] \in Turns
      /\ [turn[p] EXCEPT !.call = "-"].holds = turn[p].holds
      /\ [turn[p] EXCEPT !.call = "-"].call = "-"
  BY <1>1 DEF Turns
<1>3. turn' = [turn EXCEPT ![p] = [turn[p] EXCEPT !.call = "-"]]
  BY <1>1 DEF Settled
<1>4. QED
  BY <1>1, <1>2, <1>3

LEMMA ToolStartsKeeps ==
  ASSUME TrustInvariant, NEW p \in Servers, NEW k \in Asked, ToolStarts(p, k)
  PROVE  TrustInvariant'
<1>1. TrustTypes /\ p \in Procs /\ job \in [Procs -> Jobs] /\ turn \in [Servers -> Turns]
      /\ turn[p] \in Turns /\ About(p, job[p]) /\ Granting(p)
  BY DEF TrustInvariant, TrustTypes, Rooted, Procs, Knowing
<1>2. PICK c \in Asked \cup {"-"} : turn' = [turn EXCEPT ![p].on = TRUE, ![p].call = c]
  BY DEF ToolStarts
<1>3. [turn[p] EXCEPT !.on = TRUE, !.call = c] \in Turns
      /\ [turn[p] EXCEPT !.on = TRUE, !.call = c].holds = turn[p].holds
  BY <1>1 DEF Turns
<1>4. turn' = [turn EXCEPT ![p] = [turn[p] EXCEPT !.on = TRUE, !.call = c]]
  BY <1>1, <1>2
<1>5. turn' \in [Servers -> Turns] /\ (\A q \in Servers : turn'[q].holds = turn[q].holds)
      /\ \A q \in Servers \ {p} : turn'[q] = turn[q]
  BY <1>1, <1>3, <1>4
<1>6. server[p].root # "-" /\ UNCHANGED <<registry, ruleFile, store, job, server, policy>>
  BY DEF ToolStarts, disk
<1>7. QED
  BY <1>1, <1>5, <1>6, CardStep DEF Granting

LEMMA CardIsSettledKeeps ==
  ASSUME TrustInvariant, NEW p \in Servers, CardIsSettled(p)
  PROVE  TrustInvariant'
<1>1. TrustTypes /\ p \in Procs /\ job \in [Procs -> Jobs] /\ About(p, job[p]) /\ Granting(p)
  BY DEF TrustInvariant, TrustTypes, Rooted, Procs, Knowing
<1>2. Settled(p) /\ UNCHANGED <<registry, ruleFile, store, job, server, policy>>
  BY DEF CardIsSettled, disk
<1>3. QED
  BY <1>1, <1>2, SettledTypes, CardStep DEF Granting

\* What a click wants remembered are rules.
LEMMA PersistableRules ==
  ASSUME NEW k \in Asked PROVE Persistable(Call[k]) \in SUBSET Rules
<1>1. k \in {"edit", "shell", "mcp", "format", "bare"}
  BY TrustAssumption
<1>2. QED
  BY <1>1 DEF Persistable, Call, Rules

LEMMA AlwaysIsClickedKeeps ==
  ASSUME TrustInvariant, NEW p \in Servers, NEW trust \in BOOLEAN, AlwaysIsClicked(p, trust)
  PROVE  TrustInvariant'
<1> DEFINE todo == Persistable(Call[turn[p].call])
           g == [NoJob EXCEPT !.pc = "grant", !.kind = "grant", !.todo = todo]
           a == [NoJob EXCEPT !.pc = "stat", !.kind = "adopt", !.root = server[p].root,
                              !.arg = "trusted", !.todo = todo]
<1>1. TrustTypes /\ p \in Procs /\ job \in [Procs -> Jobs] /\ turn \in [Servers -> Turns]
      /\ turn[p] \in Turns /\ About(p, job[p]) /\ Granting(p) /\ Rooted
  BY DEF TrustInvariant, TrustTypes, Rooted, Procs, Knowing
<1>2. turn[p].call # "-" /\ UNCHANGED <<registry, ruleFile, store, server, policy>>
  BY DEF AlwaysIsClicked, disk
<1>3. todo \in SUBSET Rules
  BY <1>1, <1>2, PersistableRules DEF Turns
<1>4. server[p].root \in Dirs /\ policy[p].live.root \in Dirs
  BY <1>1, <1>2 DEF Rooted
<1>5. \/ Held(p).trusted /\ At(p, g) /\ turn' = turn
      \/ At(p, a) /\ turn' = turn
      \/ Settled(p) /\ job' = job
  BY DEF AlwaysIsClicked
<1> HIDE DEF todo
<1>6. g \in Jobs /\ About(p, g) /\ g.pc = "grant"
  BY <1>3, BlankTypes DEF NoJob, Jobs, Pcs, Kinds, About
<1>7. a \in Jobs /\ About(p, a) /\ a.pc = "stat"
  BY <1>3, <1>4, BlankTypes DEF NoJob, Jobs, Pcs, Kinds, Roots, Says, About
<1> HIDE DEF g, a
<1>8. CASE Held(p).trusted /\ At(p, g) /\ turn' = turn
  <2>1. job' \in [Procs -> Jobs] /\ job'[p] = g /\ \A q \in Procs \ {p} : job'[q] = job[q]
    BY <1>1, <1>6, <1>8, AtTypes
  <2>2. QED
    BY <1>1, <1>2, <1>6, <1>8, <2>1, CardStep
<1>9. CASE At(p, a) /\ turn' = turn
  <2>1. job' \in [Procs -> Jobs] /\ job'[p] = a /\ \A q \in Procs \ {p} : job'[q] = job[q]
    BY <1>1, <1>7, <1>9, AtTypes
  <2>2. ~Grants(a)
    BY <1>7 DEF Grants
  <2>3. QED
    BY <1>1, <1>2, <1>7, <1>9, <2>1, <2>2, CardStep
<1>10. CASE Settled(p) /\ job' = job
  BY <1>1, <1>2, <1>10, SettledTypes, CardStep DEF Granting
<1>11. QED
  BY <1>5, <1>8, <1>9, <1>10

-----------------------------------------------------------------------------
(* Remembering rules.                                                      *)

LEMMA GrantedTypes ==
  ASSUME TrustTypes, Rooted, NEW p \in Servers, NEW todo \in SUBSET Rules, Granted(p, todo)
  PROVE  /\ job' \in [Procs -> Jobs] /\ \A q \in Procs \ {p} : job'[q] = job[q]
         /\ job'[p].pc \in {"idle", "grant"} /\ About(p, job'[p])
         /\ turn' \in [Servers -> Turns]
         /\ \A q \in Servers : turn'[q].holds = turn[q].holds
         /\ \A q \in Servers : turn'[q].call # "-" => turn[q].call # "-"
<1>1. p \in Procs /\ job[p] \in Jobs /\ About(p, job[p]) /\ turn \in [Servers -> Turns]
  BY FieldTypes DEF Procs, Rooted, TrustTypes
<1>2. CASE todo = {}
  <2>1. At(p, NoJob) /\ Settled(p)
    BY <1>2 DEF Granted
  <2>2. NoJob.pc = "idle" /\ About(p, NoJob)
    BY DEF NoJob, About
  <2>3. QED
    BY <1>1, <2>1, <2>2, BlankTypes, AtTypes, SettledTypes
<1>3. CASE todo # {}
  <2>1. At(p, [job[p] EXCEPT !.pc = "grant", !.todo = todo]) /\ turn' = turn
    BY <1>3 DEF Granted
  <2>2. /\ [job[p] EXCEPT !.pc = "grant", !.todo = todo] \in Jobs
        /\ [job[p] EXCEPT !.pc = "grant", !.todo = todo].pc = "grant"
        /\ About(p, [job[p] EXCEPT !.pc = "grant", !.todo = todo])
    BY <1>1 DEF Jobs, Pcs, About
  <2>3. QED
    BY <1>1, <2>1, <2>2, AtTypes
<1>4. QED
  BY <1>2, <1>3

LEMMA RuleIsInForceKeeps ==
  ASSUME TrustInvariant, NEW p \in Servers, RuleIsInForce(p)
  PROVE  TrustInvariant'
<1>1. TrustTypes /\ Rooted /\ p \in Procs /\ Granting(p)
  BY DEF TrustInvariant, Procs, Knowing
<1>2. job[p].todo \in SUBSET Rules
  BY <1>1, FieldTypes
<1>3. PICK x : Granted(p, job[p].todo \ {x})
  BY DEF RuleIsInForce
<1>4. job[p].pc = "grant" /\ UNCHANGED <<registry, ruleFile, store, server, policy>>
  BY DEF RuleIsInForce, disk
<1>5. job[p].todo \ {x} \in SUBSET Rules
  BY <1>2
<1>6. Held(p).trusted
  BY <1>1, <1>4 DEF Granting, Grants
<1>7. QED
  BY <1>1, <1>3, <1>4, <1>5, <1>6, GrantedTypes, CardStep

\* A rule more, in the policy, on its way to the file or not.
LEMMA GrantStep ==
  ASSUME TrustInvariant, NEW p \in Servers, NEW x \in Rules, UNCHANGED <<registry, store, server>>,
         Gains(p, x),
         ruleFile' \in [Dirs -> [rules : SUBSET Rules, torn : BOOLEAN]],
         \A d \in Dirs : ruleFile'[d].rules = ruleFile[d].rules,
         job' \in [Procs -> Jobs], \A q \in Procs \ {p} : job'[q] = job[q],
         job'[p].pc \in {"idle", "grant", "rules"}, About(p, job'[p]), Held(p).trusted,
         turn' \in [Servers -> Turns], \A q \in Servers : turn'[q].holds = turn[q].holds,
         \A q \in Servers : turn'[q].call # "-" => turn[q].call # "-"
  PROVE  TrustInvariant'
<1>1. TrustTypes /\ Rooted
  BY DEF TrustInvariant
<1>2. /\ policy' \in [Servers -> [live : Policies, held : Policies]]
      /\ \A q \in Servers, h \in {"live", "held"} :
           /\ policy'[q][h].root = policy[q][h].root
           /\ policy'[q][h].trusted = policy[q][h].trusted
           /\ policy'[q][h].stale = policy[q][h].stale
           /\ policy[q][h].rules \subseteq policy'[q][h].rules
  BY <1>1, GrantedRuleTypes
<1>3. \A q \in Servers : policy'[q].live.root = policy[q].live.root
  <2>1. SUFFICES ASSUME NEW q \in Servers PROVE policy'[q]["live"].root = policy[q]["live"].root
    OBVIOUS
  <2>2. QED
    BY <1>2
<1>4. \A q \in Procs : About(q, job[q])'
  <2>1. SUFFICES ASSUME NEW q \in Procs PROVE About(q, job[q])'
    OBVIOUS
  <2>2. CASE q \in Servers
    BY <1>1, <1>3, <2>2 DEF Rooted, About
  <2>3. CASE q \notin Servers
    BY <1>1, <2>3 DEF Rooted, About
  <2>4. QED
    BY <2>2, <2>3
<1>5. \A q \in Servers : /\ turn'[q].call # "-" => server'[q].root \in Dirs
                         /\ server'[q].root \in Dirs => policy'[q].live.root \in Dirs
  BY <1>1, <1>3 DEF Rooted
<1>6. \A q \in Servers : Grants(job'[q]) => turn'[q].holds = turn[q].holds /\ Held(q).trusted
  BY DEF TrustInvariant, Knowing, Granting, Procs
<1>7. \A q \in Servers : Knowing(q)'
  BY <1>2, <1>6, PoliciesGrow
<1>8. server' \in [Servers -> [root : Roots, status : Says]]
  BY <1>1 DEF TrustTypes
<1>9. QED
  BY <1>2, <1>4, <1>5, <1>7, <1>8, SessionStep

LEMMA RuleIsAddedKeeps ==
  ASSUME TrustInvariant, NEW p \in Servers, RuleIsAdded(p)
  PROVE  TrustInvariant'
<1>1. TrustTypes /\ Rooted /\ p \in Procs /\ Granting(p) /\ About(p, job[p])
      /\ turn \in [Servers -> Turns] /\ ruleFile \in [Dirs -> [rules : SUBSET Rules, torn : BOOLEAN]]
  BY DEF TrustInvariant, TrustTypes, Procs, Knowing, Rooted
<1>2. job[p] \in Jobs /\ job[p].todo \in SUBSET Rules
  BY <1>1, FieldTypes
<1>3. PICK x \in job[p].todo \ Held(p).rules :
        /\ policy' = [policy EXCEPT ![p][turn[p].holds].rules = @ \union {x}]
        /\ At(p, [job[p] EXCEPT !.todo = @ \ {x}, !.pc = "rules"])
  BY DEF RuleIsAdded
<1>4. /\ job[p].pc = "grant" /\ ruleFile' = [ruleFile EXCEPT ![Held(p).root].torn = TRUE]
      /\ UNCHANGED <<registry, store, server, turn>>
  BY DEF RuleIsAdded
<1>5. ruleFile' \in [Dirs -> [rules : SUBSET Rules, torn : BOOLEAN]]
      /\ \A d \in Dirs : ruleFile'[d].rules = ruleFile[d].rules
  BY <1>1, <1>4
<1>6. /\ [job[p] EXCEPT !.todo = @ \ {x}, !.pc = "rules"] \in Jobs
      /\ [job[p] EXCEPT !.todo = @ \ {x}, !.pc = "rules"].pc = "rules"
      /\ About(p, [job[p] EXCEPT !.todo = @ \ {x}, !.pc = "rules"])
  BY <1>1, <1>2 DEF Jobs, Pcs, About
<1>7. job' \in [Procs -> Jobs] /\ (\A q \in Procs \ {p} : job'[q] = job[q])
      /\ job'[p].pc = "rules" /\ About(p, job'[p])
  BY <1>1, <1>3, <1>6, AtTypes
<1>8. Held(p).trusted
  BY <1>1, <1>4 DEF Granting, Grants
<1>9. x \in Rules /\ Gains(p, x)
  BY <1>2, <1>3 DEF Gains
<1>10. QED
  BY <1>1, <1>3, <1>4, <1>5, <1>7, <1>8, <1>9, GrantStep

LEMMA RuleIsNotSavedKeeps ==
  ASSUME TrustInvariant, NEW p \in Servers, RuleIsNotSaved(p)
  PROVE  TrustInvariant'
<1>1. TrustTypes /\ Rooted /\ p \in Procs /\ Granting(p)
      /\ ruleFile \in [Dirs -> [rules : SUBSET Rules, torn : BOOLEAN]]
  BY DEF TrustInvariant, TrustTypes, Procs, Knowing
<1>2. job[p].todo \in SUBSET Rules
  BY <1>1, FieldTypes
<1>3. PICK x \in job[p].todo \ Held(p).rules :
        /\ policy' = [policy EXCEPT ![p][turn[p].holds].rules = @ \union {x}]
        /\ Granted(p, job[p].todo \ {x})
  BY DEF RuleIsNotSaved
<1>4. job[p].pc = "grant" /\ UNCHANGED <<registry, ruleFile, store, server>>
  BY DEF RuleIsNotSaved, disk
<1>5. x \in Rules /\ job[p].todo \ {x} \in SUBSET Rules /\ Gains(p, x)
  BY <1>2, <1>3 DEF Gains
<1>6. Held(p).trusted
  BY <1>1, <1>4 DEF Granting, Grants
<1>7. /\ job' \in [Procs -> Jobs] /\ \A q \in Procs \ {p} : job'[q] = job[q]
      /\ job'[p].pc \in {"idle", "grant"} /\ About(p, job'[p])
      /\ turn' \in [Servers -> Turns]
      /\ \A q \in Servers : turn'[q].holds = turn[q].holds
      /\ \A q \in Servers : turn'[q].call # "-" => turn[q].call # "-"
  BY <1>1, <1>3, <1>5, GrantedTypes
<1>8. QED
  BY <1>1, <1>3, <1>4, <1>5, <1>6, <1>7, GrantStep

\* A save of the rules: every other policy over that file becomes stale.
LEMMA RulesAreWrittenKeeps ==
  ASSUME TrustInvariant, NEW p \in Servers, RulesAreWritten(p)
  PROVE  TrustInvariant'
<1> DEFINE r == Held(p).root
           told(pol, q, h) == IF pol.root = r /\ <<q, h>> # <<p, turn[p].holds>>
                              THEN [pol EXCEPT !.stale = TRUE] ELSE pol
<1>1. TrustTypes /\ Rooted /\ p \in Procs /\ Granting(p)
      /\ ruleFile \in [Dirs -> [rules : SUBSET Rules, torn : BOOLEAN]]
      /\ policy \in [Servers -> [live : Policies, held : Policies]]
      /\ server \in [Servers -> [root : Roots, status : Says]]
  BY DEF TrustInvariant, TrustTypes, Procs, Knowing
<1>2. Held(p) \in Policies /\ turn[p].holds \in {"live", "held"} /\ Held(p).rules \in SUBSET Rules
  BY <1>1, ServerTypes DEF Policies
<1>3. /\ job[p].pc = "rules" /\ Granted(p, job[p].todo)
      /\ ruleFile' = [ruleFile EXCEPT ![r] = [rules |-> Held(p).rules, torn |-> FALSE]]
      /\ policy' = [q \in Servers |-> [h \in {"live", "held"} |-> told(policy[q][h], q, h)]]
      /\ UNCHANGED <<registry, store, server>>
  BY DEF RulesAreWritten
<1>4. job[p].todo \in SUBSET Rules
  BY <1>1, FieldTypes
<1>5. /\ job' \in [Procs -> Jobs] /\ \A q \in Procs \ {p} : job'[q] = job[q]
      /\ job'[p].pc \in {"idle", "grant"} /\ About(p, job'[p])
      /\ turn' \in [Servers -> Turns]
      /\ \A q \in Servers : turn'[q].holds = turn[q].holds
      /\ \A q \in Servers : turn'[q].call # "-" => turn[q].call # "-"
  BY <1>1, <1>3, <1>4, GrantedTypes
<1>6. ruleFile' \in [Dirs -> [rules : SUBSET Rules, torn : BOOLEAN]]
      /\ (\A d \in Dirs \ {r} : ruleFile'[d] = ruleFile[d])
      /\ (r \in Dirs => ruleFile'[r].rules = Held(p).rules)
  BY <1>1, <1>2, <1>3
<1>7. ASSUME NEW q \in Servers, NEW h \in {"live", "held"}
      PROVE  /\ policy[q][h] \in Policies
             /\ policy'[q][h] = told(policy[q][h], q, h)
             /\ policy'[q][h] \in Policies
             /\ policy'[q][h].root = policy[q][h].root
             /\ policy'[q][h].trusted = policy[q][h].trusted
             /\ policy'[q][h].rules = policy[q][h].rules
  <2>1. policy[q] \in [live : Policies, held : Policies]
    BY <1>1
  <2>2. policy[q][h] \in Policies
    BY <2>1
  <2>3. policy'[q][h] = told(policy[q][h], q, h)
    BY <1>3
  <2>4. told(policy[q][h], q, h) \in {policy[q][h], [policy[q][h] EXCEPT !.stale = TRUE]}
    OBVIOUS
  <2>5. ASSUME NEW pol \in Policies
        PROVE  /\ [pol EXCEPT !.stale = TRUE] \in Policies
               /\ [pol EXCEPT !.stale = TRUE].root = pol.root
               /\ [pol EXCEPT !.stale = TRUE].trusted = pol.trusted
               /\ [pol EXCEPT !.stale = TRUE].rules = pol.rules
    BY DEF Policies
  <2> HIDE DEF told
  <2>6. PICK pol \in Policies : pol = policy[q][h]
    BY <2>2
  <2>7. policy'[q][h] = pol \/ policy'[q][h] = [pol EXCEPT !.stale = TRUE]
    BY <2>3, <2>4, <2>6
  <2>8. QED
    BY <2>3, <2>5, <2>6, <2>7
<1>8. policy' \in [Servers -> [live : Policies, held : Policies]]
  <2>1. SUFFICES ASSUME NEW q \in Servers
        PROVE [h \in {"live", "held"} |-> told(policy[q][h], q, h)] \in [live : Policies, held : Policies]
    BY <1>3
  <2>2. told(policy[q]["live"], q, "live") \in Policies
    BY <1>7
  <2>3. told(policy[q]["held"], q, "held") \in Policies
    BY <1>7
  <2> HIDE DEF told
  <2>4. QED
    BY <2>2, <2>3
<1>9. ASSUME NEW q \in Servers, NEW h \in {"live", "held"}, Complete(policy[q][h])
      PROVE  Complete(policy[q][h])'
  <2>1. CASE policy[q][h].root = r /\ <<q, h>> # <<p, turn[p].holds>>
    <3>1. policy'[q][h] = [policy[q][h] EXCEPT !.stale = TRUE] /\ policy[q][h] \in Policies
      BY <1>7, <2>1
    <3>2. policy'[q][h].stale
      BY <3>1 DEF Policies
    <3>3. QED
      BY <3>2 DEF Complete
  <2>2. CASE policy[q][h].root = r /\ <<q, h>> = <<p, turn[p].holds>>
    <3>1. q = p /\ h = turn[p].holds
      BY <2>2
    <3>2. policy'[q][h] = policy[q][h]
      BY <1>7, <2>2
    <3>3. policy'[q][h] = Held(p)
      BY <3>1, <3>2 DEF Held
    <3>4. QED
      BY <1>6, <2>2, <3>3 DEF Complete
  <2>3. CASE policy[q][h].root # r
    <3>1. policy'[q][h] = policy[q][h]
      BY <1>7, <2>3
    <3>2. QED
      BY <1>6, <1>9, <2>3, <3>1 DEF Complete
  <2>4. QED
    BY <2>1, <2>2, <2>3
<1> HIDE DEF told, r
<1>10. ASSUME NEW q \in Servers PROVE Knowing(q)'
  <2>1. Knowing(q) /\ turn[q].holds \in {"live", "held"}
    BY <1>1, ServerTypes DEF TrustInvariant
  <2>2. Complete(policy[q].live)'
    <3>1. Complete(policy[q]["live"])'
      BY <1>9, <2>1 DEF Knowing
    <3>2. QED
      BY <3>1
  <2>3. Complete(policy[q].held)'
    <3>1. Complete(policy[q]["held"])'
      BY <1>9, <2>1 DEF Knowing
    <3>2. QED
      BY <3>1
  <2>4. Grants(job[q])' => Held(q).trusted
    BY <1>1, <1>3, <1>5, <2>1 DEF Knowing, Granting, Grants, Procs
  <2>5. Held(q)'.trusted = Held(q).trusted
    BY <1>5, <1>7, <2>1 DEF Held
  <2>6. QED
    BY <2>2, <2>3, <2>4, <2>5 DEF Knowing, Granting
<1>11. \A q \in Servers : policy'[q].live.root = policy[q].live.root
  <2>1. SUFFICES ASSUME NEW q \in Servers PROVE policy'[q]["live"].root = policy[q]["live"].root
    OBVIOUS
  <2>2. QED
    BY <1>7
<1>12. \A q \in Procs : About(q, job[q])'
  BY <1>1, <1>5, <1>11 DEF Rooted, About
<1>13. \A q \in Servers : /\ turn'[q].call # "-" => server'[q].root \in Dirs
                          /\ server'[q].root \in Dirs => policy'[q].live.root \in Dirs
  BY <1>1, <1>3, <1>5, <1>11 DEF Rooted
<1>14. QED
  BY <1>1, <1>3, <1>5, <1>6, <1>8, <1>10, <1>12, <1>13, SessionStep

-----------------------------------------------------------------------------
(* The mode, the end of a turn, a new project.                             *)

\* A session's live policy in another mode.
LEMMA ModeFields ==
  ASSUME TrustTypes, NEW p \in Servers, NEW m \in {"default", "acceptEdits", "yolo"},
         policy' = [policy EXCEPT ![p].live.mode = m]
  PROVE  /\ policy' \in [Servers -> [live : Policies, held : Policies]]
         /\ \A q \in Servers, h \in {"live", "held"} :
              /\ policy'[q][h].root = policy[q][h].root
              /\ policy'[q][h].trusted = policy[q][h].trusted
              /\ policy'[q][h].stale = policy[q][h].stale
              /\ policy'[q][h].sound = policy[q][h].sound
              /\ policy'[q][h].rules = policy[q][h].rules
<1> DEFINE pol == [policy[p].live EXCEPT !.mode = m]
<1>1. policy \in [Servers -> [live : Policies, held : Policies]]
  BY DEF TrustTypes
<1>2. policy[p].live \in Policies /\ policy[p] \in [live : Policies, held : Policies]
  BY ServerTypes
<1>3. /\ pol \in Policies /\ pol.root = policy[p].live.root /\ pol.trusted = policy[p].live.trusted
      /\ pol.stale = policy[p].live.stale /\ pol.sound = policy[p].live.sound
      /\ pol.rules = policy[p].live.rules
  BY <1>2 DEF Policies
<1>4. policy' = [policy EXCEPT ![p] = [policy[p] EXCEPT !.live = pol]]
  BY <1>1, <1>2 DEF Policies
<1> HIDE DEF pol
<1>5. /\ [policy[p] EXCEPT !.live = pol] \in [live : Policies, held : Policies]
      /\ [policy[p] EXCEPT !.live = pol].live = pol
      /\ [policy[p] EXCEPT !.live = pol].held = policy[p].held
  BY <1>2, <1>3
<1>6. /\ policy' \in [Servers -> [live : Policies, held : Policies]]
      /\ policy'[p].live = pol /\ policy'[p].held = policy[p].held
      /\ \A q \in Servers \ {p} : policy'[q] = policy[q]
  BY <1>1, <1>4, <1>5
<1>7. QED
  BY <1>3, <1>6

\* A step that changes a session's live policy in its mode alone.
LEMMA ModeStep ==
  ASSUME TrustInvariant, NEW p \in Servers, NEW m \in {"default", "acceptEdits", "yolo"},
         policy' = [policy EXCEPT ![p].live.mode = m],
         UNCHANGED <<registry, ruleFile, store, job, server, turn>>
  PROVE  TrustInvariant'
<1>1. TrustTypes /\ Rooted /\ p \in Procs
  BY DEF TrustInvariant, Procs
<1>2. /\ policy' \in [Servers -> [live : Policies, held : Policies]]
      /\ \A q \in Servers, h \in {"live", "held"} :
           /\ policy'[q][h].root = policy[q][h].root
           /\ policy'[q][h].trusted = policy[q][h].trusted
           /\ policy'[q][h].stale = policy[q][h].stale
           /\ policy[q][h].rules \subseteq policy'[q][h].rules
  <2>1. policy' \in [Servers -> [live : Policies, held : Policies]]
    BY <1>1, ModeFields
  <2>2. SUFFICES ASSUME NEW q \in Servers, NEW h \in {"live", "held"}
        PROVE  /\ policy'[q][h].root = policy[q][h].root
               /\ policy'[q][h].trusted = policy[q][h].trusted
               /\ policy'[q][h].stale = policy[q][h].stale
               /\ policy'[q][h].rules = policy[q][h].rules
    BY <2>1
  <2>3. QED
    BY <1>1, ModeFields
<1>3. \A q \in Servers : policy'[q].live.root = policy[q].live.root
  <2>1. SUFFICES ASSUME NEW q \in Servers PROVE policy'[q]["live"].root = policy[q]["live"].root
    OBVIOUS
  <2>2. QED
    BY <1>2
<1>4. \A q \in Servers : Grants(job'[q]) => Held(q).trusted
  BY DEF TrustInvariant, Knowing, Granting
<1>5. \A q \in Servers : Knowing(q)'
  BY <1>2, <1>4, PoliciesGrow
<1>6. /\ \A q \in Procs : About(q, job[q])'
      /\ \A q \in Servers : /\ turn'[q].call # "-" => server'[q].root \in Dirs
                            /\ server'[q].root \in Dirs => policy'[q].live.root \in Dirs
  BY <1>1, <1>3 DEF Rooted, About
<1>7. QED
  BY <1>1, <1>2, <1>5, <1>6, SessionStep DEF TrustTypes

LEMMA ModeKeeps ==
  ASSUME TrustInvariant, NEW p \in Servers,
         \/ SetMode(p, "yolo") \/ SetMode(p, "default")
         \/ \E on \in BOOLEAN : SetAcceptEdits(p, on)
  PROVE  TrustInvariant'
<1>1. PICK m \in {"default", "acceptEdits", "yolo"} :
        /\ policy' = [policy EXCEPT ![p].live.mode = m]
        /\ UNCHANGED <<registry, ruleFile, store, job, server, turn>>
  BY DEF SetMode, SetAcceptEdits, disk
<1>2. QED
  BY <1>1, ModeStep

LEMMA TurnEndsKeeps ==
  ASSUME TrustInvariant, NEW p \in Servers, TurnEnds(p)
  PROVE  TrustInvariant'
<1>1. TrustTypes /\ Rooted /\ p \in Procs
      /\ policy \in [Servers -> [live : Policies, held : Policies]]
      /\ turn \in [Servers -> Turns]
  BY DEF TrustInvariant, TrustTypes, Procs
<1>2. policy[p] \in [live : Policies, held : Policies]
  BY <1>1, ServerTypes
<1>3. job[p].pc = "idle" /\ UNCHANGED <<registry, ruleFile, store, job, server>>
      /\ turn' = [turn EXCEPT ![p] = NoTurn]
      /\ policy' = [policy EXCEPT ![p].held = NoPolicy]
  BY DEF TurnEnds, Idle, disk
<1>4. /\ [policy[p] EXCEPT !.held = NoPolicy] \in [live : Policies, held : Policies]
      /\ [policy[p] EXCEPT !.held = NoPolicy].live = policy[p].live
      /\ [policy[p] EXCEPT !.held = NoPolicy].held = NoPolicy
  BY <1>2, BlankTypes
<1>5. policy' = [policy EXCEPT ![p] = [policy[p] EXCEPT !.held = NoPolicy]]
  BY <1>1, <1>3
<1>6. /\ policy' \in [Servers -> [live : Policies, held : Policies]]
      /\ policy'[p].live = policy[p].live /\ policy'[p].held = NoPolicy
      /\ \A q \in Servers \ {p} : policy'[q] = policy[q]
  BY <1>1, <1>4, <1>5
<1>7. /\ turn' \in [Servers -> Turns] /\ turn'[p].call = "-"
      /\ \A q \in Servers \ {p} : turn'[q] = turn[q]
  BY <1>1, <1>3, BlankTypes DEF NoTurn
<1>8. ASSUME NEW q \in Servers PROVE Knowing(q)'
  <2>1. Knowing(q)
    BY DEF TrustInvariant
  <2>2. CASE q # p
    BY <1>3, <1>6, <1>7, <2>1, <2>2 DEF Knowing, Complete, Granting, Held
  <2>3. CASE q = p
    <3>1. Complete(policy[p].live)' /\ Complete(policy[p].held)'
      BY <1>3, <1>6, <2>1, <2>3 DEF Knowing, Complete, NoPolicy
    <3>2. Granting(p)'
      BY <1>3 DEF Granting, Grants
    <3>3. QED
      BY <2>3, <3>1, <3>2 DEF Knowing
  <2>4. QED
    BY <2>2, <2>3
<1>9. \A q \in Servers : policy'[q].live.root = policy[q].live.root
  BY <1>6
<1>10. /\ \A q \in Procs : About(q, job[q])'
       /\ \A q \in Servers : /\ turn'[q].call # "-" => server'[q].root \in Dirs
                             /\ server'[q].root \in Dirs => policy'[q].live.root \in Dirs
  BY <1>1, <1>3, <1>7, <1>9 DEF Rooted, About
<1>11. QED
  BY <1>1, <1>3, <1>6, <1>7, <1>8, <1>10, SessionStep DEF TrustTypes

LEMMA InitializeResolvesKeeps ==
  ASSUME TrustInvariant, NEW p \in Servers, InitializeResolves(p)
  PROVE  TrustInvariant'
<1> DEFINE r == job[p].root
           keeps == turn[p].on /\ turn[p].holds = "live"
           pols == [live |-> NewPolicy(p, r), held |-> IF keeps THEN policy[p].live ELSE policy[p].held]
<1>1. TrustTypes /\ Rooted /\ p \in Procs
      /\ policy \in [Servers -> [live : Policies, held : Policies]]
      /\ turn \in [Servers -> Turns] /\ turn[p] \in Turns
      /\ server \in [Servers -> [root : Roots, status : Says]]
      /\ Knowing(p)
  BY DEF TrustInvariant, TrustTypes, Procs
<1>2. /\ job[p].kind = "initialize" /\ UNCHANGED <<registry, ruleFile, store>>
      /\ server' = [server EXCEPT ![p] = [root |-> r, status |-> Resolved(p, r)]]
      /\ turn' = IF keeps THEN [turn EXCEPT ![p].holds = "held"] ELSE turn
      /\ At(p, NoJob)
  BY DEF InitializeResolves, disk
<1>3. policy' = [policy EXCEPT ![p] = pols]
  BY <1>1 DEF InitializeResolves
<1>4. r \in Dirs
  BY <1>1, <1>2 DEF Rooted, About
<1>5. NewPolicy(p, r) \in Policies /\ NewPolicy(p, r).root = r /\ Complete(NewPolicy(p, r))
      /\ Resolved(p, r) \in Says
  BY <1>1, <1>4, NewPolicyTypes
<1>6. policy[p].live \in Policies /\ policy[p].held \in Policies
  BY <1>1, ServerTypes
<1>7. pols \in [live : Policies, held : Policies] /\ pols.live = NewPolicy(p, r)
      /\ pols.held \in {policy[p].live, policy[p].held}
  BY <1>5, <1>6
<1>8. job' \in [Procs -> Jobs] /\ job'[p] = NoJob /\ \A q \in Procs \ {p} : job'[q] = job[q]
  BY <1>1, <1>2, BlankTypes, AtTypes
<1>9. /\ turn' \in [Servers -> Turns] /\ turn'[p].call = turn[p].call
      /\ \A q \in Servers \ {p} : turn'[q] = turn[q]
  <2>1. [turn[p] EXCEPT !.holds = "held"] \in Turns /\ [turn[p] EXCEPT !.holds = "held"].call = turn[p].call
    BY <1>1 DEF Turns
  <2>2. turn' = [turn EXCEPT ![p] = [turn[p] EXCEPT !.holds = "held"]] \/ turn' = turn
    BY <1>1, <1>2
  <2>3. QED
    BY <1>1, <2>1, <2>2
<1>10. server' \in [Servers -> [root : Roots, status : Says]] /\ server'[p].root = r
       /\ \A q \in Servers \ {p} : server'[q] = server[q]
  BY <1>1, <1>2, <1>4, <1>5 DEF Roots
<1> HIDE DEF pols, keeps, r
<1>11. /\ policy' \in [Servers -> [live : Policies, held : Policies]]
       /\ policy'[p] = pols
       /\ \A q \in Servers \ {p} : policy'[q] = policy[q]
  BY <1>1, <1>3, <1>7
<1>12. ASSUME NEW q \in Servers PROVE Knowing(q)'
  <2>1. Knowing(q) /\ q \in Procs
    BY DEF TrustInvariant, Procs
  <2>2. CASE q # p
    BY <1>2, <1>8, <1>9, <1>11, <2>1, <2>2 DEF Knowing, Complete, Granting, Held
  <2>3. CASE q = p
    <3>1. Complete(NewPolicy(p, r)) /\ Complete(pols.held)
      BY <1>1, <1>5, <1>7 DEF Knowing
    <3>2. policy'[p].live = NewPolicy(p, r) /\ policy'[p].held = pols.held /\ ruleFile' = ruleFile
      BY <1>2, <1>7, <1>11
    <3> DEFINE live == NewPolicy(p, r)
               held == pols.held
    <3> HIDE DEF live, held
    <3>3. Complete(policy[p].live)' /\ Complete(policy[p].held)'
      BY <3>1, <3>2 DEF Complete, live, held
    <3>4. Granting(p)'
      BY <1>8 DEF Granting, Grants, NoJob
    <3>5. QED
      BY <2>3, <3>3, <3>4 DEF Knowing
  <2>4. QED
    BY <2>2, <2>3
<1>13. policy'[p].live.root = r /\ \A q \in Servers \ {p} : policy'[q].live.root = policy[q].live.root
  BY <1>5, <1>7, <1>11
<1>14. \A q \in Procs : About(q, job[q])'
  <2>1. About(p, NoJob)'
    BY DEF About, NoJob
  <2>2. QED
    BY <1>1, <1>8, <1>13, <2>1 DEF Rooted, About
<1>15. \A q \in Servers : /\ turn'[q].call # "-" => server'[q].root \in Dirs
                          /\ server'[q].root \in Dirs => policy'[q].live.root \in Dirs
  BY <1>1, <1>4, <1>9, <1>10, <1>13 DEF Rooted
<1>16. job'[p].pc = "idle" /\ ruleFile' \in [Dirs -> [rules : SUBSET Rules, torn : BOOLEAN]]
  BY <1>1, <1>2, <1>8 DEF TrustTypes, NoJob
<1>17. QED
  BY <1>2, <1>8, <1>9, <1>10, <1>11, <1>12, <1>14, <1>15, <1>16, SessionStep

LEMMA ProjectIsAdoptedKeeps ==
  ASSUME TrustInvariant, NEW p \in Servers, ProjectIsAdopted(p)
  PROVE  TrustInvariant'
<1> DEFINE grants == turn[p].holds = "live"
           todo == IF grants THEN job[p].todo ELSE {}
           j == [NoJob EXCEPT !.kind = "get", !.pc = "report", !.todo = todo]
           pols == [policy[p] EXCEPT !.live = MarkTrusted(p)]
<1>1. TrustTypes /\ Rooted /\ p \in Procs
      /\ policy \in [Servers -> [live : Policies, held : Policies]]
      /\ policy[p] \in [live : Policies, held : Policies]
      /\ turn \in [Servers -> Turns]
      /\ server \in [Servers -> [root : Roots, status : Says]]
      /\ server[p] \in [root : Roots, status : Says]
      /\ Knowing(p)
  BY ServerTypes DEF TrustInvariant, TrustTypes, Procs
<1>2. /\ job[p].kind = "readopt" /\ UNCHANGED <<registry, ruleFile, store>>
      /\ server' = [server EXCEPT ![p].status = Resolved(p, job[p].root)]
      /\ policy' = [policy EXCEPT ![p].live = MarkTrusted(p)]
      /\ At(p, j)
      /\ IF grants THEN turn' = turn ELSE Settled(p)
  BY DEF ProjectIsAdopted, disk
<1>3. job[p].root \in Dirs /\ policy[p].live.root \in Dirs
  BY <1>1, <1>2 DEF Rooted, About
<1>4. Resolved(p, job[p].root) \in Says
  BY <1>1, <1>3, NewPolicyTypes
<1>5. /\ MarkTrusted(p) \in Policies /\ MarkTrusted(p).root = policy[p].live.root
      /\ MarkTrusted(p).trusted /\ Complete(MarkTrusted(p))
  BY <1>1, <1>3, MarkTrustedTypes DEF Knowing
<1>6. pols \in [live : Policies, held : Policies] /\ pols.live = MarkTrusted(p)
      /\ pols.held = policy[p].held
  BY <1>1, <1>5
<1>7. todo \in SUBSET Rules
  BY <1>1, FieldTypes
<1>8. policy' = [policy EXCEPT ![p] = pols]
  BY <1>1, <1>2
<1>9. /\ turn' \in [Servers -> Turns]
      /\ \A q \in Servers : turn'[q].holds = turn[q].holds
      /\ \A q \in Servers : turn'[q].call # "-" => turn[q].call # "-"
  BY <1>1, <1>2, SettledTypes
<1>10. grants \/ todo = {}
  OBVIOUS
<1> HIDE DEF pols, todo
<1>11. j \in Jobs /\ j.pc = "report" /\ j.todo = todo /\ j.kind = "get"
  BY <1>7, BlankTypes DEF NoJob, Jobs, Pcs, Kinds
<1> HIDE DEF j
<1>12. job' \in [Procs -> Jobs] /\ job'[p] = j /\ \A q \in Procs \ {p} : job'[q] = job[q]
  BY <1>1, <1>2, <1>11, AtTypes
<1>13. /\ server' \in [Servers -> [root : Roots, status : Says]]
       /\ \A q \in Servers : server'[q].root = server[q].root
  BY <1>1, <1>2, <1>4
<1>14. /\ policy' \in [Servers -> [live : Policies, held : Policies]]
       /\ policy'[p] = pols
       /\ \A q \in Servers \ {p} : policy'[q] = policy[q]
  BY <1>1, <1>6, <1>8
<1>15. policy'[p].live = MarkTrusted(p) /\ policy'[p].held = policy[p].held
  BY <1>6, <1>14
<1>16. ASSUME NEW q \in Servers PROVE Knowing(q)'
  <2>1. Knowing(q) /\ q \in Procs
    BY DEF TrustInvariant, Procs
  <2>2. CASE q # p
    BY <1>2, <1>9, <1>12, <1>14, <2>1, <2>2 DEF Knowing, Complete, Granting, Held
  <2>3. CASE q = p
    <3>1. PICK pol \in Policies : pol = MarkTrusted(p) /\ Complete(pol) /\ pol.trusted
      BY <1>5
    <3>2. policy'[p].live = pol
      BY <1>15, <3>1
    <3>3. Complete(policy[p].live)'
      BY <1>2, <3>1, <3>2 DEF Complete
    <3>4. Complete(policy[p].held)'
      BY <1>1, <1>2, <1>15 DEF Knowing, Complete
    <3>5. Granting(p)'
      BY <1>9, <1>10, <1>11, <1>12, <3>1, <3>2 DEF Granting, Grants, Held
    <3>6. QED
      BY <2>3, <3>3, <3>4, <3>5 DEF Knowing
  <2>4. QED
    BY <2>2, <2>3
<1>17. \A q \in Servers : policy'[q].live.root = policy[q].live.root
  BY <1>5, <1>14, <1>15
<1>18. \A q \in Procs : About(q, job[q])'
  BY <1>1, <1>11, <1>12, <1>17 DEF Rooted, About
<1>19. \A q \in Servers : /\ turn'[q].call # "-" => server'[q].root \in Dirs
                          /\ server'[q].root \in Dirs => policy'[q].live.root \in Dirs
  BY <1>1, <1>9, <1>13, <1>17 DEF Rooted
<1>20. QED
  BY <1>1, <1>2, <1>9, <1>11, <1>12, <1>13, <1>14, <1>16, <1>18, <1>19, SessionStep DEF TrustTypes

-----------------------------------------------------------------------------
(* Every step keeps the invariant.                                         *)

LEMMA TrustStart == Init => TrustInvariant
<1>1. SUFFICES ASSUME Init PROVE TrustInvariant
  OBVIOUS
<1>2. TrustTypes
  BY <1>1, TrustTypesStart
<1>3. \A p \in Procs : job[p].pc = "idle" /\ job[p].kind = "-"
  BY <1>1 DEF Init, NoJob
<1>4. \A p \in Servers : /\ turn[p].call = "-" /\ server[p].root = "-"
                         /\ policy[p].live = NoPolicy /\ policy[p].held = NoPolicy
  BY <1>1 DEF Init, NoTurn
<1>5. \A p \in Procs : store[p] = FreshStore \/ ~store[p].current
  BY <1>1 DEF Init, NoStore
<1>6. Rooted
  BY <1>3, <1>4 DEF Rooted, About, NoPolicy
<1>7. \A p \in Procs : Informed(p)
  BY <1>2, <1>3, <1>5, FreshTypes DEF TrustTypes, Informed, Fresh, Stamping, Answering, Saving
<1>8. \A p \in Servers : Knowing(p)
  BY <1>3, <1>4 DEF Knowing, Complete, NoPolicy, Granting, Grants, Procs
<1>9. QED
  BY <1>2, <1>6, <1>7, <1>8 DEF TrustInvariant

LEMMA TrustStutters == ASSUME TrustInvariant, UNCHANGED vars PROVE TrustInvariant'
<1>1. UNCHANGED <<registry, ruleFile, store, job, server, policy, turn>>
  BY DEF vars, disk
<1>2. TrustTypes' /\ Rooted'
  BY <1>1 DEF TrustInvariant, TrustTypes, Rooted, About
<1>3. \A p \in Procs : Informed(p)'
  BY <1>1 DEF TrustInvariant, Informed, Fresh, Stamping, Answering, Saving
<1>4. \A p \in Servers : Knowing(p)'
  BY <1>1 DEF TrustInvariant, Knowing, Complete, Granting, Grants, Held
<1>5. QED
  BY <1>2, <1>3, <1>4 DEF TrustInvariant

LEMMA TrustStep == ASSUME TrustInvariant, Next PROVE TrustInvariant'
<1>1. ASSUME NEW p \in Servers, NEW d \in Dirs, NEW r \in Dirs,
             \/ \E o \in {"-", "trusted", "denied"} : InitializeStarts(p, d, r, o)
             \/ \E s \in {"trusted", "denied"} : TrustSet(p, d, r, s) \/ TrustSetForThisRun(p, d, r, s)
             \/ TrustRemove(p, d, r)
      PROVE  TrustInvariant'
  <2>1. TrustRemove(p, d, r) => TrustInvariant'
    BY TrustRequestKeeps
  <2>2. QED
    BY <1>1, <2>1, InitializeStartsKeeps, TrustRequestKeeps, TrustSetForThisRunKeeps
<1>2. ASSUME NEW p \in Terminals, NEW d \in Dirs, NEW r \in Dirs,
             NEW s \in {"trusted", "denied", "unknown"}, TerminalAnswers(p, d, r, s)
      PROVE  TrustInvariant'
  BY <1>2, TerminalAnswersKeeps
<1>3. ASSUME NEW p \in Procs,
             \/ RegistryIsStatted(p) \/ RegistryIsLoaded(p)
             \/ NothingToRemove(p) \/ RegistryIsTruncated(p)
             \/ RegistryIsWritten(p) \/ RegistryIsRestatted(p) \/ RegistryIsNotSaved(p)
      PROVE  TrustInvariant'
  BY <1>3, RegistryIsStattedKeeps, RegistryIsLoadedKeeps, NothingToRemoveKeeps,
     RegistryIsTruncatedKeeps, RegistryIsWrittenKeeps, RegistryIsRestattedKeeps,
     RegistryIsNotSavedKeeps
<1>4. ASSUME NEW p \in Servers,
             \/ InitializeResolves(p) \/ TrustIsReported(p)
             \/ \E k \in Asked : ToolStarts(p, k)
             \/ CardIsSettled(p) \/ TurnEnds(p) \/ ProjectIsAdopted(p)
             \/ \E trust \in BOOLEAN : AlwaysIsClicked(p, trust)
      PROVE  TrustInvariant'
  BY <1>4, InitializeResolvesKeeps, TrustIsReportedKeeps, ToolStartsKeeps, CardIsSettledKeeps,
     TurnEndsKeeps, ProjectIsAdoptedKeeps, AlwaysIsClickedKeeps
<1>5. ASSUME NEW p \in Servers,
             \/ RuleIsInForce(p) \/ RuleIsAdded(p) \/ RulesAreWritten(p) \/ RuleIsNotSaved(p)
             \/ SetMode(p, "yolo") \/ SetMode(p, "default")
             \/ \E on \in BOOLEAN : SetAcceptEdits(p, on)
      PROVE  TrustInvariant'
  BY <1>5, RuleIsInForceKeeps, RuleIsAddedKeeps, RulesAreWrittenKeeps, RuleIsNotSavedKeeps, ModeKeeps
<1>6. QED
  BY <1>1, <1>2, <1>3, <1>4, <1>5 DEF Next

LEMMA TrustInvariantHolds == Spec => []TrustInvariant
<1>1. Init => TrustInvariant
  BY TrustStart
<1>2. TrustInvariant /\ [Next]_vars => TrustInvariant'
  BY TrustStep, TrustStutters
<1>3. QED
  BY <1>1, <1>2, PTL DEF Spec

-----------------------------------------------------------------------------
(* What the files keep.                                                    *)

(* No process goes by a superseded answer: a cache whose stamp is that of   *)
(* the file is what the file says, unless another process wrote between     *)
(* its own write and its stamp, or its own write failed -- TrustStore's     *)
(* refresh, set and remove (trust.py:139-227).                              *)
THEOREM DecisionsSeen == Spec => []DecisionsAreSeen
<1>1. TrustInvariant => DecisionsAreSeen
  BY DEF TrustInvariant, Informed, Fresh, DecisionsAreSeen
<1>2. QED
  BY <1>1, TrustInvariantHolds, PTL

\* Steps of others leave a job where it is, and only the write ends a save.
LEMMA OnlyTheWriteEndsASave ==
  ASSUME TrustTypes, [Next]_vars, NEW p \in Procs, job'[p].pc # job[p].pc,
         job[p].pc \in {"write", "rules"}
  PROVE  RegistryIsWritten(p) \/ (p \in Servers /\ RulesAreWritten(p))
<1>1. job \in [Procs -> Jobs] /\ job[p] \in Jobs /\ job' # job
  BY DEF TrustTypes
<1>2. Next
  BY <1>1 DEF vars
<1>3. ~Idle(p)
  BY DEF Idle
<1>4. \A j : \A q \in Procs : At(q, j) /\ q # p => job'[p] = job[p]
  BY <1>1 DEF At
<1>5. \A pc : \A q \in Procs : Go(q, pc) /\ q # p => job'[p] = job[p]
  BY <1>4 DEF Go
<1>6. Servers \subseteq Procs /\ Terminals \subseteq Procs
  BY DEF Procs
<1>7. ASSUME NEW q \in Procs, NEW d, NEW r PROVE Ask(q, d, r) => q # p
  BY <1>3 DEF Ask
<1>8. \A q \in Servers, d \in Dirs, r \in Dirs, o \in {"-", "trusted", "denied"} : ~InitializeStarts(q, d, r, o)
  BY <1>1, <1>4, <1>6, <1>7 DEF InitializeStarts
<1>9. \A q \in Servers, d \in Dirs, r \in Dirs, s \in {"trusted", "denied"} :
        ~TrustSet(q, d, r, s) /\ ~TrustSetForThisRun(q, d, r, s)
  BY <1>1, <1>4, <1>6, <1>7 DEF TrustSet, TrustSetForThisRun
<1>10. \A q \in Servers, d \in Dirs, r \in Dirs : ~TrustRemove(q, d, r)
  BY <1>1, <1>4, <1>6, <1>7 DEF TrustRemove
<1>11. \A q \in Terminals, d \in Dirs, r \in Dirs, s \in {"trusted", "denied", "unknown"} :
         ~TerminalAnswers(q, d, r, s)
  BY <1>1, <1>4, <1>6, <1>7 DEF TerminalAnswers
<1>12. ASSUME NEW q \in Procs
       PROVE  /\ ~RegistryIsStatted(q) /\ ~RegistryIsLoaded(q) /\ ~NothingToRemove(q)
              /\ ~RegistryIsRestatted(q) /\ ~RegistryIsNotSaved(q)
  BY <1>1, <1>4, <1>5 DEF RegistryIsStatted, RegistryIsLoaded, NothingToRemove, RegistryIsRestatted,
       RegistryIsNotSaved, Answers
<1>13. ASSUME NEW q \in Procs PROVE Alarmed(q) \in [Procs -> Jobs] /\ Alarmed(q)[p].pc = job[p].pc
  BY <1>1 DEF Alarmed, Jobs
<1>14. ASSUME NEW q \in Procs PROVE ~RegistryIsTruncated(q)
  BY <1>1, <1>13 DEF RegistryIsTruncated, Answers
<1>15. ASSUME NEW q \in Procs, RegistryIsWritten(q) PROVE q = p
  BY <1>1, <1>13, <1>15 DEF RegistryIsWritten
<1>16. ASSUME NEW q \in Servers
       PROVE  /\ ~InitializeResolves(q) /\ ~TrustIsReported(q) /\ ~ProjectIsAdopted(q)
              /\ ~TurnEnds(q) /\ ~CardIsSettled(q)
              /\ \A k \in Asked : ~ToolStarts(q, k)
              /\ ~SetMode(q, "yolo") /\ ~SetMode(q, "default")
              /\ \A on \in BOOLEAN : ~SetAcceptEdits(q, on)
  BY <1>1, <1>4, <1>6 DEF InitializeResolves, TrustIsReported, ProjectIsAdopted, TurnEnds, CardIsSettled,
       ToolStarts, SetMode, SetAcceptEdits
<1>17. ASSUME NEW q \in Servers, NEW trust \in BOOLEAN PROVE ~AlwaysIsClicked(q, trust)
  BY <1>1, <1>3, <1>4, <1>6 DEF AlwaysIsClicked
<1>18. ASSUME NEW q \in Servers, NEW todo PROVE Granted(q, todo) /\ q # p => job'[p] = job[p]
  BY <1>4, <1>6 DEF Granted
<1>19. ASSUME NEW q \in Servers PROVE ~RuleIsInForce(q) /\ ~RuleIsAdded(q) /\ ~RuleIsNotSaved(q)
  BY <1>1, <1>4, <1>6, <1>18 DEF RuleIsInForce, RuleIsAdded, RuleIsNotSaved
<1>20. ASSUME NEW q \in Servers, RulesAreWritten(q) PROVE q = p
  BY <1>18, <1>20 DEF RulesAreWritten
<1>21. QED
  BY <1>2, <1>8, <1>9, <1>10, <1>11, <1>12, <1>14, <1>15, <1>16, <1>17, <1>19, <1>20 DEF Next

\* A save of the registry, and one of the rules.
LEMMA SaveKeepsTheOthersAnswers ==
  ASSUME TrustInvariant, [Next]_vars, NEW p \in Procs,
         job[p].pc = "write", job'[p].pc # "write", ~job[p].over, ~store[p].adrift
  PROVE  \A d \in Dirs \ {job[p].root} : registry'.answers[d] = registry.answers[d]
<1>1. RegistryIsWritten(p)
  <2>1. RegistryIsWritten(p) \/ (p \in Servers /\ RulesAreWritten(p))
    BY OnlyTheWriteEndsASave DEF TrustInvariant
  <2>2. QED
    BY <2>1 DEF RulesAreWritten
<1>2. registry'.answers = store[p].cache
  BY <1>1 DEF RegistryIsWritten
<1>3. Saving(p)
  BY DEF TrustInvariant, Informed
<1>4. QED
  BY <1>2, <1>3 DEF Saving

LEMMA SaveKeepsTheRules ==
  ASSUME TrustInvariant, [Next]_vars, NEW p \in Servers,
         job[p].pc = "rules", job'[p].pc # "rules", ~Held(p).stale
  PROVE  \A d \in Dirs : ruleFile[d].rules \subseteq ruleFile'[d].rules
<1>1. RulesAreWritten(p)
  <2>1. RegistryIsWritten(p) \/ RulesAreWritten(p)
    BY OnlyTheWriteEndsASave DEF TrustInvariant, Procs
  <2>2. QED
    BY <2>1 DEF RegistryIsWritten
<1>2. ruleFile' = [ruleFile EXCEPT ![Held(p).root] = [rules |-> Held(p).rules, torn |-> FALSE]]
  BY <1>1 DEF RulesAreWritten
<1>3. Held(p).trusted /\ Knowing(p)
  BY DEF TrustInvariant, Knowing, Granting, Grants
<1>4. turn[p].holds \in {"live", "held"} /\ Complete(Held(p))
  BY <1>3, ServerTypes DEF TrustInvariant, Knowing, Held
<1>5. Held(p).root \in Dirs => ruleFile[Held(p).root].rules \subseteq Held(p).rules
  BY <1>3, <1>4 DEF Complete
<1>6. ruleFile \in [Dirs -> [rules : SUBSET Rules, torn : BOOLEAN]]
  BY DEF TrustInvariant, TrustTypes
<1>7. QED
  BY <1>2, <1>5, <1>6

(* A save leaves what others put into either file: the other directories'   *)
(* answers in trust.json, if nobody touched it since the saver looked, and  *)
(* every rule in permissions.json, if no other session wrote it since the   *)
(* saver read it -- _save of the trust store and _save_file of the policy   *)
(* (trust.py:193-227, permissions.py:148-168).                              *)
THEOREM FilesAreKept == Spec => CalmFilesAreKept
<1>1. TrustInvariant /\ [Next]_vars =>
        [\A p \in Procs :
           (job[p].pc = "write" /\ job'[p].pc # "write" /\ ~job[p].over /\ ~store[p].adrift)
             => \A d \in Dirs \ {job[p].root} : registry'.answers[d] = registry.answers[d]]_vars
  BY SaveKeepsTheOthersAnswers
<1>2. TrustInvariant /\ [Next]_vars =>
        [\A p \in Servers :
           (job[p].pc = "rules" /\ job'[p].pc # "rules" /\ ~Held(p).stale)
             => \A d \in Dirs : ruleFile[d].rules \subseteq ruleFile'[d].rules]_vars
  BY SaveKeepsTheRules
<1>3. QED
  BY <1>1, <1>2, TrustInvariantHolds, PTL DEF Spec, CalmFilesAreKept, CalmAnswersAreKept, CalmRulesAreKept

-----------------------------------------------------------------------------
(* What trust rests on.                                                    *)

\* What the registry trusts, the user trusted, up to the overlaps.
Recorded ==
  \A d \in Dirs : registry.answers[d] = "trusted" => <<"everyone", d>> \in consent \/ d \in strays

\* An answer for this run is the user's to p, until a save makes it everyone's.
OwnAnswers(p) ==
  \A d \in Dirs : store[p].session[d] = "trusted" =>
    <<p, d>> \in consent \/ (job[p].pc = "restat" /\ job[p].kind # "remove" /\ job[p].root = d)

\* An initialize goes by the file, unless it has an answer for this run.
Looking(p) ==
  /\ job[p].pc = "apply" /\ job[p].kind = "initialize"
  /\ store[p].session[job[p].root] = "unknown" /\ ~job[p].over /\ ~store[p].adrift
  => ~registry.torn /\ store[p].cache = registry.answers

\* A save carries trust only if that is the answer.
Carrying(p) == job[p].pc = "write" /\ store[p].cache[job[p].root] = "trusted" => job[p].arg = "trusted"

\* A click that trusts the project has done so by the time the policy is told.
Adopting(p) ==
  LET r == job[p].root IN
  /\ job[p].kind = "adopt" => job[p].arg = "trusted"
  /\ job[p].kind = "adopt" /\ job[p].pc = "restat" => <<"everyone", r>> \in consent \/ job[p].over
  /\ job[p].kind = "readopt" /\ job[p].pc \in {"stat", "load", "apply"} =>
       \/ <<p, r>> \in consent \/ <<"everyone", r>> \in consent \/ r \in strays \/ job[p].over
       \/ store[p].adrift /\ store[p].current /\ job[p].pc # "load"

Backed(p) == OwnAnswers(p) /\ Looking(p) /\ Carrying(p) /\ Adopting(p)

AnswersInvariant == Recorded /\ \A p \in Procs : Backed(p)

\* One process moves, and takes back no answer but its own.
LEMMA OthersStayBacked ==
  ASSUME AnswersInvariant, NEW p \in Procs, registry' = registry, strays \subseteq strays',
         \A q \in Procs \ {p} : job'[q] = job[q] /\ store'[q] = store[q],
         \A u \in consent : u[1] # p => u \in consent', Backed(p)'
  PROVE  AnswersInvariant'
<1>1. \A q, d : q # p /\ <<q, d>> \in consent => <<q, d>> \in consent'
  OBVIOUS
<1>2. "everyone" # p
  BY TrustAssumption
<1>3. Recorded'
  BY <1>1, <1>2 DEF AnswersInvariant, Recorded
<1>4. ASSUME NEW q \in Procs \ {p} PROVE Backed(q)'
  <2>1. job'[q] = job[q] /\ store'[q] = store[q] /\ Backed(q)
    BY DEF AnswersInvariant
  <2>2. OwnAnswers(q)' /\ Looking(q)' /\ Carrying(q)'
    BY <1>1, <2>1 DEF Backed, OwnAnswers, Looking, Carrying
  <2>3. Adopting(q)'
    BY <1>1, <1>2, <2>1 DEF Backed, Adopting
  <2>4. QED
    BY <2>2, <2>3 DEF Backed
<1>5. QED
  BY <1>3, <1>4 DEF AnswersInvariant

\* p's steps that have nothing to do with the answers.
Passive(j) ==
  /\ j.pc \in {"idle", "stat", "report", "grant", "rules"}
  /\ j.kind = "readopt" => j.pc # "stat"
  /\ j.kind = "adopt" => j.arg = "trusted"

LEMMA PassiveStep ==
  ASSUME AnswersInvariant, NEW p \in Procs, UNCHANGED <<registry, store, consent>>,
         strays \subseteq strays', \A q \in Procs \ {p} : job'[q] = job[q],
         job'[p] = job[p] \/ (Passive(job'[p]) /\ job[p].pc # "restat")
  PROVE  AnswersInvariant'
<1>1. Backed(p)
  BY DEF AnswersInvariant
<1>2. OwnAnswers(p)'
  BY <1>1 DEF Backed, OwnAnswers
<1>3. Looking(p)' /\ Carrying(p)' /\ Adopting(p)'
  <2>1. CASE job'[p] = job[p]
    BY <1>1, <2>1 DEF Backed, Looking, Carrying, Adopting
  <2>2. CASE job'[p] # job[p]
    BY <2>2 DEF Passive, Looking, Carrying, Adopting
  <2>3. QED
    BY <2>1, <2>2
<1>4. QED
  BY <1>2, <1>3, OthersStayBacked DEF Backed

\* p changes what everybody reads: the others are alarmed.
LEMMA OthersAreBacked ==
  ASSUME TrustInvariant, AnswersInvariant, NEW p \in Procs, NEW j \in Jobs, NEW f \in [Procs -> Stores],
         job' = [Alarmed(p) EXCEPT ![p] = j], store' = NoneIsCurrent(f), strays \subseteq strays',
         \A q \in Procs \ {p} : f[q] = store[q],
         \A u \in consent : u[1] \notin {p, "everyone"} => u \in consent',
         Recorded', Backed(p)'
  PROVE  AnswersInvariant'
<1>1. /\ Alarmed(p) \in [Procs -> Jobs]
      /\ \A q \in Procs \ {p} : Alarmed(p)[q].pc = "idle" \/ Alarmed(p)[q].over
      /\ \A q \in Procs : /\ Alarmed(p)[q].pc = job[q].pc /\ Alarmed(p)[q].kind = job[q].kind
                          /\ Alarmed(p)[q].root = job[q].root /\ Alarmed(p)[q].arg = job[q].arg
  BY AlarmedTypes DEF TrustInvariant
<1>2. ASSUME NEW q \in Procs \ {p} PROVE Backed(q)'
  <2>1. Backed(q) /\ q # "everyone"
    BY TrustAssumption DEF AnswersInvariant
  <2>2. /\ job'[q].pc = job[q].pc /\ job'[q].kind = job[q].kind /\ job'[q].root = job[q].root
        /\ job'[q].arg = job[q].arg /\ (job'[q].pc = "idle" \/ job'[q].over)
    BY <1>1
  <2>3. store'[q].session = store[q].session /\ store'[q].cache = store[q].cache
    BY NoneIsCurrentTypes
  <2>4. \A d : <<q, d>> \in consent => <<q, d>> \in consent'
    BY <2>1
  <2>5. OwnAnswers(q)'
    BY <2>1, <2>2, <2>3, <2>4 DEF Backed, OwnAnswers
  <2>6. Looking(q)' /\ Carrying(q)'
    BY <2>1, <2>2, <2>3 DEF Backed, Looking, Carrying
  <2>7. Adopting(q)'
    BY <2>1, <2>2 DEF Backed, Adopting
  <2>8. QED
    BY <2>5, <2>6, <2>7 DEF Backed
<1>3. QED
  BY <1>2 DEF AnswersInvariant

LEMMA InitializeStartsBacked ==
  ASSUME TrustInvariant, AnswersInvariant, NEW p \in Servers, NEW d \in Dirs, NEW r \in Dirs,
         NEW o \in {"-", "trusted", "denied"}, InitializeStarts(p, d, r, o)
  PROVE  AnswersInvariant'
<1> DEFINE s == IF o = "-" THEN store[p].session ELSE [store[p].session EXCEPT ![r] = o]
           j == [NoJob EXCEPT !.kind = "initialize", !.root = r,
                              !.pc = IF s[r] = "unknown" THEN "stat" ELSE "apply"]
<1>1. TrustTypes /\ p \in Procs /\ Backed(p) /\ store[p].session \in Replies
  BY FieldTypes DEF TrustInvariant, AnswersInvariant, Procs
<1>2. s \in Replies
  BY <1>1 DEF Replies, Says
<1>3. j \in Jobs /\ j.kind = "initialize" /\ j.root = r /\ j.pc = (IF s[r] = "unknown" THEN "stat" ELSE "apply")
  BY BlankTypes DEF NoJob, Jobs, Roots, Pcs, Kinds
<1>4. /\ At(p, j) /\ store' = [store EXCEPT ![p].session = s] /\ registry' = registry
      /\ strays' = strays /\ job[p].pc = "idle"
      /\ consent' = CASE o = "trusted" -> consent \union {<<p, r>>}
                      [] o = "denied" -> consent \ {<<p, r>>}
                      [] OTHER -> consent
  BY DEF InitializeStarts, disk, Ask, Idle
<1>5. s = store[p].session \/ s = [store[p].session EXCEPT ![r] = o]
  OBVIOUS
<1>6. \A e \in Dirs : s[e] = "trusted" => <<p, e>> \in consent'
  <2>1. \A e \in Dirs : store[p].session[e] = "trusted" => <<p, e>> \in consent
    BY <1>1, <1>4 DEF Backed, OwnAnswers
  <2>2. CASE o = "-"
    BY <1>4, <2>1, <2>2
  <2>3. CASE o = "trusted"
    BY <1>1, <1>4, <2>1, <2>3 DEF Replies
  <2>4. CASE o = "denied"
    BY <1>1, <1>4, <2>1, <2>4 DEF Replies
  <2>5. QED
    BY <2>2, <2>3, <2>4
<1>7. \A u \in consent : u[1] # p => u \in consent'
  BY <1>4
<1> HIDE DEF s, j
<1>8. job'[p] = j /\ \A q \in Procs \ {p} : job'[q] = job[q]
  BY <1>1, <1>3, <1>4, AtTypes
<1>9. store'[p].session = s /\ \A q \in Procs \ {p} : store'[q] = store[q]
  BY <1>1, <1>2, <1>4, SessionTypes
<1>10. Backed(p)'
  BY <1>3, <1>6, <1>8, <1>9 DEF Backed, OwnAnswers, Looking, Carrying, Adopting
<1>11. QED
  BY <1>1, <1>4, <1>7, <1>8, <1>9, <1>10, OthersStayBacked

LEMMA TrustSetForThisRunBacked ==
  ASSUME TrustInvariant, AnswersInvariant, NEW p \in Servers, NEW d \in Dirs, NEW r \in Dirs,
         NEW status \in {"trusted", "denied"}, TrustSetForThisRun(p, d, r, status)
  PROVE  AnswersInvariant'
<1> DEFINE j == [NoJob EXCEPT !.pc = "report", !.kind = "get", !.root = r]
           s == [store[p].session EXCEPT ![r] = status]
<1>1. TrustTypes /\ p \in Procs /\ Backed(p) /\ store[p].session \in Replies /\ store[p] \in Stores
  BY FieldTypes DEF TrustInvariant, AnswersInvariant, Procs
<1>2. s \in Replies
  BY <1>1 DEF Replies, Says
<1>3. j \in Jobs /\ j.kind = "get" /\ j.pc = "report"
  BY BlankTypes DEF NoJob, Jobs, Roots, Pcs, Kinds
<1>4. /\ At(p, j) /\ store' = [store EXCEPT ![p].session = s] /\ registry' = registry
      /\ strays' = strays /\ job[p].pc = "idle"
      /\ consent' = IF status = "trusted" THEN consent \union {<<p, r>>} ELSE consent \ {<<p, r>>}
  BY <1>1 DEF TrustSetForThisRun, disk, Ask, Idle, Stores
<1>5. \A e \in Dirs : s[e] = "trusted" => <<p, e>> \in consent'
  <2>1. \A e \in Dirs : store[p].session[e] = "trusted" => <<p, e>> \in consent
    BY <1>1, <1>4 DEF Backed, OwnAnswers
  <2>2. QED
    BY <1>1, <1>4, <2>1 DEF Replies
<1>6. \A u \in consent : u[1] # p => u \in consent'
  BY <1>4
<1> HIDE DEF s, j
<1>7. job'[p] = j /\ \A q \in Procs \ {p} : job'[q] = job[q]
  BY <1>1, <1>3, <1>4, AtTypes
<1>8. store'[p].session = s /\ \A q \in Procs \ {p} : store'[q] = store[q]
  BY <1>1, <1>2, <1>4, SessionTypes
<1>9. Backed(p)'
  BY <1>3, <1>5, <1>7, <1>8 DEF Backed, OwnAnswers, Looking, Carrying, Adopting
<1>10. QED
  BY <1>1, <1>4, <1>6, <1>7, <1>8, <1>9, OthersStayBacked

LEMMA TerminalAnswersBacked ==
  ASSUME TrustInvariant, AnswersInvariant, NEW p \in Terminals, NEW d \in Dirs, NEW r \in Dirs,
         NEW status \in {"trusted", "denied", "unknown"}, TerminalAnswers(p, d, r, status)
  PROVE  AnswersInvariant'
<1> DEFINE j == [NoJob EXCEPT !.pc = "stat", !.kind = IF status = "unknown" THEN "remove" ELSE "set",
                              !.root = r, !.arg = status, !.over = registry.torn]
<1>1. TrustTypes /\ p \in Procs /\ store \in [Procs -> Stores]
      /\ registry \in [answers : Replies, torn : BOOLEAN]
  BY DEF TrustInvariant, TrustTypes, Procs
<1>2. registry.torn \in BOOLEAN
  BY <1>1
<1>3. j \in Jobs /\ j.pc = "stat" /\ j.kind \in {"remove", "set"}
  BY <1>2, BlankTypes DEF Jobs, NoJob, Roots, Pcs, Kinds, Says
<1>4. At(p, j) /\ store' = [store EXCEPT ![p] = FreshStore] /\ registry' = registry
      /\ strays' = strays /\ consent' = consent
  BY DEF TerminalAnswers, disk, ghosts
<1> HIDE DEF j
<1>5. job'[p] = j /\ \A q \in Procs \ {p} : job'[q] = job[q]
  BY <1>1, <1>3, <1>4, AtTypes
<1>6. store'[p] = FreshStore /\ \A q \in Procs \ {p} : store'[q] = store[q]
  BY <1>1, <1>4, FreshTypes
<1>7. \A e \in Dirs : store'[p].session[e] = "unknown"
  BY <1>6 DEF FreshStore, Unknown
<1>8. Backed(p)'
  BY <1>3, <1>5, <1>7 DEF Backed, OwnAnswers, Looking, Carrying, Adopting
<1>9. QED
  BY <1>1, <1>4, <1>5, <1>6, <1>8, OthersStayBacked

LEMMA RegistryIsStattedBacked ==
  ASSUME TrustInvariant, AnswersInvariant, NEW p \in Procs, RegistryIsStatted(p)
  PROVE  AnswersInvariant'
<1> DEFINE j == [job[p] EXCEPT !.pc = IF store[p].current THEN "apply" ELSE "load",
                               !.seen = ~store[p].current, !.over = @ \/ registry.torn]
<1>1. TrustTypes /\ Informed(p) /\ Backed(p)
  BY DEF TrustInvariant, AnswersInvariant
<1>2. /\ job[p] \in Jobs /\ registry.torn \in BOOLEAN /\ store[p].current \in BOOLEAN
      /\ job[p].over \in BOOLEAN
  BY <1>1, FieldTypes
<1>3. (~store[p].current) \in BOOLEAN /\ (job[p].over \/ registry.torn) \in BOOLEAN
      /\ (IF store[p].current THEN "apply" ELSE "load") \in Pcs
  BY DEF Pcs
<1>4. j \in Jobs /\ j.pc = (IF store[p].current THEN "apply" ELSE "load")
      /\ j.kind = job[p].kind /\ j.root = job[p].root /\ j.arg = job[p].arg
      /\ (j.over = (job[p].over \/ registry.torn))
  BY <1>2, <1>3 DEF Jobs
<1>5. job[p].pc = "stat" /\ At(p, j) /\ UNCHANGED <<registry, store, consent, strays>>
  BY DEF RegistryIsStatted, disk, ghosts
<1> HIDE DEF j
<1>6. job'[p] = j /\ \A q \in Procs \ {p} : job'[q] = job[q]
  BY <1>1, <1>4, <1>5, AtTypes
<1>7. OwnAnswers(p)' /\ Carrying(p)'
  BY <1>1, <1>4, <1>5, <1>6 DEF Backed, OwnAnswers, Carrying
<1>8. Looking(p)'
  BY <1>1, <1>2, <1>4, <1>5, <1>6 DEF Informed, Fresh, Looking
<1>9. Adopting(p)'
  BY <1>1, <1>2, <1>4, <1>5, <1>6 DEF Backed, Adopting
<1>10. QED
  BY <1>5, <1>6, <1>7, <1>8, <1>9, OthersStayBacked DEF Backed

LEMMA RegistryIsLoadedBacked ==
  ASSUME TrustInvariant, AnswersInvariant, NEW p \in Procs, RegistryIsLoaded(p)
  PROVE  AnswersInvariant'
<1> DEFINE j == [job[p] EXCEPT !.pc = "apply", !.seen = FALSE, !.over = @ \/ registry.torn]
           s == Loaded(p, job[p].seen)
<1>1. TrustTypes /\ store \in [Procs -> Stores] /\ Backed(p)
  BY DEF TrustInvariant, TrustTypes, AnswersInvariant
<1>2. /\ job[p] \in Jobs /\ registry.torn \in BOOLEAN
      /\ job[p].over \in BOOLEAN /\ job[p].seen \in BOOLEAN
  BY <1>1, FieldTypes
<1>3. (job[p].over \/ registry.torn) \in BOOLEAN
  OBVIOUS
<1>4. j \in Jobs /\ j.pc = "apply" /\ j.kind = job[p].kind /\ j.root = job[p].root
      /\ j.arg = job[p].arg /\ (j.over = (job[p].over \/ registry.torn))
  BY <1>2, <1>3 DEF Jobs, Pcs
<1>5. s \in Stores /\ s.session = store[p].session /\ (~registry.torn => s.cache = registry.answers)
  BY <1>1, <1>2, LoadedTypes
<1>6. job[p].pc = "load" /\ At(p, j) /\ store' = [store EXCEPT ![p] = s]
      /\ UNCHANGED <<registry, consent, strays>>
  BY DEF RegistryIsLoaded, disk, ghosts
<1> HIDE DEF j, s
<1>7. job'[p] = j /\ \A q \in Procs \ {p} : job'[q] = job[q]
  BY <1>1, <1>4, <1>6, AtTypes
<1>8. store'[p] = s /\ \A q \in Procs \ {p} : store'[q] = store[q]
  BY <1>1, <1>5, <1>6
<1>9. OwnAnswers(p)' /\ Carrying(p)'
  BY <1>1, <1>4, <1>5, <1>6, <1>7, <1>8 DEF Backed, OwnAnswers, Carrying
<1>10. Looking(p)'
  BY <1>2, <1>4, <1>5, <1>6, <1>7, <1>8 DEF Looking
<1>11. Adopting(p)'
  BY <1>1, <1>2, <1>4, <1>6, <1>7 DEF Backed, Adopting
<1>12. QED
  BY <1>6, <1>7, <1>8, <1>9, <1>10, <1>11, OthersStayBacked DEF Backed

LEMMA TrustIsReportedBacked ==
  ASSUME TrustInvariant, AnswersInvariant, NEW p \in Servers, TrustIsReported(p)
  PROVE  AnswersInvariant'
<1> DEFINE j == IF job[p].todo = {} THEN NoJob ELSE [job[p] EXCEPT !.pc = "grant"]
           s == Loaded(p, TRUE)
<1>1. TrustTypes /\ p \in Procs /\ store \in [Procs -> Stores] /\ Backed(p)
  BY DEF TrustInvariant, TrustTypes, Procs, AnswersInvariant
<1>2. job[p] \in Jobs
  BY <1>1, FieldTypes
<1>3. /\ job[p].pc = "report" /\ At(p, j)
      /\ store' = IF store[p].current THEN store ELSE [store EXCEPT ![p] = s]
      /\ UNCHANGED <<registry, consent, strays>>
  BY DEF TrustIsReported, disk, ghosts
<1>4. j \in Jobs /\ j.pc \in {"idle", "grant"} /\ (j.kind = "adopt" => j.arg = "trusted")
  <2>1. CASE job[p].todo = {}
    BY <2>1, BlankTypes DEF NoJob
  <2>2. CASE job[p].todo # {}
    BY <1>1, <1>2, <2>2 DEF Jobs, Pcs, Backed, Adopting
  <2>3. QED
    BY <2>1, <2>2
<1>5. s \in Stores /\ s.session = store[p].session
  BY <1>1, LoadedTypes
<1> HIDE DEF j, s
<1>6. job'[p] = j /\ \A q \in Procs \ {p} : job'[q] = job[q]
  BY <1>1, <1>3, <1>4, AtTypes
<1>7. store'[p].session = store[p].session /\ \A q \in Procs \ {p} : store'[q] = store[q]
  BY <1>1, <1>3, <1>5
<1>8. OwnAnswers(p)'
  BY <1>1, <1>3, <1>7 DEF Backed, OwnAnswers
<1>9. Looking(p)' /\ Carrying(p)' /\ Adopting(p)'
  BY <1>4, <1>6 DEF Looking, Carrying, Adopting
<1>10. QED
  BY <1>1, <1>3, <1>6, <1>7, <1>8, <1>9, OthersStayBacked DEF Backed

LEMMA RegistryIsTruncatedBacked ==
  ASSUME TrustInvariant, AnswersInvariant, NEW p \in Procs, RegistryIsTruncated(p)
  PROVE  AnswersInvariant'
<1> DEFINE f == [store EXCEPT ![p] = Answered(p)]
           j == [job[p] EXCEPT !.pc = "write"]
<1>1. TrustTypes /\ Rooted /\ store \in [Procs -> Stores] /\ About(p, job[p]) /\ Backed(p)
      /\ registry \in [answers : Replies, torn : BOOLEAN] /\ Recorded
  BY DEF TrustInvariant, TrustTypes, Rooted, AnswersInvariant
<1>2. /\ job[p].pc = "apply" /\ job[p].kind \in {"set", "remove", "adopt"}
      /\ store' = NoneIsCurrent(f) /\ registry' = [registry EXCEPT !.torn = TRUE]
      /\ job' = [Alarmed(p) EXCEPT ![p].pc = "write"]
      /\ UNCHANGED <<consent, strays>>
  BY DEF RegistryIsTruncated, Answers, ghosts
<1>3. f \in [Procs -> Stores] /\ f[p] = Answered(p) /\ \A q \in Procs \ {p} : f[q] = store[q]
  BY <1>1, AnsweredTypes
<1>4. job[p] \in Jobs
  BY <1>1, FieldTypes
<1>5. /\ j \in Jobs /\ j.pc = "write" /\ j.root = job[p].root /\ j.kind = job[p].kind
      /\ j.arg = job[p].arg
  BY <1>4 DEF Jobs, Pcs
<1>6. Alarmed(p) \in [Procs -> Jobs] /\ Alarmed(p)[p] = job[p]
  BY <1>1, AlarmedTypes
<1>7. job' = [Alarmed(p) EXCEPT ![p] = j]
  BY <1>2, <1>6
<1>8. registry'.answers = registry.answers
  BY <1>1, <1>2
<1> HIDE DEF f, j
<1>9. store'[p].session = store[p].session /\ store'[p].cache = Answered(p).cache
  BY <1>1, <1>2, <1>3, NoneIsCurrentTypes, AnsweredTypes
<1>10. job[p].root \in Dirs /\ Answered(p).cache[job[p].root] = IF job[p].kind = "remove" THEN "unknown" ELSE job[p].arg
  BY <1>1, <1>2, AnsweredTypes DEF About
<1>11. job'[p] = j
  BY <1>6, <1>7
<1>12. OwnAnswers(p)'
  BY <1>1, <1>2, <1>9 DEF Backed, OwnAnswers
<1>13. Looking(p)' /\ Carrying(p)' /\ Adopting(p)'
  BY <1>1, <1>2, <1>5, <1>9, <1>10, <1>11 DEF Backed, Looking, Carrying, Adopting
<1>14. Recorded'
  BY <1>1, <1>2, <1>8 DEF Recorded
<1>15. QED
  BY <1>2, <1>3, <1>5, <1>7, <1>12, <1>13, <1>14, OthersAreBacked DEF Backed

LEMMA RegistryIsWrittenBacked ==
  ASSUME TrustInvariant, AnswersInvariant, NEW p \in Procs, RegistryIsWritten(p)
  PROVE  AnswersInvariant'
<1> DEFINE f == IF p \in Terminals THEN [store EXCEPT ![p] = NoStore] ELSE store
           j == IF p \in Terminals THEN NoJob ELSE [job[p] EXCEPT !.pc = "restat", !.over = FALSE]
           r == job[p].root
           mine == IF job[p].kind = "remove" THEN {} ELSE {<<p, r>>}
<1>1. TrustTypes /\ Rooted /\ store \in [Procs -> Stores] /\ Backed(p) /\ Informed(p) /\ Recorded
  BY DEF TrustInvariant, TrustTypes, Rooted, AnswersInvariant
<1>2. Alarmed(p) \in [Procs -> Jobs] /\ Alarmed(p)[p] = job[p]
  BY <1>1, AlarmedTypes
<1>3. /\ job[p].pc = "write"
      /\ store' = NoneIsCurrent(f) /\ registry' = [answers |-> store[p].cache, torn |-> FALSE]
      /\ job' = [Alarmed(p) EXCEPT ![p] = j]
      /\ consent' = IF job[p].arg = "trusted" THEN (consent \ mine) \union {<<"everyone", r>>}
                                              ELSE consent \ (mine \union {<<"everyone", r>>})
      /\ strays' = IF job[p].over \/ store[p].adrift
                     THEN strays \union {d \in Dirs \ {r} : store[p].cache[d] # registry.answers[d]}
                     ELSE strays
  BY <1>2 DEF RegistryIsWritten, ConsentAfterSave
<1>4. f \in [Procs -> Stores] /\ \A q \in Procs \ {p} : f[q] = store[q]
  BY <1>1, BlankTypes
<1>5. job[p] \in Jobs /\ store[p].cache \in Replies
  BY <1>1, FieldTypes
<1>6. \A u \in consent : u[1] \notin {p, "everyone"} => u \in consent'
  BY <1>3
<1>7. strays \subseteq strays'
  BY <1>3
<1>8. Recorded'
  <2>1. SUFFICES ASSUME NEW d \in Dirs, store[p].cache[d] = "trusted"
        PROVE  <<"everyone", d>> \in consent' \/ d \in strays'
    BY <1>3 DEF Recorded
  <2>2. CASE d = r
    BY <1>1, <1>3, <2>1, <2>2 DEF Backed, Carrying
  <2>3. CASE d # r /\ store[p].cache[d] # registry.answers[d]
    BY <1>1, <1>3, <2>3 DEF Informed, Saving
  <2>4. CASE d # r /\ store[p].cache[d] = registry.answers[d]
    <3>1. <<"everyone", d>> \in consent \/ d \in strays
      BY <1>1, <2>1, <2>4 DEF Recorded
    <3>2. <<"everyone", d>> \notin mine /\ <<"everyone", d>> # <<"everyone", r>>
      BY <2>4
    <3>3. QED
      BY <1>3, <1>7, <3>1, <3>2
  <2>5. QED
    BY <2>2, <2>3, <2>4
<1>9. j \in Jobs /\ job'[p] = j
  BY <1>2, <1>3, <1>5, BlankTypes DEF Jobs, Pcs
<1>10. store'[p].session = f[p].session
  BY <1>3, <1>4, NoneIsCurrentTypes
<1>11. CASE p \in Terminals
  <2>1. f[p] = NoStore /\ job'[p] = NoJob
    BY <1>1, <1>9, <1>11
  <2>2. OwnAnswers(p)'
    BY <1>10, <2>1 DEF OwnAnswers, NoStore, Unknown
  <2>3. Looking(p)' /\ Carrying(p)' /\ Adopting(p)'
    <3>1. job'[p].pc = "idle" /\ job'[p].kind = "-"
      BY <2>1 DEF NoJob
    <3>2. QED
      BY <3>1 DEF Looking, Carrying, Adopting
  <2>4. QED
    BY <1>3, <1>4, <1>6, <1>7, <1>8, <1>9, <2>2, <2>3, OthersAreBacked DEF Backed
<1>12. CASE p \notin Terminals
  <2>1. f[p] = store[p] /\ j = [job[p] EXCEPT !.pc = "restat", !.over = FALSE]
    BY <1>12
  <2>2. j.pc = "restat" /\ j.kind = job[p].kind /\ j.root = r /\ j.arg = job[p].arg
    BY <1>5, <2>1 DEF Jobs
  <2>3. OwnAnswers(p)'
    <3>1. SUFFICES ASSUME NEW d \in Dirs, store[p].session[d] = "trusted"
          PROVE  <<p, d>> \in consent' \/ (job[p].kind # "remove" /\ d = r)
      BY <1>9, <1>10, <2>1, <2>2 DEF OwnAnswers
    <3>2. <<p, d>> \in consent
      BY <1>1, <1>3, <3>1 DEF Backed, OwnAnswers
    <3>3. p # "everyone"
      BY TrustAssumption
    <3>4. QED
      BY <1>3, <3>2, <3>3
  <2>4. Looking(p)' /\ Carrying(p)'
    BY <1>9, <2>2 DEF Looking, Carrying
  <2>5. Adopting(p)'
    <3>1. job[p].kind = "adopt" => job[p].arg = "trusted"
      BY <1>1 DEF Backed, Adopting
    <3>2. job[p].arg = "trusted" => <<"everyone", r>> \in consent'
      BY <1>3
    <3>3. QED
      BY <1>9, <2>2, <3>1, <3>2 DEF Adopting
  <2>6. QED
    BY <1>3, <1>4, <1>6, <1>7, <1>8, <1>9, <2>3, <2>4, <2>5, OthersAreBacked DEF Backed
<1>13. QED
  BY <1>11, <1>12

\* Where a save leads, and with which answer.
LEMMA SavedJobs ==
  ASSUME NEW p \in Procs, job[p] \in Jobs
  PROVE  /\ Saved(p).pc \in {"idle", "stat", "report"}
         /\ Saved(p).kind # "adopt"
         /\ Saved(p).kind = "readopt" /\ Saved(p).pc = "stat" =>
              job[p].kind = "adopt" /\ Saved(p).root = job[p].root /\ p \notin Terminals
<1>1. CASE p \in Terminals
  BY <1>1 DEF Saved, NoJob
<1>2. CASE p \notin Terminals /\ job[p].kind = "adopt"
  BY <1>2 DEF Saved, Jobs
<1>3. CASE p \notin Terminals /\ job[p].kind # "adopt"
  BY <1>3 DEF Saved, NoJob
<1>4. QED
  BY <1>1, <1>2, <1>3

LEMMA RegistryIsRestattedBacked ==
  ASSUME TrustInvariant, AnswersInvariant, NEW p \in Procs, RegistryIsRestatted(p)
  PROVE  AnswersInvariant'
<1> DEFINE s == [store[p] EXCEPT !.current = TRUE, !.adrift = job[p].over, !.session = SessionAfter(p)]
<1>1. TrustTypes /\ store \in [Procs -> Stores] /\ About(p, job[p]) /\ Backed(p)
  BY DEF TrustInvariant, TrustTypes, Rooted, AnswersInvariant
<1>2. /\ job[p].pc = "restat" /\ At(p, Saved(p))
      /\ store' = [store EXCEPT ![p].current = TRUE, ![p].adrift = job[p].over,
                                ![p].session = SessionAfter(p)]
      /\ UNCHANGED <<registry, consent, strays>>
  BY DEF RegistryIsRestatted, disk, ghosts
<1>3. /\ store[p] \in Stores /\ job[p].over \in BOOLEAN /\ SessionAfter(p) \in Replies
      /\ store[p].session \in Replies /\ job[p] \in Jobs
  BY <1>1, FieldTypes, AnsweredTypes
<1>4. s \in Stores /\ s.current /\ s.adrift = job[p].over /\ s.session = SessionAfter(p)
  BY <1>3 DEF Stores
<1>5. store'[p] = s /\ \A q \in Procs \ {p} : store'[q] = store[q]
  BY <1>1, <1>2
<1>6. job'[p] = Saved(p) /\ \A q \in Procs \ {p} : job'[q] = job[q]
  BY <1>1, <1>2, SavedTypes, AtTypes
<1> HIDE DEF s
<1>7. OwnAnswers(p)'
  <2>1. SUFFICES ASSUME NEW d \in Dirs, SessionAfter(p)[d] = "trusted" PROVE <<p, d>> \in consent
    BY <1>2, <1>4, <1>5 DEF OwnAnswers
  <2>2. <<p, d>> \in consent \/ (job[p].kind # "remove" /\ job[p].root = d)
    BY <1>1, <1>3, <2>1 DEF Backed, OwnAnswers, SessionAfter, Replies
  <2>3. ~(job[p].kind # "remove" /\ job[p].root = d)
    BY <1>3, <2>1 DEF SessionAfter, Replies
  <2>4. QED
    BY <2>2, <2>3
<1>8. /\ Saved(p).pc \in {"idle", "stat", "report"} /\ Saved(p).kind # "adopt"
      /\ Saved(p).kind = "readopt" /\ Saved(p).pc = "stat" =>
           job[p].kind = "adopt" /\ Saved(p).root = job[p].root
  BY <1>3, SavedJobs
<1>9. Looking(p)' /\ Carrying(p)'
  BY <1>6, <1>8 DEF Looking, Carrying
<1>10. Adopting(p)'
  BY <1>1, <1>2, <1>4, <1>5, <1>6, <1>8 DEF Backed, Adopting
<1>11. QED
  BY <1>2, <1>5, <1>6, <1>7, <1>9, <1>10, OthersStayBacked DEF Backed

LEMMA RegistryIsNotSavedBacked ==
  ASSUME TrustInvariant, AnswersInvariant, NEW p \in Procs, RegistryIsNotSaved(p)
  PROVE  AnswersInvariant'
<1> DEFINE s == IF p \in Terminals THEN NoStore
                ELSE [Answered(p) EXCEPT !.adrift = TRUE, !.session = SessionAfter(p)]
           r == job[p].root
<1>1. TrustTypes /\ store \in [Procs -> Stores] /\ About(p, job[p]) /\ Backed(p)
  BY DEF TrustInvariant, TrustTypes, Rooted, AnswersInvariant
<1>2. /\ job[p].pc = "apply" /\ At(p, Saved(p)) /\ store' = [store EXCEPT ![p] = s]
      /\ UNCHANGED <<registry, strays>> /\ consent' = ConsentUnsaved(p)
  BY DEF RegistryIsNotSaved, Answers, disk
<1>3. /\ Answered(p) \in Stores /\ SessionAfter(p) \in Replies /\ NoStore \in Stores
      /\ store[p].session \in Replies /\ job[p] \in Jobs
  BY <1>1, AnsweredTypes, BlankTypes, FieldTypes
<1>4. s \in Stores /\ (p \in Terminals => s.session = Unknown)
      /\ (p \notin Terminals => s.session = SessionAfter(p))
  BY <1>3 DEF Stores, NoStore
<1> HIDE DEF s
<1>5. store'[p] = s /\ \A q \in Procs \ {p} : store'[q] = store[q]
  BY <1>1, <1>2, <1>4
<1>6. job'[p] = Saved(p) /\ \A q \in Procs \ {p} : job'[q] = job[q]
  BY <1>1, <1>2, SavedTypes, AtTypes
<1>7. \A u \in consent : u[1] # p => u \in consent'
  BY <1>2 DEF ConsentUnsaved
<1>8. OwnAnswers(p)'
  <2>1. SUFFICES ASSUME NEW d \in Dirs, s.session[d] = "trusted" PROVE <<p, d>> \in consent'
    BY <1>5 DEF OwnAnswers
  <2>2. p \notin Terminals /\ SessionAfter(p)[d] = "trusted"
    BY <1>4, <2>1 DEF Unknown
  <2>3. store[p].session[d] = "trusted" /\ (job[p].kind = "remove" \/ d # r)
    BY <1>3, <2>2 DEF SessionAfter, Replies
  <2>4. <<p, d>> \in consent
    BY <1>1, <1>2, <2>3 DEF Backed, OwnAnswers
  <2>5. QED
    BY <1>2, <2>3, <2>4 DEF ConsentUnsaved
<1>9. /\ Saved(p).pc \in {"idle", "stat", "report"} /\ Saved(p).kind # "adopt"
      /\ Saved(p).kind = "readopt" /\ Saved(p).pc = "stat" =>
           job[p].kind = "adopt" /\ Saved(p).root = r
  BY <1>3, SavedJobs
<1>10. Looking(p)' /\ Carrying(p)'
  BY <1>6, <1>9 DEF Looking, Carrying
<1>11. Adopting(p)'
  <2>1. job[p].kind = "adopt" => <<p, r>> \in consent'
    BY <1>1, <1>2 DEF Backed, Adopting, ConsentUnsaved
  <2>2. QED
    BY <1>6, <1>9, <2>1 DEF Adopting
<1>12. QED
  BY <1>2, <1>5, <1>6, <1>7, <1>8, <1>10, <1>11, OthersStayBacked DEF Backed

-----------------------------------------------------------------------------
(* What a policy allows unasked.                                           *)

\* A rule somebody clicked for in directory d, or that d came with.
Allowed(d, x) == <<d, x>> \in clicked \/ x \in Shipped[d]

\* Only a trusting policy has rules, and trust and rules are the user's.
Earned(pol) ==
  /\ pol.rules # {} => pol.trusted
  /\ pol.trusted /\ pol.root \notin strays =>
       pol.root \in Dirs /\ pol.sound /\ \A x \in pol.rules : Allowed(pol.root, x)

FilesEarned == \A d \in Dirs : d \notin strays => \A x \in ruleFile[d].rules : Allowed(d, x)

\* A click's rules are on their way to the policy whose card it was.
Aimed(p) ==
  /\ server[p].root = policy[p].live.root
  /\ job[p].kind \in {"adopt", "readopt"} => job[p].root = server[p].root
  /\ job[p].pc = "idle" => job[p].todo = {}
  /\ \A x \in job[p].todo : <<Held(p).root, x>> \in clicked

RulesInvariant ==
  /\ FilesEarned /\ CalmNothingRunsUnasked
  /\ \A p \in Servers : Aimed(p) /\ \A h \in {"live", "held"} : Earned(policy[p][h])

\* What was allowed stays allowed.
LEMMA FilesStayEarned ==
  ASSUME RulesInvariant, clicked \subseteq clicked', strays \subseteq strays',
         \A d \in Dirs : ruleFile'[d].rules = ruleFile[d].rules
  PROVE  FilesEarned'
BY DEF RulesInvariant, FilesEarned, Allowed

LEMMA PolicyStaysEarned ==
  ASSUME RulesInvariant, clicked \subseteq clicked', strays \subseteq strays',
         NEW q \in Servers, NEW h \in {"live", "held"},
         policy'[q][h].root = policy[q][h].root, policy'[q][h].trusted = policy[q][h].trusted,
         policy'[q][h].sound = policy[q][h].sound, policy'[q][h].rules = policy[q][h].rules
  PROVE  Earned(policy[q][h])'
<1>1. Earned(policy[q][h])
  BY DEF RulesInvariant
<1>2. QED
  BY <1>1 DEF Earned, Allowed

\* A step that leaves every policy, every file of rules and every turn's policy.
LEMMA RulesStay ==
  ASSUME RulesInvariant, UNCHANGED <<ruleFile, server, policy>>,
         clicked \subseteq clicked', strays \subseteq strays', unasked' = unasked,
         \A q \in Servers : /\ turn'[q].holds = turn[q].holds
                            /\ job'[q].kind \in {"adopt", "readopt"} => job'[q].root = server[q].root
                            /\ job'[q].pc = "idle" => job'[q].todo = {}
                            /\ \A x \in job'[q].todo : <<Held(q).root, x>> \in clicked'
  PROVE  RulesInvariant'
<1>1. FilesEarned'
  BY FilesStayEarned
<1>2. CalmNothingRunsUnasked'
  BY DEF RulesInvariant, CalmNothingRunsUnasked
<1>3. ASSUME NEW q \in Servers PROVE Aimed(q)'
  <2>1. Held(q)' = Held(q)
    BY DEF Held
  <2>2. QED
    BY <2>1 DEF RulesInvariant, Aimed
<1>4. ASSUME NEW q \in Servers, NEW h \in {"live", "held"} PROVE Earned(policy[q][h])'
  BY PolicyStaysEarned
<1>5. QED
  BY <1>1, <1>2, <1>3, <1>4 DEF RulesInvariant

\* A step of one process whose job stays what it was about, or ends.
LEMMA JobOfRules ==
  ASSUME RulesInvariant, UNCHANGED <<ruleFile, server, policy, clicked, unasked>>,
         strays \subseteq strays',
         \A q \in Servers :
           /\ turn'[q].holds = turn[q].holds
           /\ job'[q].kind \in {"adopt", "readopt"} =>
                job[q].kind \in {"adopt", "readopt"} /\ job'[q].root = job[q].root
           /\ job'[q].pc = "idle" => job'[q].todo = {}
           /\ job'[q].todo \subseteq job[q].todo
  PROVE  RulesInvariant'
<1>1. ASSUME NEW q \in Servers
      PROVE  /\ job'[q].kind \in {"adopt", "readopt"} => job'[q].root = server[q].root
             /\ job'[q].pc = "idle" => job'[q].todo = {}
             /\ \A x \in job'[q].todo : <<Held(q).root, x>> \in clicked'
  BY DEF RulesInvariant, Aimed
<1>2. QED
  BY <1>1, RulesStay

LEMMA JobStepOfRules ==
  ASSUME TrustInvariant, RulesInvariant, NEW p \in Procs, NEW j \in Jobs, At(p, j),
         UNCHANGED <<ruleFile, server, policy, turn, clicked, unasked>>, strays \subseteq strays',
         j.kind \in {"adopt", "readopt"} => job[p].kind \in {"adopt", "readopt"} /\ j.root = job[p].root,
         j.pc = "idle" => j.todo = {}, j.todo \subseteq job[p].todo
  PROVE  RulesInvariant'
<1>1. job'[p] = j /\ \A q \in Procs \ {p} : job'[q] = job[q]
  BY AtTypes DEF TrustInvariant
<1>2. ASSUME NEW q \in Servers
      PROVE  /\ turn'[q].holds = turn[q].holds
             /\ job'[q].kind \in {"adopt", "readopt"} =>
                  job[q].kind \in {"adopt", "readopt"} /\ job'[q].root = job[q].root
             /\ job'[q].pc = "idle" => job'[q].todo = {}
             /\ job'[q].todo \subseteq job[q].todo
  <2>1. q \in Procs
    BY DEF Procs
  <2>2. CASE q = p
    BY <1>1, <2>2
  <2>3. CASE q # p
    BY <1>1, <2>1, <2>3 DEF RulesInvariant, Aimed
  <2>4. QED
    BY <2>2, <2>3
<1>3. QED
  BY <1>2, JobOfRules

\* A request starts with nothing to remember.
LEMMA RequestsKeepRules ==
  ASSUME TrustInvariant, RulesInvariant, NEW p \in Procs, NEW d \in Dirs, NEW r \in Dirs,
         \/ p \in Servers /\ \E o \in {"-", "trusted", "denied"} : InitializeStarts(p, d, r, o)
         \/ p \in Servers /\ \E s \in {"trusted", "denied"} : TrustSet(p, d, r, s)
         \/ p \in Servers /\ \E s \in {"trusted", "denied"} : TrustSetForThisRun(p, d, r, s)
         \/ TrustRemove(p, d, r)
         \/ \E s \in {"trusted", "denied", "unknown"} : TerminalAnswers(p, d, r, s)
  PROVE  RulesInvariant'
<1>1. registry.torn \in BOOLEAN
  BY FieldTypes DEF TrustInvariant
<1>2. PICK pc \in Pcs, kind \in Kinds, arg \in Says, over \in BOOLEAN :
        /\ At(p, [NoJob EXCEPT !.pc = pc, !.kind = kind, !.root = r, !.arg = arg, !.over = over])
        /\ pc # "idle" /\ kind \notin {"adopt", "readopt"}
  <2> DEFINE Asks(pc, kind, arg, over) ==
               /\ At(p, [NoJob EXCEPT !.pc = pc, !.kind = kind, !.root = r, !.arg = arg, !.over = over])
               /\ pc # "idle" /\ kind \notin {"adopt", "readopt"}
  <2>1. NoJob.arg = "-" /\ NoJob.over = FALSE /\ NoJob \in Jobs
    BY BlankTypes DEF NoJob
  <2>2. \A pc \in Pcs, kind \in Kinds, arg \in Says :
          [NoJob EXCEPT !.pc = pc, !.kind = kind, !.root = r, !.arg = arg]
            = [NoJob EXCEPT !.pc = pc, !.kind = kind, !.root = r, !.arg = arg, !.over = FALSE]
    BY <2>1 DEF Jobs
  <2>3. \A pc \in Pcs, kind \in Kinds :
          [NoJob EXCEPT !.pc = pc, !.kind = kind, !.root = r]
            = [NoJob EXCEPT !.pc = pc, !.kind = kind, !.root = r, !.arg = "-", !.over = FALSE]
    BY <2>1 DEF Jobs
  <2>4. ASSUME NEW o \in {"-", "trusted", "denied"}, InitializeStarts(p, d, r, o)
        PROVE  Asks("stat", "initialize", "-", FALSE) \/ Asks("apply", "initialize", "-", FALSE)
    <3>1. \/ At(p, [NoJob EXCEPT !.pc = "stat", !.kind = "initialize", !.root = r])
          \/ At(p, [NoJob EXCEPT !.pc = "apply", !.kind = "initialize", !.root = r])
      BY <2>1, <2>4 DEF InitializeStarts, Jobs
    <3>2. QED
      BY <2>3, <3>1 DEF Pcs, Kinds
  <2>5. ASSUME NEW s \in {"trusted", "denied"}, TrustSet(p, d, r, s) PROVE Asks("stat", "set", s, FALSE)
    BY <2>2, <2>5 DEF TrustSet, Pcs, Kinds, Says
  <2>6. ASSUME NEW s \in {"trusted", "denied"}, TrustSetForThisRun(p, d, r, s)
        PROVE  Asks("report", "get", "-", FALSE)
    BY <2>3, <2>6 DEF TrustSetForThisRun, Pcs, Kinds
  <2>7. ASSUME TrustRemove(p, d, r) PROVE Asks("stat", "remove", "-", FALSE)
    BY <2>3, <2>7 DEF TrustRemove, Pcs, Kinds
  <2>8. ASSUME NEW s \in {"trusted", "denied", "unknown"}, TerminalAnswers(p, d, r, s)
        PROVE  Asks("stat", "remove", s, registry.torn) \/ Asks("stat", "set", s, registry.torn)
    BY <2>8 DEF TerminalAnswers
  <2>9. {"stat", "apply", "report"} \subseteq Pcs /\ {"initialize", "set", "get", "remove"} \subseteq Kinds
        /\ {"-", "trusted", "denied", "unknown"} \subseteq Says /\ FALSE \in BOOLEAN
    BY DEF Pcs, Kinds, Says
  <2> HIDE DEF Asks
  <2>10. \E pc \in Pcs, kind \in Kinds, arg \in Says, over \in BOOLEAN : Asks(pc, kind, arg, over)
    BY <1>1, <2>4, <2>5, <2>6, <2>7, <2>8, <2>9
  <2>11. QED
    BY <2>10 DEF Asks
<1> DEFINE j == [NoJob EXCEPT !.pc = pc, !.kind = kind, !.root = r, !.arg = arg, !.over = over]
<1>3. j \in Jobs /\ j.pc = pc /\ j.kind = kind /\ j.todo = {}
  BY BlankTypes DEF NoJob, Jobs, Roots
<1>4. UNCHANGED <<ruleFile, server, policy, turn, clicked, unasked, strays>>
  BY DEF InitializeStarts, TrustSet, TrustSetForThisRun, TrustRemove, TerminalAnswers, disk, ghosts
<1> HIDE DEF j
<1>5. At(p, j)
  BY <1>2 DEF j
<1>6. QED
  BY <1>2, <1>3, <1>4, <1>5, JobStepOfRules

\* A look at the registry and the end of a save.
LEMMA LooksKeepRules ==
  ASSUME TrustInvariant, RulesInvariant, NEW p \in Procs,
         \/ RegistryIsStatted(p) \/ RegistryIsLoaded(p) \/ NothingToRemove(p)
         \/ RegistryIsRestatted(p) \/ RegistryIsNotSaved(p)
  PROVE  RulesInvariant'
<1>1. job[p] \in Jobs /\ registry.torn \in BOOLEAN /\ store[p].current \in BOOLEAN /\ job[p].over \in BOOLEAN
  BY FieldTypes DEF TrustInvariant
<1>2. UNCHANGED <<ruleFile, server, policy, turn, clicked, unasked, strays>>
  BY DEF RegistryIsStatted, RegistryIsLoaded, NothingToRemove, RegistryIsRestatted, RegistryIsNotSaved,
     disk, ghosts
<1>3. CASE RegistryIsStatted(p)
  <2> DEFINE j == [job[p] EXCEPT !.pc = IF store[p].current THEN "apply" ELSE "load",
                                 !.seen = ~store[p].current, !.over = @ \/ registry.torn]
  <2>1. (~store[p].current) \in BOOLEAN /\ (job[p].over \/ registry.torn) \in BOOLEAN
        /\ (IF store[p].current THEN "apply" ELSE "load") \in Pcs \ {"idle"}
    BY DEF Pcs
  <2>2. j \in Jobs /\ j.pc # "idle" /\ j.kind = job[p].kind /\ j.root = job[p].root /\ j.todo = job[p].todo
    BY <1>1, <2>1 DEF Jobs
  <2>3. At(p, j)
    BY <1>3 DEF RegistryIsStatted
  <2> HIDE DEF j
  <2>4. QED
    BY <1>2, <2>2, <2>3, JobStepOfRules
<1>4. CASE RegistryIsLoaded(p)
  <2> DEFINE j == [job[p] EXCEPT !.pc = "apply", !.seen = FALSE, !.over = @ \/ registry.torn]
  <2>1. (job[p].over \/ registry.torn) \in BOOLEAN
    OBVIOUS
  <2>2. j \in Jobs /\ j.pc # "idle" /\ j.kind = job[p].kind /\ j.root = job[p].root /\ j.todo = job[p].todo
    BY <1>1, <2>1 DEF Jobs, Pcs
  <2>3. At(p, j)
    BY <1>4 DEF RegistryIsLoaded
  <2> HIDE DEF j
  <2>4. QED
    BY <1>2, <2>2, <2>3, JobStepOfRules
<1>5. CASE NothingToRemove(p) \/ RegistryIsRestatted(p) \/ RegistryIsNotSaved(p)
  <2>1. At(p, Saved(p)) /\ Saved(p) \in Jobs
    BY <1>5, SavedTypes DEF TrustInvariant, Rooted, NothingToRemove, RegistryIsRestatted, RegistryIsNotSaved
  <2>2. /\ Saved(p).kind \in {"adopt", "readopt"} => job[p].kind = "adopt" /\ Saved(p).root = job[p].root
        /\ Saved(p).pc = "idle" => Saved(p).todo = {}
        /\ Saved(p).todo \subseteq job[p].todo
    <3>1. CASE p \in Terminals
      BY <3>1 DEF Saved, NoJob
    <3>2. CASE p \notin Terminals /\ job[p].kind = "adopt"
      BY <1>1, <3>2 DEF Saved, Jobs
    <3>3. CASE p \notin Terminals /\ job[p].kind # "adopt"
      BY <3>3 DEF Saved, NoJob
    <3>4. QED
      BY <3>1, <3>2, <3>3
  <2>3. QED
    BY <1>2, <2>1, <2>2, JobStepOfRules
<1>6. QED
  BY <1>3, <1>4, <1>5

\* A write of the registry.
LEMMA WritesKeepRules ==
  ASSUME TrustInvariant, RulesInvariant, NEW p \in Procs, RegistryIsTruncated(p) \/ RegistryIsWritten(p)
  PROVE  RulesInvariant'
<1>1. job[p] \in Jobs
  BY FieldTypes DEF TrustInvariant
<1>2. /\ Alarmed(p) \in [Procs -> Jobs] /\ Alarmed(p)[p] = job[p]
      /\ \A q \in Procs : /\ Alarmed(p)[q].pc = job[q].pc /\ Alarmed(p)[q].kind = job[q].kind
                          /\ Alarmed(p)[q].root = job[q].root /\ Alarmed(p)[q].todo = job[q].todo
  BY AlarmedTypes DEF TrustInvariant
<1>3. /\ UNCHANGED <<ruleFile, server, policy, turn, clicked, unasked>>
      /\ strays \subseteq strays'
  BY DEF RegistryIsTruncated, RegistryIsWritten, ghosts
<1>4. PICK j \in {NoJob, [job[p] EXCEPT !.pc = "restat", !.over = FALSE], [job[p] EXCEPT !.pc = "write"]} :
        job' = [Alarmed(p) EXCEPT ![p] = j]
  <2>1. CASE RegistryIsTruncated(p)
    BY <1>2, <2>1 DEF RegistryIsTruncated
  <2>2. CASE RegistryIsWritten(p)
    <3>1. job' = [Alarmed(p) EXCEPT ![p] = IF p \in Terminals THEN NoJob
                                           ELSE [job[p] EXCEPT !.pc = "restat", !.over = FALSE]]
      BY <1>2, <2>2 DEF RegistryIsWritten
    <3>2. QED
      BY <3>1
  <2>3. QED
    BY <2>1, <2>2
<1>5. /\ j.kind \in {"adopt", "readopt"} => j.kind = job[p].kind /\ j.root = job[p].root
      /\ j.pc = "idle" => j.todo = {}
      /\ j.todo \subseteq job[p].todo
  <2>1. CASE j = NoJob
    BY <2>1 DEF NoJob
  <2>2. CASE j # NoJob
    BY <1>1, <1>4, <2>2 DEF Jobs
  <2>3. QED
    BY <2>1, <2>2
<1>6. job'[p] = j /\ \A q \in Procs \ {p} : job'[q] = Alarmed(p)[q]
  BY <1>2, <1>4
<1>7. ASSUME NEW q \in Servers
      PROVE  /\ turn'[q].holds = turn[q].holds
             /\ job'[q].kind \in {"adopt", "readopt"} =>
                  job[q].kind \in {"adopt", "readopt"} /\ job'[q].root = job[q].root
             /\ job'[q].pc = "idle" => job'[q].todo = {}
             /\ job'[q].todo \subseteq job[q].todo
  <2>1. q \in Procs
    BY DEF Procs
  <2>2. CASE q = p
    BY <1>3, <1>5, <1>6, <2>2
  <2>3. CASE q # p
    BY <1>2, <1>3, <1>6, <2>1, <2>3 DEF RulesInvariant, Aimed
  <2>4. QED
    BY <2>2, <2>3
<1>8. QED
  BY <1>3, <1>7, JobOfRules

LEMMA ReportKeepsRules ==
  ASSUME TrustInvariant, RulesInvariant, NEW p \in Servers, TrustIsReported(p)
  PROVE  RulesInvariant'
<1> DEFINE j == IF job[p].todo = {} THEN NoJob ELSE [job[p] EXCEPT !.pc = "grant"]
<1>1. p \in Procs /\ job[p] \in Jobs
  BY FieldTypes DEF TrustInvariant, Procs
<1>2. At(p, j) /\ UNCHANGED <<ruleFile, server, policy, turn, clicked, unasked, strays>>
  BY DEF TrustIsReported, disk, ghosts
<1>3. /\ j \in Jobs
      /\ j.kind \in {"adopt", "readopt"} => j.kind = job[p].kind /\ j.root = job[p].root
      /\ j.pc = "idle" => j.todo = {}
      /\ j.todo \subseteq job[p].todo
  <2>1. CASE job[p].todo = {}
    BY <2>1, BlankTypes DEF NoJob
  <2>2. CASE job[p].todo # {}
    BY <1>1, <2>2 DEF Jobs, Pcs
  <2>3. QED
    BY <2>1, <2>2
<1> HIDE DEF j
<1>4. QED
  BY <1>1, <1>2, <1>3, JobStepOfRules

\* What is left to remember after a rule, and whose card it was.
LEMMA GrantedAims ==
  ASSUME TrustInvariant, RulesInvariant, NEW p \in Servers, NEW todo \in SUBSET job[p].todo, Granted(p, todo)
  PROVE  \A q \in Servers :
           /\ turn'[q].holds = turn[q].holds
           /\ job'[q].kind \in {"adopt", "readopt"} =>
                job[q].kind \in {"adopt", "readopt"} /\ job'[q].root = job[q].root
           /\ job'[q].pc = "idle" => job'[q].todo = {}
           /\ job'[q].todo \subseteq job[q].todo
<1>1. TrustTypes /\ p \in Procs /\ job[p] \in Jobs /\ job[p].todo \in SUBSET Rules
  BY FieldTypes DEF TrustInvariant, Procs
<1>2. PICK j \in Jobs : /\ At(p, j)
                        /\ j.kind \in {"adopt", "readopt"} => j.kind = job[p].kind /\ j.root = job[p].root
                        /\ j.pc = "idle" => j.todo = {}
                        /\ j.todo \subseteq job[p].todo
  <2>1. CASE todo = {}
    BY <2>1, BlankTypes DEF Granted, NoJob
  <2>2. CASE todo # {}
    <3> DEFINE j == [job[p] EXCEPT !.pc = "grant", !.todo = todo]
    <3>1. At(p, j)
      BY <2>2 DEF Granted
    <3>2. j \in Jobs /\ j.kind = job[p].kind /\ j.root = job[p].root /\ j.pc = "grant" /\ j.todo = todo
      BY <1>1 DEF Jobs, Pcs
    <3> HIDE DEF j
    <3>3. QED
      BY <3>1, <3>2
  <2>3. QED
    BY <2>1, <2>2
<1>3. job'[p] = j /\ \A q \in Procs \ {p} : job'[q] = job[q]
  BY <1>1, <1>2, AtTypes
<1>4. \A q \in Servers : turn'[q].holds = turn[q].holds
  BY <1>1, SettledTypes DEF Granted
<1>5. SUFFICES ASSUME NEW q \in Servers
      PROVE  /\ job'[q].kind \in {"adopt", "readopt"} =>
                  job[q].kind \in {"adopt", "readopt"} /\ job'[q].root = job[q].root
             /\ job'[q].pc = "idle" => job'[q].todo = {}
             /\ job'[q].todo \subseteq job[q].todo
  BY <1>4
<1>6. q \in Procs
  BY DEF Procs
<1>7. CASE q = p
  BY <1>2, <1>3, <1>7
<1>8. CASE q # p
  BY <1>3, <1>6, <1>8 DEF RulesInvariant, Aimed
<1>9. QED
  BY <1>7, <1>8

LEMMA ToolStartsKeepsRules ==
  ASSUME TrustInvariant, RulesInvariant, NEW p \in Servers, NEW k \in Asked, ToolStarts(p, k)
  PROVE  RulesInvariant'
<1> DEFINE c == Call[k]
           pol == Held(p)
           allowed == IF pol.sound THEN {x \in Rules : <<pol.root, x>> \in clicked} \union Shipped[pol.root]
                      ELSE {}
<1>1. TrustTypes /\ turn \in [Servers -> Turns] /\ turn[p] \in Turns
  BY DEF TrustInvariant, TrustTypes
<1>2. /\ UNCHANGED <<ruleFile, server, policy, job, clicked, strays>>
      /\ unasked' \in {unasked, unasked \union ({pol.root} \X (c.needs \ allowed))}
      /\ unasked' # unasked => IsAutoApproved(pol, c) /\ ~ByMode(pol, c)
  BY DEF ToolStarts, disk
<1>3. \A q \in Servers : turn'[q].holds = turn[q].holds
  <2>1. PICK a \in Asked \cup {"-"} : turn' = [turn EXCEPT ![p].on = TRUE, ![p].call = a]
    BY DEF ToolStarts
  <2>2. [turn[p] EXCEPT !.on = TRUE, !.call = a].holds = turn[p].holds
    BY <1>1 DEF Turns
  <2>3. turn' = [turn EXCEPT ![p] = [turn[p] EXCEPT !.on = TRUE, !.call = a]]
    BY <1>1, <2>1
  <2>4. QED
    BY <1>1, <2>2, <2>3
<1>4. pol \in Policies /\ pol.rules \in SUBSET Rules /\ Earned(pol)
  <2>1. turn[p].holds \in {"live", "held"} /\ Held(p) \in Policies
    BY <1>1, ServerTypes
  <2>2. QED
    BY <2>1 DEF RulesInvariant, Held, Policies
<1> HIDE DEF pol
<1>5. IsAutoApproved(pol, c) /\ ~ByMode(pol, c) => c.needs \subseteq pol.rules
  BY DEF IsAutoApproved, ByMode
<1> HIDE DEF c
<1>6. IsAutoApproved(pol, c) /\ ~ByMode(pol, c) /\ pol.root \notin strays => c.needs \subseteq allowed
  <2>1. SUFFICES ASSUME IsAutoApproved(pol, c), ~ByMode(pol, c), pol.root \notin strays,
                        NEW x \in c.needs
                 PROVE  x \in allowed
    OBVIOUS
  <2>2. x \in pol.rules /\ x \in Rules /\ pol.rules # {}
    BY <1>4, <1>5, <2>1
  <2>3. pol.sound /\ Allowed(pol.root, x)
    BY <1>4, <2>1, <2>2 DEF Earned
  <2>4. QED
    BY <2>2, <2>3 DEF Allowed
<1>7. FilesEarned'
  BY <1>2, FilesStayEarned
<1>8. CalmNothingRunsUnasked'
  <2>1. SUFFICES ASSUME NEW u \in unasked', u \notin unasked PROVE u[1] \in strays
    BY <1>2 DEF RulesInvariant, CalmNothingRunsUnasked
  <2>2. IsAutoApproved(pol, c) /\ ~ByMode(pol, c) /\ u \in {pol.root} \X (c.needs \ allowed)
    BY <1>2, <2>1
  <2> HIDE DEF allowed
  <2>3. u[1] = pol.root /\ ~(c.needs \subseteq allowed)
    BY <2>2
  <2>4. QED
    BY <1>6, <2>2, <2>3
<1>9. ASSUME NEW q \in Servers PROVE Aimed(q)'
  <2>1. Held(q)' = Held(q)
    BY <1>2, <1>3 DEF Held
  <2>2. QED
    BY <1>2, <2>1 DEF RulesInvariant, Aimed
<1>10. ASSUME NEW q \in Servers, NEW h \in {"live", "held"} PROVE Earned(policy[q][h])'
  BY <1>2, PolicyStaysEarned
<1>11. QED
  BY <1>7, <1>8, <1>9, <1>10 DEF RulesInvariant

LEMMA CardsKeepRules ==
  ASSUME TrustInvariant, RulesInvariant, NEW p \in Servers, CardIsSettled(p) \/ RuleIsInForce(p)
  PROVE  RulesInvariant'
<1>1. UNCHANGED <<ruleFile, server, policy, clicked, unasked, strays>>
  BY DEF CardIsSettled, RuleIsInForce, disk, ghosts
<1>2. CASE CardIsSettled(p)
  <2>1. job' = job /\ \A q \in Servers : turn'[q].holds = turn[q].holds
    BY <1>2, SettledTypes DEF CardIsSettled, TrustInvariant
  <2>2. \A q \in Servers : job[q].pc = "idle" => job[q].todo = {}
    BY DEF RulesInvariant, Aimed
  <2>3. QED
    BY <1>1, <2>1, <2>2, JobOfRules
<1>3. CASE RuleIsInForce(p)
  <2>1. PICK x : Granted(p, job[p].todo \ {x})
    BY <1>3 DEF RuleIsInForce
  <2>2. job[p].todo \ {x} \in SUBSET job[p].todo
    OBVIOUS
  <2>3. QED
    BY <1>1, <2>1, <2>2, GrantedAims, JobOfRules
<1>4. QED
  BY <1>2, <1>3

\* A click that lets rules be remembered is a click for them.
LEMMA ClickKeepsRules ==
  ASSUME TrustInvariant, RulesInvariant, NEW p \in Servers, NEW trust \in BOOLEAN, AlwaysIsClicked(p, trust)
  PROVE  RulesInvariant'
<1> DEFINE todo == Persistable(Call[turn[p].call])
           g == [NoJob EXCEPT !.pc = "grant", !.kind = "grant", !.todo = todo]
           a == [NoJob EXCEPT !.pc = "stat", !.kind = "adopt", !.root = server[p].root,
                              !.arg = "trusted", !.todo = todo]
           asked == Held(p).trusted \/ (trust /\ Adopts(p))
<1>1. TrustTypes /\ p \in Procs /\ turn[p] \in Turns /\ server[p].root \in Roots
  BY ServerTypes DEF TrustInvariant, TrustTypes, Procs
<1>2. /\ UNCHANGED <<ruleFile, server, policy, unasked>> /\ strays \subseteq strays'
      /\ turn[p].call # "-"
      /\ clicked' = IF asked THEN clicked \union ({Held(p).root} \X todo) ELSE clicked
  BY DEF AlwaysIsClicked, disk
<1>3. todo \in SUBSET Rules
  BY <1>1, <1>2, PersistableRules DEF Turns
<1>4. \/ asked /\ At(p, g) /\ turn' = turn
      \/ asked /\ At(p, a) /\ turn' = turn
      \/ Settled(p) /\ job' = job
  BY DEF AlwaysIsClicked
<1>5. clicked \subseteq clicked' /\ (asked => \A x \in todo : <<Held(p).root, x>> \in clicked')
  BY <1>2
<1> HIDE DEF todo, asked
<1>6. g \in Jobs /\ g.kind = "grant" /\ g.pc = "grant" /\ g.todo = todo
  BY <1>3, BlankTypes DEF NoJob, Jobs, Pcs, Kinds
<1>7. a \in Jobs /\ a.root = server[p].root /\ a.pc = "stat" /\ a.todo = todo
  BY <1>1, <1>3, BlankTypes DEF NoJob, Jobs, Pcs, Kinds, Says
<1> HIDE DEF g, a
<1>8. ASSUME NEW q \in Servers, job'[q] = job[q]
      PROVE  /\ job'[q].kind \in {"adopt", "readopt"} => job'[q].root = server[q].root
             /\ job'[q].pc = "idle" => job'[q].todo = {}
             /\ \A x \in job'[q].todo : <<Held(q).root, x>> \in clicked'
  BY <1>5, <1>8 DEF RulesInvariant, Aimed
<1>9. \A q \in Servers : turn'[q].holds = turn[q].holds
  BY <1>1, <1>4, SettledTypes
<1>10. CASE Settled(p) /\ job' = job
  BY <1>2, <1>5, <1>8, <1>9, <1>10, RulesStay
<1>11. ASSUME NEW j \in {g, a}, asked, At(p, j) PROVE RulesInvariant'
  <2>1. job'[p] = j /\ \A q \in Procs \ {p} : job'[q] = job[q]
    BY <1>1, <1>6, <1>7, <1>11, AtTypes
  <2>2. /\ j.kind \in {"adopt", "readopt"} => j.root = server[p].root
        /\ j.pc # "idle" /\ j.todo = todo
    BY <1>6, <1>7, <1>11
  <2>3. ASSUME NEW q \in Servers
        PROVE  /\ job'[q].kind \in {"adopt", "readopt"} => job'[q].root = server[q].root
               /\ job'[q].pc = "idle" => job'[q].todo = {}
               /\ \A x \in job'[q].todo : <<Held(q).root, x>> \in clicked'
    <3>1. CASE q = p
      BY <1>5, <1>11, <2>1, <2>2, <3>1
    <3>2. CASE q # p
      BY <1>8, <2>1, <3>2 DEF Procs
    <3>3. QED
      BY <3>1, <3>2
  <2>4. QED
    BY <1>2, <1>5, <1>9, <2>3, RulesStay
<1>12. QED
  BY <1>4, <1>10, <1>11

\* Roots and a turn's policy stay: so does where a click's rules are aimed.
LEMMA AimStays ==
  ASSUME TrustInvariant, RulesInvariant, NEW q \in Servers, server'[q].root = server[q].root,
         \A h \in {"live", "held"} : policy'[q][h].root = policy[q][h].root,
         turn'[q].holds = turn[q].holds, clicked' = clicked,
         job'[q].kind \in {"adopt", "readopt"} =>
           job[q].kind \in {"adopt", "readopt"} /\ job'[q].root = job[q].root,
         job'[q].pc = "idle" => job'[q].todo = {}, job'[q].todo \subseteq job[q].todo
  PROVE  Aimed(q)'
<1>1. turn[q].holds \in {"live", "held"}
  BY ServerTypes DEF TrustInvariant
<1>2. policy'[q].live.root = policy[q].live.root
  <2>1. policy'[q]["live"].root = policy[q]["live"].root
    OBVIOUS
  <2>2. QED
    BY <2>1
<1>3. Held(q)'.root = Held(q).root
  BY <1>1 DEF Held
<1>4. QED
  BY <1>2, <1>3 DEF RulesInvariant, Aimed

\* A rule of a click comes into force, saved or not.
LEMMA GrantsKeepRules ==
  ASSUME TrustInvariant, RulesInvariant, NEW p \in Servers, RuleIsAdded(p) \/ RuleIsNotSaved(p)
  PROVE  RulesInvariant'
<1>1. TrustTypes /\ p \in Procs /\ job[p] \in Jobs /\ job[p].todo \in SUBSET Rules
      /\ ruleFile \in [Dirs -> [rules : SUBSET Rules, torn : BOOLEAN]] /\ Granting(p)
  BY FieldTypes DEF TrustInvariant, TrustTypes, Procs, Knowing
<1>2. PICK x \in job[p].todo \ Held(p).rules :
        /\ policy' = [policy EXCEPT ![p][turn[p].holds].rules = @ \union {x}]
        /\ \/ At(p, [job[p] EXCEPT !.todo = @ \ {x}, !.pc = "rules"]) /\ turn' = turn
           \/ Granted(p, job[p].todo \ {x})
  BY DEF RuleIsAdded, RuleIsNotSaved
<1>3. job[p].pc = "grant" /\ UNCHANGED <<server, clicked, strays, unasked>>
  BY DEF RuleIsAdded, RuleIsNotSaved, ghosts
<1>13. \A d \in Dirs : ruleFile'[d].rules = ruleFile[d].rules
  <2>1. CASE RuleIsAdded(p)
    <3>1. ruleFile' = [ruleFile EXCEPT ![Held(p).root].torn = TRUE]
      BY <2>1 DEF RuleIsAdded
    <3>2. QED
      BY <1>1, <3>1
  <2>2. CASE RuleIsNotSaved(p)
    BY <2>2 DEF RuleIsNotSaved, disk
  <2>3. QED
    BY <2>1, <2>2
<1>4. /\ Held(p).trusted /\ <<Held(p).root, x>> \in clicked
  BY <1>1, <1>2, <1>3 DEF Granting, Grants, RulesInvariant, Aimed
<1>5. x \in Rules /\ Gains(p, x)
  BY <1>1, <1>2 DEF Gains
<1>6. \A q \in Servers, h \in {"live", "held"} :
        /\ policy'[q][h].root = policy[q][h].root
        /\ policy'[q][h].trusted = policy[q][h].trusted
        /\ policy'[q][h].stale = policy[q][h].stale
        /\ policy[q][h].rules \subseteq policy'[q][h].rules
  BY <1>1, <1>5, GrantedRuleTypes
<1>7. ASSUME NEW q \in Servers, NEW h \in {"live", "held"}
      PROVE  /\ policy'[q][h].sound = policy[q][h].sound
             /\ policy'[q][h].rules \subseteq policy[q][h].rules \cup {x}
             /\ ~(q = p /\ h = turn[p].holds) => policy'[q][h] = policy[q][h]
  BY <1>1, <1>5, GrantedRuleIsAll
<1>8. \A q \in Servers :
        /\ turn'[q].holds = turn[q].holds
        /\ job'[q].kind \in {"adopt", "readopt"} =>
             job[q].kind \in {"adopt", "readopt"} /\ job'[q].root = job[q].root
        /\ job'[q].pc = "idle" => job'[q].todo = {}
        /\ job'[q].todo \subseteq job[q].todo
  <2>1. CASE Granted(p, job[p].todo \ {x})
    <3>1. job[p].todo \ {x} \in SUBSET job[p].todo
      OBVIOUS
    <3>2. QED
      BY <2>1, <3>1, GrantedAims
  <2>2. CASE At(p, [job[p] EXCEPT !.todo = @ \ {x}, !.pc = "rules"]) /\ turn' = turn
    <3> DEFINE j == [job[p] EXCEPT !.todo = @ \ {x}, !.pc = "rules"]
    <3>1. /\ j \in Jobs /\ j.kind = job[p].kind /\ j.root = job[p].root /\ j.pc = "rules"
          /\ j.todo \subseteq job[p].todo
      BY <1>1 DEF Jobs, Pcs
    <3>2. At(p, j)
      BY <2>2
    <3> HIDE DEF j
    <3>3. job'[p] = j /\ \A q \in Procs \ {p} : job'[q] = job[q]
      BY <1>1, <3>1, <3>2, AtTypes
    <3>4. ASSUME NEW q \in Servers
          PROVE  /\ job'[q].kind \in {"adopt", "readopt"} =>
                      job[q].kind \in {"adopt", "readopt"} /\ job'[q].root = job[q].root
                 /\ job'[q].pc = "idle" => job'[q].todo = {}
                 /\ job'[q].todo \subseteq job[q].todo
      <4>1. CASE q = p
        BY <3>1, <3>3, <4>1
      <4>2. CASE q # p
        BY <3>3, <4>2 DEF Procs, RulesInvariant, Aimed
      <4>3. QED
        BY <4>1, <4>2
    <3>5. QED
      BY <2>2, <3>4
  <2>3. QED
    BY <1>2, <2>1, <2>2
<1>9. ASSUME NEW q \in Servers PROVE Aimed(q)'
  <2>1. \A h \in {"live", "held"} : policy'[q][h].root = policy[q][h].root
    BY <1>6
  <2>2. QED
    BY <1>3, <1>8, <2>1, AimStays
<1>10. ASSUME NEW q \in Servers, NEW h \in {"live", "held"} PROVE Earned(policy[q][h])'
  <2>1. Earned(policy[q][h])
    BY DEF RulesInvariant
  <2>2. CASE q = p /\ h = turn[p].holds
    <3>1. policy[q][h].trusted /\ <<policy[q][h].root, x>> \in clicked
      BY <1>4, <2>2 DEF Held
    <3>2. /\ policy'[q][h].root = policy[q][h].root
          /\ policy'[q][h].trusted = policy[q][h].trusted
      BY <1>6
    <3>3. /\ policy'[q][h].sound = policy[q][h].sound
          /\ policy'[q][h].rules \subseteq policy[q][h].rules \cup {x}
      BY <1>7
    <3>4. QED
      BY <1>3, <2>1, <3>1, <3>2, <3>3 DEF Earned, Allowed
  <2>3. CASE ~(q = p /\ h = turn[p].holds)
    <3>1. policy'[q][h] = policy[q][h]
      BY <1>7, <2>3
    <3>2. QED
      BY <1>3, <2>1, <3>1 DEF Earned, Allowed
  <2>4. QED
    BY <2>2, <2>3
<1>11. FilesEarned' /\ CalmNothingRunsUnasked'
  BY <1>3, <1>13, FilesStayEarned DEF RulesInvariant, CalmNothingRunsUnasked
<1>12. QED
  BY <1>9, <1>10, <1>11 DEF RulesInvariant

LEMMA ModeKeepsRules ==
  ASSUME TrustInvariant, RulesInvariant, NEW p \in Servers,
         \/ SetMode(p, "yolo") \/ SetMode(p, "default")
         \/ \E on \in BOOLEAN : SetAcceptEdits(p, on)
  PROVE  RulesInvariant'
<1>1. PICK m \in {"default", "acceptEdits", "yolo"} :
        /\ policy' = [policy EXCEPT ![p].live.mode = m]
        /\ UNCHANGED <<ruleFile, job, server, turn, clicked, strays, unasked>>
  BY DEF SetMode, SetAcceptEdits, disk, ghosts
<1>2. \A q \in Servers, h \in {"live", "held"} :
        /\ policy'[q][h].root = policy[q][h].root
        /\ policy'[q][h].trusted = policy[q][h].trusted
        /\ policy'[q][h].stale = policy[q][h].stale
        /\ policy'[q][h].sound = policy[q][h].sound
        /\ policy'[q][h].rules = policy[q][h].rules
  BY <1>1, ModeFields DEF TrustInvariant
<1>3. ASSUME NEW q \in Servers PROVE Aimed(q)'
  <2>1. \A h \in {"live", "held"} : policy'[q][h].root = policy[q][h].root
    BY <1>2
  <2>2. job[q].pc = "idle" => job[q].todo = {}
    BY DEF RulesInvariant, Aimed
  <2>3. QED
    BY <1>1, <2>1, <2>2, AimStays
<1>4. ASSUME NEW q \in Servers, NEW h \in {"live", "held"} PROVE Earned(policy[q][h])'
  <2>1. /\ policy'[q][h].root = policy[q][h].root
        /\ policy'[q][h].trusted = policy[q][h].trusted
        /\ policy'[q][h].sound = policy[q][h].sound
        /\ policy'[q][h].rules = policy[q][h].rules
    BY <1>2
  <2>2. QED
    BY <1>1, <2>1, PolicyStaysEarned
<1>5. FilesEarned' /\ CalmNothingRunsUnasked'
  BY <1>1, FilesStayEarned DEF RulesInvariant, CalmNothingRunsUnasked
<1>6. QED
  BY <1>3, <1>4, <1>5 DEF RulesInvariant

\* A save of the rules leaves what every policy says.
LEMMA WrittenFields ==
  ASSUME TrustTypes, NEW p \in Servers, RulesAreWritten(p), NEW q \in Servers, NEW h \in {"live", "held"}
  PROVE  /\ policy'[q][h].root = policy[q][h].root
         /\ policy'[q][h].trusted = policy[q][h].trusted
         /\ policy'[q][h].sound = policy[q][h].sound
         /\ policy'[q][h].rules = policy[q][h].rules
<1> DEFINE told(pol, g, e) == IF pol.root = Held(p).root /\ <<g, e>> # <<p, turn[p].holds>>
                              THEN [pol EXCEPT !.stale = TRUE] ELSE pol
<1>1. policy[q] \in [live : Policies, held : Policies]
  BY DEF TrustTypes
<1>2. PICK pol \in Policies : pol = policy[q][h]
  BY <1>1
<1>3. policy'[q][h] = told(policy[q][h], q, h)
  BY DEF RulesAreWritten
<1>4. policy'[q][h] = pol \/ policy'[q][h] = [pol EXCEPT !.stale = TRUE]
  BY <1>2, <1>3
<1>5. /\ [pol EXCEPT !.stale = TRUE].root = pol.root
      /\ [pol EXCEPT !.stale = TRUE].trusted = pol.trusted
      /\ [pol EXCEPT !.stale = TRUE].sound = pol.sound
      /\ [pol EXCEPT !.stale = TRUE].rules = pol.rules
  BY DEF Policies
<1>6. QED
  BY <1>2, <1>4, <1>5

LEMMA RulesAreWrittenKeepsRules ==
  ASSUME TrustInvariant, RulesInvariant, NEW p \in Servers, RulesAreWritten(p)
  PROVE  RulesInvariant'
<1>1. TrustTypes /\ Granting(p) /\ turn[p].holds \in {"live", "held"}
      /\ ruleFile \in [Dirs -> [rules : SUBSET Rules, torn : BOOLEAN]]
  BY ServerTypes DEF TrustInvariant, TrustTypes, Knowing
<1>2. /\ job[p].pc = "rules" /\ Granted(p, job[p].todo)
      /\ ruleFile' = [ruleFile EXCEPT ![Held(p).root] = [rules |-> Held(p).rules, torn |-> FALSE]]
      /\ UNCHANGED <<server, clicked, strays, unasked>>
  BY DEF RulesAreWritten, ghosts
<1>3. \A q \in Servers :
        /\ turn'[q].holds = turn[q].holds
        /\ job'[q].kind \in {"adopt", "readopt"} =>
             job[q].kind \in {"adopt", "readopt"} /\ job'[q].root = job[q].root
        /\ job'[q].pc = "idle" => job'[q].todo = {}
        /\ job'[q].todo \subseteq job[q].todo
  <2>1. job[p].todo \in SUBSET job[p].todo
    OBVIOUS
  <2>2. QED
    BY <1>2, <2>1, GrantedAims
<1>4. ASSUME NEW q \in Servers PROVE Aimed(q)'
  <2>1. \A h \in {"live", "held"} : policy'[q][h].root = policy[q][h].root
    BY <1>1, WrittenFields
  <2>2. QED
    BY <1>2, <1>3, <2>1, AimStays
<1>5. ASSUME NEW q \in Servers, NEW h \in {"live", "held"} PROVE Earned(policy[q][h])'
  <2>1. /\ policy'[q][h].root = policy[q][h].root
        /\ policy'[q][h].trusted = policy[q][h].trusted
        /\ policy'[q][h].sound = policy[q][h].sound
        /\ policy'[q][h].rules = policy[q][h].rules
    BY <1>1, WrittenFields
  <2>2. QED
    BY <1>2, <2>1, PolicyStaysEarned
<1>6. FilesEarned'
  <2>1. Held(p).trusted /\ Earned(Held(p))
    BY <1>1, <1>2 DEF Granting, Grants, RulesInvariant, Held
  <2>2. SUFFICES ASSUME NEW d \in Dirs, d \notin strays, NEW x \in ruleFile'[d].rules PROVE Allowed(d, x)
    BY <1>2 DEF FilesEarned, Allowed
  <2>3. CASE d = Held(p).root
    <3>1. x \in Held(p).rules
      BY <1>1, <1>2, <2>2, <2>3
    <3>2. QED
      BY <2>1, <2>2, <2>3, <3>1 DEF Earned
  <2>4. CASE d # Held(p).root
    <3>1. x \in ruleFile[d].rules
      BY <1>1, <1>2, <2>2, <2>4
    <3>2. QED
      BY <2>2, <3>1 DEF RulesInvariant, FilesEarned
  <2>5. QED
    BY <2>3, <2>4
<1>7. CalmNothingRunsUnasked'
  BY <1>2 DEF RulesInvariant, CalmNothingRunsUnasked
<1>8. QED
  BY <1>4, <1>5, <1>6, <1>7 DEF RulesInvariant

\* One session's policies and job change, and no file.
LEMMA SessionOfRules ==
  ASSUME RulesInvariant, NEW p \in Servers, UNCHANGED <<ruleFile, clicked, strays, unasked>>,
         \A q \in Servers \ {p} : policy'[q] = policy[q] /\ turn'[q] = turn[q] /\ job'[q] = job[q]
                                  /\ server'[q].root = server[q].root,
         Aimed(p)', Earned(policy'[p].live), Earned(policy'[p].held)
  PROVE  RulesInvariant'
<1>1. FilesEarned' /\ CalmNothingRunsUnasked'
  BY FilesStayEarned DEF RulesInvariant, CalmNothingRunsUnasked
<1>2. ASSUME NEW q \in Servers PROVE Aimed(q)'
  <2>1. CASE q = p
    BY <2>1
  <2>2. CASE q # p
    BY <2>2 DEF RulesInvariant, Aimed, Held
  <2>3. QED
    BY <2>1, <2>2
<1>3. ASSUME NEW q \in Servers, NEW h \in {"live", "held"} PROVE Earned(policy[q][h])'
  <2>1. Earned(policy'[q][h])
    <3>1. CASE q = p /\ h = "live"
      BY <3>1
    <3>2. CASE q = p /\ h = "held"
      BY <3>2
    <3>3. CASE q # p
      BY <3>3 DEF RulesInvariant
    <3>4. QED
      BY <3>1, <3>2, <3>3
  <2>2. QED
    BY <2>1 DEF Earned, Allowed
<1>4. QED
  BY <1>1, <1>2, <1>3 DEF RulesInvariant

LEMMA TurnEndsKeepsRules ==
  ASSUME TrustInvariant, RulesInvariant, NEW p \in Servers, TurnEnds(p)
  PROVE  RulesInvariant'
<1>1. policy \in [Servers -> [live : Policies, held : Policies]] /\ turn \in [Servers -> Turns]
      /\ policy[p] \in [live : Policies, held : Policies]
  BY DEF TrustInvariant, TrustTypes
<1>2. /\ job[p].pc = "idle" /\ UNCHANGED <<ruleFile, job, server, clicked, strays, unasked>>
      /\ turn' = [turn EXCEPT ![p] = NoTurn]
      /\ policy' = [policy EXCEPT ![p].held = NoPolicy]
  BY DEF TurnEnds, Idle, disk, ghosts
<1>3. /\ policy'[p].live = policy[p].live /\ policy'[p].held = NoPolicy
      /\ \A q \in Servers \ {p} : policy'[q] = policy[q] /\ turn'[q] = turn[q]
  BY <1>1, <1>2
<1>4. Earned(policy'[p].live)
  BY <1>3 DEF RulesInvariant
<1>5. Earned(policy'[p].held)
  BY <1>3 DEF Earned, NoPolicy
<1>6. Aimed(p)'
  BY <1>2, <1>3 DEF RulesInvariant, Aimed
<1>7. QED
  BY <1>2, <1>3, <1>4, <1>5, <1>6, SessionOfRules

\* The rules of a directory are its user's, if its policy is.
LEMMA RulesOfAreAllowed ==
  ASSUME RulesInvariant, NEW r \in Dirs, r \notin strays, NEW x \in RulesOf(r)
  PROVE  Allowed(r, x)
BY DEF RulesInvariant, FilesEarned, RulesOf

\* A new policy trusts a project because its user does.
LEMMA NewPolicyIsEarned ==
  ASSUME TrustInvariant, AnswersInvariant, RulesInvariant, NEW p \in Servers,
         job[p].pc = "apply", job[p].kind = "initialize"
  PROVE  Earned(NewPolicy(p, job[p].root))
<1> DEFINE r == job[p].root
           trusted == Resolved(p, r) = "trusted"
<1>1. TrustTypes /\ p \in Procs /\ Backed(p) /\ Recorded /\ r \in Dirs
  BY DEF TrustInvariant, AnswersInvariant, Procs, Rooted, About
<1>2. trusted => Consented(p, r)
  <2>1. CASE store[p].session[r] # "unknown"
    BY <1>1, <2>1 DEF Resolved, Consented, Backed, OwnAnswers
  <2>2. CASE store[p].session[r] = "unknown" /\ ~job[p].over /\ ~store[p].adrift
    BY <1>1, <2>2 DEF Resolved, Consented, Backed, Looking, Recorded
  <2>3. CASE job[p].over \/ store[p].adrift
    BY <2>3 DEF Consented
  <2>4. QED
    BY <2>1, <2>2, <2>3
<1>3. NewPolicy(p, r) = [NoPolicy EXCEPT !.root = r, !.trusted = trusted,
                           !.rules = IF trusted THEN RulesOf(r) ELSE {},
                           !.stale = trusted /\ ruleFile[r].torn, !.sound = Consented(p, r)]
  BY DEF NewPolicy
<1> HIDE DEF trusted, r
<1>4. /\ NewPolicy(p, r).root = r /\ NewPolicy(p, r).trusted = trusted
      /\ NewPolicy(p, r).rules = (IF trusted THEN RulesOf(r) ELSE {})
      /\ NewPolicy(p, r).sound = Consented(p, r)
  BY <1>3 DEF NoPolicy
<1> DEFINE pol == NewPolicy(p, r)
<1> HIDE DEF pol
<1>5. Earned(pol)
  <2>1. pol.root = r /\ pol.trusted = trusted /\ pol.rules = (IF trusted THEN RulesOf(r) ELSE {})
        /\ pol.sound = Consented(p, r)
    BY <1>4 DEF pol
  <2>2. trusted \in BOOLEAN
    BY DEF trusted
  <2>3. r \notin strays => \A x \in RulesOf(r) : Allowed(r, x)
    BY <1>1, RulesOfAreAllowed
  <2>4. QED
    BY <1>1, <1>2, <2>1, <2>2, <2>3 DEF Earned
<1>6. QED
  BY <1>5 DEF pol, r

LEMMA InitializeResolvesKeepsRules ==
  ASSUME TrustInvariant, AnswersInvariant, RulesInvariant, NEW p \in Servers, InitializeResolves(p)
  PROVE  RulesInvariant'
<1> DEFINE r == job[p].root
           keeps == turn[p].on /\ turn[p].holds = "live"
           pols == [live |-> NewPolicy(p, r), held |-> IF keeps THEN policy[p].live ELSE policy[p].held]
<1>1. TrustTypes /\ p \in Procs /\ job \in [Procs -> Jobs]
      /\ policy \in [Servers -> [live : Policies, held : Policies]]
      /\ turn \in [Servers -> Turns]
      /\ server \in [Servers -> [root : Roots, status : Says]]
  BY DEF TrustInvariant, TrustTypes, Procs
<1>2. /\ job[p].pc = "apply" /\ job[p].kind = "initialize"
      /\ UNCHANGED <<ruleFile, clicked, strays, unasked>>
      /\ server' = [server EXCEPT ![p] = [root |-> r, status |-> Resolved(p, r)]]
      /\ turn' = IF keeps THEN [turn EXCEPT ![p].holds = "held"] ELSE turn
      /\ At(p, NoJob)
      /\ policy' = [policy EXCEPT ![p] = pols]
  BY <1>1 DEF InitializeResolves, disk, ghosts
<1>3. r \in Dirs
  BY <1>1, <1>2 DEF TrustInvariant, Rooted, About
<1>4. Earned(NewPolicy(p, r)) /\ NewPolicy(p, r).root = r
  BY <1>1, <1>2, <1>3, NewPolicyIsEarned, NewPolicyTypes
<1>5. job'[p] = NoJob /\ \A q \in Procs \ {p} : job'[q] = job[q]
  BY <1>1, <1>2, BlankTypes, AtTypes
<1>6. server'[p].root = r /\ \A q \in Servers \ {p} : server'[q] = server[q]
  BY <1>1, <1>2
<1>7. \A q \in Servers \ {p} : turn'[q] = turn[q]
  BY <1>1, <1>2
<1>8. /\ policy'[p] = pols /\ \A q \in Servers \ {p} : policy'[q] = policy[q]
      /\ pols.live = NewPolicy(p, r) /\ pols.held \in {policy[p].live, policy[p].held}
  BY <1>1, <1>2
<1> HIDE DEF pols, keeps, r
<1>9. Earned(policy'[p].live)
  BY <1>4, <1>8
<1>10. Earned(policy'[p].held)
  <2>1. Earned(policy[p]["live"]) /\ Earned(policy[p]["held"])
    BY DEF RulesInvariant
  <2>2. QED
    BY <1>8, <2>1
<1>11. Aimed(p)'
  BY <1>4, <1>5, <1>6, <1>8 DEF Aimed, NoJob
<1>12. \A q \in Servers \ {p} : job'[q] = job[q]
  BY <1>5 DEF Procs
<1>13. QED
  BY <1>2, <1>6, <1>7, <1>8, <1>9, <1>10, <1>11, <1>12, SessionOfRules

\* The click that trusted the project is what its policy's trust rests on.
LEMMA MarkTrustedIsEarned ==
  ASSUME TrustInvariant, AnswersInvariant, RulesInvariant, NEW p \in Servers,
         job[p].pc = "apply", job[p].kind = "readopt"
  PROVE  Earned(MarkTrusted(p))
<1> DEFINE pol == policy[p].live
           r == pol.root
<1>1. TrustTypes /\ p \in Procs /\ Backed(p) /\ job[p].root \in Dirs /\ pol \in Policies
  BY ServerTypes DEF TrustInvariant, AnswersInvariant, Procs, Rooted, About
<1>2. Earned(policy[p]["live"])
  BY DEF RulesInvariant
<1>3. Earned(pol)
  BY <1>2
<1>4. job[p].root = r
  BY DEF RulesInvariant, Aimed
<1>5. CASE pol.trusted
  BY <1>3, <1>5 DEF MarkTrusted
<1>6. CASE ~pol.trusted
  <2>1. MarkTrusted(p) = [pol EXCEPT !.trusted = TRUE, !.rules = pol.rules \cup RulesOf(r),
                            !.stale = ruleFile[r].torn, !.sound = Consented(p, r)]
    BY <1>1, <1>6 DEF MarkTrusted, Policies
  <2>2. Consented(p, r)
    BY <1>1, <1>4 DEF Backed, Adopting, Consented
  <2>3. pol.rules = {}
    BY <1>3, <1>6 DEF Earned
  <2>4. r \notin strays => \A x \in RulesOf(r) : Allowed(r, x)
    BY <1>1, <1>4, RulesOfAreAllowed
  <2> HIDE DEF pol
  <2>5. /\ MarkTrusted(p).root = r /\ MarkTrusted(p).trusted
        /\ MarkTrusted(p).rules = RulesOf(r) /\ MarkTrusted(p).sound = Consented(p, r)
    BY <1>1, <2>1, <2>3 DEF Policies
  <2> HIDE DEF r
  <2>6. QED
    BY <1>1, <1>4, <2>2, <2>4, <2>5 DEF Earned
<1>7. QED
  BY <1>5, <1>6

LEMMA ProjectIsAdoptedKeepsRules ==
  ASSUME TrustInvariant, AnswersInvariant, RulesInvariant, NEW p \in Servers, ProjectIsAdopted(p)
  PROVE  RulesInvariant'
<1> DEFINE grants == turn[p].holds = "live"
           todo == IF grants THEN job[p].todo ELSE {}
           j == [NoJob EXCEPT !.kind = "get", !.pc = "report", !.todo = todo]
<1>1. TrustTypes /\ p \in Procs /\ Knowing(p)
      /\ policy \in [Servers -> [live : Policies, held : Policies]]
      /\ policy[p] \in [live : Policies, held : Policies]
      /\ turn \in [Servers -> Turns] /\ turn[p].holds \in {"live", "held"}
      /\ server \in [Servers -> [root : Roots, status : Says]]
      /\ policy[p].live.root \in Dirs /\ job[p].todo \in SUBSET Rules
  BY ServerTypes, FieldTypes DEF TrustInvariant, TrustTypes, Procs, Rooted, About, ProjectIsAdopted
<1>2. /\ job[p].pc = "apply" /\ job[p].kind = "readopt"
      /\ UNCHANGED <<ruleFile, clicked, strays, unasked>>
      /\ server' = [server EXCEPT ![p].status = Resolved(p, job[p].root)]
      /\ policy' = [policy EXCEPT ![p].live = MarkTrusted(p)]
      /\ At(p, j)
      /\ IF grants THEN turn' = turn ELSE Settled(p)
  BY DEF ProjectIsAdopted, disk, ghosts
<1>3. Earned(MarkTrusted(p)) /\ MarkTrusted(p).root = policy[p].live.root
  BY <1>1, <1>2, MarkTrustedIsEarned, MarkTrustedTypes DEF Knowing
<1>4. /\ policy'[p].live = MarkTrusted(p) /\ policy'[p].held = policy[p].held
      /\ \A q \in Servers \ {p} : policy'[q] = policy[q]
  BY <1>1, <1>2
<1>5. \A q \in Servers : server'[q].root = server[q].root
  BY <1>1, <1>2
<1>6. /\ turn'[p].holds = turn[p].holds /\ \A q \in Servers \ {p} : turn'[q] = turn[q]
  BY <1>1, <1>2, SettledTypes DEF Settled
<1>7. todo \in SUBSET job[p].todo /\ (todo # {} => turn[p].holds = "live") /\ todo \in SUBSET Rules
  BY <1>1
<1> HIDE DEF todo, grants
<1>8. j \in Jobs /\ j.pc = "report" /\ j.todo = todo /\ j.kind = "get"
  BY <1>7, BlankTypes DEF NoJob, Jobs, Pcs, Kinds
<1> HIDE DEF j
<1>9. job'[p] = j /\ \A q \in Procs \ {p} : job'[q] = job[q]
  BY <1>1, <1>2, <1>8, AtTypes
<1>10. Earned(policy'[p].live)
  BY <1>3, <1>4
<1>11. Earned(policy'[p].held)
  <2>1. Earned(policy[p]["held"])
    BY DEF RulesInvariant
  <2>2. QED
    BY <1>4, <2>1
<1>12. Aimed(p)'
  <2>1. Aimed(p)
    BY DEF RulesInvariant
  <2>2. server'[p].root = policy'[p].live.root
    BY <1>3, <1>4, <1>5, <2>1 DEF Aimed
  <2>3. ASSUME NEW x \in todo PROVE <<Held(p)'.root, x>> \in clicked
    <3>1. Held(p).root = policy[p].live.root /\ Held(p)'.root = policy'[p].live.root
      BY <1>6, <1>7, <2>3 DEF Held
    <3>2. QED
      BY <1>3, <1>4, <1>7, <2>1, <2>3, <3>1 DEF Aimed
  <2>4. QED
    BY <1>2, <1>8, <1>9, <2>2, <2>3 DEF Aimed
<1>13. \A q \in Servers \ {p} : job'[q] = job[q]
  BY <1>9 DEF Procs
<1>14. QED
  BY <1>2, <1>4, <1>5, <1>6, <1>10, <1>11, <1>12, <1>13, SessionOfRules

-----------------------------------------------------------------------------
(* The steps that neither ask for an answer nor save one.                  *)

LEMMA PassiveJob ==
  ASSUME TrustInvariant, AnswersInvariant, NEW p \in Procs, UNCHANGED <<registry, store, consent>>,
         strays \subseteq strays', NEW j \in Jobs, At(p, j), Passive(j), job[p].pc # "restat"
  PROVE  AnswersInvariant'
<1>1. job'[p] = j /\ \A q \in Procs \ {p} : job'[q] = job[q]
  BY AtTypes DEF TrustInvariant
<1>2. QED
  BY <1>1, PassiveStep

LEMMA RequestsBacked ==
  ASSUME TrustInvariant, AnswersInvariant, NEW p \in Servers, NEW d \in Dirs, NEW r \in Dirs,
         (\E s \in {"trusted", "denied"} : TrustSet(p, d, r, s)) \/ TrustRemove(p, d, r)
  PROVE  AnswersInvariant'
<1>1. PICK j \in Jobs : At(p, j) /\ j.pc = "stat" /\ j.kind \in {"set", "remove"}
  <2>1. \A s \in {"trusted", "denied"} :
          /\ [NoJob EXCEPT !.pc = "stat", !.kind = "set", !.root = r, !.arg = s] \in Jobs
          /\ [NoJob EXCEPT !.pc = "stat", !.kind = "set", !.root = r, !.arg = s].pc = "stat"
          /\ [NoJob EXCEPT !.pc = "stat", !.kind = "set", !.root = r, !.arg = s].kind = "set"
    BY BlankTypes DEF NoJob, Jobs, Roots, Pcs, Kinds, Says
  <2>2. /\ [NoJob EXCEPT !.pc = "stat", !.kind = "remove", !.root = r] \in Jobs
        /\ [NoJob EXCEPT !.pc = "stat", !.kind = "remove", !.root = r].pc = "stat"
        /\ [NoJob EXCEPT !.pc = "stat", !.kind = "remove", !.root = r].kind = "remove"
    BY BlankTypes DEF NoJob, Jobs, Roots, Pcs, Kinds, Says
  <2>3. CASE TrustRemove(p, d, r)
    BY <2>2, <2>3 DEF TrustRemove
  <2>4. ASSUME NEW s \in {"trusted", "denied"}, TrustSet(p, d, r, s)
        PROVE  \E j \in Jobs : At(p, j) /\ j.pc = "stat" /\ j.kind \in {"set", "remove"}
    <3>1. At(p, [NoJob EXCEPT !.pc = "stat", !.kind = "set", !.root = r, !.arg = s])
      BY <2>4 DEF TrustSet
    <3>2. QED
      BY <2>1, <3>1
  <2>5. QED
    BY <2>3, <2>4
<1>2. UNCHANGED <<registry, store, consent, strays>> /\ job[p].pc = "idle" /\ p \in Procs
  BY DEF TrustSet, TrustRemove, Ask, Idle, disk, ghosts, Procs
<1>3. Passive(j)
  BY <1>1 DEF Passive
<1>4. QED
  BY <1>1, <1>2, <1>3, PassiveJob

LEMMA NothingToRemoveBacked ==
  ASSUME TrustInvariant, AnswersInvariant, NEW p \in Procs, NothingToRemove(p)
  PROVE  AnswersInvariant'
<1>1. At(p, Saved(p)) /\ Saved(p) \in Jobs /\ job[p] \in Jobs
  BY SavedTypes, FieldTypes DEF TrustInvariant, Rooted, NothingToRemove
<1>2. /\ job[p].pc = "apply" /\ job[p].kind = "remove"
      /\ UNCHANGED <<registry, store, consent, strays>>
  BY DEF NothingToRemove, disk, ghosts
<1>3. Passive(Saved(p))
  BY <1>1, <1>2, SavedJobs DEF Passive
<1>4. QED
  BY <1>1, <1>2, <1>3, PassiveJob

LEMMA ResolvedBacked ==
  ASSUME TrustInvariant, AnswersInvariant, NEW p \in Servers, InitializeResolves(p) \/ ProjectIsAdopted(p)
  PROVE  AnswersInvariant'
<1>1. p \in Procs /\ job[p].todo \in SUBSET Rules /\ job[p].pc = "apply"
  BY FieldTypes DEF TrustInvariant, Procs, InitializeResolves, ProjectIsAdopted
<1>2. UNCHANGED <<registry, store, consent, strays>>
  BY DEF InitializeResolves, ProjectIsAdopted, disk, ghosts
<1>3. CASE InitializeResolves(p)
  <2>1. At(p, NoJob) /\ Passive(NoJob)
    BY <1>3 DEF InitializeResolves, Passive, NoJob
  <2>2. QED
    BY <1>1, <1>2, <2>1, BlankTypes, PassiveJob
<1>4. CASE ProjectIsAdopted(p)
  <2> DEFINE todo == IF turn[p].holds = "live" THEN job[p].todo ELSE {}
             j == [NoJob EXCEPT !.kind = "get", !.pc = "report", !.todo = todo]
  <2>1. At(p, j)
    BY <1>4 DEF ProjectIsAdopted
  <2>2. todo \in SUBSET Rules
    BY <1>1
  <2> HIDE DEF todo
  <2>3. j \in Jobs /\ j.pc = "report" /\ j.kind = "get"
    BY <2>2, BlankTypes DEF NoJob, Jobs, Pcs, Kinds
  <2> HIDE DEF j
  <2>4. Passive(j)
    BY <2>3 DEF Passive
  <2>5. QED
    BY <1>1, <1>2, <2>1, <2>3, <2>4, PassiveJob
<1>5. QED
  BY <1>3, <1>4

LEMMA JoblessBacked ==
  ASSUME AnswersInvariant, NEW p \in Servers,
         \/ \E k \in Asked : ToolStarts(p, k)
         \/ CardIsSettled(p) \/ TurnEnds(p)
         \/ SetMode(p, "yolo") \/ SetMode(p, "default")
         \/ \E on \in BOOLEAN : SetAcceptEdits(p, on)
  PROVE  AnswersInvariant'
<1>1. UNCHANGED <<registry, store, consent, strays, job>> /\ p \in Procs
  BY DEF ToolStarts, CardIsSettled, TurnEnds, SetMode, SetAcceptEdits, disk, ghosts, Procs
<1>2. QED
  BY <1>1, PassiveStep

LEMMA ClickBacked ==
  ASSUME TrustInvariant, AnswersInvariant, NEW p \in Servers, NEW trust \in BOOLEAN, AlwaysIsClicked(p, trust)
  PROVE  AnswersInvariant'
<1> DEFINE todo == Persistable(Call[turn[p].call])
           g == [NoJob EXCEPT !.pc = "grant", !.kind = "grant", !.todo = todo]
           a == [NoJob EXCEPT !.pc = "stat", !.kind = "adopt", !.root = server[p].root,
                              !.arg = "trusted", !.todo = todo]
<1>1. TrustTypes /\ p \in Procs /\ turn[p] \in Turns /\ server[p].root \in Roots
  BY ServerTypes DEF TrustInvariant, TrustTypes, Procs
<1>2. /\ UNCHANGED <<registry, store, consent>> /\ strays \subseteq strays'
      /\ turn[p].call # "-" /\ job[p].pc = "idle"
  BY DEF AlwaysIsClicked, disk, Idle
<1>3. todo \in SUBSET Rules
  BY <1>1, <1>2, PersistableRules DEF Turns
<1>4. At(p, g) \/ At(p, a) \/ job' = job
  BY DEF AlwaysIsClicked
<1> HIDE DEF todo
<1>5. g \in Jobs /\ Passive(g)
  BY <1>3, BlankTypes DEF NoJob, Jobs, Pcs, Kinds, Passive
<1>6. a \in Jobs /\ Passive(a)
  BY <1>1, <1>3, BlankTypes DEF NoJob, Jobs, Pcs, Kinds, Says, Passive
<1> HIDE DEF g, a
<1>7. CASE At(p, g) \/ At(p, a)
  BY <1>1, <1>2, <1>5, <1>6, <1>7, PassiveJob
<1>8. CASE job' = job
  BY <1>1, <1>2, <1>8, PassiveStep
<1>9. QED
  BY <1>4, <1>7, <1>8

LEMMA RulesBacked ==
  ASSUME TrustInvariant, AnswersInvariant, NEW p \in Servers,
         RuleIsInForce(p) \/ RuleIsAdded(p) \/ RulesAreWritten(p) \/ RuleIsNotSaved(p)
  PROVE  AnswersInvariant'
<1>1. /\ p \in Procs /\ job[p] \in Jobs /\ job[p].todo \in SUBSET Rules
      /\ (job[p].kind = "adopt" => job[p].arg = "trusted")
  BY FieldTypes DEF TrustInvariant, AnswersInvariant, Backed, Adopting, Procs
<1>2. UNCHANGED <<registry, store, consent, strays>> /\ job[p].pc \in {"grant", "rules"}
  BY DEF RuleIsInForce, RuleIsAdded, RulesAreWritten, RuleIsNotSaved, disk, ghosts
<1>3. ASSUME NEW todo \in SUBSET job[p].todo, Granted(p, todo) PROVE AnswersInvariant'
  <2>1. CASE todo = {}
    <3>1. At(p, NoJob) /\ Passive(NoJob)
      BY <1>3, <2>1 DEF Granted, Passive, NoJob
    <3>2. QED
      BY <1>1, <1>2, <3>1, BlankTypes, PassiveJob
  <2>2. CASE todo # {}
    <3> DEFINE j == [job[p] EXCEPT !.pc = "grant", !.todo = todo]
    <3>1. At(p, j)
      BY <1>3, <2>2 DEF Granted
    <3>2. j \in Jobs /\ Passive(j)
      BY <1>1 DEF Jobs, Pcs, Passive
    <3> HIDE DEF j
    <3>3. QED
      BY <1>1, <1>2, <3>1, <3>2, PassiveJob
  <2>3. QED
    BY <2>1, <2>2
<1>4. CASE RuleIsAdded(p)
  <2>1. PICK x : At(p, [job[p] EXCEPT !.todo = @ \ {x}, !.pc = "rules"])
    BY <1>4 DEF RuleIsAdded
  <2> DEFINE j == [job[p] EXCEPT !.todo = @ \ {x}, !.pc = "rules"]
  <2>2. j \in Jobs /\ Passive(j)
    BY <1>1 DEF Jobs, Pcs, Passive
  <2>3. At(p, j)
    BY <2>1
  <2> HIDE DEF j
  <2>4. QED
    BY <1>1, <1>2, <2>2, <2>3, PassiveJob
<1>5. CASE RuleIsInForce(p) \/ RulesAreWritten(p) \/ RuleIsNotSaved(p)
  <2>1. PICK todo \in SUBSET job[p].todo : Granted(p, todo)
    <3>1. CASE RulesAreWritten(p)
      BY <3>1 DEF RulesAreWritten
    <3>2. CASE RuleIsInForce(p) \/ RuleIsNotSaved(p)
      <4>1. PICK x : Granted(p, job[p].todo \ {x})
        BY <3>2 DEF RuleIsInForce, RuleIsNotSaved
      <4>2. QED
        BY <4>1
    <3>3. QED
      BY <1>5, <3>1, <3>2
  <2>2. QED
    BY <1>3, <2>1
<1>6. QED
  BY <1>4, <1>5

-----------------------------------------------------------------------------
(* Nothing runs unasked.                                                   *)

UnaskedInvariant == TrustInvariant /\ AnswersInvariant /\ RulesInvariant

LEMMA UnaskedStart == Init => UnaskedInvariant
<1>1. SUFFICES ASSUME Init PROVE UnaskedInvariant
  OBVIOUS
<1>2. TrustInvariant
  BY <1>1, TrustStart
<1>3. Recorded
  <2>1. PICK r \in [Dirs -> {"unknown", "trusted", "denied"}] :
          /\ registry = [answers |-> r, torn |-> FALSE]
          /\ consent = {"everyone"} \X {d \in Dirs : r[d] = "trusted"}
    BY <1>1 DEF Init
  <2>2. registry.answers = r
    BY <2>1
  <2>3. QED
    BY <2>1, <2>2 DEF Recorded
<1>4. \A p \in Procs : job[p].pc = "idle" /\ job[p].kind = "-" /\ job[p].todo = {}
  BY <1>1 DEF Init, NoJob
<1>5. ASSUME NEW p \in Procs PROVE Backed(p)
  <2>1. store[p].session = Unknown
    BY <1>1, <1>5 DEF Init, FreshStore, NoStore
  <2>2. OwnAnswers(p)
    BY <2>1 DEF OwnAnswers, Unknown
  <2>3. QED
    BY <1>4, <2>2 DEF Backed, Looking, Carrying, Adopting
<1>6. FilesEarned /\ CalmNothingRunsUnasked
  <2>1. \A d \in Dirs : ruleFile[d].rules = Shipped[d]
    BY <1>1 DEF Init
  <2>2. QED
    BY <1>1, <2>1 DEF Init, FilesEarned, Allowed, CalmNothingRunsUnasked
<1>7. ASSUME NEW p \in Servers PROVE Aimed(p) /\ \A h \in {"live", "held"} : Earned(policy[p][h])
  <2>1. policy[p] = [live |-> NoPolicy, held |-> NoPolicy] /\ server[p].root = "-" /\ p \in Procs
    BY <1>1 DEF Init, Procs
  <2>2. Aimed(p)
    BY <1>4, <2>1 DEF Aimed, NoPolicy
  <2>3. Earned(NoPolicy)
    BY DEF Earned, NoPolicy
  <2>4. QED
    BY <2>1, <2>2, <2>3
<1>8. QED
  BY <1>2, <1>3, <1>5, <1>6, <1>7 DEF UnaskedInvariant, AnswersInvariant, RulesInvariant

LEMMA UnaskedStutters == ASSUME UnaskedInvariant, UNCHANGED vars PROVE UnaskedInvariant'
<1>1. UNCHANGED <<registry, ruleFile, store, job, server, policy, turn, consent, clicked, strays, unasked>>
  BY DEF vars, disk, ghosts
<1>2. TrustInvariant'
  BY TrustStutters DEF UnaskedInvariant
<1>3. AnswersInvariant'
  BY <1>1 DEF UnaskedInvariant, AnswersInvariant, Recorded, Backed, OwnAnswers, Looking, Carrying, Adopting
<1>4. RulesInvariant'
  BY <1>1 DEF UnaskedInvariant, RulesInvariant, FilesEarned, Allowed, CalmNothingRunsUnasked, Aimed, Held,
     Earned
<1>5. QED
  BY <1>2, <1>3, <1>4 DEF UnaskedInvariant

LEMMA AnswersStep == ASSUME TrustInvariant, AnswersInvariant, Next PROVE AnswersInvariant'
<1>1. ASSUME NEW p \in Servers, NEW d \in Dirs, NEW r \in Dirs,
             \/ \E o \in {"-", "trusted", "denied"} : InitializeStarts(p, d, r, o)
             \/ \E s \in {"trusted", "denied"} : TrustSet(p, d, r, s) \/ TrustSetForThisRun(p, d, r, s)
             \/ TrustRemove(p, d, r)
      PROVE  AnswersInvariant'
  <2>1. ASSUME NEW o \in {"-", "trusted", "denied"}, InitializeStarts(p, d, r, o) PROVE AnswersInvariant'
    BY <2>1, InitializeStartsBacked
  <2>2. ASSUME NEW s \in {"trusted", "denied"}, TrustSetForThisRun(p, d, r, s) PROVE AnswersInvariant'
    BY <2>2, TrustSetForThisRunBacked
  <2>3. ASSUME (\E s \in {"trusted", "denied"} : TrustSet(p, d, r, s)) \/ TrustRemove(p, d, r)
        PROVE  AnswersInvariant'
    BY <2>3, RequestsBacked
  <2>4. QED
    BY <1>1, <2>1, <2>2, <2>3
<1>2. ASSUME NEW p \in Terminals, NEW d \in Dirs, NEW r \in Dirs,
             NEW s \in {"trusted", "denied", "unknown"}, TerminalAnswers(p, d, r, s)
      PROVE  AnswersInvariant'
  BY <1>2, TerminalAnswersBacked
<1>3. ASSUME NEW p \in Procs,
             \/ RegistryIsStatted(p) \/ RegistryIsLoaded(p)
             \/ NothingToRemove(p) \/ RegistryIsTruncated(p)
             \/ RegistryIsWritten(p) \/ RegistryIsRestatted(p) \/ RegistryIsNotSaved(p)
      PROVE  AnswersInvariant'
  BY <1>3, RegistryIsStattedBacked, RegistryIsLoadedBacked, NothingToRemoveBacked,
     RegistryIsTruncatedBacked, RegistryIsWrittenBacked, RegistryIsRestattedBacked,
     RegistryIsNotSavedBacked
<1>4. ASSUME NEW p \in Servers,
             \/ InitializeResolves(p) \/ TrustIsReported(p)
             \/ \E k \in Asked : ToolStarts(p, k)
             \/ CardIsSettled(p) \/ TurnEnds(p) \/ ProjectIsAdopted(p)
             \/ \E trust \in BOOLEAN : AlwaysIsClicked(p, trust)
      PROVE  AnswersInvariant'
  BY <1>4, ResolvedBacked, TrustIsReportedBacked, JoblessBacked, ClickBacked
<1>5. ASSUME NEW p \in Servers,
             \/ RuleIsInForce(p) \/ RuleIsAdded(p) \/ RulesAreWritten(p) \/ RuleIsNotSaved(p)
             \/ SetMode(p, "yolo") \/ SetMode(p, "default")
             \/ \E on \in BOOLEAN : SetAcceptEdits(p, on)
      PROVE  AnswersInvariant'
  BY <1>5, RulesBacked, JoblessBacked
<1>6. QED
  BY <1>1, <1>2, <1>3, <1>4, <1>5 DEF Next

LEMMA RulesStep == ASSUME TrustInvariant, AnswersInvariant, RulesInvariant, Next PROVE RulesInvariant'
<1>1. ASSUME NEW p \in Servers, NEW d \in Dirs, NEW r \in Dirs,
             \/ \E o \in {"-", "trusted", "denied"} : InitializeStarts(p, d, r, o)
             \/ \E s \in {"trusted", "denied"} : TrustSet(p, d, r, s) \/ TrustSetForThisRun(p, d, r, s)
             \/ TrustRemove(p, d, r)
      PROVE  RulesInvariant'
  <2>1. p \in Procs
    BY DEF Procs
  <2>2. QED
    BY <1>1, <2>1, RequestsKeepRules
<1>2. ASSUME NEW p \in Terminals, NEW d \in Dirs, NEW r \in Dirs,
             NEW s \in {"trusted", "denied", "unknown"}, TerminalAnswers(p, d, r, s)
      PROVE  RulesInvariant'
  <2>1. p \in Procs
    BY DEF Procs
  <2>2. QED
    BY <1>2, <2>1, RequestsKeepRules
<1>3. ASSUME NEW p \in Procs,
             \/ RegistryIsStatted(p) \/ RegistryIsLoaded(p)
             \/ NothingToRemove(p) \/ RegistryIsTruncated(p)
             \/ RegistryIsWritten(p) \/ RegistryIsRestatted(p) \/ RegistryIsNotSaved(p)
      PROVE  RulesInvariant'
  BY <1>3, LooksKeepRules, WritesKeepRules
<1>4. ASSUME NEW p \in Servers,
             \/ InitializeResolves(p) \/ TrustIsReported(p)
             \/ \E k \in Asked : ToolStarts(p, k)
             \/ CardIsSettled(p) \/ TurnEnds(p) \/ ProjectIsAdopted(p)
             \/ \E trust \in BOOLEAN : AlwaysIsClicked(p, trust)
      PROVE  RulesInvariant'
  BY <1>4, InitializeResolvesKeepsRules, ReportKeepsRules, ToolStartsKeepsRules, CardsKeepRules,
     TurnEndsKeepsRules, ProjectIsAdoptedKeepsRules, ClickKeepsRules
<1>5. ASSUME NEW p \in Servers,
             \/ RuleIsInForce(p) \/ RuleIsAdded(p) \/ RulesAreWritten(p) \/ RuleIsNotSaved(p)
             \/ SetMode(p, "yolo") \/ SetMode(p, "default")
             \/ \E on \in BOOLEAN : SetAcceptEdits(p, on)
      PROVE  RulesInvariant'
  BY <1>5, CardsKeepRules, GrantsKeepRules, RulesAreWrittenKeepsRules, ModeKeepsRules
<1>6. QED
  BY <1>1, <1>2, <1>3, <1>4, <1>5 DEF Next

(* No rule lets a call run unasked unless a user clicked "always allow" for *)
(* it in that project, or the project came with it and the user's last      *)
(* answer trusted it when the policy was made -- up to an answer            *)
(* overwritten by a process that had not seen it and a click on a card that *)
(* outlived an initialize (PermissionPolicy and its trust,                  *)
(* permissions.py:126-168, jsonrpc_server.py:172-228).                      *)
THEOREM NothingRunsUnasked == Spec => []CalmNothingRunsUnasked
<1>1. Init => UnaskedInvariant
  BY UnaskedStart
<1>2. UnaskedInvariant /\ [Next]_vars => UnaskedInvariant'
  <2>1. ASSUME UnaskedInvariant, Next PROVE UnaskedInvariant'
    BY <2>1, TrustStep, AnswersStep, RulesStep DEF UnaskedInvariant
  <2>2. QED
    BY <2>1, UnaskedStutters
<1>3. UnaskedInvariant => CalmNothingRunsUnasked
  BY DEF UnaskedInvariant, RulesInvariant
<1>4. QED
  BY <1>1, <1>2, <1>3, PTL DEF Spec
=============================================================================
