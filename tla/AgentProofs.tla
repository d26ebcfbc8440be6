---------------------------- MODULE AgentProofs -----------------------------
(***************************************************************************)
(* What holds of the agent and of the servers its tools come from.         *)
(*                                                                         *)
(* The loop, for any number of turns, steps and calls and any retry        *)
(* budgets: what is sent is what is logged, a final reply that claims work *)
(* nobody did is reported, and what a stop, a prune or a compaction leaves *)
(* is a conversation about its first prompt.                               *)
(*                                                                         *)
(* The clients of the MCP servers, for any number of servers, generations  *)
(* and clients and any contents of mcp.json: what runs, what is registered *)
(* and what the agent calls are the same, but for the orders named.        *)
(***************************************************************************)
EXTENDS AgentTurn, McpServers, SequenceTheorems, FiniteSetTheorems,
        WellFoundedInduction, TLAPS

-----------------------------------------------------------------------------
(* The agent loop *)

(***************************************************************************)
(* The request list and the surface agree all through a turn, except while *)
(* another writer's message makes the summarizer's work void.              *)
(***************************************************************************)
Agree ==
  /\ "moved" \in DOMAIN plan
  /\ pc # "idle" /\ ~drift /\ ~(pc = "summarizing" /\ plan.moved) => messages = surface

LEMMA AgreeInit == Init => Agree
BY DEF Init, Agree, NoPlan

\* Actions that end the turn.
LEMMA AgreeFinish ==
  ASSUME NEW kind, NEW said, NEW gap, Finish(kind, said, gap)
  PROVE  Agree'
BY DEF Finish, Agree, NoPlan

\* Actions that leave the surface alone or say the same to both.
LEMMA AgreeSay ==
  ASSUME Agree, NEW ms, Say(ms), drift' = drift, plan' = plan,
         pc \notin {"idle", "summarizing"}, pc' # "summarizing"
  PROVE  Agree'
BY DEF Agree, Say

LEMMA AgreeQuiet ==
  ASSUME Agree, UNCHANGED <<messages, surface, drift>>,
         "moved" \in DOMAIN plan', pc # "idle", ~(pc = "summarizing" /\ plan.moved)
  PROVE  Agree'
BY DEF Agree

LEMMA MaybeIsSeq ==
  ASSUME NEW wanted, NEW kind, NEW t, NEW S, Msg(kind, t) \in S
  PROVE  Maybe(wanted, kind, t) \in Seq(S)
<1>1. <<Msg(kind, t)>> \in Seq(S) /\ <<>> \in Seq(S)
  OBVIOUS
<1> QED
  BY <1>1 DEF Maybe

LEMMA ThreeParts ==
  ASSUME NEW S, NEW a \in Seq(S), NEW b \in Seq(S), NEW c \in Seq(S)
  PROVE  a \o b \o c \in Seq(S) /\ <<>> \o (a \o b \o c) = a \o b \o c
<1>1. a \o b \in Seq(S)
  OBVIOUS
<1>2. \A s \in Seq(S) : s \o c \in Seq(S) /\ <<>> \o s = s
  OBVIOUS
<1> QED
  BY <1>1, <1>2

LEMMA AgreeStartTurn ==
  ASSUME Agree, NEW injected, NEW recalled, StartTurn(injected, recalled)
  PROVE  Agree'
<1> DEFINE t == turn + 1
           marker == Maybe(ended.kind = "aborted", "marker", t)
           prompt == Maybe(injected, "env", t) \o <<Msg("human", t)>>
                       \o Maybe(recalled, "recall", t)
<1>1. /\ pc' = "top"
      /\ surface' = surface \o (marker \o prompt)
      /\ messages' = surface \o prompt
      /\ drift' = (marker # <<>>)
      /\ plan' = plan
  BY DEF StartTurn
<1> DEFINE S == {Msg("env", t), Msg("human", t), Msg("recall", t)}
<1>2. /\ Maybe(injected, "env", t) \in Seq(S)
      /\ Maybe(recalled, "recall", t) \in Seq(S)
      /\ <<Msg("human", t)>> \in Seq(S)
  BY MaybeIsSeq
<1>3. marker = <<>> => marker \o prompt = prompt
  <2> HIDE DEF S
  <2>1. <<>> \o prompt = prompt
    BY <1>2, ThreeParts
  <2> QED
    BY <2>1
<1> QED
  BY <1>1, <1>3 DEF Agree

LEMMA AgreeRelief == Agree /\ Relief => Agree'
<1> SUFFICES ASSUME Agree, Relief PROVE Agree'
  OBVIOUS
<1>1. ASSUME NEW feedback, PreCompactBlocks(feedback) PROVE Agree'
  <2> QED
    BY <1>1, AgreeSay DEF PreCompactBlocks, Ask, ghost
<1>2. ASSUME NEW feedback, Relieve(feedback) PROVE Agree'
  <2> DEFINE said == Maybe(feedback, "note", turn)
  <2>1. PICK old \in SUBSET PrunableIfAlike(messages \o said, surface \o said) :
          /\ messages' = Pruned(messages \o said, old)
          /\ surface' = Pruned(surface \o said, old)
    BY <1>2 DEF Relieve
  <2>2. pc = "top" /\ pc' = "measure" /\ drift' = drift /\ plan' = plan
    BY <1>2 DEF Relieve, ghost
  <2> QED
    BY <2>1, <2>2 DEF Agree
<1>3. CASE NoNeed
  BY <1>3, AgreeQuiet DEF NoNeed, Ask, NoPlan, ghost
<1>4. ASSUME NEW region, pc = "measure", Summarize(region) PROVE Agree'
  BY <1>4, AgreeQuiet DEF Summarize, ghost
<1>5. CASE CommitSummary
  BY <1>5 DEF CommitSummary, Ask, NoPlan, Agree
<1>6. CASE DropSummary
  <2>1. messages' = surface /\ surface' = surface
    BY <1>6 DEF DropSummary, RecomputeFromLog
  <2>2. "moved" \in DOMAIN plan'
    BY <1>6 DEF DropSummary, Ask, NoPlan
  <2> QED
    BY <2>1, <2>2 DEF Agree
<1> QED
  BY <1>1, <1>2, <1>3, <1>4, <1>5, <1>6 DEF Relief

LEMMA AgreeReplies == Agree /\ Replies => Agree'
<1> SUFFICES ASSUME Agree, Replies PROVE Agree'
  OBVIOUS
<1>1. ProviderFails \/ (\E kind \in {"max-tokens", "completed"} : CutReply(kind))
        => Agree'
  BY AgreeFinish DEF ProviderFails, CutReply
<1>2. ASSUME NEW feedback, CommitReply(feedback) PROVE Agree'
  BY <1>2, AgreeFinish DEF CommitReply
<1>3. EmptyReply \/ AuditBounces => Agree'
  BY AgreeSay DEF EmptyReply, AuditBounces, Again, ghost
<1>4. StopHookBlocks => Agree'
  BY AgreeSay DEF StopHookBlocks, Again, ghost
<1>5. ASSUME NEW claim, Reply(claim) PROVE Agree'
  BY <1>5, AgreeQuiet DEF Reply, ghost, Agree
<1> QED
  BY <1>1, <1>2, <1>3, <1>4, <1>5 DEF Replies

LEMMA AgreeTools == Agree /\ Tools => Agree'
<1> SUFFICES ASSUME Agree, Tools PROVE Agree'
  OBVIOUS
<1>1. ASSUME NEW malformed, ToolUse(malformed) PROVE Agree'
  <2>1. Say(<<Calls(Len(malformed))>>) /\ pc = "model" /\ UNCHANGED <<plan, drift>>
    BY <1>1 DEF ToolUse, ghost
  <2>2. pc' \in {"tools", "approve"}
    BY <1>1 DEF ToolUse, Stage
  <2> QED
    BY <2>1, <2>2, AgreeSay
<1>2. ASSUME NEW yes, Approve(yes) PROVE Agree'
  <2>1. pc = "approve" /\ UNCHANGED <<messages, surface, plan, drift>>
    BY <1>2 DEF Approve, ghost
  <2> QED
    BY <2>1, AgreeQuiet DEF Agree
<1>3. ASSUME NEW i, NEW status, RunTool(i, status) PROVE Agree'
  <2>1. pc = "tools" /\ UNCHANGED <<messages, surface, plan, drift>>
    BY <1>3 DEF RunTool
  <2> QED
    BY <2>1, AgreeQuiet DEF Agree
<1>4. ASSUME NEW noted, LogResults(noted) PROVE Agree'
  BY <1>4, AgreeSay DEF LogResults, ghost
<1> QED
  BY <1>1, <1>2, <1>3, <1>4 DEF Tools

LEMMA AgreeNext == Agree /\ [Next]_vars => Agree'
<1> SUFFICES ASSUME Agree, [Next]_vars PROVE Agree'
  OBVIOUS
<1>1. ASSUME NEW injected, NEW recalled, StartTurn(injected, recalled) PROVE Agree'
  BY <1>1, AgreeStartTurn
<1>2. CASE BeginStep
  BY <1>2, AgreeQuiet DEF BeginStep, Ask, ghost, Agree
<1>3. CASE TurnsExhausted \/ Abort
  BY <1>3, AgreeFinish DEF TurnsExhausted, Abort
<1>4. CASE Relief \/ Replies \/ Tools
  BY <1>4, AgreeRelief, AgreeReplies, AgreeTools
<1>5. CASE Intrude
  <2>1. pc' = "summarizing" /\ plan'.moved /\ "moved" \in DOMAIN plan'
    BY <1>5 DEF Intrude, Agree
  <2> QED
    BY <2>1 DEF Agree
<1>6. CASE UNCHANGED vars
  BY <1>6 DEF vars, loop, ghost, Agree
<1> QED
  BY <1>1, <1>2, <1>3, <1>4, <1>5, <1>6 DEF Next, Work

\* For every budget and any number of turns: outside a turn that carries an
\* interruption marker, the model is sent exactly what the log's surface holds
\* (session_log.py "Model-visible <=> logged").
THEOREM RequestStaysLogged == Spec => []RequestIsLogged
<1>1. Agree => RequestIsLogged
  BY DEF Agree, RequestIsLogged
<1> QED
  BY AgreeInit, AgreeNext, <1>1, PTL DEF Spec

-----------------------------------------------------------------------------
(***************************************************************************)
(* The trace the audit reads backs a claim only if a tool did some work in *)
(* this turn, and a claim without it passes the audit only on the record.  *)
(***************************************************************************)
Flags ==
  /\ claims \in BOOLEAN /\ evidence \in BOOLEAN /\ unbacked \in BOOLEAN
  /\ worked \in BOOLEAN /\ claimed \in BOOLEAN

Backed ==
  /\ pc = "idle" => calls = <<>>
  /\ pc # "idle" => ~claimed
  /\ pc # "idle" /\ evidence => worked
  /\ \A i \in DOMAIN calls : calls[i].status = "worked" => worked
  /\ pc = "stop" /\ claims /\ ~evidence => unbacked
  /\ UnbackedIsReported

ClaimInvariant == Flags /\ Backed

LEMMA ClaimInit == Init => ClaimInvariant
<1> SUFFICES ASSUME Init PROVE ClaimInvariant
  OBVIOUS
<1>1. pc = "idle" /\ calls = <<>>
  BY DEF Init
<1>2. \A i \in DOMAIN calls : calls[i].status = "worked" => worked
  BY <1>1
<1>3. /\ claims = FALSE /\ evidence = FALSE /\ unbacked = FALSE
      /\ worked = FALSE /\ claimed = FALSE
  BY DEF Init
<1>4. Flags
  BY <1>3 DEF Flags
<1>5. pc # "stop"
  BY <1>1
<1> QED
  BY <1>1, <1>2, <1>3, <1>4, <1>5, Zenon DEF ClaimInvariant, Backed, UnbackedIsReported

\* What most actions leave alone.
LEMMA ClaimQuiet ==
  ASSUME ClaimInvariant, UNCHANGED <<evidence, worked, claimed, calls>>,
         pc # "idle", pc' # "idle",
         claims' \in BOOLEAN, unbacked' \in BOOLEAN,
         pc' = "stop" /\ claims' /\ ~evidence => unbacked'
  PROVE  ClaimInvariant'
BY DEF ClaimInvariant, Flags, Backed, UnbackedIsReported

\* The turn ends: with the reply the Stop hook let pass, or with another one.
LEMMA ClaimFinish ==
  ASSUME ClaimInvariant, NEW kind, NEW said, Finish(kind, said, unbacked),
         claimed' \in BOOLEAN, claimed' /\ ~worked => unbacked
  PROVE  ClaimInvariant'
<1>1. /\ pc' = "idle" /\ calls' = <<>> /\ claims' = FALSE /\ unbacked' = FALSE
      /\ ended'.unbacked = unbacked
      /\ UNCHANGED <<evidence, worked>>
  BY DEF Finish
<1>2. pc' # "stop"
  BY <1>1
<1>3. Flags'
  BY <1>1, Zenon DEF ClaimInvariant, Flags
<1>4. UnbackedIsReported'
  BY <1>1, Zenon DEF UnbackedIsReported
<1>5. (\A i \in DOMAIN calls : calls[i].status = "worked" => worked)'
  BY <1>1
<1> QED
  BY <1>1, <1>2, <1>3, <1>4, <1>5, Zenon DEF ClaimInvariant, Backed

LEMMA ClaimStartTurn ==
  ASSUME ClaimInvariant, NEW injected, NEW recalled, StartTurn(injected, recalled)
  PROVE  ClaimInvariant'
<1>1. /\ pc = "idle" /\ pc' = "top" /\ evidence' = FALSE
      /\ worked' = FALSE /\ claimed' = FALSE
      /\ UNCHANGED <<calls, claims, unbacked>>
  BY DEF StartTurn, ClearTrace
<1>2. pc' # "stop" /\ pc' # "idle"
  BY <1>1
<1>3. calls' = <<>>
  BY <1>1 DEF ClaimInvariant, Backed
<1>4. Flags'
  BY <1>1, Zenon DEF ClaimInvariant, Flags
<1>5. UnbackedIsReported'
  BY <1>2, Zenon DEF UnbackedIsReported
<1>6. (\A i \in DOMAIN calls : calls[i].status = "worked" => worked)'
  BY <1>3
<1> QED
  BY <1>1, <1>2, <1>4, <1>5, <1>6, Zenon DEF ClaimInvariant, Backed

LEMMA ClaimRelief == ClaimInvariant /\ Relief => ClaimInvariant'
<1> SUFFICES ASSUME ClaimInvariant, Relief PROVE ClaimInvariant'
  OBVIOUS
<1>0. claims \in BOOLEAN /\ unbacked \in BOOLEAN
  BY DEF ClaimInvariant, Flags
<1>1. ASSUME NEW feedback, PreCompactBlocks(feedback) \/ Relieve(feedback)
      PROVE  ClaimInvariant'
  BY <1>0, <1>1, ClaimQuiet DEF PreCompactBlocks, Relieve, Ask, ghost
<1>2. CASE NoNeed
  BY <1>0, <1>2, ClaimQuiet DEF NoNeed, Ask, ghost
<1>3. ASSUME NEW region, pc = "measure", Summarize(region) PROVE ClaimInvariant'
  BY <1>0, <1>3, ClaimQuiet DEF Summarize, ghost
<1>4. CASE CommitSummary
  BY <1>0, <1>4, ClaimQuiet DEF CommitSummary, Ask
<1>5. CASE DropSummary
  <2>1. pc = "summarizing" /\ pc' \in {"measure", "model"}
    BY <1>5 DEF DropSummary, Ask
  <2> QED
    BY <1>0, <1>5, <2>1, ClaimQuiet DEF DropSummary
<1> QED
  BY <1>1, <1>2, <1>3, <1>4, <1>5 DEF Relief

LEMMA ClaimReplies == ClaimInvariant /\ Replies => ClaimInvariant'
<1> SUFFICES ASSUME ClaimInvariant, Replies PROVE ClaimInvariant'
  OBVIOUS
<1>0. claims \in BOOLEAN /\ unbacked \in BOOLEAN /\ evidence \in BOOLEAN
  BY DEF ClaimInvariant, Flags
<1>1. ProviderFails \/ (\E kind \in {"max-tokens", "completed"} : CutReply(kind))
        => ClaimInvariant'
  <2>1. ASSUME NEW kind, pc = "model", Finish(kind, <<Msg("reply", turn)>>, unbacked),
               UNCHANGED claimed
        PROVE  ClaimInvariant'
    <3>1. pc # "idle"
      BY <2>1
    <3>2. claimed' \in BOOLEAN /\ (claimed' /\ ~worked => unbacked)
      BY <2>1, <3>1, Zenon DEF ClaimInvariant, Backed, Flags
    <3> QED
      BY <2>1, <3>2, ClaimFinish
  <2> QED
    BY <2>1, Zenon DEF ProviderFails, CutReply
<1>2. ASSUME NEW feedback \in Wish, CommitReply(feedback) PROVE ClaimInvariant'
  <2>1. pc = "stop" /\ claimed' = claims
    BY <1>2 DEF CommitReply
  <2>2. claims /\ ~worked => unbacked
    BY <2>1 DEF ClaimInvariant, Backed
  <2> QED
    BY <1>0, <1>2, <2>1, <2>2, ClaimFinish DEF CommitReply
<1>3. EmptyReply \/ AuditBounces => ClaimInvariant'
  BY <1>0, ClaimQuiet DEF EmptyReply, AuditBounces, Again, ghost
<1>4. StopHookBlocks => ClaimInvariant'
  BY <1>0, ClaimQuiet DEF StopHookBlocks, Again, ghost
<1>5. ASSUME NEW claim \in BOOLEAN, Reply(claim) PROVE ClaimInvariant'
  <2>1. /\ pc = "model" /\ pc' = "stop" /\ claims' = claim
        /\ unbacked' = (unbacked \/ (claim /\ ~evidence))
        /\ UNCHANGED <<evidence, worked, claimed, calls>>
    BY <1>5 DEF Reply, Reminder, ghost
  <2>2. unbacked' \in BOOLEAN /\ (claims' /\ ~evidence => unbacked')
    BY <1>0, <2>1
  <2> QED
    BY <2>1, <2>2, ClaimQuiet
<1> QED
  BY <1>1, <1>2, <1>3, <1>4, <1>5 DEF Replies

LEMMA ClaimTools == ClaimInvariant /\ Tools => ClaimInvariant'
<1> SUFFICES ASSUME ClaimInvariant, Tools PROVE ClaimInvariant'
  OBVIOUS
<1>1. ASSUME NEW n \in CallCounts, NEW malformed \in [1 .. n -> BOOLEAN], ToolUse(malformed)
      PROVE  ClaimInvariant'
  <2>1. /\ pc = "model" /\ pc' \in {"tools", "approve"}
        /\ UNCHANGED <<claims, evidence, unbacked, worked, claimed>>
    BY <1>1 DEF ToolUse, Stage, ghost
  <2>2. \A i \in DOMAIN calls' : calls'[i].status # "worked"
    BY <1>1 DEF ToolUse
  <2> QED
    BY <2>1, <2>2 DEF ClaimInvariant, Flags, Backed, UnbackedIsReported
<1>2. ASSUME NEW yes \in BOOLEAN, Approve(yes) PROVE ClaimInvariant'
  <2>1. /\ pc = "approve" /\ pc' \in {"tools", "approve"}
        /\ UNCHANGED <<claims, evidence, unbacked, worked, claimed>>
    BY <1>2 DEF Approve, Stage, ghost
  <2>2. \A i \in DOMAIN calls' : calls'[i].status = "worked" => worked
    <3> DEFINE c == Min(Undecided(calls))
    <3>1. calls' = [calls EXCEPT ![c].status = IF yes THEN "approved" ELSE "denied"]
      BY <1>2 DEF Approve, Settle
    <3> HIDE DEF c
    <3>2. \A i \in DOMAIN calls' : i \in DOMAIN calls /\ (i # c => calls'[i] = calls[i])
      BY <3>1
    <3>3. c \in DOMAIN calls => calls'[c] = [calls[c] EXCEPT !.status =
                                               IF yes THEN "approved" ELSE "denied"]
      BY <3>1
    <3>4. \A r : [r EXCEPT !.status = IF yes THEN "approved" ELSE "denied"].status = "worked"
            => r.status = "worked"
      OBVIOUS
    <3>5. \A i \in DOMAIN calls : calls[i].status = "worked" => worked
      BY DEF ClaimInvariant, Backed
    <3> QED
      BY <3>2, <3>3, <3>4, <3>5
  <2> QED
    BY <2>1, <2>2 DEF ClaimInvariant, Flags, Backed, UnbackedIsReported
<1>3. ASSUME NEW i \in DOMAIN calls, NEW status \in {"hook_blocked", "executed", "worked"},
             RunTool(i, status)
      PROVE  ClaimInvariant'
  <2>1. /\ pc = "tools" /\ pc' = "tools"
        /\ calls' = [calls EXCEPT ![i].status = status]
        /\ worked' = (worked \/ status = "worked")
        /\ UNCHANGED <<claims, evidence, unbacked, claimed>>
    BY <1>3 DEF RunTool, Settle
  <2>2. worked' \in BOOLEAN /\ (worked => worked') /\ (status = "worked" => worked')
    BY <2>1 DEF ClaimInvariant, Flags
  <2>3. \A k \in DOMAIN calls' : calls'[k].status = "worked" => worked'
    <3>1. \A k \in DOMAIN calls' : k \in DOMAIN calls /\ (k # i => calls'[k] = calls[k])
      BY <2>1
    <3>2. calls'[i] = [calls[i] EXCEPT !.status = status]
      BY <2>1
    <3>3. \A r : [r EXCEPT !.status = status].status = "worked"
            => r.status = "worked" \/ status = "worked"
      OBVIOUS
    <3>4. \A k \in DOMAIN calls : calls[k].status = "worked" => worked
      BY DEF ClaimInvariant, Backed
    <3> QED
      BY <2>2, <3>1, <3>2, <3>3, <3>4
  <2> QED
    BY <2>1, <2>2, <2>3 DEF ClaimInvariant, Flags, Backed, UnbackedIsReported
<1>4. ASSUME NEW noted \in Wish, LogResults(noted) PROVE ClaimInvariant'
  <2>1. /\ pc = "tools" /\ pc' = "top"
        /\ evidence' = (evidence \/ TraceWork(calls))
        /\ UNCHANGED <<claims, unbacked, worked, claimed>>
        /\ \A k \in DOMAIN calls' : calls'[k].status = "executed"
    BY <1>4 DEF LogResults, ghost
  <2>2. TraceWork(calls) => worked
    BY DEF TraceWork, ClaimInvariant, Backed
  <2>3. evidence' \in BOOLEAN /\ (evidence' => worked)
    BY <2>1, <2>2 DEF ClaimInvariant, Flags, Backed, TraceWork
  <2> QED
    BY <2>1, <2>3 DEF ClaimInvariant, Flags, Backed, UnbackedIsReported
<1> QED
  BY <1>1, <1>2, <1>3, <1>4 DEF Tools

LEMMA ClaimNext == ClaimInvariant /\ [Next]_vars => ClaimInvariant'
<1> SUFFICES ASSUME ClaimInvariant, [Next]_vars PROVE ClaimInvariant'
  OBVIOUS
<1>0. claims \in BOOLEAN /\ unbacked \in BOOLEAN
  BY DEF ClaimInvariant, Flags
<1>1. ASSUME NEW injected, NEW recalled, StartTurn(injected, recalled) PROVE ClaimInvariant'
  BY <1>1, ClaimStartTurn
<1>2. CASE BeginStep \/ Intrude
  BY <1>0, <1>2, ClaimQuiet DEF BeginStep, Intrude, Ask, ghost
<1>3. CASE TurnsExhausted \/ Abort
  <2>1. pc # "idle" /\ claimed' = claimed
    BY <1>3 DEF TurnsExhausted, Abort
  <2>2. claimed = FALSE
    BY <2>1 DEF ClaimInvariant, Flags, Backed
  <2> QED
    BY <1>3, <2>1, <2>2, ClaimFinish DEF TurnsExhausted, Abort
<1>4. CASE Relief \/ Replies \/ Tools
  BY <1>4, ClaimRelief, ClaimReplies, ClaimTools
<1>5. CASE UNCHANGED vars
  BY <1>5 DEF vars, loop, ghost, ClaimInvariant, Flags, Backed, UnbackedIsReported
<1> QED
  BY <1>1, <1>2, <1>3, <1>4, <1>5 DEF Next, Work

\* For every budget and any number of turns: a turn whose final reply claims
\* work nobody did in it is recorded as unbacked (agent.py
\* _completion_audit_unbacked), whatever was bounced or blocked before.
THEOREM ClaimsAreReported == Spec => []UnbackedIsReported
<1>1. ClaimInvariant => UnbackedIsReported
  BY DEF ClaimInvariant, Backed
<1> QED
  BY ClaimInit, ClaimNext, <1>1, PTL DEF Spec

(***************************************************************************)
(* The rest of the module proves HistoryIsSound.  First what the helpers   *)
(* of ContextCuts compute: least and greatest numbers, the balance.  An    *)
(* induction is a least counterexample, taken from WFMin.                  *)
(***************************************************************************)
LEMMA LeastNatural ==
  ASSUME NEW S \in SUBSET Nat, S # {}
  PROVE  \E m \in S : \A k \in S : m <= k
<1>1. PICK m \in S : \A k \in S : ~(<<k, m>> \in OpToRel(<, Nat))
  BY NatLessThanWellFounded, WFMin
<1>2. \A k \in S : ~(k < m)
  BY <1>1 DEF OpToRel
<1> QED
  BY <1>2

LEMMA MinIsLeast ==
  ASSUME NEW S \in SUBSET Nat, S # {}
  PROVE  Min(S) \in S /\ \A k \in S : Min(S) <= k
<1>1. \E m \in S : \A k \in S : m <= k
  BY LeastNatural
<1> QED
  BY <1>1 DEF Min

LEMMA MaxIsGreatest ==
  ASSUME NEW N \in Nat, NEW S \in SUBSET (0 .. N), S # {}
  PROVE  Max(S) \in S /\ \A k \in S : Max(S) >= k
<1> DEFINE T == {n \in Nat : N - n \in S}
<1>1. T # {}
  <2>1. PICK k \in S : TRUE
    OBVIOUS
  <2>2. N - k \in T
    BY <2>1
  <2> QED
    BY <2>2
<1>2. PICK m \in T : \A k \in T : m <= k
  <2>1. T \in SUBSET Nat
    OBVIOUS
  <2> HIDE DEF T
  <2> QED
    BY <1>1, <2>1, LeastNatural
<1>3. N - m \in S /\ \A k \in S : N - m >= k
  <2>1. SUFFICES ASSUME NEW k \in S PROVE N - m >= k
    BY <1>2
  <2>2. k \in 0 .. N
    OBVIOUS
  <2>3. N - k \in T
    BY <2>2
  <2> QED
    BY <1>2, <2>2, <2>3
<1> QED
  BY <1>3 DEF Max


\* What _balance_prefix computes, as an equation of the function.
Balances(g, ms) ==
  g = [i \in 1 .. Len(ms) + 1 |-> IF i = 1 THEN 0 ELSE g[i - 1] + Delta(ms[i - 1])]

LEMMA BalanceIfAny ==
  ASSUME NEW ms, NEW g, Balances(g, ms)
  PROVE  Balances(BalancePrefix(ms), ms)
BY Zenon DEF Balances, BalancePrefix

LEMMA DeltaIsInt == ASSUME NEW m \in Message PROVE Delta(m) \in Int
BY DEF Delta, Message

\* The first n of them.
BalancesTo(g, ms, n) ==
  /\ g \in [1 .. n + 1 -> Int]
  /\ g[1] = 0
  /\ \A i \in 1 .. n : g[i + 1] = g[i] + Delta(ms[i])

LEMMA BalanceExtends ==
  ASSUME NEW ms \in Seq(Message), NEW n \in Nat, n + 1 <= Len(ms), NEW f, BalancesTo(f, ms, n)
  PROVE  \E g : BalancesTo(g, ms, n + 1)
<1> DEFINE d == Delta(ms[n + 1])
<1>1. d \in Int
  BY DeltaIsInt
<1>2. f \in [1 .. n + 1 -> Int] /\ f[1] = 0 /\ \A i \in 1 .. n : f[i + 1] = f[i] + Delta(ms[i])
  BY DEF BalancesTo
<1> DEFINE g == [i \in 1 .. (n + 1) + 1 |-> IF i = n + 2 THEN f[n + 1] + d ELSE f[i]]
<1>3. g \in [1 .. (n + 1) + 1 -> Int]
  <2> SUFFICES ASSUME NEW i \in 1 .. (n + 1) + 1 PROVE (IF i = n + 2 THEN f[n + 1] + d ELSE f[i]) \in Int
    OBVIOUS
  <2>1. CASE i = n + 2
    BY <1>1, <1>2, <2>1
  <2>2. CASE i # n + 2
    <3>1. i \in 1 .. n + 1
      BY <2>2
    <3> QED
      BY <1>2, <2>2, <3>1
  <2> QED
    BY <2>1, <2>2
<1>4. g[1] = 0
  BY <1>2
<1>5. \A i \in 1 .. n + 1 : g[i + 1] = g[i] + Delta(ms[i])
  <2> SUFFICES ASSUME NEW i \in 1 .. n + 1 PROVE g[i + 1] = g[i] + Delta(ms[i])
    OBVIOUS
  <2>1. CASE i = n + 1
    BY <2>1
  <2>2. CASE i \in 1 .. n
    BY <2>2, <1>2
  <2> QED
    BY <2>1, <2>2
<1> HIDE DEF g
<1> QED
  BY <1>3, <1>4, <1>5 DEF BalancesTo

LEMMA BalanceExists ==
  ASSUME NEW ms \in Seq(Message)
  PROVE  \A n \in 0 .. Len(ms) : \E g : BalancesTo(g, ms, n)
<1> DEFINE Missing == {n \in 0 .. Len(ms) : ~ \E g : BalancesTo(g, ms, n)}
<1>1. SUFFICES ASSUME Missing # {} PROVE FALSE
  OBVIOUS
<1>2. PICK n \in Missing : \A k \in Missing : n <= k
  <2>1. Missing \in SUBSET Nat
    BY LenProperties
  <2> HIDE DEF Missing
  <2> QED
    BY <1>1, <2>1, LeastNatural
<1>3. n \in 0 .. Len(ms) /\ Len(ms) \in Nat
  BY LenProperties
<1>4. CASE n = 0
  <2> DEFINE g == [i \in 1 .. n + 1 |-> 0]
  <2>1. BalancesTo(g, ms, n)
    BY <1>4 DEF BalancesTo
  <2> HIDE DEF g
  <2> QED
    BY <2>1
<1>5. CASE n # 0
  <2>1. n - 1 \in 0 .. Len(ms) /\ n - 1 \in Nat /\ (n - 1) + 1 = n /\ ~(n <= n - 1)
    BY <1>3, <1>5
  <2>2. n - 1 \notin Missing
    BY <1>2, <2>1
  <2>3. PICK f : BalancesTo(f, ms, n - 1)
    BY <2>1, <2>2
  <2>4. \E g : BalancesTo(g, ms, (n - 1) + 1)
    BY <2>1, <2>3, <1>3, BalanceExtends
  <2> QED
    BY <2>1, <2>4
<1> QED
  BY <1>4, <1>5

LEMMA BalanceIsThat ==
  ASSUME NEW ms \in Seq(Message)
  PROVE  BalancesTo(BalancePrefix(ms), ms, Len(ms))
<1>0. Len(ms) \in Nat
  BY LenProperties
<1>1. PICK g : BalancesTo(g, ms, Len(ms))
  BY <1>0, BalanceExists
<1>2. Balances(g, ms)
  <2>1. g = [i \in 1 .. Len(ms) + 1 |-> g[i]]
    BY <1>1 DEF BalancesTo
  <2>2. \A i \in 1 .. Len(ms) + 1 : g[i] = IF i = 1 THEN 0 ELSE g[i - 1] + Delta(ms[i - 1])
    <3> TAKE i \in 1 .. Len(ms) + 1
    <3>1. CASE i = 1
      BY <1>1, <3>1 DEF BalancesTo
    <3>2. CASE i # 1
      <4>1. i - 1 \in 1 .. Len(ms) /\ (i - 1) + 1 = i
        BY <1>0, <3>2
      <4> QED
        BY <1>1, <3>2, <4>1 DEF BalancesTo
    <3> QED
      BY <3>1, <3>2
  <2> QED
    BY <2>1, <2>2 DEF Balances
<1> DEFINE b == BalancePrefix(ms)
<1>3. b = [i \in 1 .. Len(ms) + 1 |-> IF i = 1 THEN 0 ELSE b[i - 1] + Delta(ms[i - 1])]
  BY <1>2, BalanceIfAny DEF Balances
<1> HIDE DEF b
<1>4. b[1] = 0 /\ \A i \in 1 .. Len(ms) : b[i + 1] = b[i] + Delta(ms[i])
  <2>1. b[1] = 0
    BY <1>0, <1>3
  <2>2. ASSUME NEW i \in 1 .. Len(ms) PROVE b[i + 1] = b[i] + Delta(ms[i])
    <3>1. i + 1 \in 1 .. Len(ms) + 1 /\ i + 1 # 1 /\ (i + 1) - 1 = i
      BY <1>0
    <3> QED
      BY <1>3, <3>1
  <2> QED
    BY <2>1, <2>2
<1>5. \A i \in 1 .. Len(ms) + 1 : b[i] = g[i]
  <2> DEFINE Wrong == {i \in 1 .. Len(ms) + 1 : b[i] # g[i]}
  <2>1. SUFFICES ASSUME Wrong # {} PROVE FALSE
    OBVIOUS
  <2>2. PICK i \in Wrong : \A k \in Wrong : i <= k
    <3>1. Wrong \in SUBSET Nat
      BY <1>0
    <3> HIDE DEF Wrong
    <3> QED
      BY <2>1, <3>1, LeastNatural
  <2>3. CASE i = 1
    BY <2>2, <2>3, <1>4, <1>1 DEF BalancesTo
  <2>4. CASE i # 1
    <3>1. i - 1 \in 1 .. Len(ms) /\ i - 1 \in 1 .. Len(ms) + 1 /\ (i - 1) + 1 = i /\ ~(i <= i - 1)
      BY <1>0, <2>4
    <3>2. b[i - 1] = g[i - 1]
      BY <2>2, <3>1
    <3> QED
      BY <3>1, <3>2, <1>4, <1>1, <2>2 DEF BalancesTo
  <2> QED
    BY <2>3, <2>4
<1>6. b = g
  <2>1. b = [i \in 1 .. Len(ms) + 1 |-> b[i]]
    BY <1>3
  <2>2. g = [i \in 1 .. Len(ms) + 1 |-> g[i]]
    BY <1>1 DEF BalancesTo
  <2> QED
    BY <1>5, <2>1, <2>2
<1> QED
  BY <1>1, <1>6 DEF b

(***************************************************************************)
(* Transcripts: in one, the balance is zero exactly where no answer of a   *)
(* group is missing, so a balanced position is a cut between groups.       *)
(***************************************************************************)
\* What the transcript lemmas know of a conversation: its length and numbers.
LEMMA Conversation ==
  ASSUME NEW ms \in Seq(Message)
  PROVE  /\ Len(ms) \in Nat /\ DOMAIN ms = 1 .. Len(ms)
         /\ \A i \in 1 .. Len(ms) : ms[i] \in Message /\ ms[i].n \in Nat
<1>1. Len(ms) \in Nat /\ DOMAIN ms = 1 .. Len(ms) /\ \A i \in 1 .. Len(ms) : ms[i] \in Message
  BY LenProperties, ElementOfSeq
<1> QED
  BY <1>1 DEF Message

\* A position no answer stands at: what is cut there leaves whole groups.
Cut(ms, i) == i \in 1 .. Len(ms) + 1 /\ (i <= Len(ms) => ~IsResult(ms[i]))

\* In front of an answer are the calls or the answer before it.
LEMMA BeforeAnswer ==
  ASSUME NEW ms \in Seq(Message), IsTranscript(ms), NEW i \in 1 .. Len(ms), IsResult(ms[i])
  PROVE  /\ ms[i].n \in Nat \ {0} /\ i - ms[i].n \in 1 .. Len(ms)
         /\ ms[i - ms[i].n].kind = "calls" /\ ms[i].n <= ms[i - ms[i].n].n
         /\ \A k \in 1 .. ms[i - ms[i].n].n :
              /\ i - ms[i].n + k \in 1 .. Len(ms)
              /\ IsResult(ms[i - ms[i].n + k]) /\ ms[i - ms[i].n + k].n = k
<1>0. Len(ms) \in Nat /\ DOMAIN ms = 1 .. Len(ms) /\ \A k \in 1 .. Len(ms) : ms[k].n \in Nat
  BY Conversation
<1> DEFINE n == ms[i].n
           j == i - ms[i].n
<1>1. n \in Nat /\ i > n /\ ms[j].kind = "calls" /\ n <= ms[j].n
  BY <1>0 DEF IsTranscript
<1>2. n # 0
  <2> SUFFICES ASSUME n = 0 PROVE FALSE
    OBVIOUS
  <2>1. j = i
    OBVIOUS
  <2> QED
    BY <1>1, <2>1 DEF IsResult
<1>3. j \in 1 .. Len(ms) /\ ms[j].n \in Nat
  BY <1>0, <1>1
<1>4. j + ms[j].n <= Len(ms) /\ \A k \in 1 .. ms[j].n : IsResult(ms[j + k]) /\ ms[j + k].n = k
  BY <1>0, <1>1, <1>3 DEF IsTranscript, Answers
<1>5. \A k \in 1 .. ms[j].n : j + k \in 1 .. Len(ms)
  BY <1>0, <1>3, <1>4
<1> QED
  BY <1>1, <1>2, <1>3, <1>4, <1>5

\* A group of calls and its answers.
LEMMA Group ==
  ASSUME NEW ms \in Seq(Message), IsTranscript(ms), NEW j \in 1 .. Len(ms), ms[j].kind = "calls"
  PROVE  /\ ms[j].n \in Nat /\ j + ms[j].n <= Len(ms)
         /\ \A k \in 1 .. ms[j].n : j + k \in 1 .. Len(ms) /\ IsResult(ms[j + k]) /\ ms[j + k].n = k
<1>0. Len(ms) \in Nat /\ DOMAIN ms = 1 .. Len(ms) /\ \A k \in 1 .. Len(ms) : ms[k].n \in Nat
  BY Conversation
<1>1. j + ms[j].n <= Len(ms) /\ \A k \in 1 .. ms[j].n : IsResult(ms[j + k]) /\ ms[j + k].n = k
  BY <1>0 DEF IsTranscript, Answers
<1>2. \A k \in 1 .. ms[j].n : j + k \in 1 .. Len(ms)
  BY <1>0, <1>1
<1> QED
  BY <1>0, <1>1, <1>2

\* Behind a message that is neither calls nor an answer with more to come, no
\* answer stands.
LEMMA NoAnswerFollows ==
  ASSUME NEW ms \in Seq(Message), IsTranscript(ms), NEW i \in 1 .. Len(ms),
         i + 1 \in 1 .. Len(ms), IsResult(ms[i + 1])
  PROVE  \/ ms[i].kind = "calls" /\ ms[i].n > 0
         \/ IsResult(ms[i]) /\ ms[i].n < ms[i - ms[i].n].n
<1> DEFINE n == ms[i + 1].n
           j == (i + 1) - n
<1>1. /\ n \in Nat \ {0} /\ j \in 1 .. Len(ms) /\ ms[j].kind = "calls" /\ n <= ms[j].n
      /\ \A k \in 1 .. ms[j].n : j + k \in 1 .. Len(ms) /\ IsResult(ms[j + k]) /\ ms[j + k].n = k
  BY BeforeAnswer
<1>2. ms[j].n \in Nat
  BY <1>1, Conversation
<1>3. CASE n = 1
  <2>1. j = i
    BY <1>3
  <2> QED
    BY <1>1, <1>2, <1>3, <2>1
<1>4. CASE n # 1
  <2>0. j + n = i + 1 /\ j \in Int /\ n \in Nat \ {0} /\ i \in Nat /\ n <= ms[j].n
    BY <1>1, Conversation
  <2>1. n - 1 \in 1 .. ms[j].n /\ j + (n - 1) = i
    <3> HIDE DEF n, j
    <3> QED
      BY <2>0, <1>2, <1>4
  <2>2. IsResult(ms[i]) /\ ms[i].n = n - 1
    BY <1>1, <2>1
  <2>3. i - ms[i].n = j /\ ms[i].n < ms[j].n
    BY <1>1, <1>2, <2>1, <2>2
  <2> QED
    BY <2>2, <2>3
<1> QED
  BY <1>3, <1>4

\* How many answers are still missing in front of a position.
Missing(ms, i) ==
  IF i <= Len(ms) /\ IsResult(ms[i]) THEN ms[i - ms[i].n].n - ms[i].n + 1 ELSE 0

LEMMA MissingStep ==
  ASSUME NEW ms \in Seq(Message), IsTranscript(ms), NEW i \in 1 .. Len(ms)
  PROVE  Missing(ms, i + 1) = Missing(ms, i) + Delta(ms[i])
<1>0. Len(ms) \in Nat /\ \A k \in 1 .. Len(ms) : ms[k].n \in Nat
  BY Conversation
<1> DEFINE Next1 == i + 1 <= Len(ms) /\ IsResult(ms[i + 1])
<1>1. Next1 => i + 1 \in 1 .. Len(ms)
  BY <1>0
<1>2. CASE ms[i].kind = "calls"
  <2>1. Missing(ms, i) = 0 /\ Delta(ms[i]) = ms[i].n /\ ms[i].n \in Nat
    BY <1>0, <1>2 DEF Missing, Delta, IsResult
  <2>2. CASE ms[i].n = 0
    <3>1. ~Next1
      BY <1>1, <1>2, <2>2, NoAnswerFollows DEF IsResult
    <3> QED
      BY <2>1, <2>2, <3>1 DEF Missing
  <2>3. CASE ms[i].n # 0
    <3>1. i + 1 \in 1 .. Len(ms) /\ IsResult(ms[i + 1]) /\ ms[i + 1].n = 1
      BY <1>2, <2>1, <2>3, Group
    <3>2. (i + 1) - ms[i + 1].n = i /\ i + 1 <= Len(ms)
      BY <1>0, <3>1
    <3>3. Missing(ms, i + 1) = ms[i].n - 1 + 1
      BY <3>1, <3>2 DEF Missing
    <3> QED
      BY <2>1, <3>3
  <2> QED
    BY <2>2, <2>3
<1>3. CASE IsResult(ms[i])
  <2> DEFINE m == ms[i].n
             j == i - ms[i].n
  <2>1. /\ m \in Nat \ {0} /\ j \in 1 .. Len(ms) /\ m <= ms[j].n /\ ms[j].n \in Nat
        /\ \A k \in 1 .. ms[j].n : j + k \in 1 .. Len(ms) /\ IsResult(ms[j + k]) /\ ms[j + k].n = k
    BY <1>0, <1>3, BeforeAnswer
  <2>2. Missing(ms, i) = ms[j].n - m + 1
    BY <1>0, <1>3 DEF Missing
  <2>3. Delta(ms[i]) = -1
    BY <1>3 DEF Delta, IsResult
  <2>4. CASE m < ms[j].n
    <3>0. j + m = i /\ j \in Int /\ m \in Nat /\ i \in Nat /\ ms[j].n \in Nat
      BY <1>0, <2>1
    <3>1. m + 1 \in 1 .. ms[j].n /\ j + (m + 1) = i + 1
      <4> HIDE DEF m, j
      <4> QED
        BY <3>0, <2>4
    <3>2. i + 1 \in 1 .. Len(ms) /\ IsResult(ms[i + 1]) /\ ms[i + 1].n = m + 1
      BY <2>1, <3>1
    <3>3. (i + 1) - ms[i + 1].n = j /\ i + 1 <= Len(ms)
      BY <1>0, <2>1, <3>2
    <3>4. Missing(ms, i + 1) = ms[j].n - (m + 1) + 1
      BY <3>2, <3>3 DEF Missing
    <3> QED
      BY <2>1, <2>2, <2>3, <3>4
  <2>5. CASE m = ms[j].n
    <3>1. ~Next1
      BY <1>1, <1>3, <2>5, <2>1, NoAnswerFollows DEF IsResult
    <3> QED
      BY <2>1, <2>2, <2>3, <2>5, <3>1 DEF Missing
  <2> QED
    BY <2>1, <2>4, <2>5
<1>4. CASE ms[i].kind # "calls" /\ ~IsResult(ms[i])
  <2>1. ~Next1
    BY <1>1, <1>4, NoAnswerFollows
  <2> QED
    BY <1>4, <2>1 DEF Missing, Delta
<1> QED
  BY <1>2, <1>3, <1>4

\* In a transcript the balance is zero where no answer is missing.
LEMMA BalanceCounts ==
  ASSUME NEW ms \in Seq(Message), IsTranscript(ms)
  PROVE  \A i \in 1 .. Len(ms) + 1 : BalancePrefix(ms)[i] = Missing(ms, i)
<1> DEFINE b == BalancePrefix(ms)
           Wrong == {i \in 1 .. Len(ms) + 1 : b[i] # Missing(ms, i)}
<1>0. Len(ms) \in Nat
  BY Conversation
<1>1. b[1] = 0 /\ \A i \in 1 .. Len(ms) : b[i + 1] = b[i] + Delta(ms[i])
  BY BalanceIsThat DEF BalancesTo
<1> HIDE DEF b
<1>2. SUFFICES ASSUME Wrong # {} PROVE FALSE
  BY DEF b
<1>3. PICK i \in Wrong : \A k \in Wrong : i <= k
  <2>1. Wrong \in SUBSET Nat
    BY <1>0
  <2> HIDE DEF Wrong
  <2> QED
    BY <1>2, <2>1, LeastNatural
<1>4. CASE i = 1
  <2>1. 1 <= Len(ms) => ~IsResult(ms[1])
    <3> SUFFICES ASSUME 1 \in 1 .. Len(ms), IsResult(ms[1]) PROVE FALSE
      BY <1>0
    <3>1. ms[1].n \in Nat \ {0} /\ 1 - ms[1].n \in 1 .. Len(ms)
      BY BeforeAnswer
    <3> QED
      BY <3>1
  <2>2. Missing(ms, 1) = 0
    BY <2>1 DEF Missing
  <2> QED
    BY <1>1, <1>3, <1>4, <2>2
<1>5. CASE i # 1
  <2>1. i - 1 \in 1 .. Len(ms) /\ i - 1 \in 1 .. Len(ms) + 1 /\ (i - 1) + 1 = i /\ ~(i <= i - 1)
    BY <1>0, <1>5
  <2>2. b[i - 1] = Missing(ms, i - 1)
    BY <1>3, <2>1
  <2>3. Missing(ms, (i - 1) + 1) = Missing(ms, i - 1) + Delta(ms[i - 1])
    BY <2>1, MissingStep
  <2>4. b[(i - 1) + 1] = b[i - 1] + Delta(ms[i - 1])
    BY <2>1, <1>1
  <2> QED
    BY <1>3, <2>1, <2>2, <2>3, <2>4
<1> QED
  BY <1>4, <1>5

LEMMA BalancedIsCut ==
  ASSUME NEW ms \in Seq(Message), IsTranscript(ms)
  PROVE  /\ DOMAIN BalancePrefix(ms) = 1 .. Len(ms) + 1
         /\ \A i \in 1 .. Len(ms) + 1 : BalancePrefix(ms)[i] = 0 => Cut(ms, i)
         /\ BalancePrefix(ms)[Len(ms) + 1] = 0
<1>0. Len(ms) \in Nat /\ \A k \in 1 .. Len(ms) : ms[k].n \in Nat
  BY Conversation
<1>1. DOMAIN BalancePrefix(ms) = 1 .. Len(ms) + 1
  BY BalanceIsThat DEF BalancesTo
<1>2. ASSUME NEW i \in 1 .. Len(ms) + 1, BalancePrefix(ms)[i] = 0 PROVE Cut(ms, i)
  <2> SUFFICES ASSUME i <= Len(ms), IsResult(ms[i]) PROVE FALSE
    BY DEF Cut
  <2>1. i \in 1 .. Len(ms)
    BY <1>0
  <2>2. ms[i].n \in Nat /\ ms[i - ms[i].n].n \in Nat /\ ms[i].n <= ms[i - ms[i].n].n
    BY <1>0, <2>1, BeforeAnswer
  <2>3. Missing(ms, i) = ms[i - ms[i].n].n - ms[i].n + 1
    BY DEF Missing
  <2>4. Missing(ms, i) = 0
    BY <1>2, BalanceCounts
  <2> QED
    BY <2>2, <2>3, <2>4
<1>3. BalancePrefix(ms)[Len(ms) + 1] = 0
  <2>1. Missing(ms, Len(ms) + 1) = 0
    BY <1>0 DEF Missing
  <2>2. Len(ms) + 1 \in 1 .. Len(ms) + 1
    BY <1>0
  <2> QED
    BY <2>1, <2>2, BalanceCounts
<1> QED
  BY <1>1, <1>2, <1>3

(***************************************************************************)
(* Transcripts can be joined, and cut where no answer stands.              *)
(***************************************************************************)
\* Two conversations one after the other.
LEMMA Both ==
  ASSUME NEW a \in Seq(Message), NEW b \in Seq(Message)
  PROVE  /\ a \o b \in Seq(Message) /\ Len(a \o b) = Len(a) + Len(b)
         /\ \A i \in 1 .. Len(a) : (a \o b)[i] = a[i]
         /\ \A i \in 1 .. Len(b) : (a \o b)[Len(a) + i] = b[i]
         /\ Len(a) \in Nat /\ Len(b) \in Nat
BY ConcatProperties, LenProperties

LEMMA TranscriptsJoin ==
  ASSUME NEW a \in Seq(Message), NEW b \in Seq(Message), IsTranscript(a), IsTranscript(b)
  PROVE  IsTranscript(a \o b)
<1> DEFINE s == a \o b
<1>1. /\ s \in Seq(Message) /\ Len(s) = Len(a) + Len(b)
      /\ \A i \in 1 .. Len(a) : s[i] = a[i]
      /\ \A i \in 1 .. Len(b) : s[Len(a) + i] = b[i]
      /\ Len(a) \in Nat /\ Len(b) \in Nat
  BY Both
<1> HIDE DEF s
<1>2. DOMAIN s = 1 .. Len(s) /\ DOMAIN a = 1 .. Len(a) /\ DOMAIN b = 1 .. Len(b)
      /\ (\A i \in 1 .. Len(a) : a[i].n \in Nat) /\ (\A i \in 1 .. Len(b) : b[i].n \in Nat)
  BY <1>1, Conversation
<1>3. ASSUME NEW i \in DOMAIN s, s[i].kind = "calls"
      PROVE  /\ i + s[i].n <= Len(s)
             /\ \A k \in 1 .. s[i].n : Answers(s[i + k], s[i], k)
  <2>1. CASE i \in 1 .. Len(a)
    <3>1. a[i].n \in Nat /\ i + a[i].n <= Len(a) /\ \A k \in 1 .. a[i].n : Answers(a[i + k], a[i], k)
      BY <1>1, <1>2, <1>3, <2>1 DEF IsTranscript
    <3>2. ASSUME NEW k \in 1 .. a[i].n PROVE s[i + k] = a[i + k]
      <4>1. i + k \in 1 .. Len(a)
        BY <3>1, <2>1, <1>1
      <4> QED
        BY <4>1, <1>1
    <3> QED
      BY <3>1, <3>2, <2>1, <1>1
  <2>2. CASE i \notin 1 .. Len(a)
    <3> DEFINE j == i - Len(a)
    <3>0. j \in 1 .. Len(b) /\ i = Len(a) + j
      BY <1>1, <1>2, <2>2
    <3> HIDE DEF j
    <3>3. s[i] = b[j]
      BY <3>0, <1>1
    <3>1. b[j].n \in Nat /\ j + b[j].n <= Len(b) /\ \A k \in 1 .. b[j].n : Answers(b[j + k], b[j], k)
      BY <3>0, <3>3, <1>1, <1>2, <1>3 DEF IsTranscript
    <3>2. ASSUME NEW k \in 1 .. b[j].n PROVE s[i + k] = b[j + k]
      <4>1. j + k \in 1 .. Len(b) /\ Len(a) + (j + k) = i + k
        BY <3>1, <3>0, <1>1
      <4>2. s[Len(a) + (j + k)] = b[j + k]
        BY <4>1, <1>1
      <4> QED
        BY <4>1, <4>2
    <3> QED
      BY <3>0, <3>1, <3>2, <3>3, <1>1
  <2> QED
    BY <2>1, <2>2
<1>4. ASSUME NEW i \in DOMAIN s, IsResult(s[i])
      PROVE  /\ i > s[i].n
             /\ s[i - s[i].n].kind = "calls"
             /\ s[i].n <= s[i - s[i].n].n
             /\ Answers(s[i], s[i - s[i].n], s[i].n)
  <2>1. CASE i \in 1 .. Len(a)
    <3>1. /\ i > a[i].n /\ a[i - a[i].n].kind = "calls" /\ a[i].n <= a[i - a[i].n].n
          /\ Answers(a[i], a[i - a[i].n], a[i].n)
      BY <1>1, <1>2, <1>4, <2>1 DEF IsTranscript
    <3>2. i - a[i].n \in 1 .. Len(a)
      BY <3>1, <1>2, <2>1, <1>1
    <3>3. s[i] = a[i] /\ s[i - a[i].n] = a[i - a[i].n]
      BY <3>2, <2>1, <1>1
    <3> QED
      BY <3>1, <3>3
  <2>2. CASE i \notin 1 .. Len(a)
    <3> DEFINE j == i - Len(a)
    <3>0. j \in 1 .. Len(b) /\ i = Len(a) + j /\ s[i] = b[j]
      BY <1>1, <1>2, <2>2
    <3> HIDE DEF j
    <3>1. /\ b[j].n \in Nat /\ j > b[j].n /\ b[j - b[j].n].kind = "calls" /\ b[j].n <= b[j - b[j].n].n
          /\ Answers(b[j], b[j - b[j].n], b[j].n)
      BY <3>0, <1>2, <1>4 DEF IsTranscript
    <3>2. j - b[j].n \in 1 .. Len(b) /\ Len(a) + (j - b[j].n) = i - b[j].n
      BY <3>0, <3>1, <1>1
    <3>3. s[i - b[j].n] = b[j - b[j].n]
      <4>1. s[Len(a) + (j - b[j].n)] = b[j - b[j].n]
        BY <3>2, <1>1
      <4> QED
        BY <4>1, <3>2
    <3>4. i > b[j].n
      BY <3>0, <3>1, <1>1
    <3> QED
      BY <3>0, <3>1, <3>3, <3>4
  <2> QED
    BY <2>1, <2>2
<1>5. IsTranscript(s)
  BY <1>3, <1>4 DEF IsTranscript
<1> QED
  BY <1>5 DEF s

\* A message that neither asks nor answers stands anywhere.
Plain(m) == m.kind \notin {"calls", "result", "pruned"}

LEMMA PlainIsTranscript ==
  ASSUME NEW ms \in Seq(Message), \A i \in 1 .. Len(ms) : Plain(ms[i])
  PROVE  IsTranscript(ms)
BY Conversation DEF IsTranscript, Plain, IsResult

\* What stands in front of a cut is a conversation of its own.
LEMMA PrefixIsTranscript ==
  ASSUME NEW ms \in Seq(Message), IsTranscript(ms), NEW c, Cut(ms, c)
  PROVE  SubSeq(ms, 1, c - 1) \in Seq(Message) /\ IsTranscript(SubSeq(ms, 1, c - 1))
<1>0. /\ Len(ms) \in Nat /\ DOMAIN ms = 1 .. Len(ms)
      /\ \A i \in 1 .. Len(ms) : ms[i] \in Message /\ ms[i].n \in Nat
  BY Conversation
<1>1. c \in 1 .. Len(ms) + 1
  BY DEF Cut
<1> DEFINE s == SubSeq(ms, 1, c - 1)
<1>2. s \in Seq(Message) /\ Len(s) = c - 1 /\ \A i \in 1 .. c - 1 : s[i] = ms[i]
  <2>1. 1 \in Int /\ c - 1 \in Int /\ \A i \in 1 .. c - 1 : ms[i] \in Message
    BY <1>0, <1>1
  <2> QED
    BY <1>0, <1>1, <2>1, SubSeqProperties
<1> HIDE DEF s
<1>3. DOMAIN s = 1 .. c - 1
  BY <1>2, Conversation
<1>4. ASSUME NEW i \in 1 .. c - 1, ms[i].kind = "calls" PROVE i + ms[i].n <= c - 1
  <2>0. i \in 1 .. Len(ms)
    BY <1>0, <1>1
  <2>1. ms[i].n \in Nat /\ i + ms[i].n <= Len(ms) /\ \A k \in 1 .. ms[i].n : IsResult(ms[i + k])
    BY <1>4, <2>0, Group
  <2> SUFFICES ASSUME i + ms[i].n > c - 1 PROVE FALSE
    BY <1>1, <2>1, <2>0
  <2>2. c - i \in 1 .. ms[i].n /\ i + (c - i) = c /\ c <= Len(ms)
    <3>1. c \in Nat /\ i \in Nat /\ i < c /\ c <= i + ms[i].n
      BY <1>0, <1>1, <2>1
    <3>2. c - i \in Nat /\ 1 <= c - i /\ c - i <= ms[i].n /\ i + (c - i) = c
      BY <2>1, <3>1
    <3>3. c <= Len(ms)
      BY <1>0, <2>0, <2>1, <3>1
    <3> QED
      BY <2>1, <3>2, <3>3
  <2>3. IsResult(ms[c])
    BY <2>1, <2>2
  <2> QED
    BY <2>2, <2>3 DEF Cut
<1>5. ASSUME NEW i \in DOMAIN s, s[i].kind = "calls"
      PROVE  /\ i + s[i].n <= Len(s)
             /\ \A k \in 1 .. s[i].n : Answers(s[i + k], s[i], k)
  <2>0. i \in 1 .. Len(ms) /\ i \in 1 .. c - 1 /\ s[i] = ms[i]
    BY <1>0, <1>1, <1>2, <1>3
  <2>1. i + ms[i].n <= c - 1 /\ ms[i].n \in Nat
    BY <1>0, <1>4, <1>5, <2>0
  <2>2. \A k \in 1 .. ms[i].n : Answers(ms[i + k], ms[i], k)
    BY <1>0, <1>5, <2>0 DEF IsTranscript
  <2>3. ASSUME NEW k \in 1 .. ms[i].n PROVE s[i + k] = ms[i + k]
    <3>1. i + k \in 1 .. c - 1
      BY <2>0, <2>1, <1>1
    <3> QED
      BY <3>1, <1>2
  <2> QED
    BY <2>0, <2>1, <2>2, <2>3, <1>2
<1>6. ASSUME NEW i \in DOMAIN s, IsResult(s[i])
      PROVE  /\ i > s[i].n
             /\ s[i - s[i].n].kind = "calls"
             /\ s[i].n <= s[i - s[i].n].n
             /\ Answers(s[i], s[i - s[i].n], s[i].n)
  <2>0. i \in 1 .. Len(ms) /\ i \in 1 .. c - 1 /\ s[i] = ms[i] /\ ms[i].n \in Nat
    BY <1>0, <1>1, <1>2, <1>3
  <2>1. /\ i > ms[i].n /\ ms[i - ms[i].n].kind = "calls" /\ ms[i].n <= ms[i - ms[i].n].n
        /\ Answers(ms[i], ms[i - ms[i].n], ms[i].n)
    BY <1>0, <1>6, <2>0 DEF IsTranscript
  <2>2. i - ms[i].n \in 1 .. c - 1
    BY <2>0, <2>1, <1>1
  <2>3. s[i - ms[i].n] = ms[i - ms[i].n]
    BY <2>2, <1>2
  <2> QED
    BY <2>0, <2>1, <2>3
<1>7. IsTranscript(s)
  BY <1>5, <1>6 DEF IsTranscript
<1> QED
  BY <1>2, <1>7 DEF s

\* So is what stands behind it.
LEMMA SuffixIsTranscript ==
  ASSUME NEW ms \in Seq(Message), IsTranscript(ms), NEW c, Cut(ms, c)
  PROVE  SubSeq(ms, c, Len(ms)) \in Seq(Message) /\ IsTranscript(SubSeq(ms, c, Len(ms)))
<1>0. /\ Len(ms) \in Nat /\ DOMAIN ms = 1 .. Len(ms)
      /\ \A i \in 1 .. Len(ms) : ms[i] \in Message /\ ms[i].n \in Nat
  BY Conversation
<1>1. c \in 1 .. Len(ms) + 1
  BY DEF Cut
<1> DEFINE s == SubSeq(ms, c, Len(ms))
           d == c - 1
<1>9. d \in Nat /\ c = d + 1
  BY <1>1
<1>2. s \in Seq(Message) /\ Len(s) = Len(ms) - d /\ \A i \in 1 .. Len(ms) - d : s[i] = ms[d + i]
  <2>1. c \in Int /\ Len(ms) \in Int /\ \A i \in c .. Len(ms) : ms[i] \in Message
    BY <1>0, <1>1
  <2>2. s \in Seq(Message) /\ Len(s) = IF c <= Len(ms) THEN Len(ms) - c + 1 ELSE 0
    BY <2>1, SubSeqProperties
  <2>3. \A i \in 1 .. Len(ms) - c + 1 : s[i] = ms[c + i - 1]
    BY <2>1, SubSeqProperties
  <2>5. Len(s) = Len(ms) - d
    BY <2>2, <1>0, <1>1
  <2> HIDE DEF s
  <2>6. ASSUME NEW i \in 1 .. Len(ms) - d PROVE s[i] = ms[d + i]
    <3>1. i \in 1 .. Len(ms) - c + 1 /\ c + i - 1 = d + i
      BY <1>0, <1>1
    <3> QED
      BY <3>1, <2>3
  <2> QED
    BY <2>2, <2>5, <2>6
<1> HIDE DEF s, d
<1>3. DOMAIN s = 1 .. Len(ms) - d /\ Len(ms) - d \in Nat
  BY <1>0, <1>1, <1>9, <1>2, Conversation
<1>5. ASSUME NEW i \in DOMAIN s, s[i].kind = "calls"
      PROVE  /\ i + s[i].n <= Len(s)
             /\ \A k \in 1 .. s[i].n : Answers(s[i + k], s[i], k)
  <2> DEFINE j == d + i
  <2>0. j \in 1 .. Len(ms) /\ s[i] = ms[j] /\ ms[j].n \in Nat
    BY <1>0, <1>9, <1>2, <1>3
  <2>2. j + ms[j].n <= Len(ms) /\ \A k \in 1 .. ms[j].n : Answers(ms[j + k], ms[j], k)
    BY <1>0, <1>5, <2>0 DEF IsTranscript
  <2>3. ASSUME NEW k \in 1 .. ms[j].n PROVE s[i + k] = ms[j + k]
    <3>1. i + k \in 1 .. Len(ms) - d /\ d + (i + k) = j + k
      BY <2>0, <2>2, <1>0, <1>3, <1>9
    <3>2. s[i + k] = ms[d + (i + k)]
      BY <3>1, <1>2
    <3> QED
      BY <3>1, <3>2
  <2>4. i + ms[j].n <= Len(s)
    BY <2>0, <2>2, <1>0, <1>2, <1>3, <1>9
  <2> QED
    BY <2>0, <2>2, <2>3, <2>4
<1>6. ASSUME NEW i \in DOMAIN s, IsResult(s[i])
      PROVE  /\ i > s[i].n
             /\ s[i - s[i].n].kind = "calls"
             /\ s[i].n <= s[i - s[i].n].n
             /\ Answers(s[i], s[i - s[i].n], s[i].n)
  <2> DEFINE j == d + i
             n == ms[j].n
  <2>0. j \in 1 .. Len(ms) /\ s[i] = ms[j] /\ n \in Nat
    BY <1>0, <1>9, <1>2, <1>3
  <2>1. j > n /\ ms[j - n].kind = "calls" /\ n <= ms[j - n].n /\ Answers(ms[j], ms[j - n], n)
    BY <1>0, <1>6, <2>0 DEF IsTranscript
  <2>4. /\ j - n \in 1 .. Len(ms) /\ ms[j - n].n \in Nat
        /\ \A k \in 1 .. ms[j - n].n : IsResult(ms[j - n + k])
    BY <1>6, <2>0, <1>0, BeforeAnswer
  <2>5. i > n
    <3> SUFFICES ASSUME i <= n PROVE FALSE
      BY <2>0, <1>3
    <3>1. c - (j - n) \in 1 .. ms[j - n].n /\ j - n + (c - (j - n)) = c /\ c <= Len(ms)
      <4>1. i \in Nat /\ i >= 1 /\ j = d + i /\ n \in Nat /\ j \in Nat /\ j <= Len(ms) /\ n <= ms[j - n].n /\ ms[j - n].n \in Nat
        BY <2>0, <2>1, <2>4, <1>3
      <4> HIDE DEF j, n
      <4>2. c - (j - n) = n - i + 1 /\ j - n + (c - (j - n)) = c
        BY <4>1, <1>9
      <4>3. n - i + 1 \in 1 .. ms[j - n].n
        BY <4>1
      <4>4. c <= Len(ms)
        BY <4>1, <1>9, <1>0
      <4> QED
        BY <4>2, <4>3, <4>4
    <3>2. IsResult(ms[c])
      BY <3>1, <2>4
    <3> QED
      BY <3>1, <3>2 DEF Cut
  <2>2. i - n \in 1 .. Len(ms) - d /\ d + (i - n) = j - n
    BY <2>0, <2>5, <1>3, <1>9
  <2>3. s[i - n] = ms[j - n]
    <3>1. s[i - n] = ms[d + (i - n)]
      BY <2>2, <1>2
    <3> QED
      BY <3>1, <2>2
  <2> QED
    BY <2>0, <2>1, <2>3, <2>5
<1>7. IsTranscript(s)
  BY <1>5, <1>6 DEF IsTranscript
<1> QED
  BY <1>2, <1>7 DEF s

(***************************************************************************)
(* A compaction replaces whole groups.                                     *)
(***************************************************************************)
LEMMA OneMessage ==
  ASSUME NEW m \in Message
  PROVE  <<m>> \in Seq(Message) /\ Len(<<m>>) = 1 /\ <<m>>[1] = m
OBVIOUS

\* What a compaction makes of a conversation, message by message.
LEMMA ReplacedParts ==
  ASSUME NEW ms \in Seq(Message), NEW m \in Message,
         NEW from \in Nat \ {0}, NEW to \in Nat, from <= to, to <= Len(ms)
  PROVE  /\ SubSeq(ms, 1, from - 1) \in Seq(Message)
         /\ SubSeq(ms, to + 1, Len(ms)) \in Seq(Message)
         /\ Replaced(ms, from, to, m) \in Seq(Message)
         /\ from <= Len(Replaced(ms, from, to, m))
         /\ \A i \in 1 .. from - 1 : Replaced(ms, from, to, m)[i] = ms[i]
<1>0. Len(ms) \in Nat /\ \A i \in 1 .. Len(ms) : ms[i] \in Message
  BY Conversation
<1> DEFINE a == SubSeq(ms, 1, from - 1)
           b == SubSeq(ms, to + 1, Len(ms))
<1>1. a \in Seq(Message) /\ Len(a) = from - 1 /\ \A i \in 1 .. from - 1 : a[i] = ms[i]
  <2>1. \A i \in 1 .. from - 1 : ms[i] \in Message
    BY <1>0
  <2>2. 1 \in Int /\ from - 1 \in Int /\ (1 <= from - 1 => from - 1 - 1 + 1 = from - 1)
        /\ (~(1 <= from - 1) => from - 1 = 0)
    OBVIOUS
  <2>3. /\ a \in Seq(Message)
        /\ Len(a) = IF 1 <= from - 1 THEN from - 1 - 1 + 1 ELSE 0
        /\ \A i \in 1 .. from - 1 - 1 + 1 : a[i] = ms[1 + i - 1]
    BY <2>1, <2>2, SubSeqProperties
  <2>4. ASSUME NEW i \in 1 .. from - 1 PROVE a[i] = ms[i]
    <3>1. i \in 1 .. from - 1 - 1 + 1 /\ 1 + i - 1 = i
      OBVIOUS
    <3> QED
      BY <2>3, <3>1
  <2> QED
    BY <2>2, <2>3, <2>4
<1>2. b \in Seq(Message)
  <2>1. \A i \in to + 1 .. Len(ms) : ms[i] \in Message
    BY <1>0
  <2>2. to + 1 \in Int /\ Len(ms) \in Int
    BY <1>0
  <2> QED
    BY <2>1, <2>2, SubSeqProperties
<1> HIDE DEF a, b
<1>3. <<m>> \in Seq(Message) /\ Len(<<m>>) = 1
  BY OneMessage
<1>4. /\ a \o <<m>> \in Seq(Message) /\ Len(a \o <<m>>) = from
      /\ \A i \in 1 .. from - 1 : (a \o <<m>>)[i] = ms[i]
  <2>1. /\ a \o <<m>> \in Seq(Message) /\ Len(a \o <<m>>) = Len(a) + Len(<<m>>)
        /\ \A i \in 1 .. Len(a) : (a \o <<m>>)[i] = a[i]
    BY <1>1, <1>3, Both
  <2> QED
    BY <2>1, <1>1, <1>3
<1> DEFINE c == a \o <<m>>
<1>5. c \in Seq(Message) /\ Len(c) = from /\ \A i \in 1 .. from - 1 : c[i] = ms[i]
  BY <1>4
<1> HIDE DEF c
<1>6. /\ c \o b \in Seq(Message) /\ Len(c \o b) = from + Len(b) /\ Len(b) \in Nat
      /\ \A i \in 1 .. from : (c \o b)[i] = c[i]
  BY <1>2, <1>5, Both
<1>7. from <= Len(c \o b) /\ \A i \in 1 .. from - 1 : (c \o b)[i] = ms[i]
  BY <1>5, <1>6
<1>8. Replaced(ms, from, to, m) = c \o b
  BY DEF Replaced, a, b, c
<1> QED
  BY <1>1, <1>2, <1>6, <1>7, <1>8 DEF a, b

LEMMA ReplacedIsTranscript ==
  ASSUME NEW ms \in Seq(Message), IsTranscript(ms), NEW m \in Message, Plain(m),
         NEW from, NEW to, Cut(ms, from), Cut(ms, to + 1)
  PROVE  IsTranscript(Replaced(ms, from, to, m))
<1> DEFINE a == SubSeq(ms, 1, from - 1)
           b == SubSeq(ms, to + 1, Len(ms))
<1>1. a \in Seq(Message) /\ IsTranscript(a)
  BY PrefixIsTranscript
<1>2. b \in Seq(Message) /\ IsTranscript(b)
  BY SuffixIsTranscript
<1>3. <<m>> \in Seq(Message) /\ IsTranscript(<<m>>)
  <2>1. <<m>> \in Seq(Message) /\ Len(<<m>>) = 1 /\ <<m>>[1] = m
    BY OneMessage
  <2>2. \A i \in 1 .. Len(<<m>>) : Plain(<<m>>[i])
    BY <2>1
  <2> QED
    BY <2>1, <2>2, PlainIsTranscript
<1> HIDE DEF a, b
<1> DEFINE c == a \o <<m>>
<1>4. c \in Seq(Message) /\ IsTranscript(c)
  BY <1>1, <1>3, Both, TranscriptsJoin
<1> HIDE DEF c
<1>5. IsTranscript(c \o b)
  BY <1>2, <1>4, TranscriptsJoin
<1> QED
  BY <1>5 DEF Replaced, a, b, c

LEMMA SubSeqAt ==
  ASSUME NEW s, NEW from \in Nat, NEW to \in Nat, NEW i \in from .. to,
         \A k \in from .. to : s[k] \in Message
  PROVE  SubSeq(s, from, to)[i - from + 1] = s[i]
<1>1. from \in Int /\ to \in Int
  OBVIOUS
<1>2. \A k \in 1 .. to - from + 1 : SubSeq(s, from, to)[k] = s[from + k - 1]
  BY <1>1, SubSeqProperties
<1>3. i - from + 1 \in 1 .. to - from + 1 /\ from + (i - from + 1) - 1 = i
  OBVIOUS
<1> QED
  BY <1>2, <1>3

\* Where two transcripts agree on a region, what is a cut around it in one is
\* a cut in the other.
LEMMA CutsAgree ==
  ASSUME NEW ms \in Seq(Message), NEW sf \in Seq(Message), IsTranscript(ms), IsTranscript(sf),
         NEW from \in Nat \ {0}, NEW to \in Nat, from <= to, to <= Len(ms), to <= Len(sf),
         SubSeq(ms, from, to) = SubSeq(sf, from, to),
         Cut(ms, from), Cut(ms, to + 1)
  PROVE  Cut(sf, from) /\ Cut(sf, to + 1)
<1>0. /\ Len(ms) \in Nat /\ Len(sf) \in Nat
      /\ \A i \in 1 .. Len(ms) : ms[i] \in Message /\ ms[i].n \in Nat
      /\ \A i \in 1 .. Len(sf) : sf[i] \in Message
  BY Conversation
<1>1. ASSUME NEW i \in from .. to PROVE ms[i] = sf[i]
  <2>1. /\ \A k \in from .. to : ms[k] \in Message
        /\ \A k \in from .. to : sf[k] \in Message
    BY <1>0
  <2>2. SubSeq(ms, from, to)[i - from + 1] = ms[i]
    BY <2>1, SubSeqAt
  <2>3. SubSeq(sf, from, to)[i - from + 1] = sf[i]
    BY <2>1, SubSeqAt
  <2> QED
    BY <2>2, <2>3
<1>2. from \in 1 .. Len(ms) /\ to \in 1 .. Len(ms) /\ from \in 1 .. Len(sf) /\ to \in 1 .. Len(sf)
      /\ from \in from .. to /\ to \in from .. to
  BY <1>0
<1>3. ~IsResult(ms[from])
  BY <1>2 DEF Cut
<1>4. Cut(sf, from)
  BY <1>0, <1>1, <1>2, <1>3 DEF Cut
<1>5. ASSUME to + 1 \in 1 .. Len(ms), IsResult(ms[to + 1]) PROVE FALSE
  BY <1>5, <1>0 DEF Cut
<1>6. ASSUME to + 1 <= Len(sf), IsResult(sf[to + 1]) PROVE FALSE
  <2>1. to + 1 \in 1 .. Len(sf)
    BY <1>6, <1>0
  <2>2. CASE sf[to].kind = "calls" /\ sf[to].n > 0
    <3>1. ms[to].kind = "calls" /\ ms[to].n > 0 /\ ms[to].n \in Nat
      BY <2>2, <1>0, <1>1, <1>2
    <3>2. 1 \in 1 .. ms[to].n
      BY <3>1
    <3>3. to + 1 \in 1 .. Len(ms) /\ IsResult(ms[to + 1])
      BY <3>1, <3>2, <1>2, Group
    <3> QED
      BY <3>3, <1>5
  <2>3. CASE IsResult(sf[to]) /\ sf[to].n < sf[to - sf[to].n].n
    <3> DEFINE n == ms[to].n
               j == to - n
    <3>1. sf[to] = ms[to] /\ IsResult(ms[to])
      BY <2>3, <1>1, <1>2
    <3>2. /\ n \in Nat \ {0} /\ j \in 1 .. Len(ms) /\ n <= ms[j].n /\ ms[j].n \in Nat
          /\ \A k \in 1 .. ms[j].n : j + k \in 1 .. Len(ms) /\ IsResult(ms[j + k])
      BY <3>1, <1>0, <1>2, BeforeAnswer
    <3>3. j + n = to
      BY <3>2
    <3> HIDE DEF n, j
    <3>4. from <= j
      <4> SUFFICES ASSUME ~(from <= j) PROVE FALSE
        OBVIOUS
      <4>0. j \in Nat /\ j < from /\ from <= j + n /\ n \in Nat /\ n <= ms[j].n /\ ms[j].n \in Nat
        BY <1>0, <3>2, <3>3
      <4>1. PICK k \in Nat : from = j + k
        <5>1. from - j \in Nat /\ from = j + (from - j)
          BY <4>0
        <5> QED
          BY <5>1
      <4>2. k \in 1 .. ms[j].n
        BY <4>0, <4>1
      <4>3. IsResult(ms[from])
        BY <3>2, <4>1, <4>2
      <4> QED
        BY <4>3, <1>3
    <3>5. sf[j] = ms[j]
      BY <3>2, <3>3, <3>4, <1>1
    <3>6. n < ms[j].n
      BY <2>3, <3>1, <3>5 DEF n, j
    <3>7. n + 1 \in 1 .. ms[j].n /\ j + (n + 1) = to + 1
      BY <3>2, <3>3, <3>6
    <3>8. to + 1 \in 1 .. Len(ms) /\ IsResult(ms[to + 1])
      BY <3>2, <3>7
    <3> QED
      BY <3>8, <1>5
  <2> QED
    BY <2>1, <2>2, <2>3, <1>2, <1>6, NoAnswerFollows
<1>7. Cut(sf, to + 1)
  BY <1>0, <1>6 DEF Cut
<1> QED
  BY <1>4, <1>7

(***************************************************************************)
(* The regions a compaction may choose.                                    *)
(***************************************************************************)
LEMMA HeadEndType ==
  ASSUME NEW ms \in Seq(Message), NEW sf \in Seq(Message)
  PROVE  HeadEnd(ms, sf) \in 1 .. Len(ms) + 1
<1>0. Len(ms) \in Nat /\ DOMAIN ms = 1 .. Len(ms)
  BY Conversation
<1> DEFINE S == {i \in DOMAIN ms : ms[i].kind \notin UserKind}
                \cup {i + 1 : i \in {j \in DOMAIN ms : \/ j > Len(sf)
                                                       \/ sf[j].kind \notin EnvKind}}
                \cup {Len(ms) + 1}
<1>1. S \subseteq 1 .. Len(ms) + 1 /\ S # {}
  BY <1>0
<1>2. HeadEnd(ms, sf) = Min(S)
  BY DEF HeadEnd
<1> HIDE DEF S
<1>3. S \in SUBSET Nat
  BY <1>0, <1>1
<1>4. Min(S) \in S
  BY <1>1, <1>3, MinIsLeast
<1> QED
  BY <1>1, <1>2, <1>4

LEMMA SnapForwardType ==
  ASSUME NEW ms \in Seq(Message), NEW h \in 1 .. Len(ms) + 1
  PROVE  LET s == SnapForward(BalancePrefix(ms), h) IN
         /\ s \in h .. Len(ms) + 1
         /\ IsTranscript(ms) => BalancePrefix(ms)[s] = 0
<1> DEFINE b == BalancePrefix(ms)
           cuts == {j \in DOMAIN b : j >= h /\ b[j] = 0}
<1>0. Len(ms) \in Nat
  BY Conversation
<1>1. DOMAIN b = 1 .. Len(ms) + 1
  BY BalanceIsThat DEF BalancesTo
<1>2. IsTranscript(ms) => b[Len(ms) + 1] = 0
  BY BalancedIsCut
<1>3. SnapForward(b, h) = IF cuts = {} THEN h ELSE Min(cuts)
  BY DEF SnapForward
<1> HIDE DEF b
<1>4. IsTranscript(ms) => cuts # {}
  <2>1. IsTranscript(ms) => Len(ms) + 1 \in cuts
    BY <1>0, <1>1, <1>2
  <2> QED
    BY <2>1
<1>5. cuts # {} => Min(cuts) \in cuts
  <2>1. cuts \in SUBSET Nat
    BY <1>0, <1>1
  <2> HIDE DEF cuts
  <2> QED
    BY <2>1, MinIsLeast
<1>6. cuts # {} => Min(cuts) \in h .. Len(ms) + 1 /\ b[Min(cuts)] = 0
  BY <1>0, <1>1, <1>5
<1> HIDE DEF cuts
<1>7. CASE cuts = {}
  <2>1. h \in h .. Len(ms) + 1
    BY <1>0
  <2> QED
    BY <1>3, <1>4, <1>7, <2>1 DEF b
<1>8. CASE cuts # {}
  BY <1>3, <1>6, <1>8 DEF b
<1> QED
  BY <1>7, <1>8

LEMMA PairingCutType ==
  ASSUME NEW ms \in Seq(Message), NEW h \in 1 .. Len(ms) + 1, NEW t \in h .. Len(ms) + 1
  PROVE  LET c == PairingCut(h, t, BalancePrefix(ms)) IN
         /\ c \in h .. Len(ms) + 1
         /\ IsTranscript(ms) => BalancePrefix(ms)[c] = 0
<1> DEFINE b == BalancePrefix(ms)
           cuts == {i \in DOMAIN b : b[i] = 0}
           back == {i \in cuts : h < i /\ i <= t}
           fwd == {i \in cuts : i >= t} \cup {Max(DOMAIN b)}
<1>0. Len(ms) \in Nat
  BY Conversation
<1>1. DOMAIN b = 1 .. Len(ms) + 1
  BY BalanceIsThat DEF BalancesTo
<1>2. IsTranscript(ms) => b[Len(ms) + 1] = 0
  BY BalancedIsCut
<1>3. PairingCut(h, t, b) = IF b[t] = 0 THEN t ELSE IF back # {} THEN Max(back) ELSE Min(fwd)
  BY DEF PairingCut
<1> HIDE DEF b
<1>4. Max(DOMAIN b) = Len(ms) + 1
  <2>1. DOMAIN b \in SUBSET (0 .. Len(ms) + 1) /\ Len(ms) + 1 \in DOMAIN b /\ Len(ms) + 1 \in Nat
    BY <1>0, <1>1
  <2>2. Max(DOMAIN b) \in DOMAIN b /\ \A k \in DOMAIN b : Max(DOMAIN b) >= k
    <3>1. DOMAIN b # {}
      BY <2>1
    <3> QED
      BY <2>1, <3>1, MaxIsGreatest
  <2> QED
    BY <1>0, <1>1, <2>1, <2>2
<1>5. back # {} => Max(back) \in h .. Len(ms) + 1 /\ b[Max(back)] = 0
  <2>1. back \in SUBSET (0 .. Len(ms) + 1)
    BY <1>0, <1>1
  <2>2. back # {} => Max(back) \in back
    <3>1. Len(ms) + 1 \in Nat
      BY <1>0
    <3> HIDE DEF back
    <3> QED
      BY <2>1, <3>1, MaxIsGreatest
  <2> QED
    BY <1>0, <1>1, <2>2
<1>6. Min(fwd) \in h .. Len(ms) + 1 /\ (IsTranscript(ms) => b[Min(fwd)] = 0)
  <2>1. fwd \in SUBSET Nat /\ fwd # {}
    BY <1>0, <1>1, <1>4
  <2>2. Min(fwd) \in fwd
    <3> HIDE DEF fwd
    <3> QED
      BY <2>1, MinIsLeast
  <2> QED
    BY <1>0, <1>1, <1>2, <1>4, <2>2
<1> HIDE DEF back, fwd
<1>7. t \in h .. Len(ms) + 1
  OBVIOUS
<1> QED
  BY <1>3, <1>5, <1>6, <1>7 DEF b

LEMMA RegionsAreWhole ==
  ASSUME NEW ms \in Seq(Message), NEW sf \in Seq(Message), NEW r \in Regions(ms, sf)
  PROVE  /\ r.from \in Nat \ {0} /\ r.to \in Nat /\ r.from <= r.to /\ r.to <= Len(ms)
         /\ HeadEnd(ms, sf) <= r.from
         /\ IsTranscript(ms) => Cut(ms, r.from) /\ Cut(ms, r.to + 1)
<1> DEFINE b == BalancePrefix(ms)
           head == SnapForward(b, HeadEnd(ms, sf))
<1>0. Len(ms) \in Nat
  BY Conversation
<1>1. HeadEnd(ms, sf) \in 1 .. Len(ms) + 1
  BY HeadEndType
<1>2. head \in HeadEnd(ms, sf) .. Len(ms) + 1 /\ (IsTranscript(ms) => b[head] = 0)
  BY <1>1, SnapForwardType
<1>3. PICK t \in TailTargets(ms, head) :
         r = [from |-> head, to |-> PairingCut(head, t, b) - 1] /\ r.from <= r.to
  BY DEF Regions
<1> HIDE DEF b
<1>4. t \in head .. Len(ms) + 1 /\ head \in 1 .. Len(ms) + 1
  <2> HIDE DEF head
  <2> QED
    BY <1>0, <1>1, <1>2 DEF TailTargets
<1> DEFINE c == PairingCut(head, t, b)
<1>5. c \in head .. Len(ms) + 1 /\ (IsTranscript(ms) => b[c] = 0)
  <2> HIDE DEF head
  <2> QED
    BY <1>4, PairingCutType DEF b
<1> HIDE DEF head, c
<1>6. r.from = head /\ r.to = c - 1 /\ head <= c - 1
  BY <1>3 DEF c
<1>7. c \in 1 .. Len(ms) + 1 /\ c - 1 + 1 = c
  BY <1>0, <1>4, <1>5
<1>8. IsTranscript(ms) => Cut(ms, head) /\ Cut(ms, c)
  BY <1>2, <1>4, <1>5, <1>7, BalancedIsCut DEF b
<1> QED
  BY <1>0, <1>1, <1>2, <1>4, <1>5, <1>6, <1>7, <1>8

\* The prompt the conversation began with stands behind injections only.
AnchoredAt(ms, p) ==
  /\ p \in 1 .. Len(ms)
  /\ ms[p].kind = "human" /\ ms[p].turn = 1
  /\ \A i \in 1 .. p - 1 : ms[i].kind \in EnvKind

LEMMA HeadKeepsAnchor ==
  ASSUME NEW ms \in Seq(Message), NEW sf \in Seq(Message), NEW p,
         AnchoredAt(ms, p), AnchoredAt(sf, p)
  PROVE  p < HeadEnd(ms, sf)
<1>0. Len(ms) \in Nat /\ DOMAIN ms = 1 .. Len(ms) /\ Len(sf) \in Nat
  BY Conversation
<1> DEFINE S == {i \in DOMAIN ms : ms[i].kind \notin UserKind}
                \cup {i + 1 : i \in {j \in DOMAIN ms : \/ j > Len(sf)
                                                       \/ sf[j].kind \notin EnvKind}}
                \cup {Len(ms) + 1}
<1>1. HeadEnd(ms, sf) = Min(S)
  BY DEF HeadEnd
<1>2. S \in SUBSET Nat /\ S # {}
  BY <1>0
<1>3. ASSUME NEW i \in 1 .. Len(ms), ms[i].kind \notin UserKind PROVE p < i
  BY <1>3, <1>0 DEF AnchoredAt, UserKind, EnvKind
<1>4. ASSUME NEW i \in 1 .. Len(ms), i > Len(sf) \/ sf[i].kind \notin EnvKind PROVE p <= i
  BY <1>4, <1>0 DEF AnchoredAt
<1>5. \A k \in S : p < k
  <2> SUFFICES ASSUME NEW k \in S PROVE p < k
    OBVIOUS
  <2>0. p \in Nat /\ p <= Len(ms)
    BY <1>0 DEF AnchoredAt
  <2>1. CASE k \in {i \in DOMAIN ms : ms[i].kind \notin UserKind}
    BY <2>1, <1>0, <1>3
  <2>2. ASSUME NEW i \in 1 .. Len(ms), i > Len(sf) \/ sf[i].kind \notin EnvKind, k = i + 1
        PROVE  p < k
    <3>1. p <= i
      BY <2>2, <1>4
    <3> QED
      BY <2>2, <3>1, <2>0
  <2>3. CASE k = Len(ms) + 1
    BY <2>3, <2>0, <1>0
  <2> QED
    BY <2>1, <2>2, <2>3, <1>0
<1> HIDE DEF S
<1>6. Min(S) \in S
  BY <1>2, MinIsLeast
<1> QED
  BY <1>1, <1>5, <1>6

(***************************************************************************)
(* The messages of a turn.                                                 *)
(***************************************************************************)
MessageKinds == {"env", "marker", "human", "recall", "note", "summary", "reply"}

LEMMA SaidIsMessage ==
  ASSUME NEW kind \in MessageKinds, NEW t \in Nat
  PROVE  Msg(kind, t) \in Message /\ Plain(Msg(kind, t)) /\ Msg(kind, t).kind = kind /\ Msg(kind, t).turn = t
BY DEF Msg, Message, Kind, UserKind, Plain, MessageKinds

LEMMA AskedIsMessage ==
  ASSUME turn \in Nat, step \in Nat, NEW n \in Nat
  PROVE  Calls(n) \in Message /\ Result(n) \in Message
BY DEF Calls, Result, Message, Kind, UserKind

\* Plain messages, one after the other.
PlainOnes == {ms \in Seq(Message) : \A i \in 1 .. Len(ms) : Plain(ms[i])}

LEMMA PlainNone == <<>> \in PlainOnes
BY EmptySeq DEF PlainOnes

LEMMA PlainOne ==
  ASSUME NEW kind \in MessageKinds, NEW t \in Nat
  PROVE  /\ <<Msg(kind, t)>> \in PlainOnes
         /\ \A wanted \in BOOLEAN : Maybe(wanted, kind, t) \in PlainOnes
<1>1. <<Msg(kind, t)>> \in PlainOnes
  BY SaidIsMessage, OneMessage DEF PlainOnes
<1> QED
  BY <1>1, PlainNone DEF Maybe

LEMMA PlainBoth ==
  ASSUME NEW a \in PlainOnes, NEW b \in PlainOnes
  PROVE  a \o b \in PlainOnes
<1>1. /\ a \o b \in Seq(Message) /\ Len(a \o b) = Len(a) + Len(b)
      /\ \A i \in 1 .. Len(a) : (a \o b)[i] = a[i]
      /\ \A i \in 1 .. Len(b) : (a \o b)[Len(a) + i] = b[i]
      /\ Len(a) \in Nat /\ Len(b) \in Nat
  BY Both DEF PlainOnes
<1>2. ASSUME NEW i \in 1 .. Len(a) + Len(b) PROVE Plain((a \o b)[i])
  <2>1. CASE i <= Len(a)
    BY <2>1, <1>1 DEF PlainOnes
  <2>2. CASE ~(i <= Len(a))
    <3> DEFINE j == i - Len(a)
    <3>1. j \in 1 .. Len(b) /\ Len(a) + j = i
      BY <2>2, <1>1
    <3> HIDE DEF j
    <3>2. (a \o b)[Len(a) + j] = b[j]
      BY <3>1, <1>1
    <3> QED
      BY <3>1, <3>2 DEF PlainOnes
  <2> QED
    BY <2>1, <2>2
<1> QED
  BY <1>1, <1>2 DEF PlainOnes

LEMMA PlainJoins ==
  ASSUME NEW ms \in Seq(Message), NEW said \in PlainOnes
  PROVE  ms \o said \in Seq(Message) /\ (IsTranscript(ms) => IsTranscript(ms \o said))
<1>1. said \in Seq(Message) /\ IsTranscript(said)
  BY PlainIsTranscript DEF PlainOnes
<1> QED
  BY <1>1, Both, TranscriptsJoin

\* The calls of a message and the answer to each of them.
ResultsOf(n) == [i \in 1 .. n |-> Result(i)]

LEMMA GroupIsTranscript ==
  ASSUME turn \in Nat, step \in Nat, NEW n \in Nat
  PROVE  /\ ResultsOf(n) \in Seq(Message) /\ Len(ResultsOf(n)) = n
         /\ <<Calls(n)>> \in Seq(Message)
         /\ IsTranscript(<<Calls(n)>> \o ResultsOf(n))
<1> DEFINE r == ResultsOf(n)
           s == <<Calls(n)>> \o r
<1>1. r \in [1 .. n -> Message] /\ \A i \in 1 .. n : r[i] = Result(i)
  BY AskedIsMessage DEF ResultsOf
<1>2. r \in Seq(Message) /\ Len(r) = n
  BY <1>1
<1>3. <<Calls(n)>> \in Seq(Message) /\ Len(<<Calls(n)>>) = 1 /\ <<Calls(n)>>[1] = Calls(n)
  BY AskedIsMessage, OneMessage
<1> HIDE DEF r
<1>4. /\ s \in Seq(Message) /\ Len(s) = 1 + n
      /\ s[1] = Calls(n) /\ \A i \in 1 .. n : s[1 + i] = Result(i)
  <2>1. /\ s \in Seq(Message) /\ Len(s) = Len(<<Calls(n)>>) + Len(r)
        /\ \A i \in 1 .. Len(<<Calls(n)>>) : s[i] = <<Calls(n)>>[i]
        /\ \A i \in 1 .. Len(r) : s[Len(<<Calls(n)>>) + i] = r[i]
    BY <1>2, <1>3, Both
  <2> HIDE DEF s
  <2> QED
    BY <1>1, <1>2, <1>3, <2>1
<1> HIDE DEF s
<1>5. DOMAIN s = 1 .. 1 + n
  BY <1>4, Conversation
<1>6. ASSUME NEW i \in DOMAIN s, i # 1
      PROVE  i - 1 \in 1 .. n /\ s[i] = Result(i - 1) /\ s[i].n = i - 1 /\ i - s[i].n = 1
  <2>1. i - 1 \in 1 .. n /\ 1 + (i - 1) = i
    BY <1>5, <1>6
  <2>2. s[i] = Result(i - 1)
    BY <2>1, <1>4
  <2> QED
    BY <2>1, <2>2 DEF Result
<1>7. Calls(n).kind = "calls" /\ Calls(n).n = n /\ \A k \in 1 .. n : Answers(Result(k), Calls(n), k)
  BY DEF Calls, Result, Answers, IsResult
<1>8. ASSUME NEW i \in DOMAIN s, s[i].kind = "calls"
      PROVE  i + s[i].n <= Len(s) /\ \A k \in 1 .. s[i].n : Answers(s[i + k], s[i], k)
  <2>1. i = 1
    BY <1>6, <1>8 DEF Result
  <2> QED
    BY <2>1, <1>4, <1>7
<1>9. ASSUME NEW i \in DOMAIN s, IsResult(s[i])
      PROVE  /\ i > s[i].n
             /\ s[i - s[i].n].kind = "calls"
             /\ s[i].n <= s[i - s[i].n].n
             /\ Answers(s[i], s[i - s[i].n], s[i].n)
  <2>1. i # 1
    BY <1>4, <1>7, <1>9 DEF IsResult
  <2>2. i - 1 \in 1 .. n /\ s[i] = Result(i - 1) /\ s[i].n = i - 1 /\ i - s[i].n = 1
    BY <2>1, <1>6
  <2>3. s[i - s[i].n] = Calls(n)
    BY <2>2, <1>4
  <2> QED
    BY <2>2, <2>3, <1>5, <1>7
<1>10. IsTranscript(s)
  BY <1>8, <1>9 DEF IsTranscript
<1> QED
  BY <1>2, <1>3, <1>10 DEF r, s

(***************************************************************************)
(* What _close_orphaned_tools appends: nothing when every call is logged,  *)
(* an answer to each when none is.                                         *)
(***************************************************************************)
CallType == [status : Status, logged : BOOLEAN]

LEMMA ClosersNone ==
  ASSUME calls \in Seq(CallType), \A i \in DOMAIN calls : calls[i].logged
  PROVE  Closers = <<>>
<1>1. Unanswered = {}
  BY DEF Unanswered
<1>2. Cardinality(Unanswered) = 0
  BY <1>1, FS_EmptySet
<1>3. 1 .. Cardinality(Unanswered) = {}
  BY <1>2
<1> QED
  BY <1>3 DEF Closers

LEMMA ClosersAll ==
  ASSUME calls \in Seq(CallType), \A i \in DOMAIN calls : ~calls[i].logged
  PROVE  Closers = ResultsOf(Len(calls))
<1> DEFINE N == Len(calls)
<1>0. N \in Nat /\ DOMAIN calls = 1 .. N
  BY LenProperties
<1>1. Unanswered = 1 .. N
  BY <1>0 DEF Unanswered
<1>2. Cardinality(Unanswered) = N
  BY <1>0, <1>1, FS_Interval
<1> HIDE DEF N
<1>3. ASSUME NEW i \in 1 .. N PROVE Cardinality({j \in 1 .. N : j <= i}) = i
  <2>1. {j \in 1 .. N : j <= i} = 1 .. i
    BY <1>0
  <2>2. Cardinality(1 .. i) = i
    BY <1>0, FS_Interval
  <2> QED
    BY <2>1, <2>2
<1>4. ASSUME NEW k \in 1 .. N PROVE Nth(1 .. N, k) = k
  BY <1>3 DEF Nth
<1>5. \A k \in 1 .. N : Result(Nth(Unanswered, k)) = Result(k)
  BY <1>1, <1>4
<1>6. Closers = [k \in 1 .. N |-> Result(k)]
  BY <1>2, <1>5 DEF Closers
<1> QED
  BY <1>6 DEF ResultsOf, N

(***************************************************************************)
(* The inductive invariant.  Between two requests both lists are           *)
(* transcripts; while calls are answered both end with those calls, none   *)
(* of them logged; the summarizer's region was cut between groups, behind  *)
(* the first prompt.                                                       *)
(***************************************************************************)
Settled == {"top", "measure", "summarizing", "model", "stop"}
Asking  == {"approve", "tools"}

HistoryTypes ==
  /\ pc \in {"idle"} \cup Settled \cup Asking
  /\ turn \in Nat /\ step \in Nat
  /\ messages \in Seq(Message) /\ surface \in Seq(Message)
  /\ calls \in Seq(CallType)
  /\ plan \in [from : Nat, to : Nat, attempt : Nat, moved : BOOLEAN]

\* A transcript and, behind it, the calls that are being answered.
Awaits(ms, n) == \E t \in Seq(Message) : IsTranscript(t) /\ ms = t \o <<Calls(n)>>

CallsTell ==
  /\ pc = "idle" => calls = <<>>
  /\ pc \in Settled => \A i \in DOMAIN calls : calls[i].logged
  /\ pc \in Asking => \A i \in DOMAIN calls : ~calls[i].logged
  /\ pc = "approve" => Undecided(calls) # {}

Transcripts ==
  ~shifted =>
    /\ pc \notin Asking => IsTranscript(surface)
    /\ pc \in Settled => IsTranscript(messages)
    /\ pc \in Asking => Awaits(surface, Len(calls)) /\ Awaits(messages, Len(calls))

\* The region the summarizer works on leaves whole groups of the request.
PlanFits ==
  pc = "summarizing" =>
    /\ 0 < plan.from /\ plan.from <= plan.to /\ plan.to <= Len(messages)
    /\ ~shifted => Cut(messages, plan.from) /\ Cut(messages, plan.to + 1)

\* The first prompt has one place, on the surface and in the request, and no
\* region reaches it.
AnchorAt(p) ==
  /\ AnchoredAt(surface, p)
  /\ pc # "idle" => AnchoredAt(messages, p)
  /\ pc = "summarizing" => p < plan.from

Anchored ==
  /\ turn > 0 => \E p \in Nat : AnchorAt(p)
  /\ turn = 0 => pc = "idle" /\ surface = <<>> /\ ended.kind = "open"

HistoryInv == HistoryTypes /\ CallsTell /\ Transcripts /\ PlanFits /\ Anchored

LEMMA HistoryInit == Init => HistoryInv
<1> SUFFICES ASSUME Init PROVE HistoryInv
  OBVIOUS
<1>1. /\ <<>> \in Seq(Message) /\ <<>> \in Seq(CallType)
  OBVIOUS
<1>2. IsTranscript(<<>>)
  BY DEF IsTranscript
<1>3. NoPlan \in [from : Nat, to : Nat, attempt : Nat, moved : BOOLEAN]
  BY DEF NoPlan
<1> QED
  BY <1>1, <1>2, <1>3 DEF Init, HistoryInv, HistoryTypes, CallsTell, Transcripts, PlanFits,
     Anchored, Settled, Asking, NotEnded

\* What is said behind the anchor leaves it where it is.
LEMMA AnchorStays ==
  ASSUME NEW ms \in Seq(Message), NEW said \in Seq(Message), NEW p, AnchoredAt(ms, p)
  PROVE  AnchoredAt(ms \o said, p)
<1>1. /\ Len(ms \o said) = Len(ms) + Len(said) /\ Len(ms) \in Nat /\ Len(said) \in Nat
      /\ \A i \in 1 .. Len(ms) : (ms \o said)[i] = ms[i]
  BY Both
<1>2. p \in 1 .. Len(ms) /\ \A i \in 1 .. p - 1 : i \in 1 .. Len(ms)
  BY <1>1 DEF AnchoredAt
<1> HIDE DEF EnvKind
<1> QED
  BY <1>1, <1>2 DEF AnchoredAt

LEMMA AnchorInReplaced ==
  ASSUME NEW ms \in Seq(Message), NEW m \in Message, NEW p, AnchoredAt(ms, p),
         NEW from \in Nat \ {0}, NEW to \in Nat, from <= to, to <= Len(ms), p < from
  PROVE  AnchoredAt(Replaced(ms, from, to, m), p)
<1> DEFINE s == Replaced(ms, from, to, m)
<1>1. from <= Len(s) /\ s \in Seq(Message) /\ \A i \in 1 .. from - 1 : s[i] = ms[i]
  BY ReplacedParts
<1>2. Len(s) \in Nat /\ Len(ms) \in Nat
  BY <1>1, Conversation
<1> HIDE DEF s
<1>3. p \in 1 .. Len(s) /\ p \in 1 .. from - 1 /\ \A i \in 1 .. p - 1 : i \in 1 .. from - 1
  BY <1>1, <1>2 DEF AnchoredAt
<1>4. AnchoredAt(s, p)
  BY <1>1, <1>3 DEF AnchoredAt
<1> QED
  BY <1>4 DEF s

\* Messages both lists receive between two calls of the model.
LEMMA HistorySay ==
  ASSUME HistoryInv, NEW said \in PlainOnes, Say(said),
         pc \in Settled, pc' \in Settled \ {"summarizing"},
         UNCHANGED <<turn, calls, ended, shifted>>, step' \in Nat,
         plan' \in [from : Nat, to : Nat, attempt : Nat, moved : BOOLEAN]
  PROVE  HistoryInv'
<1>0. pc # "idle" /\ pc \notin Asking /\ pc' # "idle" /\ pc' \notin Asking /\ pc' # "summarizing"
  BY DEF Settled, Asking
<1>1. messages \in Seq(Message) /\ surface \in Seq(Message) /\ said \in Seq(Message)
  BY DEF HistoryInv, HistoryTypes, PlainOnes
<1>2. messages' \in Seq(Message) /\ surface' \in Seq(Message)
  BY <1>1, PlainJoins DEF Say
<1>3. HistoryTypes'
  BY <1>2 DEF HistoryInv, HistoryTypes
<1>4. CallsTell'
  BY <1>0 DEF HistoryInv, CallsTell, Asking
<1>5. Transcripts'
  BY <1>0, <1>1, PlainJoins DEF HistoryInv, Transcripts, Say
<1>6. PlanFits'
  BY <1>0 DEF PlanFits
<1>7. Anchored'
  <2>1. turn # 0 /\ turn \in Nat
    BY <1>0 DEF HistoryInv, Anchored, HistoryTypes
  <2>2. PICK p \in Nat : AnchoredAt(surface, p) /\ AnchoredAt(messages, p)
    BY <2>1, <1>0 DEF HistoryInv, Anchored, AnchorAt
  <2>3. AnchoredAt(surface', p) /\ AnchoredAt(messages', p)
    BY <2>2, <1>1, AnchorStays DEF Say
  <2> QED
    BY <2>1, <2>3, <1>0 DEF Anchored, AnchorAt
<1> QED
  BY <1>3, <1>4, <1>5, <1>6, <1>7 DEF HistoryInv

\* The end of a turn, whatever ended it.
LEMMA HistoryFinish ==
  ASSUME HistoryInv, NEW kind, NEW said \in PlainOnes, NEW gap,
         pc # "idle", pc \in Asking => said = <<>>, Finish(kind, said, gap)
  PROVE  HistoryInv'
<1>0. /\ messages \in Seq(Message) /\ surface \in Seq(Message) /\ said \in Seq(Message)
      /\ calls \in Seq(CallType) /\ turn \in Nat /\ step \in Nat
  BY DEF HistoryInv, HistoryTypes, PlainOnes
<1>1. /\ pc' = "idle" /\ surface' = surface \o said \o Closers /\ messages' = <<>> /\ calls' = <<>>
      /\ step' = 0 /\ turn' = turn /\ plan' = NoPlan /\ shifted' = shifted
  BY DEF Finish
<1>2. surface \o said \in Seq(Message)
  BY <1>0, PlainJoins
<1>3. PICK back \in Seq(Message) :
        /\ surface' = surface \o back
        /\ ~shifted => IsTranscript(surface \o back)
  <2>1. CASE pc \in Settled
    <3>1. Closers = <<>>
      BY <2>1, <1>0, ClosersNone DEF HistoryInv, CallsTell
    <3>2. surface' = surface \o said
      BY <3>1, <1>1, <1>2, ConcatEmptySeq
    <3>3. ~shifted => IsTranscript(surface \o said)
      <4>1. ~shifted => IsTranscript(surface)
        BY <2>1 DEF HistoryInv, Transcripts, Settled, Asking
      <4> QED
        BY <4>1, <1>0, PlainJoins
    <3> QED
      BY <3>2, <3>3, <1>0
  <2>2. CASE pc \in Asking
    <3> DEFINE n == Len(calls)
               r == ResultsOf(n)
    <3>0. n \in Nat
      BY <1>0
    <3>1. Closers = r
      BY <2>2, <1>0, ClosersAll DEF HistoryInv, CallsTell
    <3>2. /\ r \in Seq(Message) /\ <<Calls(n)>> \in Seq(Message)
          /\ IsTranscript(<<Calls(n)>> \o r)
      BY <3>0, <1>0, GroupIsTranscript
    <3>3. surface' = surface \o r
      BY <2>2, <3>1, <1>0, <1>1, ConcatEmptySeq
    <3>4. ~shifted => IsTranscript(surface \o r)
      <4> SUFFICES ASSUME ~shifted PROVE IsTranscript(surface \o r)
        OBVIOUS
      <4>1. PICK t \in Seq(Message) : IsTranscript(t) /\ surface = t \o <<Calls(n)>>
        BY <2>2 DEF HistoryInv, Transcripts, Awaits
      <4> HIDE DEF r
      <4>2. surface \o r = t \o (<<Calls(n)>> \o r)
        BY <4>1, <3>2, ConcatAssociative
      <4>3. <<Calls(n)>> \o r \in Seq(Message)
        BY <3>2, Both
      <4> QED
        BY <4>1, <4>2, <4>3, <3>2, TranscriptsJoin
    <3> QED
      BY <3>2, <3>3, <3>4
  <2> QED
    BY <2>1, <2>2 DEF HistoryInv, HistoryTypes
<1>4. surface' \in Seq(Message)
  BY <1>0, <1>3, Both
<1>5. HistoryTypes'
  <2>1. <<>> \in Seq(Message) /\ <<>> \in Seq(CallType)
    OBVIOUS
  <2>2. NoPlan \in [from : Nat, to : Nat, attempt : Nat, moved : BOOLEAN]
    BY DEF NoPlan
  <2> QED
    BY <2>1, <2>2, <1>0, <1>1, <1>4 DEF HistoryTypes
<1>6. CallsTell'
  BY <1>1 DEF CallsTell, Settled, Asking
<1>7. Transcripts'
  BY <1>1, <1>3 DEF Transcripts, Settled, Asking
<1>8. PlanFits'
  BY <1>1 DEF PlanFits
<1>9. Anchored'
  <2>1. turn # 0 /\ turn \in Nat
    BY <1>0 DEF HistoryInv, Anchored
  <2>2. PICK p \in Nat : AnchoredAt(surface, p)
    BY <2>1 DEF HistoryInv, Anchored, AnchorAt
  <2>3. AnchoredAt(surface', p)
    BY <2>2, <1>0, <1>3, AnchorStays
  <2> QED
    BY <2>1, <2>3, <1>1 DEF Anchored, AnchorAt
<1> QED
  BY <1>5, <1>6, <1>7, <1>8, <1>9 DEF HistoryInv

LEMMA FirstPrompt ==
  ASSUME NEW injected \in BOOLEAN, NEW recalled \in BOOLEAN
  PROVE  LET prompt == Maybe(injected, "env", 1) \o <<Msg("human", 1)>> \o Maybe(recalled, "recall", 1)
         IN  \E p \in Nat : AnchoredAt(prompt, p)
<1> DEFINE e == Maybe(injected, "env", 1)
           h == <<Msg("human", 1)>>
           r == Maybe(recalled, "recall", 1)
<1>1. e \in Seq(Message) /\ h \in Seq(Message) /\ r \in Seq(Message)
  BY PlainOne DEF PlainOnes, MessageKinds
<1>2. Len(h) = 1 /\ h[1] = Msg("human", 1)
  OBVIOUS
<1>3. Len(e) \in {0, 1} /\ \A i \in 1 .. Len(e) : e[i].kind \in EnvKind
  BY DEF Maybe, Msg, EnvKind
<1> HIDE DEF e, h, r
<1>4. /\ e \o h \in Seq(Message) /\ Len(e \o h) = Len(e) + Len(h)
      /\ \A i \in 1 .. Len(e) : (e \o h)[i] = e[i]
      /\ \A i \in 1 .. Len(h) : (e \o h)[Len(e) + i] = h[i]
  BY <1>1, Both
<1> DEFINE p == Len(e) + 1
<1>5. AnchoredAt(e \o h, p)
  <2>1. (e \o h)[p] = Msg("human", 1) /\ p \in 1 .. Len(e \o h)
    BY <1>2, <1>3, <1>4
  <2>2. \A i \in 1 .. p - 1 : (e \o h)[i].kind \in EnvKind
    BY <1>3, <1>4
  <2> HIDE DEF p
  <2> QED
    BY <2>1, <2>2 DEF AnchoredAt, Msg
<1>6. AnchoredAt(e \o h \o r, p)
  <2> HIDE DEF p
  <2> QED
    BY <1>1, <1>4, <1>5, AnchorStays
<1>7. p \in Nat
  BY <1>3
<1> HIDE DEF p
<1> QED
  BY <1>6, <1>7 DEF e, h, r

LEMMA HistoryStartTurn ==
  ASSUME HistoryInv, NEW injected \in BOOLEAN, NEW recalled \in BOOLEAN,
         StartTurn(injected, recalled)
  PROVE  HistoryInv'
<1> DEFINE t == turn + 1
           marker == Maybe(ended.kind = "aborted", "marker", t)
           prompt == Maybe(injected, "env", t) \o <<Msg("human", t)>>
                       \o Maybe(recalled, "recall", t)
<1>0. turn \in Nat /\ surface \in Seq(Message) /\ t \in Nat
  BY DEF HistoryInv, HistoryTypes
<1>1. /\ pc = "idle" /\ pc' = "top" /\ turn' = t /\ surface' = surface \o (marker \o prompt)
      /\ messages' = surface \o prompt
      /\ ended' = NotEnded /\ UNCHANGED <<step, calls, plan, shifted>>
  BY DEF StartTurn
<1>2. marker \in PlainOnes /\ prompt \in PlainOnes
  <2>1. /\ Maybe(injected, "env", t) \in PlainOnes /\ <<Msg("human", t)>> \in PlainOnes
        /\ Maybe(recalled, "recall", t) \in PlainOnes /\ marker \in PlainOnes
    BY <1>0, PlainOne DEF MessageKinds
  <2> QED
    BY <2>1, PlainBoth
<1>3. CASE turn = 0
  <2>1. surface = <<>> /\ marker = <<>> /\ t = 1
    BY <1>3 DEF HistoryInv, Anchored, Maybe
  <2>2. \E p \in Nat : AnchoredAt(prompt, p)
    BY <2>1, FirstPrompt
  <2> HIDE DEF prompt, marker
  <2>3. prompt \in Seq(Message)
    BY <1>2 DEF PlainOnes
  <2>4. surface' = prompt /\ messages' = prompt
    BY <1>1, <2>1, <2>3, ConcatEmptySeq
  <2>5. surface' \in Seq(Message) /\ messages' \in Seq(Message)
    BY <2>3, <2>4
  <2>6. IsTranscript(surface') /\ IsTranscript(messages')
    BY <1>2, <2>4, PlainIsTranscript DEF PlainOnes
  <2>7. PICK p \in Nat : AnchoredAt(surface', p) /\ AnchoredAt(messages', p)
    BY <2>2, <2>4
  <2> QED
    BY <2>5, <2>6, <2>7, <1>0, <1>1
    DEF HistoryInv, HistoryTypes, CallsTell, Transcripts, PlanFits, Anchored, AnchorAt, Settled,
        Asking
<1>4. CASE turn # 0
  <2> HIDE DEF prompt, marker
  <2>1. marker \o prompt \in PlainOnes
    BY <1>2, PlainBoth
  <2>2. surface' \in Seq(Message) /\ messages' \in Seq(Message)
    BY <1>0, <1>1, <1>2, <2>1, PlainJoins
  <2>3. ~shifted => IsTranscript(surface') /\ IsTranscript(messages')
    <3>1. ~shifted => IsTranscript(surface)
      BY <1>1 DEF HistoryInv, Transcripts, Asking
    <3> QED
      BY <3>1, <1>0, <1>1, <1>2, <2>1, PlainJoins
  <2>4. PICK p \in Nat : AnchoredAt(surface, p)
    BY <1>0, <1>4 DEF HistoryInv, Anchored, AnchorAt
  <2>5. marker \o prompt \in Seq(Message) /\ prompt \in Seq(Message)
    BY <1>2, <2>1 DEF PlainOnes
  <2>6. AnchoredAt(surface', p) /\ AnchoredAt(messages', p)
    BY <1>0, <1>1, <2>4, <2>5, AnchorStays
  <2> QED
    BY <2>2, <2>3, <2>6, <1>0, <1>1
    DEF HistoryInv, HistoryTypes, CallsTell, Transcripts, PlanFits, Anchored, AnchorAt, Settled,
        Asking
<1> QED
  BY <1>3, <1>4

\* Steps that only move on.
LEMMA HistoryMoves ==
  ASSUME HistoryInv, UNCHANGED <<turn, messages, surface, calls, ended, shifted>>,
         pc \in Settled, pc' \in Settled \ {"summarizing"}, step' \in Nat,
         plan' \in [from : Nat, to : Nat, attempt : Nat, moved : BOOLEAN]
  PROVE  HistoryInv'
<1>0. pc # "idle" /\ pc \notin Asking /\ pc' # "idle" /\ pc' \notin Asking /\ pc' # "summarizing"
  BY DEF Settled, Asking
<1> HIDE DEF Settled
<1>1. Anchored'
  <2>1. turn # 0 /\ turn \in Nat
    BY <1>0 DEF HistoryInv, Anchored, HistoryTypes
  <2> QED
    BY <2>1, <1>0 DEF HistoryInv, Anchored, AnchorAt
<1>2. HistoryTypes'
  BY DEF HistoryInv, HistoryTypes
<1>3. CallsTell' /\ Transcripts' /\ PlanFits'
  BY <1>0 DEF HistoryInv, CallsTell, Transcripts, PlanFits, Asking
<1> QED
  BY <1>1, <1>2, <1>3 DEF HistoryInv

\* A pruned result still answers its call.
LEMMA PrunedKeeps ==
  ASSUME NEW ms \in Seq(Message), NEW old, old \subseteq Prunable(ms)
  PROVE  /\ Pruned(ms, old) \in Seq(Message)
         /\ IsTranscript(ms) => IsTranscript(Pruned(ms, old))
         /\ \A p : AnchoredAt(ms, p) => AnchoredAt(Pruned(ms, old), p)
<1> DEFINE s == Pruned(ms, old)
<1>0. Len(ms) \in Nat /\ DOMAIN ms = 1 .. Len(ms) /\ \A i \in 1 .. Len(ms) : ms[i] \in Message
  BY Conversation
<1>1. s = [i \in 1 .. Len(ms) |-> IF i \in old THEN [ms[i] EXCEPT !.kind = "pruned"] ELSE ms[i]]
  BY <1>0 DEF Pruned
<1>2. ASSUME NEW i \in 1 .. Len(ms)
      PROVE  /\ s[i] \in Message /\ s[i].turn = ms[i].turn /\ s[i].step = ms[i].step /\ s[i].n = ms[i].n
             /\ IsResult(s[i]) <=> IsResult(ms[i])
             /\ s[i].kind # "pruned" => s[i].kind = ms[i].kind
             /\ ~IsResult(ms[i]) => s[i].kind = ms[i].kind
  <2>1. CASE i \in old
    <3>1. s[i] = [ms[i] EXCEPT !.kind = "pruned"] /\ ms[i].kind = "result"
      BY <1>1, <2>1 DEF Prunable
    <3>2. ms[i] \in Message
      BY <1>0
    <3> QED
      BY <3>1, <3>2 DEF Message, Kind, IsResult
  <2>2. CASE i \notin old
    BY <1>0, <1>1, <2>2
  <2> QED
    BY <2>1, <2>2
<1>3. s \in [1 .. Len(ms) -> Message]
  BY <1>1, <1>2
<1>4. s \in Seq(Message) /\ Len(s) = Len(ms) /\ DOMAIN s = 1 .. Len(ms)
  BY <1>0, <1>3
<1> HIDE DEF s
<1>5. ASSUME IsTranscript(ms) PROVE IsTranscript(s)
  <2>1. ASSUME NEW i \in DOMAIN s, s[i].kind = "calls"
        PROVE  i + s[i].n <= Len(s) /\ \A k \in 1 .. s[i].n : Answers(s[i + k], s[i], k)
    <3>1. i \in 1 .. Len(ms) /\ ms[i].kind = "calls"
      BY <1>2, <1>4, <2>1
    <3>2. i + ms[i].n <= Len(ms) /\ \A k \in 1 .. ms[i].n : Answers(ms[i + k], ms[i], k)
      BY <1>0, <1>5, <3>1 DEF IsTranscript
    <3>3. \A k \in 1 .. ms[i].n : i + k \in 1 .. Len(ms)
      BY <1>5, <3>1, Group
    <3> QED
      BY <3>1, <3>2, <3>3, <1>2, <1>4 DEF Answers
  <2>2. ASSUME NEW i \in DOMAIN s, IsResult(s[i])
        PROVE  /\ i > s[i].n
               /\ s[i - s[i].n].kind = "calls"
               /\ s[i].n <= s[i - s[i].n].n
               /\ Answers(s[i], s[i - s[i].n], s[i].n)
    <3>1. i \in 1 .. Len(ms) /\ IsResult(ms[i]) /\ s[i].n = ms[i].n
      BY <1>2, <1>4, <2>2
    <3>2. /\ i > ms[i].n /\ ms[i - ms[i].n].kind = "calls" /\ ms[i].n <= ms[i - ms[i].n].n
          /\ Answers(ms[i], ms[i - ms[i].n], ms[i].n)
      BY <1>0, <1>5, <3>1 DEF IsTranscript
    <3>3. i - ms[i].n \in 1 .. Len(ms)
      BY <1>5, <3>1, BeforeAnswer
    <3>4. s[i - ms[i].n].kind = "calls"
      BY <1>2, <3>2, <3>3 DEF IsResult
    <3> QED
      BY <3>1, <3>2, <3>3, <3>4, <1>2 DEF Answers
  <2> QED
    BY <2>1, <2>2 DEF IsTranscript
<1>6. ASSUME NEW p, AnchoredAt(ms, p) PROVE AnchoredAt(s, p)
  <2>1. p \in 1 .. Len(ms) /\ ms[p].kind = "human" /\ ms[p].turn = 1
    BY <1>6 DEF AnchoredAt
  <2>2. s[p].kind = "human" /\ s[p].turn = 1
    BY <2>1, <1>2 DEF IsResult
  <2>3. ASSUME NEW i \in 1 .. p - 1 PROVE s[i].kind \in EnvKind
    <3>1. i \in 1 .. Len(ms) /\ ms[i].kind \in EnvKind
      BY <2>1, <1>0, <1>6 DEF AnchoredAt
    <3>2. s[i].kind = ms[i].kind
      BY <3>1, <1>2 DEF EnvKind, IsResult
    <3> QED
      BY <3>1, <3>2
  <2> QED
    BY <1>4, <2>1, <2>2, <2>3 DEF AnchoredAt
<1> QED
  BY <1>4, <1>5, <1>6 DEF s

LEMMA HistoryRelieve ==
  ASSUME HistoryInv, NEW feedback \in BOOLEAN, Relieve(feedback)
  PROVE  HistoryInv'
<1> DEFINE said == Maybe(feedback, "note", turn)
           ms == messages \o said
           sf == surface \o said
<1>0. messages \in Seq(Message) /\ surface \in Seq(Message) /\ turn \in Nat
  BY DEF HistoryInv, HistoryTypes
<1>1. PICK old \in SUBSET PrunableIfAlike(ms, sf) :
        messages' = Pruned(ms, old) /\ surface' = Pruned(sf, old)
  BY DEF Relieve
<1>2. pc = "top" /\ pc' = "measure" /\ UNCHANGED <<turn, step, calls, plan, ended, shifted>>
  BY DEF Relieve, ghost
<1>3. said \in PlainOnes /\ said \in Seq(Message)
  BY <1>0, PlainOne DEF MessageKinds, PlainOnes
<1> HIDE DEF said
<1>4. ms \in Seq(Message) /\ sf \in Seq(Message)
  BY <1>0, <1>3, PlainJoins
<1>5. old \subseteq Prunable(ms) /\ old \subseteq Prunable(sf)
  BY <1>1 DEF PrunableIfAlike
<1>6. ~shifted => IsTranscript(ms) /\ IsTranscript(sf)
  <2>1. ~shifted => IsTranscript(messages) /\ IsTranscript(surface)
    BY <1>2 DEF HistoryInv, Transcripts, Settled, Asking
  <2> QED
    BY <2>1, <1>0, <1>3, PlainJoins
<1>7. PICK p \in Nat : AnchoredAt(messages, p) /\ AnchoredAt(surface, p)
  BY <1>0, <1>2 DEF HistoryInv, Anchored, AnchorAt
<1>8. AnchoredAt(ms, p) /\ AnchoredAt(sf, p)
  BY <1>0, <1>3, <1>7, AnchorStays
<1> HIDE DEF ms, sf
<1>9. /\ messages' \in Seq(Message) /\ surface' \in Seq(Message)
      /\ ~shifted => IsTranscript(messages') /\ IsTranscript(surface')
      /\ AnchoredAt(messages', p) /\ AnchoredAt(surface', p)
  BY <1>1, <1>4, <1>5, <1>6, <1>8, PrunedKeeps
<1>10. turn # 0
  BY <1>0, <1>2 DEF HistoryInv, Anchored
<1> QED
  BY <1>2, <1>9, <1>10
  DEF HistoryInv, HistoryTypes, CallsTell, Transcripts, PlanFits, Anchored, AnchorAt, Settled, Asking

LEMMA HistorySummarize ==
  ASSUME HistoryInv, pc = "measure", NEW region \in Regions(messages, surface), Summarize(region)
  PROVE  HistoryInv'
<1>0. /\ messages \in Seq(Message) /\ surface \in Seq(Message) /\ turn \in Nat
      /\ plan.attempt \in Nat
  BY DEF HistoryInv, HistoryTypes
<1>1. /\ pc' = "summarizing" /\ UNCHANGED <<turn, step, messages, surface, calls, ended, shifted>>
      /\ plan' = [from |-> region.from, to |-> region.to, attempt |-> plan.attempt, moved |-> FALSE]
  BY DEF Summarize, ghost
<1>2. /\ region.from \in Nat \ {0} /\ region.to \in Nat /\ region.from <= region.to
      /\ region.to <= Len(messages) /\ HeadEnd(messages, surface) <= region.from
      /\ IsTranscript(messages) => Cut(messages, region.from) /\ Cut(messages, region.to + 1)
  BY <1>0, RegionsAreWhole
<1>3. /\ plan'.from = region.from /\ plan'.to = region.to
      /\ plan' \in [from : Nat, to : Nat, attempt : Nat, moved : BOOLEAN]
  BY <1>0, <1>1, <1>2
<1>4. turn # 0
  BY <1>0 DEF HistoryInv, Anchored
<1>5. PICK p \in Nat : AnchoredAt(messages, p) /\ AnchoredAt(surface, p)
  BY <1>0, <1>4 DEF HistoryInv, Anchored, AnchorAt
<1>6. p < region.from
  <2>1. p < HeadEnd(messages, surface)
    BY <1>0, <1>5, HeadKeepsAnchor
  <2>2. HeadEnd(messages, surface) \in Nat
    BY <1>0, HeadEndType
  <2> QED
    BY <1>2, <2>1, <2>2
<1>7. ~shifted => IsTranscript(messages)
  BY DEF HistoryInv, Transcripts, Settled
<1>8. HistoryTypes' /\ CallsTell' /\ Transcripts'
  BY <1>1, <1>3 DEF HistoryInv, HistoryTypes, CallsTell, Transcripts, Settled, Asking
<1>9. PlanFits'
  BY <1>1, <1>2, <1>3, <1>7 DEF PlanFits
<1>10. Anchored'
  BY <1>0, <1>1, <1>3, <1>4, <1>5, <1>6 DEF Anchored, AnchorAt
<1> QED
  BY <1>8, <1>9, <1>10 DEF HistoryInv

LEMMA HistoryIntrude ==
  ASSUME HistoryInv, Intrude
  PROVE  HistoryInv'
<1>0. /\ messages \in Seq(Message) /\ surface \in Seq(Message) /\ turn \in Nat
      /\ plan \in [from : Nat, to : Nat, attempt : Nat, moved : BOOLEAN]
  BY DEF HistoryInv, HistoryTypes
<1>1. /\ pc = "summarizing" /\ surface' = Append(surface, Msg("note", turn))
      /\ plan' = [plan EXCEPT !.moved = TRUE]
      /\ UNCHANGED <<pc, turn, step, messages, calls, ended, shifted>>
  BY DEF Intrude, ghost
<1> DEFINE said == <<Msg("note", turn)>>
<1>2. said \in PlainOnes /\ said \in Seq(Message) /\ Msg("note", turn) \in Message
  BY <1>0, PlainOne, SaidIsMessage DEF MessageKinds, PlainOnes
<1>3. surface' = surface \o said
  BY <1>0, <1>1, <1>2, AppendIsConcat
<1> HIDE DEF said
<1>4. surface' \in Seq(Message) /\ (IsTranscript(surface) => IsTranscript(surface'))
  BY <1>0, <1>2, <1>3, PlainJoins
<1>5. /\ plan'.from = plan.from /\ plan'.to = plan.to
      /\ plan' \in [from : Nat, to : Nat, attempt : Nat, moved : BOOLEAN]
  BY <1>0, <1>1
<1>6. turn # 0
  BY <1>0, <1>1 DEF HistoryInv, Anchored
<1>7. PICK p \in Nat : AnchoredAt(messages, p) /\ AnchoredAt(surface, p) /\ p < plan.from
  BY <1>0, <1>1, <1>6 DEF HistoryInv, Anchored, AnchorAt
<1>8. AnchoredAt(surface', p)
  BY <1>0, <1>2, <1>3, <1>7, AnchorStays
<1>9. HistoryTypes' /\ CallsTell' /\ Transcripts' /\ PlanFits'
  BY <1>1, <1>4, <1>5 DEF HistoryInv, HistoryTypes, CallsTell, Transcripts, PlanFits, Settled, Asking
<1>10. Anchored'
  BY <1>0, <1>1, <1>5, <1>6, <1>7, <1>8 DEF Anchored, AnchorAt
<1> QED
  BY <1>9, <1>10 DEF HistoryInv

\* The summary takes the place of whole groups, on the surface too unless it
\* went over other messages there.
LEMMA HistoryCommitSummary ==
  ASSUME HistoryInv, CommitSummary
  PROVE  HistoryInv'
<1> DEFINE from == plan.from
           to == plan.to
           m == Msg("summary", turn)
<1>0. /\ messages \in Seq(Message) /\ surface \in Seq(Message) /\ turn \in Nat /\ step \in Nat
      /\ from \in Nat /\ to \in Nat
  BY DEF HistoryInv, HistoryTypes
<1>1. /\ pc = "summarizing" /\ to <= Len(surface)
      /\ messages' = Replaced(messages, from, to, m)
      /\ surface' = Replaced(surface, from, to, m)
      /\ shifted' = (shifted \/ SubSeq(messages, from, to) # SubSeq(surface, from, to))
      /\ pc' = "model" /\ step' = step + 1 /\ plan' = NoPlan
      /\ UNCHANGED <<turn, calls, ended>>
  BY DEF CommitSummary, Ask
<1>2. from \in Nat \ {0} /\ from <= to /\ to <= Len(messages)
  BY <1>0, <1>1 DEF HistoryInv, PlanFits
<1>3. m \in Message /\ Plain(m)
  BY <1>0, SaidIsMessage DEF MessageKinds
<1> HIDE DEF m
<1>4. messages' \in Seq(Message) /\ surface' \in Seq(Message)
  BY <1>0, <1>1, <1>2, <1>3, ReplacedParts
<1>5. ~shifted' => IsTranscript(messages') /\ IsTranscript(surface')
  <2> SUFFICES ASSUME ~shifted' PROVE IsTranscript(messages') /\ IsTranscript(surface')
    OBVIOUS
  <2>1. ~shifted /\ SubSeq(messages, from, to) = SubSeq(surface, from, to)
    BY <1>1
  <2>2. Cut(messages, from) /\ Cut(messages, to + 1)
    BY <2>1, <1>1 DEF HistoryInv, PlanFits
  <2>3. IsTranscript(messages) /\ IsTranscript(surface)
    BY <2>1, <1>1 DEF HistoryInv, Transcripts, Settled, Asking
  <2>4. Cut(surface, from) /\ Cut(surface, to + 1)
    BY <2>1, <2>2, <2>3, <1>0, <1>1, <1>2, CutsAgree
  <2> QED
    BY <2>2, <2>3, <2>4, <1>0, <1>1, <1>3, ReplacedIsTranscript
<1>6. turn # 0
  BY <1>0, <1>1 DEF HistoryInv, Anchored
<1>7. PICK p \in Nat : AnchoredAt(messages, p) /\ AnchoredAt(surface, p) /\ p < from
  BY <1>0, <1>1, <1>6 DEF HistoryInv, Anchored, AnchorAt
<1>8. AnchoredAt(messages', p) /\ AnchoredAt(surface', p)
  BY <1>0, <1>1, <1>2, <1>3, <1>7, AnchorInReplaced
<1>9. NoPlan \in [from : Nat, to : Nat, attempt : Nat, moved : BOOLEAN]
  BY DEF NoPlan
<1>10. step' \in Nat
  BY <1>0, <1>1
<1> HIDE DEF from, to
<1>11. HistoryTypes'
  BY <1>0, <1>1, <1>4, <1>9, <1>10 DEF HistoryInv, HistoryTypes, Settled
<1>12. CallsTell' /\ Transcripts' /\ PlanFits'
  BY <1>1, <1>5 DEF HistoryInv, CallsTell, Transcripts, PlanFits, Settled, Asking
<1>13. Anchored'
  BY <1>0, <1>1, <1>6, <1>8 DEF Anchored, AnchorAt
<1> QED
  BY <1>11, <1>12, <1>13 DEF HistoryInv

LEMMA HistoryDropSummary ==
  ASSUME HistoryInv, DropSummary
  PROVE  HistoryInv'
<1>0. /\ messages \in Seq(Message) /\ surface \in Seq(Message) /\ turn \in Nat /\ step \in Nat
      /\ plan \in [from : Nat, to : Nat, attempt : Nat, moved : BOOLEAN]
  BY DEF HistoryInv, HistoryTypes
<1>1. /\ pc = "summarizing" /\ messages' = surface
      /\ UNCHANGED <<turn, surface, calls, ended, shifted>>
  BY DEF DropSummary, RecomputeFromLog
<1>2. /\ pc' \in {"measure", "model"} /\ step' \in Nat
      /\ plan' \in [from : Nat, to : Nat, attempt : Nat, moved : BOOLEAN]
  <2>1. CASE plan.attempt < MaxRecomputes
    <3>1. /\ pc' = "measure" /\ step' = step
          /\ plan' = [NoPlan EXCEPT !.attempt = plan.attempt + 1]
      BY <2>1 DEF DropSummary
    <3>2. plan.attempt + 1 \in Nat
      BY <1>0
    <3> QED
      BY <1>0, <3>1, <3>2 DEF NoPlan
  <2>2. CASE ~(plan.attempt < MaxRecomputes)
    <3>1. pc' = "model" /\ step' = step + 1 /\ plan' = NoPlan
      BY <2>2 DEF DropSummary, Ask
    <3> QED
      BY <1>0, <3>1 DEF NoPlan
  <2> QED
    BY <2>1, <2>2
<1>3. turn # 0
  BY <1>0, <1>1 DEF HistoryInv, Anchored
<1>4. PICK p \in Nat : AnchoredAt(surface, p)
  BY <1>0, <1>3 DEF HistoryInv, Anchored, AnchorAt
<1>5. HistoryTypes' /\ CallsTell' /\ Transcripts' /\ PlanFits'
  BY <1>0, <1>1, <1>2 DEF HistoryInv, HistoryTypes, CallsTell, Transcripts, PlanFits, Settled, Asking
<1>6. Anchored'
  BY <1>0, <1>1, <1>2, <1>3, <1>4 DEF Anchored, AnchorAt
<1> QED
  BY <1>5, <1>6 DEF HistoryInv

(***************************************************************************)
(* Tools.                                                                  *)
(***************************************************************************)
LEMMA AnchorBelow ==
  ASSUME HistoryInv, pc # "idle", pc' # "summarizing", turn' = turn,
         NEW said \in Seq(Message), Say(said)
  PROVE  Anchored'
<1>0. messages \in Seq(Message) /\ surface \in Seq(Message) /\ turn \in Nat
  BY DEF HistoryInv, HistoryTypes
<1>1. turn # 0
  BY <1>0 DEF HistoryInv, Anchored
<1>2. PICK p \in Nat : AnchoredAt(messages, p) /\ AnchoredAt(surface, p)
  BY <1>0, <1>1 DEF HistoryInv, Anchored, AnchorAt
<1>3. AnchoredAt(messages', p) /\ AnchoredAt(surface', p)
  BY <1>0, <1>2, AnchorStays DEF Say
<1> QED
  BY <1>0, <1>1, <1>3 DEF Anchored, AnchorAt

LEMMA HistoryToolUse ==
  ASSUME HistoryInv, NEW n \in Nat, NEW malformed \in [1 .. n -> BOOLEAN], ToolUse(malformed)
  PROVE  HistoryInv'
<1> DEFINE cs == [i \in DOMAIN malformed |->
                    [status |-> IF malformed[i] THEN "malformed" ELSE "pending",
                     logged |-> FALSE]]
<1>0. /\ messages \in Seq(Message) /\ surface \in Seq(Message) /\ turn \in Nat /\ step \in Nat
      /\ plan \in [from : Nat, to : Nat, attempt : Nat, moved : BOOLEAN]
  BY DEF HistoryInv, HistoryTypes
<1>1. malformed \in Seq(BOOLEAN) /\ Len(malformed) = n /\ DOMAIN malformed = 1 .. n
  OBVIOUS
<1>2. /\ pc = "model" /\ Say(<<Calls(n)>>) /\ calls' = cs /\ pc' = Stage(cs)
      /\ UNCHANGED <<turn, step, plan, ended, shifted>>
  BY <1>1 DEF ToolUse, ghost
<1>3. /\ cs \in [1 .. n -> CallType] /\ \A i \in 1 .. n : ~cs[i].logged
  BY <1>1 DEF CallType, Status
<1>4. cs \in Seq(CallType) /\ Len(cs) = n /\ DOMAIN cs = 1 .. n
  BY <1>3
<1> HIDE DEF cs
<1>5. pc' \in Asking
  BY <1>2 DEF Stage, Asking
<1>6. <<Calls(n)>> \in Seq(Message)
  BY <1>0, AskedIsMessage, OneMessage
<1>7. messages' \in Seq(Message) /\ surface' \in Seq(Message)
  BY <1>0, <1>2, <1>6, Both DEF Say
<1>8. HistoryTypes'
  BY <1>0, <1>2, <1>4, <1>5, <1>7 DEF HistoryTypes
<1>9. CallsTell'
  <2>1. pc' = "approve" => Undecided(cs) # {}
    BY <1>2 DEF Stage
  <2> QED
    BY <2>1, <1>2, <1>3, <1>4, <1>5 DEF CallsTell, Settled, Asking
<1>10. Transcripts'
  <2>1. ~shifted => IsTranscript(messages) /\ IsTranscript(surface)
    BY <1>2 DEF HistoryInv, Transcripts, Settled, Asking
  <2>2. ~shifted => Awaits(messages', n) /\ Awaits(surface', n)
    BY <2>1, <1>0, <1>2 DEF Say, Awaits, Calls
  <2> QED
    BY <2>2, <1>2, <1>4, <1>5 DEF Transcripts, Settled, Asking, Awaits, Calls
<1>11. PlanFits'
  BY <1>5 DEF PlanFits, Asking
<1>12. Anchored'
  BY <1>2, <1>5, <1>6, AnchorBelow DEF Asking
<1> QED
  BY <1>8, <1>9, <1>10, <1>11, <1>12 DEF HistoryInv

\* What becomes of one call does not say that it is logged.
LEMMA HistorySettle ==
  ASSUME HistoryInv, NEW i \in 1 .. Len(calls), NEW status \in Status, Settle(i, status),
         pc \in Asking, pc' \in Asking, pc' = "approve" => Undecided(calls') # {},
         UNCHANGED <<turn, step, messages, surface, plan, ended, shifted>>
  PROVE  HistoryInv'
<1>0. /\ messages \in Seq(Message) /\ surface \in Seq(Message) /\ turn \in Nat
      /\ calls \in Seq(CallType)
  BY DEF HistoryInv, HistoryTypes
<1>1. calls' = [calls EXCEPT ![i].status = status]
  BY DEF Settle
<1>2. Len(calls) \in Nat /\ DOMAIN calls = 1 .. Len(calls) /\ \A k \in 1 .. Len(calls) : calls[k] \in CallType
  BY <1>0, LenProperties, ElementOfSeq
<1>3. [calls[i] EXCEPT !.status = status] \in CallType
      /\ [calls[i] EXCEPT !.status = status].logged = calls[i].logged
  BY <1>2 DEF CallType
<1>4. calls' = [calls EXCEPT ![i] = [calls[i] EXCEPT !.status = status]]
  BY <1>1
<1>5. calls' \in Seq(CallType) /\ Len(calls') = Len(calls)
      /\ \A k \in 1 .. Len(calls) : calls'[k] = IF k = i THEN [calls[i] EXCEPT !.status = status] ELSE calls[k]
  BY <1>0, <1>3, <1>4, ExceptSeq
<1>6. DOMAIN calls' = 1 .. Len(calls)
  BY <1>5, LenProperties
<1>7. \A k \in DOMAIN calls' : ~calls'[k].logged
  <2>1. \A k \in 1 .. Len(calls) : ~calls[k].logged
    BY <1>2 DEF HistoryInv, CallsTell
  <2> QED
    BY <2>1, <1>3, <1>5, <1>6
<1>8. HistoryTypes' /\ CallsTell' /\ PlanFits'
  BY <1>5, <1>7 DEF HistoryInv, HistoryTypes, CallsTell, PlanFits, Settled, Asking
<1>9. Transcripts'
  BY <1>5 DEF HistoryInv, Transcripts, Awaits, Calls, Settled, Asking
<1>10. Anchored'
  BY DEF HistoryInv, Anchored, AnchorAt, Asking
<1> QED
  BY <1>8, <1>9, <1>10 DEF HistoryInv

LEMMA HistoryApprove ==
  ASSUME HistoryInv, NEW yes \in BOOLEAN, Approve(yes)
  PROVE  HistoryInv'
<1>0. calls \in Seq(CallType)
  BY DEF HistoryInv, HistoryTypes
<1>1. Len(calls) \in Nat /\ DOMAIN calls = 1 .. Len(calls)
  BY <1>0, LenProperties
<1>2. pc = "approve" /\ Settle(Min(Undecided(calls)), IF yes THEN "approved" ELSE "denied")
      /\ pc' = Stage(calls') /\ UNCHANGED <<turn, step, messages, surface, plan, ended, shifted>>
  BY DEF Approve, ghost
<1>3. Undecided(calls) # {}
  BY <1>2 DEF HistoryInv, CallsTell
<1>4. Undecided(calls) \in SUBSET Nat /\ Undecided(calls) \subseteq 1 .. Len(calls)
  BY <1>1 DEF Undecided
<1>5. Min(Undecided(calls)) \in 1 .. Len(calls)
  BY <1>3, <1>4, MinIsLeast
<1>6. pc \in Asking /\ pc' \in Asking /\ (pc' = "approve" => Undecided(calls') # {})
  BY <1>2 DEF Stage, Asking
<1>7. (IF yes THEN "approved" ELSE "denied") \in Status
  BY DEF Status
<1> QED
  BY <1>2, <1>5, <1>6, <1>7, HistorySettle

LEMMA HistoryRunTool ==
  ASSUME HistoryInv, NEW i \in DOMAIN calls,
         NEW status \in {"hook_blocked", "executed", "worked"}, RunTool(i, status)
  PROVE  HistoryInv'
<1>1. calls \in Seq(CallType)
  BY DEF HistoryInv, HistoryTypes
<1>2. i \in 1 .. Len(calls)
  BY <1>1, LenProperties
<1>3. pc = "tools" /\ Settle(i, status)
      /\ UNCHANGED <<pc, turn, step, messages, surface, plan, ended, shifted>>
  BY DEF RunTool
<1>4. status \in Status
  BY DEF Status
<1>5. pc \in Asking /\ pc' \in Asking /\ pc' # "approve"
  BY <1>3 DEF Asking
<1> QED
  BY <1>2, <1>3, <1>4, <1>5, HistorySettle

LEMMA HistoryLogResults ==
  ASSUME HistoryInv, NEW noted \in BOOLEAN, LogResults(noted)
  PROVE  HistoryInv'
<1> DEFINE n == Len(calls)
           r == ResultsOf(n)
           note == Maybe(noted, "note", turn)
<1>0. /\ messages \in Seq(Message) /\ surface \in Seq(Message) /\ turn \in Nat /\ step \in Nat
      /\ calls \in Seq(CallType)
      /\ plan \in [from : Nat, to : Nat, attempt : Nat, moved : BOOLEAN]
  BY DEF HistoryInv, HistoryTypes
<1>1. n \in Nat /\ DOMAIN calls = 1 .. n
  BY <1>0, LenProperties
<1>2. r = [i \in DOMAIN calls |-> Result(i)]
  BY <1>1 DEF ResultsOf
<1>3. /\ pc = "tools" /\ pc' = "top" /\ Say([i \in DOMAIN calls |-> Result(i)] \o note)
      /\ calls' = [i \in DOMAIN calls |-> [status |-> "executed", logged |-> TRUE]]
      /\ UNCHANGED <<turn, step, plan, ended, shifted>>
  BY DEF LogResults, ghost
<1>4. note \in PlainOnes /\ note \in Seq(Message)
  BY <1>0, PlainOne DEF MessageKinds, PlainOnes
<1>5. /\ r \in Seq(Message) /\ <<Calls(n)>> \in Seq(Message)
      /\ IsTranscript(<<Calls(n)>> \o r)
  BY <1>0, <1>1, GroupIsTranscript
<1>6. calls' \in Seq(CallType) /\ \A i \in DOMAIN calls' : calls'[i].logged
  <2>1. [status |-> "executed", logged |-> TRUE] \in CallType
    BY DEF CallType, Status
  <2>2. calls' \in [1 .. n -> CallType]
    BY <2>1, <1>1, <1>3
  <2> QED
    BY <2>2, <1>1, <1>3
<1> HIDE DEF r, note, n
<1>7. Say(r \o note) /\ r \o note \in Seq(Message)
  BY <1>2, <1>3, <1>4, <1>5, Both
<1>8. ASSUME NEW ms \in Seq(Message), Awaits(ms, n)
      PROVE  IsTranscript(ms \o (r \o note))
  <2>1. PICK t \in Seq(Message) : IsTranscript(t) /\ ms = t \o <<Calls(n)>>
    BY <1>8 DEF Awaits
  <2>2. <<Calls(n)>> \o r \in Seq(Message)
    BY <1>5, Both
  <2>3. (t \o <<Calls(n)>>) \o r = t \o (<<Calls(n)>> \o r)
    BY <1>5, ConcatAssociative
  <2>4. ms \o r \in Seq(Message) /\ IsTranscript(ms \o r)
    BY <2>1, <2>2, <2>3, <1>5, TranscriptsJoin, Both
  <2>5. IsTranscript((ms \o r) \o note)
    BY <2>4, <1>4, PlainJoins
  <2>6. (ms \o r) \o note = ms \o (r \o note)
    BY <1>4, <1>5, ConcatAssociative
  <2> QED
    BY <2>5, <2>6
<1>9. ~shifted => IsTranscript(messages') /\ IsTranscript(surface')
  <2>1. ~shifted => Awaits(messages, n) /\ Awaits(surface, n)
    BY <1>3 DEF HistoryInv, Transcripts, Asking, n
  <2> QED
    BY <2>1, <1>0, <1>7, <1>8 DEF Say
<1>10. messages' \in Seq(Message) /\ surface' \in Seq(Message)
  BY <1>0, <1>7, Both DEF Say
<1>11. HistoryTypes'
  BY <1>0, <1>3, <1>6, <1>10 DEF HistoryTypes, Settled
<1>12. CallsTell' /\ Transcripts' /\ PlanFits'
  BY <1>3, <1>6, <1>9 DEF CallsTell, Transcripts, PlanFits, Settled, Asking
<1>13. Anchored'
  BY <1>3, <1>7, AnchorBelow
<1> QED
  BY <1>11, <1>12, <1>13 DEF HistoryInv

(***************************************************************************)
(* Every step.                                                             *)
(***************************************************************************)
LEMMA WishIsBoolean == Wish \subseteq BOOLEAN
BY DEF Wish

LEMMA HistoryReplies == HistoryInv /\ Replies => HistoryInv'
<1> SUFFICES ASSUME HistoryInv, Replies PROVE HistoryInv'
  OBVIOUS
<1>0. /\ turn \in Nat /\ step \in Nat /\ turn' = turn
      /\ plan \in [from : Nat, to : Nat, attempt : Nat, moved : BOOLEAN]
  BY DEF HistoryInv, HistoryTypes, Replies, ProviderFails, CutReply, EmptyReply, AuditBounces,
     Reply, StopHookBlocks, CommitReply, Finish
<1>1. /\ <<Msg("reply", turn)>> \in PlainOnes /\ <<Msg("note", turn)>> \in PlainOnes /\ <<>> \in PlainOnes
      /\ \A feedback \in BOOLEAN : Maybe(feedback, "note", turn) \o <<Msg("reply", turn)>> \in PlainOnes
  BY <1>0, PlainOne, PlainNone, PlainBoth DEF MessageKinds
<1>2. ASSUME NEW kind, NEW said \in PlainOnes, NEW gap, pc \in {"model", "stop"}, Finish(kind, said, gap)
      PROVE  HistoryInv'
  BY <1>2, HistoryFinish DEF Asking
<1>3. ProviderFails \/ (\E kind \in {"max-tokens", "completed"} : CutReply(kind)) => HistoryInv'
  BY <1>1, <1>2 DEF ProviderFails, CutReply
<1>4. ASSUME NEW feedback \in Wish, CommitReply(feedback) PROVE HistoryInv'
  <2>1. feedback \in BOOLEAN
    BY WishIsBoolean
  <2> QED
    BY <1>1, <1>2, <1>4, <2>1 DEF CommitReply
<1>5. ASSUME NEW said \in PlainOnes, NEW kind, Again(said, kind), pc \in {"model", "stop"},
             UNCHANGED <<turn, step, calls, plan, ended, shifted>>
      PROVE  HistoryInv'
  BY <1>5, <1>0, HistorySay DEF Again, Settled
<1>6. EmptyReply \/ AuditBounces \/ StopHookBlocks => HistoryInv'
  BY <1>1, <1>5 DEF EmptyReply, AuditBounces, StopHookBlocks, ghost
<1>7. ASSUME NEW claim, Reply(claim) PROVE HistoryInv'
  BY <1>7, <1>0, HistoryMoves DEF Reply, ghost, Settled
<1> QED
  BY <1>3, <1>4, <1>6, <1>7 DEF Replies

LEMMA HistoryRelief == HistoryInv /\ Relief => HistoryInv'
<1> SUFFICES ASSUME HistoryInv, Relief PROVE HistoryInv'
  OBVIOUS
<1>0. /\ turn \in Nat /\ step \in Nat /\ NoPlan \in [from : Nat, to : Nat, attempt : Nat, moved : BOOLEAN]
      /\ plan \in [from : Nat, to : Nat, attempt : Nat, moved : BOOLEAN]
  BY DEF HistoryInv, HistoryTypes, NoPlan
<1>1. ASSUME NEW feedback \in Wish, PreCompactBlocks(feedback) PROVE HistoryInv'
  <2>1. Maybe(feedback, "note", turn) \in PlainOnes
    BY <1>0, PlainOne, WishIsBoolean DEF MessageKinds
  <2> QED
    BY <1>0, <1>1, <2>1, HistorySay DEF PreCompactBlocks, Ask, ghost, Settled
<1>2. ASSUME NEW feedback \in Wish, Relieve(feedback) PROVE HistoryInv'
  BY <1>2, HistoryRelieve, WishIsBoolean
<1>3. CASE NoNeed
  BY <1>0, <1>3, HistoryMoves DEF NoNeed, Ask, ghost, Settled
<1>4. ASSUME NEW region \in Regions(messages, surface), pc = "measure", Summarize(region) PROVE HistoryInv'
  BY <1>4, HistorySummarize
<1> QED
  BY <1>1, <1>2, <1>3, <1>4, HistoryCommitSummary, HistoryDropSummary DEF Relief

LEMMA HistoryTools == HistoryInv /\ Tools => HistoryInv'
<1> SUFFICES ASSUME HistoryInv, Tools PROVE HistoryInv'
  OBVIOUS
<1>1. ASSUME NEW n \in CallCounts, NEW malformed \in [1 .. n -> BOOLEAN], ToolUse(malformed)
      PROVE  HistoryInv'
  BY <1>1, HistoryToolUse, AgentAssumption DEF AgentAssumption
<1>2. ASSUME NEW noted \in Wish, LogResults(noted) PROVE HistoryInv'
  BY <1>2, HistoryLogResults, WishIsBoolean
<1> QED
  BY <1>1, <1>2, HistoryApprove, HistoryRunTool DEF Tools

LEMMA HistoryWork == HistoryInv /\ Work => HistoryInv'
<1> SUFFICES ASSUME HistoryInv, Work PROVE HistoryInv'
  OBVIOUS
<1>0. /\ turn \in Nat /\ step \in Nat
      /\ plan \in [from : Nat, to : Nat, attempt : Nat, moved : BOOLEAN]
  BY DEF HistoryInv, HistoryTypes
<1>1. CASE BeginStep
  BY <1>0, <1>1, HistoryMoves DEF BeginStep, Ask, ghost, Settled
<1>2. CASE TurnsExhausted
  <2>1. <<Msg("reply", turn)>> \in PlainOnes
    BY <1>0, PlainOne DEF MessageKinds
  <2> QED
    BY <1>2, <2>1, HistoryFinish DEF TurnsExhausted, Asking
<1> QED
  BY <1>1, <1>2, HistoryRelief, HistoryReplies, HistoryTools DEF Work

\* The inductive invariant holds of every state of every run: however requests
\* are pruned, compacted, bounced, stopped and answered (AgentLoop.run,
\* _run_loop, _compact_step, _close_orphaned_tools).
THEOREM HistoryInvariant == Spec => []HistoryInv
<1>1. HistoryInv /\ [Next]_vars => HistoryInv'
  <2> SUFFICES ASSUME HistoryInv, [Next]_vars PROVE HistoryInv'
    OBVIOUS
  <2>1. ASSUME NEW injected \in Wish, NEW recalled \in Wish, StartTurn(injected, recalled)
        PROVE  HistoryInv'
    BY <2>1, HistoryStartTurn, WishIsBoolean
  <2>2. CASE Abort
    BY <2>2, HistoryFinish, PlainNone DEF Abort
  <2>3. CASE UNCHANGED vars
    BY <2>3 DEF vars, loop, ghost, HistoryInv, HistoryTypes, CallsTell, Transcripts, PlanFits,
       Anchored, AnchorAt, Awaits, Calls
  <2> QED
    BY <2>1, <2>2, <2>3, HistoryWork, HistoryIntrude DEF Next
<1> QED
  BY <1>1, HistoryInit, PTL DEF Spec

\* For any number of turns, steps, calls and retries: each request, and what a
\* turn leaves for the next, answers every call once, in order and right behind
\* the calls, unless a summary went over other messages than it read; and the
\* first prompt is never compacted away (_split_head, _pairing_cut,
\* _log_compaction, _close_orphaned_tools).
THEOREM HistoryStaysSound == Spec => []HistoryIsSound
<1>1. HistoryInv => HistoryIsSound
  <2> SUFFICES ASSUME HistoryInv PROVE HistoryIsSound
    OBVIOUS
  <2>1. Replayable
    BY DEF HistoryInv, Transcripts, Replayable, Settled, Asking
  <2>2. TaskIsKept
    <3>1. surface \in Seq(Message) /\ turn \in Nat
      BY DEF HistoryInv, HistoryTypes
    <3>2. DOMAIN surface = 1 .. Len(surface)
      BY <3>1, LenProperties
    <3> QED
      BY <3>1, <3>2 DEF HistoryInv, Anchored, AnchorAt, AnchoredAt, TaskIsKept
  <2> QED
    BY <2>1, <2>2 DEF HistoryIsSound
<1> QED
  BY <1>1, HistoryInvariant, PTL

-----------------------------------------------------------------------------
(* The clients of the MCP servers *)

ClientRecords ==
  [gen : Gens, server : Servers, up : BOOLEAN, op : {"new", "hand", "done"},
   status : {"off", "serving"}]

ManagerRecords ==
  [loaded : BOOLEAN, clients : [Servers -> Clients \union {0}], tools : SUBSET Clients,
   stop : {"no", "kill", "clear", "done"}]

LoaderRecords ==
  [pc : {"none", "lock", "load", "wait", "check", "swap", "reclaim", "done"},
   waits : SUBSET Clients, had : BOOLEAN]

ReloadRecords ==
  [pc : {"idle", "browser", "check", "new", "start", "done", "swap"}, born : Nat,
   server : Threads, gen : Gens \union {0}, client : Clients \union {0},
   before : SUBSET Servers, changed : BOOLEAN]

(* What the steps read is of the shape they take it for.                    *)
Formed ==
  /\ gen \in Gens /\ cur \in Gens \union {0} /\ closed \subseteq Gens
  /\ client \in Seq(ClientRecords)
  /\ mgr \in [Gens -> ManagerRecords]
  /\ agent \in [gen : Gens \union {0}, tools : SUBSET Clients]
  /\ loader \in [Gens -> LoaderRecords]
  /\ disp \in {"idle", "initialize", "mcp/shutdown", "building", "logout"}
  /\ rel \in [Threads -> ReloadRecords]
  /\ crossed \in BOOLEAN

(* One generation after another: an initialize closes the builder it        *)
(* supersedes, and a generation that is neither the current one nor closed  *)
(* has not begun.                                                           *)
Superseding ==
  /\ \A g \in closed : g <= gen
  /\ cur <= gen
  /\ disp = "initialize" => gen < MaxInits
  /\ disp \in {"initialize", "building", "mcp/shutdown"} /\ cur # 0 => cur \in closed
  /\ IF disp = "building" THEN cur # gen /\ gen \notin closed ELSE cur \in {0, gen}
  /\ \A g \in Gens \ (closed \union {cur}) : mgr[g] = FreshManager /\ loader[g] = NoLoader

(* A manager is being stopped once its builder is closed; before its load   *)
(* it has nothing.                                                          *)
Managing ==
  \A g \in Gens :
    /\ g \in closed <=> mgr[g].stop # "no"
    /\ loader[g].pc \in {"none", "lock", "load"} => ~mgr[g].loaded
    /\ ~mgr[g].loaded => mgr[g].tools = {} /\ \A s \in Servers : mgr[g].clients[s] = 0
    /\ \A s \in Servers : mgr[g].clients[s] # 0 =>
         client[mgr[g].clients[s]].gen = g /\ client[mgr[g].clients[s]].server = s

(* A client nothing needs to be done about: it is down for good, or one of  *)
(* those no shutdown will reach.                                            *)
Gone(c) == c \in missed \/ (~client[c].up /\ client[c].op # "new")

(* A reload works on the current builder or on one that has been closed     *)
(* under it; it begins with its old client shut down and ends with a new    *)
(* one in hand.                                                             *)
ReloadIs(r) ==
  /\ r.gen \in {0, cur} \union closed
  /\ r.pc \in {"idle", "browser", "check"} => r.gen = 0
  /\ r.pc \in {"check", "new", "start"} => r.server \in Servers
  /\ r.pc \in {"new", "start"} => r.gen # 0 /\ mgr[r.gen].loaded
  /\ r.pc = "swap" => r.gen # 0
  /\ r.pc = "new" => r.client = 0 \/ Gone(r.client)
  /\ r.pc = "start" => /\ r.client # 0
                       /\ client[r.client].gen = r.gen /\ client[r.client].server = r.server

Reloading ==
  /\ \A t \in Threads : ReloadIs(rel[t])
  /\ \A s \in Servers : rel[s].server = s
  /\ IF disp = "logout" THEN rel["dispatch"].gen \in {0, cur}
                        ELSE rel["dispatch"].pc = "idle"

InHand(c) == \E t \in Threads : rel[t].pc = "start" /\ rel[t].client = c

(* Somebody will see to every client that may run: its manager has it and   *)
(* is open or about to kill it, or the manager is closed and the reload     *)
(* that made it has it in hand.                                             *)
AttachedAt(c) ==
  LET g == client[c].gen
      has == mgr[g].clients[client[c].server] = c
  IN  IF g \in closed THEN InHand(c) \/ (mgr[g].stop = "kill" /\ has) ELSE has

Attached == \A c \in Clients : Gone(c) \/ AttachedAt(c)

Open == cur # 0 /\ cur \notin closed

(* The client of a wrapper is the one its manager has, or a reload is about *)
(* to build the tools anew.                                                 *)
InPlace(k) ==
  LET has == mgr[cur].clients[client[k].server]
  IN  has = k \/ InHand(has)

Wrapping == Open => \A k \in mgr[cur].tools : InPlace(k)

(* Somebody is about to build the agent anew.                               *)
Pending ==
  \/ loader[cur].pc \in {"check", "swap"} /\ loader[cur].had
  \/ \E t \in Threads : rel[t].gen = cur /\ (rel[t].pc = "swap" \/ (rel[t].pc = "done" /\ rel[t].changed))

Swapping ==
  /\ \A g \in Gens : loader[g].pc = "swap" => g = cur /\ disp # "building"
  /\ \A t \in Threads :
       /\ rel[t].pc = "swap" => cur # 0 /\ rel[t].gen = cur /\ disp # "building"
       /\ rel[t].pc \in {"new", "start"} \/ (rel[t].pc = "done" /\ rel[t].changed) =>
            rel[t].gen # 0 /\ rel[t].born = rel[t].gen

(* Until its load is over the current builder's agent has no MCP tools, and *)
(* nobody reloads anything.                                                 *)
Loading ==
  cur # 0 /\ loader[cur].pc \in {"lock", "load", "wait"} =>
    /\ agent.tools = {} /\ mgr[cur].tools = {}
    /\ \A t \in Threads : rel[t].gen # cur

Serving ==
  Open => \A k \in agent.tools :
    Pending \/ (client[k].server \in Exposed(mgr[cur].tools) /\ InPlace(k))

Served ==
  /\ cur # 0 => agent.gen = cur
  /\ Swapping
  /\ Loading
  /\ Serving

McpInvariant ==
  /\ Formed /\ Superseding /\ Managing /\ Reloading
  /\ Attached /\ Wrapping
  /\ ~crossed => Served

(* The servers configured are servers, and there are finitely many.         *)
LEMMA ConfiguredAreServers ==
  /\ DOMAIN ReadConfigs \subseteq Servers
  /\ IsFiniteSet(DOMAIN ReadConfigs)
<1>1. DOMAIN MergedEntries \subseteq Servers
  BY ServersAssumption DEF MergedEntries
<1>2. DOMAIN ReadConfigs \subseteq DOMAIN MergedEntries BY DEF ReadConfigs
<1>. QED BY <1>1, <1>2, ServersAssumption, FS_Subset

(* A load makes one client per server configured: their order has each      *)
(* server once.                                                             *)
LEMMA OrderIs ==
  ASSUME NEW S, IsFiniteSet(S)
  PROVE  /\ SetToSeq(S) \in Seq(S)
         /\ Len(SetToSeq(S)) \in Nat
         /\ DOMAIN SetToSeq(S) = 1..Len(SetToSeq(S))
         /\ \A i \in DOMAIN SetToSeq(S) : SetToSeq(S)[i] \in S
         /\ \A i, j \in DOMAIN SetToSeq(S) : SetToSeq(S)[i] = SetToSeq(S)[j] => i = j
         /\ \A s \in S : \E i \in DOMAIN SetToSeq(S) : SetToSeq(S)[i] = s
<1>. DEFINE n == Cardinality(S)
<1>. DEFINE q == SetToSeq(S)
<1>1. n \in Nat BY FS_CardinalityType
<1>2. \E f \in [1..n -> S] : IsInjective(f)
  <2>1. PICK b : b \in Bijection(1..n, S) BY FS_CardinalityType DEF ExistsBijection
  <2>. QED BY <2>1 DEF Bijection, Injection
<1>3. q \in [1..n -> S] /\ IsInjective(q) BY <1>2 DEF SetToSeq
<1>4. q \in Injection(1..n, S) BY <1>3 DEF Injection
<1>5. Cardinality(1..n) = n BY <1>1, FS_Interval
<1>6. q \in Surjection(1..n, S) BY <1>4, <1>5, FS_Injection
<1>7. \A s \in S : \E i \in 1..n : q[i] = s BY <1>6 DEF Surjection
<1>. HIDE DEF n, q
<1>8. q \in Seq(S) BY <1>1, <1>3
<1>9. Len(q) = n /\ DOMAIN q = 1..n BY <1>1, <1>3, <1>8
<1>. QED BY <1>1, <1>3, <1>7, <1>8, <1>9 DEF IsInjective, q

(* What the shape gives, field by field.                                    *)
Fielded ==
  /\ Len(client) \in Nat /\ Clients = 1..Len(client)
  /\ \A c \in Clients : /\ client[c] \in ClientRecords
                        /\ client[c].gen \in Gens /\ client[c].server \in Servers
                        /\ client[c].up \in BOOLEAN
  /\ DOMAIN mgr = Gens /\ DOMAIN loader = Gens /\ DOMAIN rel = Threads
  /\ \A g \in Gens : /\ mgr[g] \in ManagerRecords
                     /\ mgr[g].loaded \in BOOLEAN /\ mgr[g].tools \subseteq Clients
                     /\ mgr[g].stop \in {"no", "kill", "clear", "done"}
                     /\ DOMAIN mgr[g].clients = Servers
                     /\ \A s \in Servers : mgr[g].clients[s] \in Clients \union {0}
                     /\ loader[g] \in LoaderRecords
                     /\ loader[g].waits \subseteq Clients /\ loader[g].had \in BOOLEAN
  /\ \A t \in Threads : /\ rel[t] \in ReloadRecords
                        /\ rel[t].gen \in Gens \union {0} /\ rel[t].client \in Clients \union {0}
                        /\ rel[t].born \in Nat /\ rel[t].changed \in BOOLEAN
                        /\ rel[t].before \subseteq Servers /\ rel[t].server \in Threads
  /\ agent.gen \in Gens \union {0} /\ agent.tools \subseteq Clients
  /\ Gens \subseteq Nat /\ 0 \notin Gens /\ gen \in Nat /\ cur \in Nat /\ 0 \notin Clients
  /\ Servers \subseteq Threads /\ "dispatch" \in Threads

(* The fields of the records are where the steps look for them.             *)
LEMMA FieldedIs == Formed => Fielded
<1>. SUFFICES ASSUME Formed PROVE Fielded OBVIOUS
<1>1. Len(client) \in Nat /\ Clients = 1..Len(client) /\ 0 \notin Clients BY DEF Formed, Clients
<1>2. ASSUME NEW c \in Clients
      PROVE  /\ client[c] \in ClientRecords
             /\ client[c].gen \in Gens /\ client[c].server \in Servers
             /\ client[c].up \in BOOLEAN
  <2>1. client[c] \in ClientRecords BY <1>1 DEF Formed
  <2>. QED BY <2>1 DEF ClientRecords
<1>3. DOMAIN mgr = Gens /\ DOMAIN loader = Gens /\ DOMAIN rel = Threads BY DEF Formed
<1>4. ASSUME NEW g \in Gens
      PROVE  /\ mgr[g] \in ManagerRecords
             /\ mgr[g].loaded \in BOOLEAN /\ mgr[g].tools \subseteq Clients
             /\ mgr[g].stop \in {"no", "kill", "clear", "done"}
             /\ DOMAIN mgr[g].clients = Servers
             /\ \A s \in Servers : mgr[g].clients[s] \in Clients \union {0}
             /\ loader[g] \in LoaderRecords
             /\ loader[g].waits \subseteq Clients /\ loader[g].had \in BOOLEAN
  <2>1. mgr[g] \in ManagerRecords /\ loader[g] \in LoaderRecords BY DEF Formed
  <2>2. /\ mgr[g].loaded \in BOOLEAN /\ mgr[g].tools \subseteq Clients
        /\ mgr[g].stop \in {"no", "kill", "clear", "done"}
        /\ mgr[g].clients \in [Servers -> Clients \union {0}]
    BY <2>1 DEF ManagerRecords
  <2>3. loader[g].waits \subseteq Clients /\ loader[g].had \in BOOLEAN
    BY <2>1 DEF LoaderRecords
  <2>. QED BY <2>1, <2>2, <2>3
<1>5. ASSUME NEW t \in Threads
      PROVE  /\ rel[t] \in ReloadRecords
             /\ rel[t].gen \in Gens \union {0} /\ rel[t].client \in Clients \union {0}
             /\ rel[t].born \in Nat /\ rel[t].changed \in BOOLEAN
             /\ rel[t].before \subseteq Servers /\ rel[t].server \in Threads
  <2>1. rel[t] \in ReloadRecords BY DEF Formed
  <2>. QED BY <2>1 DEF ReloadRecords
<1>6. agent.gen \in Gens \union {0} /\ agent.tools \subseteq Clients BY DEF Formed
<1>7. Gens \subseteq Nat /\ 0 \notin Gens BY ServersAssumption, SMT DEF Gens
<1>8. gen \in Nat /\ cur \in Nat BY <1>7 DEF Formed
<1>9. Servers \subseteq Threads /\ "dispatch" \in Threads BY DEF Threads
<1>. QED BY <1>1, <1>2, <1>3, <1>4, <1>5, <1>6, <1>7, <1>8, <1>9 DEF Fielded

(* More clients: what named one still does.                                 *)
LEMMA Widening ==
  ASSUME Clients \subseteq Clients'
  PROVE  /\ ManagerRecords \subseteq ManagerRecords'
         /\ LoaderRecords \subseteq LoaderRecords'
         /\ ReloadRecords \subseteq ReloadRecords'
         /\ [gen : Gens \union {0}, tools : SUBSET Clients]
              \subseteq [gen : Gens \union {0}, tools : SUBSET Clients']
<1>1. ManagerRecords \subseteq ManagerRecords' BY DEF ManagerRecords
<1>2. LoaderRecords \subseteq LoaderRecords' BY DEF LoaderRecords
<1>3. ReloadRecords \subseteq ReloadRecords' BY DEF ReloadRecords
<1>. QED BY <1>1, <1>2, <1>3

(* The shape is kept by steps that give what they change its shape.         *)
LEMMA FormedKept ==
  ASSUME Formed, Clients \subseteq Clients', client' \in Seq(ClientRecords),
         gen' \in Gens, cur' \in Gens \union {0}, closed' \subseteq Gens,
         mgr' = mgr \/ mgr' \in [Gens -> ManagerRecords'],
         agent' = agent \/ agent' \in [gen : Gens \union {0}, tools : SUBSET Clients'],
         loader' = loader \/ loader' \in [Gens -> LoaderRecords'],
         disp' \in {"idle", "initialize", "mcp/shutdown", "building", "logout"},
         rel' = rel \/ rel' \in [Threads -> ReloadRecords'],
         crossed' \in BOOLEAN
  PROVE  Formed'
<1>1. /\ ManagerRecords \subseteq ManagerRecords'
      /\ LoaderRecords \subseteq LoaderRecords'
      /\ ReloadRecords \subseteq ReloadRecords'
      /\ [gen : Gens \union {0}, tools : SUBSET Clients]
              \subseteq [gen : Gens \union {0}, tools : SUBSET Clients']
  BY Widening
<1>2. mgr' \in [Gens -> ManagerRecords'] BY <1>1 DEF Formed
<1>3. loader' \in [Gens -> LoaderRecords'] BY <1>1 DEF Formed
<1>4. rel' \in [Threads -> ReloadRecords'] BY <1>1 DEF Formed
<1>5. agent' \in [gen : Gens \union {0}, tools : SUBSET Clients'] BY <1>1 DEF Formed
<1>6. client' \in Seq(ClientRecords)' BY DEF ClientRecords, Gens
<1>. QED BY <1>2, <1>3, <1>4, <1>5, <1>6 DEF Formed, Gens, Threads

(* Clients get older: they keep their builder and their server, and one     *)
(* that is gone stays so.                                                   *)
Aged ==
  /\ Clients \subseteq Clients'
  /\ \A c \in Clients : /\ client'[c].gen = client[c].gen /\ client'[c].server = client[c].server
                        /\ Gone(c) => Gone(c)'

(* A step that leaves the clients alone ages none of them.                  *)
LEMMA SameClientsAge ==
  ASSUME UNCHANGED client, missed \subseteq missed'
  PROVE  Aged
BY DEF Aged, Gone, Clients

(* A client's own step leaves it what it was, but for how far it is.        *)
LEMMA ClientAges ==
  ASSUME Formed, NEW c \in Clients, NEW r \in ClientRecords, client' = [client EXCEPT ![c] = r],
         r.gen = client[c].gen, r.server = client[c].server,
         client[c].op # "new" /\ r.up => client[c].up, r.op # "new", UNCHANGED missed
  PROVE  Aged /\ client' \in Seq(ClientRecords) /\ Clients' = Clients
<1>1. Clients = 1..Len(client) /\ Len(client) \in Nat BY FieldedIs DEF Fielded
<1>2. client' \in Seq(ClientRecords) /\ Clients' = Clients BY <1>1 DEF Formed, Clients
<1>3. ASSUME NEW d \in Clients
      PROVE  /\ client'[d].gen = client[d].gen /\ client'[d].server = client[d].server
             /\ Gone(d) => Gone(d)'
  <2>1. client'[d] = IF d = c THEN r ELSE client[d] BY <1>1 DEF Formed
  <2>. QED BY <2>1 DEF Gone
<1>. QED BY <1>2, <1>3 DEF Aged

(* Those that are killed are gone, or were not open yet and are missed.     *)
LEMMA KilledAge ==
  ASSUME Formed, NEW cs, client' = Killed(cs), missed \union Unopened(cs \ {0}) \subseteq missed'
  PROVE  /\ Aged /\ client' \in Seq(ClientRecords) /\ Clients' = Clients
         /\ \A c \in Clients : c \in cs => Gone(c)'
         /\ \A c \in Clients : client'[c].op = client[c].op
<1>1. /\ Clients = 1..Len(client) /\ Len(client) \in Nat /\ 0 \notin Clients
      /\ \A c \in Clients : client[c] \in ClientRecords
  BY FieldedIs DEF Fielded
<1>2. ASSUME NEW c \in Clients
      PROVE  /\ client'[c] = IF c \in cs THEN [client[c] EXCEPT !.up = FALSE, !.status = "off"]
                                         ELSE client[c]
             /\ client'[c] \in ClientRecords
             /\ client'[c].gen = client[c].gen /\ client'[c].server = client[c].server
             /\ client'[c].op = client[c].op
             /\ c \in cs => ~client'[c].up
             /\ client'[c].up => client[c].up
  <2>1. client'[c] = IF c \in cs THEN [client[c] EXCEPT !.up = FALSE, !.status = "off"]
                                 ELSE client[c]
    BY DEF Killed
  <2>2. client[c] \in ClientRecords BY <1>1
  <2>. QED BY <2>1, <2>2 DEF ClientRecords
<1>3. client' \in [1..Len(client) -> ClientRecords]
  <2>1. DOMAIN client' = Clients BY DEF Killed
  <2>2. client' = [c \in Clients |-> client'[c]] BY DEF Killed
  <2>. QED BY <1>1, <1>2, <2>2
<1>4. client' \in Seq(ClientRecords) /\ Clients' = Clients BY <1>1, <1>3 DEF Clients
<1>5. ASSUME NEW c \in Clients PROVE (Gone(c) => Gone(c)') /\ (c \in cs => Gone(c)')
  <2>1. c \in cs /\ client[c].op = "new" => c \in Unopened(cs \ {0}) BY <1>1 DEF Unopened
  <2>. QED BY <1>2, <2>1 DEF Gone
<1>. QED BY <1>2, <1>4, <1>5 DEF Aged

(* A generation whose manager or loader is at work is current or closed.    *)
LEMMA BegunIs ==
  ASSUME Superseding, NEW g \in Gens,
         loader[g].pc # "none" \/ mgr[g].stop # "no" \/ mgr[g].loaded
  PROVE  g \in closed \union {cur}
<1>1. FreshManager.stop = "no" /\ FreshManager.loaded = FALSE /\ NoLoader.pc = "none"
  BY DEF FreshManager, NoLoader
<1>. QED BY <1>1 DEF Superseding

(* Work on a generation that has begun changes nothing about those that     *)
(* have not.                                                                *)
LEMMA SupersedingKept ==
  ASSUME Superseding, UNCHANGED <<gen, cur, closed>>,
         \/ disp' = disp
         \/ disp = "idle" /\ disp' = "logout"
         \/ disp \in {"logout", "mcp/shutdown"} /\ disp' = "idle",
         \A g \in Gens \ (closed \union {cur}) : mgr'[g] = mgr[g] /\ loader'[g] = loader[g]
  PROVE  Superseding'
<1>1. \A g \in (Gens \ (closed \union {cur}))' : (mgr[g] = FreshManager /\ loader[g] = NoLoader)'
  BY DEF Superseding, Gens, FreshManager, NoLoader
<1>. QED BY <1>1 DEF Superseding

(* The manager of a generation does not change but for its tools.           *)
SameManager(g) ==
  /\ mgr'[g].clients = mgr[g].clients /\ mgr'[g].stop = mgr[g].stop
  /\ mgr'[g].loaded = mgr[g].loaded /\ (mgr[g].loaded \/ mgr'[g].tools = mgr[g].tools)

(* The managers stay as they are accounted for.                             *)
LEMMA ManagingKept ==
  ASSUME Formed, Managing, Aged, UNCHANGED closed, \A g \in Gens : SameManager(g),
         \A g \in Gens : loader'[g].pc \in {"none", "lock", "load"} =>
                           loader[g].pc \in {"none", "lock", "load"}
  PROVE  Managing'
<1>1. ASSUME NEW g \in Gens, NEW s \in Servers, mgr[g].clients[s] # 0
      PROVE  mgr[g].clients[s] \in Clients
  BY <1>1, FieldedIs DEF Fielded
<1>. QED BY <1>1 DEF Managing, SameManager, Aged, Gens

(* A reload in hand stays so.                                               *)
SameHands ==
  \A t \in Threads : rel[t].pc = "start" => rel'[t].pc = "start" /\ rel'[t].client = rel[t].client

(* What one reload has in hand does not depend on the others.               *)
LEMMA HandsStay ==
  ASSUME SameHands, NEW c
  PROVE  InHand(c) => InHand(c)'
BY DEF SameHands, InHand, Threads

(* A reload that does not move stays where it was.                          *)
LEMMA ReloadStays ==
  ASSUME Formed, Aged, NEW r \in ReloadRecords, ReloadIs(r),
         {0, cur} \union closed \subseteq {0, cur'} \union closed',
         \A g \in Gens : mgr[g].loaded => mgr'[g].loaded
  PROVE  ReloadIs(r)'
<1>1. r.client \in Clients \union {0} /\ r.gen \in Gens \union {0} BY DEF ReloadRecords
<1>2. r.pc = "new" => (r.client = 0 \/ Gone(r.client))' BY <1>1 DEF ReloadIs, Aged
<1>3. r.pc = "start" => /\ r.client # 0
                       /\ client'[r.client].gen = r.gen /\ client'[r.client].server = r.server
  BY <1>1 DEF ReloadIs, Aged
<1>. QED BY <1>1, <1>2, <1>3 DEF ReloadIs

(* A step that moves no reload leaves them accounted for.                   *)
LEMMA ReloadingKept ==
  ASSUME Formed, Reloading, Aged, UNCHANGED rel,
         {0, cur} \union closed \subseteq {0, cur'} \union closed', cur' = cur \/ disp # "logout",
         (disp' = "logout") <=> (disp = "logout"),
         \A g \in Gens : mgr[g].loaded => mgr'[g].loaded
  PROVE  Reloading'
<1>1. ASSUME NEW t \in Threads PROVE ReloadIs(rel[t])'
  <2>1. rel[t] \in ReloadRecords /\ ReloadIs(rel[t]) BY FieldedIs DEF Fielded, Reloading
  <2>. QED BY <2>1, ReloadStays
<1>. QED BY <1>1 DEF Reloading, Threads

(* One thread's reload moves on.                                            *)
LEMMA ReloadMoves ==
  ASSUME Formed, Reloading, Aged, UNCHANGED <<cur, closed>>, NEW t \in Threads, NEW r,
         ReloadAt(t, r), ReloadIs(r)', t \in Servers => r.server = t,
         IF t = "dispatch" THEN IF disp' = "logout" THEN r.gen \in {0, cur} ELSE r.pc = "idle"
                           ELSE (disp' = "logout") <=> (disp = "logout"),
         \A g \in Gens : mgr[g].loaded => mgr'[g].loaded
  PROVE  Reloading'
<1>1. ASSUME NEW u \in Threads PROVE ReloadIs(rel[u])'
  <2>1. rel[u] \in ReloadRecords /\ ReloadIs(rel[u]) BY FieldedIs DEF Fielded, Reloading
  <2>2. ReloadIs(rel[u])' \/ u = t
    <3>1. rel'[u] = rel[u] \/ u = t BY DEF ReloadAt, Formed
    <3>2. (\E x \in ReloadRecords : x = rel[u] /\ ReloadIs(x)') BY <2>1, ReloadStays
    <3>. QED BY <3>1, <3>2 DEF ReloadIs
  <2>3. rel'[t] = r BY DEF ReloadAt, Formed
  <2>. QED BY <2>2, <2>3 DEF ReloadIs
<1>2. rel'["dispatch"] = IF t = "dispatch" THEN r ELSE rel["dispatch"]
  BY FieldedIs DEF ReloadAt, Formed, Fielded
<1>3. "dispatch" \in Threads BY DEF Threads
<1>4. ASSUME NEW s \in Servers PROVE rel'[s].server = s
  <2>1. s \in Threads /\ rel[s].server = s BY DEF Threads, Reloading
  <2>2. rel'[s] = IF s = t THEN r ELSE rel[s] BY <2>1 DEF ReloadAt, Formed
  <2>. QED BY <2>1, <2>2
<1>. QED BY <1>1, <1>2, <1>3, <1>4 DEF Reloading, Threads

(* Nobody lets go of a client.                                              *)
LEMMA AttachedKept ==
  ASSUME Formed, Attached, Aged, UNCHANGED closed, Clients' = Clients, SameHands,
         \A g \in Gens : mgr'[g].clients = mgr[g].clients /\ mgr'[g].stop = mgr[g].stop
  PROVE  Attached'
<1>1. ASSUME NEW c \in Clients, ~Gone(c)' PROVE AttachedAt(c)'
  <2>1. AttachedAt(c) /\ client[c].gen \in Gens BY <1>1, FieldedIs DEF Attached, Aged, Fielded
  <2>2. client'[c].gen = client[c].gen /\ client'[c].server = client[c].server BY DEF Aged
  <2>3. InHand(c) => InHand(c)' BY HandsStay
  <2>. QED BY <2>1, <2>2, <2>3 DEF AttachedAt
<1>. QED BY <1>1 DEF Attached

(* A client in its place stays there while the manager does.                *)
LEMMA InPlaceStays ==
  ASSUME Formed, Aged, cur' = cur, cur \in Gens, SameHands, mgr'[cur].clients = mgr[cur].clients,
         NEW k \in Clients, InPlace(k)
  PROVE  InPlace(k)'
<1>1. client'[k].server = client[k].server BY DEF Aged
<1>2. PICK h : h = mgr[cur].clients[client[k].server] OBVIOUS
<1>3. (mgr[cur].clients[client[k].server])' = h BY <1>1, <1>2
<1>4. h = k \/ InHand(h) BY <1>2 DEF InPlace
<1>5. h = k \/ InHand(h)' BY <1>4, HandsStay
<1>. QED BY <1>3, <1>5 DEF InPlace, InHand

(* A step that rebuilds nothing leaves the wrappers accounted for.          *)
LEMMA WrappingKept ==
  ASSUME Formed, Wrapping, Aged, Open' => Open /\ cur' = cur, SameHands,
         Open => mgr'[cur].clients = mgr[cur].clients /\ mgr'[cur].tools \subseteq mgr[cur].tools
  PROVE  Wrapping'
<1>. SUFFICES ASSUME Open', NEW k \in mgr'[cur'].tools PROVE InPlace(k)'
  BY DEF Wrapping
<1>1. Open /\ cur' = cur /\ cur \in Gens BY DEF Open, Formed
<1>2. k \in mgr[cur].tools /\ k \in Clients BY <1>1, FieldedIs DEF Fielded
<1>3. InPlace(k) BY <1>1, <1>2 DEF Wrapping
<1>. QED BY <1>1, <1>2, <1>3, InPlaceStays

(* What exposes the tools of a server still does.                           *)
LEMMA ExposedStays ==
  ASSUME Formed, Aged, NEW tools \in SUBSET Clients
  PROVE  {client'[k].server : k \in tools} = Exposed(tools)
BY DEF Exposed, Aged

(* Somebody who was about to rebuild the agent still is, the agent and the  *)
(* tools are the same.                                                      *)
LEMMA ServingKept ==
  ASSUME Formed, Serving, Aged, Open' => Open /\ cur' = cur, SameHands, UNCHANGED agent,
         Open => mgr'[cur].clients = mgr[cur].clients /\ mgr'[cur].tools = mgr[cur].tools,
         Open /\ Open' /\ Pending => Pending'
  PROVE  Serving'
<1>. SUFFICES ASSUME Open', NEW k \in agent.tools, ~Pending'
              PROVE  client'[k].server \in (Exposed(mgr[cur].tools))' /\ InPlace(k)'
  BY DEF Serving
<1>1. Open /\ cur' = cur /\ cur \in Gens BY DEF Open, Formed
<1>2. k \in Clients /\ mgr[cur].tools \subseteq Clients BY <1>1, FieldedIs DEF Fielded
<1>3. ~Pending BY <1>1
<1>4. client[k].server \in Exposed(mgr[cur].tools) /\ InPlace(k) BY <1>1, <1>3 DEF Serving
<1>5. (Exposed(mgr[cur].tools))' = {client'[j].server : j \in mgr[cur].tools} BY <1>1 DEF Exposed
<1>6. (Exposed(mgr[cur].tools))' = Exposed(mgr[cur].tools) BY <1>2, <1>5, ExposedStays
<1>7. client'[k].server = client[k].server BY <1>2 DEF Aged
<1>. QED BY <1>1, <1>2, <1>4, <1>6, <1>7, InPlaceStays

(* Whether a reload is about to rebuild the agent of generation g.          *)
Rebuilds(r, g) == r.gen = g /\ (r.pc = "swap" \/ (r.pc = "done" /\ r.changed))

(* What a reload's record says of an agent to be built.                     *)
SwapIs(r) ==
  /\ r.pc = "swap" => cur # 0 /\ r.gen = cur /\ disp # "building"
  /\ r.pc \in {"new", "start"} \/ (r.pc = "done" /\ r.changed) =>
       r.gen # 0 /\ r.born = r.gen

(* Somebody is about to put another agent in place.                         *)
LEMMA SwappingIs ==
  Swapping <=> /\ \A g \in Gens : loader[g].pc = "swap" => g = cur /\ disp # "building"
               /\ \A t \in Threads : SwapIs(rel[t])
BY DEF Swapping, SwapIs

(* Somebody is about to rebuild the tools of a generation.                  *)
LEMMA PendingIs ==
  Pending <=> \/ loader[cur].pc \in {"check", "swap"} /\ loader[cur].had
              \/ \E t \in Threads : Rebuilds(rel[t], cur)
BY DEF Pending, Rebuilds

(* Steps of clients, and shutdowns of them, change nothing else.            *)
LEMMA ClientsMove ==
  ASSUME McpInvariant, Aged, client' \in Seq(ClientRecords), Clients' = Clients,
         UNCHANGED <<gen, cur, closed, mgr, agent, loader, disp, rel, crossed>>
  PROVE  McpInvariant'
<1>1. /\ Formed /\ Superseding /\ Managing /\ Reloading /\ Attached /\ Wrapping
      /\ ~crossed => Served
  BY DEF McpInvariant
<1>2. Formed'
  <2>1. /\ gen \in Gens /\ cur \in Gens \union {0} /\ closed \subseteq Gens /\ crossed \in BOOLEAN
        /\ disp \in {"idle", "initialize", "mcp/shutdown", "building", "logout"}
    BY <1>1 DEF Formed
  <2>. QED BY <1>1, <2>1, FormedKept
<1>3. SameHands /\ \A g \in Gens : SameManager(g) BY DEF SameHands, SameManager
<1>4. Superseding' BY <1>1, SupersedingKept
<1>5. Managing' BY <1>1, <1>3, ManagingKept
<1>6. Reloading' BY <1>1, ReloadingKept
<1>7. Attached' BY <1>1, <1>3, AttachedKept
<1>8. Wrapping' BY <1>1, <1>3, WrappingKept DEF Open
<1>9. ~crossed' => Served'
  <2>. SUFFICES ASSUME ~crossed PROVE Served' OBVIOUS
  <2>1. (cur # 0 => agent.gen = cur)' /\ Swapping' /\ Loading'
    BY <1>1 DEF Served, Swapping, Loading, Gens, Threads
  <2>2. Pending => Pending' BY DEF Pending, Threads
  <2>3. Serving' BY <1>1, <1>3, <2>2, ServingKept DEF Served, Open
  <2>. QED BY <2>1, <2>3 DEF Served
<1>. QED BY <1>2, <1>4, <1>5, <1>6, <1>7, <1>8, <1>9 DEF McpInvariant

(* A client opens its transport, cannot, or fails its handshake.            *)
LEMMA ClientStepKeeps ==
  ASSUME McpInvariant, NEW c \in Clients, ClientStep(c) \/ HandshakeSucceeds(c)
  PROVE  McpInvariant'
<1>1. Formed /\ client[c] \in ClientRecords BY FieldedIs DEF McpInvariant, Fielded
<1>2. UNCHANGED <<gen, cur, closed, mgr, agent, loader, disp, rel, missed, crossed>>
  BY DEF ClientStep, ClientStarts, ClientCannotStart, HandshakeFails, HandshakeSucceeds
<1>3. PICK r \in ClientRecords :
         /\ client' = [client EXCEPT ![c] = r]
         /\ r.gen = client[c].gen /\ r.server = client[c].server
         /\ client[c].op # "new" /\ r.up => client[c].up
         /\ r.op # "new"
  <2>1. CASE ClientStarts(c)
    <3>1. client' = [client EXCEPT ![c] = [client[c] EXCEPT !.up = TRUE, !.op = "hand"]]
          /\ client[c].op = "new"
      BY <1>1, <2>1 DEF ClientStarts, Formed
    <3>2. [client[c] EXCEPT !.up = TRUE, !.op = "hand"] \in ClientRecords BY <1>1 DEF ClientRecords
    <3>. QED BY <1>1, <3>1, <3>2 DEF ClientRecords
  <2>2. CASE ClientCannotStart(c)
    <3>1. client' = [client EXCEPT ![c] = [client[c] EXCEPT !.op = "done"]]
      BY <1>1, <2>2 DEF ClientCannotStart, Formed
    <3>2. [client[c] EXCEPT !.op = "done"] \in ClientRecords BY <1>1 DEF ClientRecords
    <3>. QED BY <1>1, <3>1, <3>2 DEF ClientRecords
  <2>3. CASE HandshakeSucceeds(c)
    <3>1. client' = [client EXCEPT ![c] = [client[c] EXCEPT !.op = "done", !.status = "serving"]]
      BY <1>1, <2>3 DEF HandshakeSucceeds, Formed
    <3>2. [client[c] EXCEPT !.op = "done", !.status = "serving"] \in ClientRecords
      BY <1>1 DEF ClientRecords
    <3>. QED BY <1>1, <3>1, <3>2 DEF ClientRecords
  <2>4. CASE HandshakeFails(c)
    <3>1. PICK keeps \in BOOLEAN :
            client' = [client EXCEPT ![c].op = "done", ![c].up = @ /\ keeps]
      <4>1. PICK keeps \in {FALSE, ReadConfigs[client[c].server].transport = "http"} :
              client' = [client EXCEPT ![c].op = "done", ![c].up = @ /\ keeps]
        BY <2>4 DEF HandshakeFails
      <4>2. keeps \in BOOLEAN OBVIOUS
      <4>. QED BY <4>1, <4>2
    <3>2. client' = [client EXCEPT ![c] = [client[c] EXCEPT !.op = "done", !.up = client[c].up /\ keeps]]
      BY <1>1, <3>1 DEF Formed, ClientRecords
    <3>3. [client[c] EXCEPT !.op = "done", !.up = client[c].up /\ keeps] \in ClientRecords
      BY <1>1 DEF ClientRecords
    <3>. QED BY <1>1, <3>2, <3>3 DEF ClientRecords
  <2>. QED BY <2>1, <2>2, <2>3, <2>4 DEF ClientStep
<1>4. Aged /\ client' \in Seq(ClientRecords) /\ Clients' = Clients
  BY <1>1, <1>2, <1>3, ClientAges
<1>. QED BY <1>2, <1>4, ClientsMove

(* A loader's stage that changes neither managers nor agent.                *)
LEMMA LoaderMoves ==
  ASSUME McpInvariant, NEW g \in Gens, NEW l \in LoaderRecords,
         loader' = [loader EXCEPT ![g] = l], loader[g].pc # "none",
         Aged, client' \in Seq(ClientRecords), Clients' = Clients,
         UNCHANGED <<gen, cur, closed, mgr, agent, disp, rel, crossed>>,
         l.pc \in {"none", "lock", "load"} => loader[g].pc \in {"none", "lock", "load"},
         l.pc \in {"lock", "load", "wait"} => loader[g].pc \in {"lock", "load", "wait"},
         l.pc = "swap" => g = cur /\ disp # "building",
         Open /\ g = cur /\ loader[g].pc \in {"check", "swap"} /\ loader[g].had =>
           l.pc \in {"check", "swap"} /\ l.had
  PROVE  McpInvariant'
<1>1. /\ Formed /\ Superseding /\ Managing /\ Reloading /\ Attached /\ Wrapping
      /\ ~crossed => Served
  BY DEF McpInvariant
<1>2. DOMAIN loader = Gens /\ \A h \in Gens : loader'[h] = IF h = g THEN l ELSE loader[h]
  BY <1>1 DEF Formed
<1>3. Formed'
  <2>1. /\ gen \in Gens /\ cur \in Gens \union {0} /\ closed \subseteq Gens /\ crossed \in BOOLEAN
        /\ disp \in {"idle", "initialize", "mcp/shutdown", "building", "logout"}
        /\ loader' \in [Gens -> LoaderRecords]
    BY <1>1 DEF Formed
  <2>2. loader' \in [Gens -> LoaderRecords'] BY <2>1, Widening
  <2>. QED BY <1>1, <2>1, <2>2, FormedKept
<1>4. SameHands /\ \A h \in Gens : SameManager(h) BY DEF SameHands, SameManager
<1>5. Superseding'
  <2>1. g \in closed \union {cur} BY <1>1, BegunIs
  <2>. QED BY <1>1, <1>2, <2>1, SupersedingKept
<1>6. Managing' BY <1>1, <1>2, <1>4, ManagingKept
<1>7. Reloading' BY <1>1, ReloadingKept
<1>8. Attached' BY <1>1, <1>4, AttachedKept
<1>9. Wrapping' BY <1>1, <1>4, WrappingKept DEF Open
<1>10. ~crossed' => Served'
  <2>. SUFFICES ASSUME ~crossed PROVE Served' OBVIOUS
  <2>1. (cur # 0 => agent.gen = cur)' BY <1>1 DEF Served
  <2>2. Swapping' BY <1>1, <1>2 DEF Served, Swapping, Gens, Threads
  <2>3. Loading'
    <3>1. cur # 0 => cur \in Gens BY <1>1 DEF Formed
    <3>. QED BY <1>1, <1>2, <3>1 DEF Served, Loading, Threads
  <2>4. Open /\ Pending => Pending'
    <3>1. Open => cur \in Gens BY <1>1 DEF Formed, Open
    <3>. QED BY <1>2, <3>1 DEF Pending, Threads
  <2>5. Serving' BY <1>1, <1>4, <2>4, ServingKept DEF Served, Open
  <2>. QED BY <2>1, <2>2, <2>3, <2>5 DEF Served
<1>. QED BY <1>3, <1>5, <1>6, <1>7, <1>8, <1>9, <1>10 DEF McpInvariant

(* A load begins unless its builder is closed.                              *)
LEMMA LoaderLocksKeeps ==
  ASSUME McpInvariant, NEW g \in Gens, LoaderLocks(g)
  PROVE  McpInvariant'
<1>1. Formed /\ loader[g] \in LoaderRecords /\ loader[g].pc = "lock"
  BY FieldedIs DEF McpInvariant, Fielded, LoaderLocks
<1>. DEFINE l == [loader[g] EXCEPT !.pc = IF g \in closed THEN "check" ELSE "load"]
<1>2. l \in LoaderRecords /\ l.pc \in {"check", "load"} BY <1>1 DEF LoaderRecords
<1>3. loader' = [loader EXCEPT ![g] = l] BY <1>1 DEF LoaderLocks, LoaderAt, Formed
<1>4. Aged /\ client' \in Seq(ClientRecords) /\ Clients' = Clients
  BY <1>1, SameClientsAge DEF LoaderLocks, Formed, Clients
<1>. HIDE DEF l
<1>. QED BY <1>1, <1>2, <1>3, <1>4, LoaderMoves DEF LoaderLocks

(* A load that gives up on a server shuts down the client of that name, or  *)
(* ends if there is none.                                                   *)
LEMMA LoaderGivesUpKeeps ==
  ASSUME McpInvariant, NEW g \in Gens, LoaderGivesUp(g)
  PROVE  McpInvariant'
<1>1. Formed /\ Fielded /\ loader[g] \in LoaderRecords /\ loader[g].pc = "wait"
  BY FieldedIs DEF McpInvariant, Fielded, LoaderGivesUp
<1>2. UNCHANGED <<gen, cur, closed, mgr, agent, disp, rel, crossed>> BY DEF LoaderGivesUp
<1>3. PICK c \in loader[g].waits :
       LET named == mgr[g].clients[client[c].server]
       IN  IF named = 0
                THEN /\ loader' = [loader EXCEPT ![g] = [NoLoader EXCEPT !.pc = "done"]]
                     /\ UNCHANGED <<client, missed>>
                ELSE /\ loader' = [loader EXCEPT ![g].waits = @ \ {c}]
                     /\ client' = Killed({named})
                     /\ missed' = missed \union Unopened({named})
  BY DEF LoaderGivesUp
<1>. DEFINE named == mgr[g].clients[client[c].server]
<1>4. CASE named = 0
  <2>. DEFINE l == [NoLoader EXCEPT !.pc = "done"]
  <2>1. l \in LoaderRecords /\ l.pc = "done" BY DEF NoLoader, LoaderRecords
  <2>2. loader' = [loader EXCEPT ![g] = l] /\ UNCHANGED <<client, missed>> BY <1>3, <1>4
  <2>3. Aged /\ client' \in Seq(ClientRecords) /\ Clients' = Clients
    BY <1>1, <2>2, SameClientsAge DEF Formed, Clients
  <2>. HIDE DEF l
  <2>. QED BY <1>1, <1>2, <2>1, <2>2, <2>3, LoaderMoves
<1>5. CASE named # 0
  <2>. DEFINE l == [loader[g] EXCEPT !.waits = loader[g].waits \ {c}]
  <2>1. l \in LoaderRecords /\ l.pc = "wait" BY <1>1 DEF LoaderRecords
  <2>2. loader' = [loader EXCEPT ![g] = l] BY <1>1, <1>3, <1>5 DEF Formed, LoaderRecords
  <2>3. client' = Killed({named}) /\ missed \union Unopened({named} \ {0}) \subseteq missed'
    <3>1. {named} \ {0} = {named} BY <1>5
    <3>. QED BY <1>3, <1>5, <3>1
  <2>4. Aged /\ client' \in Seq(ClientRecords) /\ Clients' = Clients BY <1>1, <2>3, KilledAge
  <2>. HIDE DEF l
  <2>. QED BY <1>1, <1>2, <2>1, <2>2, <2>4, LoaderMoves
<1>. QED BY <1>4, <1>5

(* A superseded load returns once its manager is shut down.                 *)
LEMMA LoaderReclaimedKeeps ==
  ASSUME McpInvariant, NEW g \in Gens, LoaderReclaimed(g)
  PROVE  McpInvariant'
<1>1. Formed /\ loader[g] \in LoaderRecords /\ loader[g].pc = "reclaim"
  BY FieldedIs DEF McpInvariant, Fielded, LoaderReclaimed
<1>. DEFINE l == [loader[g] EXCEPT !.pc = "done"]
<1>2. l \in LoaderRecords /\ l.pc = "done" BY <1>1 DEF LoaderRecords
<1>3. loader' = [loader EXCEPT ![g] = l] BY <1>1 DEF LoaderReclaimed, LoaderAt, Formed
<1>4. Aged /\ client' \in Seq(ClientRecords) /\ Clients' = Clients
  BY <1>1, SameClientsAge DEF LoaderReclaimed, Formed, Clients
<1>. HIDE DEF l
<1>. QED BY <1>1, <1>2, <1>3, <1>4, LoaderMoves DEF LoaderReclaimed

(* A stage of one thread's reload that changes neither managers nor agent.  *)
LEMMA ReloadStage ==
  ASSUME McpInvariant, NEW t \in Threads, NEW r \in ReloadRecords,
         ReloadAt(t, r), ReloadIs(r)', t \in Servers => r.server = t, rel[t].pc # "start",
         Aged, client' \in Seq(ClientRecords), Clients' = Clients,
         UNCHANGED <<gen, cur, closed, mgr, agent, loader>>,
         crossed' \in BOOLEAN, crossed => crossed',
         disp' = disp \/ (disp = "idle" /\ disp' = "logout"),
         IF t = "dispatch" THEN IF disp' = "logout" THEN r.gen \in {0, cur} ELSE r.pc = "idle"
                           ELSE (disp' = "logout") <=> (disp = "logout"),
         ~crossed' => SwapIs(r)',
         ~crossed' /\ cur # 0 /\ r.gen = cur =>
           rel[t].gen = cur \/ loader[cur].pc \notin {"lock", "load", "wait"},
         ~crossed' /\ Open /\ Rebuilds(rel[t], cur) => Rebuilds(r, cur)
  PROVE  McpInvariant'
<1>1. /\ Formed /\ Superseding /\ Managing /\ Reloading /\ Attached /\ Wrapping
      /\ ~crossed => Served
  BY DEF McpInvariant
<1>2. rel' = [rel EXCEPT ![t] = r] /\ \A u \in Threads : rel'[u] = IF u = t THEN r ELSE rel[u]
  BY <1>1 DEF Formed, ReloadAt
<1>3. Formed'
  <2>1. /\ gen \in Gens /\ cur \in Gens \union {0} /\ closed \subseteq Gens
        /\ disp' \in {"idle", "initialize", "mcp/shutdown", "building", "logout"}
        /\ rel' \in [Threads -> ReloadRecords]
    BY <1>1, <1>2 DEF Formed
  <2>2. rel' \in [Threads -> ReloadRecords'] BY <2>1, Widening
  <2>. QED BY <1>1, <2>1, <2>2, FormedKept
<1>4. SameHands /\ \A h \in Gens : SameManager(h) BY <1>2 DEF SameHands, SameManager
<1>5. Superseding' BY <1>1, SupersedingKept
<1>6. Managing' BY <1>1, <1>4, ManagingKept
<1>7. Reloading' BY <1>1, ReloadMoves
<1>8. Attached' BY <1>1, <1>4, AttachedKept
<1>9. Wrapping' BY <1>1, <1>4, WrappingKept DEF Open
<1>10. ~crossed' => Served'
  <2>. SUFFICES ASSUME ~crossed' PROVE Served' OBVIOUS
  <2>0. ~crossed OBVIOUS
  <2>a. Served BY <1>1, <2>0
  <2>1. (cur # 0 => agent.gen = cur)' BY <2>a DEF Served
  <2>2. Swapping'
    <3>1. \A u \in Threads : SwapIs(rel[u]) BY <2>a, SwappingIs DEF Served
    <3>2. \A u \in Threads : SwapIs(rel[u])' BY <1>2, <3>1 DEF SwapIs
    <3>3. \A g \in Gens : loader[g].pc = "swap" => g = cur /\ disp # "building"
      BY <2>a DEF Served, Swapping
    <3>. QED BY <3>2, <3>3 DEF Swapping, SwapIs, Gens, Threads
  <2>3. Loading'
    <3>1. cur # 0 => cur \in Gens BY <1>1 DEF Formed
    <3>. QED BY <1>2, <2>a, <3>1 DEF Served, Loading, Threads
  <2>4. Open /\ Pending => Pending' BY <1>2 DEF Pending, Rebuilds, Threads
  <2>5. Serving' BY <1>1, <1>4, <2>a, <2>4, ServingKept DEF Served, Open
  <2>. QED BY <2>1, <2>2, <2>3, <2>5 DEF Served
<1>. QED BY <1>3, <1>5, <1>6, <1>7, <1>8, <1>9, <1>10 DEF McpInvariant

(* What the invariant says of a reload.                                     *)
LEMMA ReloadFacts ==
  ASSUME McpInvariant, NEW t \in Threads
  PROVE  /\ Formed /\ Fielded /\ DOMAIN rel = Threads /\ rel[t] \in ReloadRecords /\ ReloadIs(rel[t])
         /\ NoReload(t) \in ReloadRecords
         /\ ~crossed => SwapIs(rel[t])
         /\ t \in Servers => rel[t].server = t
         /\ disp # "logout" => rel["dispatch"].pc = "idle"
<1>1. Formed /\ Reloading /\ (~crossed => Served) BY DEF McpInvariant
<1>2. Fielded /\ rel[t] \in ReloadRecords /\ ReloadIs(rel[t]) /\ DOMAIN rel = Threads
  BY <1>1, FieldedIs DEF Fielded, Reloading
<1>3. NoReload(t) \in ReloadRecords BY DEF NoReload, ReloadRecords
<1>4. ~crossed => SwapIs(rel[t]) BY <1>1, SwappingIs DEF Served
<1>. QED BY <1>1, <1>2, <1>3, <1>4 DEF Reloading

(* An authorization starts and waits for the user.                          *)
LEMMA AuthStartsKeeps ==
  ASSUME McpInvariant, NEW s \in Servers, AuthStarts(s)
  PROVE  McpInvariant'
<1>1. /\ disp = "idle" /\ rel[s].pc = "idle"
      /\ ReloadAt(s, [rel[s] EXCEPT !.pc = "browser", !.born = gen])
      /\ UNCHANGED <<gen, cur, closed, mgr, client, agent, loader, disp, missed, crossed>>
  BY DEF AuthStarts
<1>2. s \in Threads /\ s # "dispatch" BY ServersAssumption DEF Threads
<1>3. /\ Formed /\ Fielded /\ rel[s] \in ReloadRecords /\ ReloadIs(rel[s])
      /\ rel[s].server = s
  BY <1>2, ReloadFacts
<1>4. PICK r \in ReloadRecords :
        ReloadAt(s, r) /\ r.pc = "browser" /\ r.gen = 0 /\ r.server = s
  <2>. DEFINE r == [rel[s] EXCEPT !.pc = "browser", !.born = gen]
  <2>1. gen \in Nat /\ rel[s].gen = 0 BY <1>1, <1>3 DEF Fielded, ReloadIs
  <2>2. r \in ReloadRecords /\ r.pc = "browser" /\ r.server = s /\ r.gen = 0
    BY <1>3, <2>1 DEF ReloadRecords
  <2>. QED BY <1>1, <2>2
<1>5. Aged /\ client' \in Seq(ClientRecords) /\ Clients' = Clients
  BY <1>1, <1>3, SameClientsAge DEF Formed, Clients
<1>6. ReloadIs(r)' /\ SwapIs(r)' BY <1>4 DEF ReloadIs, SwapIs
<1>7. ~Rebuilds(rel[s], cur) /\ crossed \in BOOLEAN BY <1>1, <1>3 DEF Rebuilds, Formed
<1>8. cur # 0 => r.gen # cur BY <1>4
<1>. QED BY <1>1, <1>2, <1>4, <1>5, <1>6, <1>7, <1>8, ReloadStage

(* The user has answered, or the authorization gave up.                     *)
LEMMA AuthEndsKeeps ==
  ASSUME McpInvariant, NEW s \in Servers, AuthEnds(s)
  PROVE  McpInvariant'
<1>1. /\ rel[s].pc = "browser"
      /\ UNCHANGED <<gen, cur, closed, mgr, client, agent, loader, disp, missed, crossed>>
  BY DEF AuthEnds
<1>2. s \in Threads /\ s # "dispatch" BY ServersAssumption DEF Threads
<1>3. /\ Formed /\ Fielded /\ rel[s] \in ReloadRecords /\ ReloadIs(rel[s])
      /\ NoReload(s) \in ReloadRecords /\ rel[s].server = s
  BY <1>2, ReloadFacts
<1>4. Aged /\ client' \in Seq(ClientRecords) /\ Clients' = Clients
  BY <1>1, <1>3, SameClientsAge DEF Formed, Clients
<1>5. ~Rebuilds(rel[s], cur) /\ crossed \in BOOLEAN /\ rel[s].gen = 0
  BY <1>1, <1>3 DEF Rebuilds, Formed, ReloadIs
<1>6. PICK r \in ReloadRecords :
        ReloadAt(s, r) /\ r.gen = 0 /\ r.pc \in {"idle", "check"} /\ r.server = s
  <2>1. CASE ReloadAt(s, NoReload(s)) BY <1>3, <2>1 DEF NoReload
  <2>2. CASE ReloadAt(s, [rel[s] EXCEPT !.pc = "check"])
    <3>. DEFINE r == [rel[s] EXCEPT !.pc = "check"]
    <3>1. r \in ReloadRecords /\ r.pc = "check" /\ r.server = s /\ r.gen = 0
      BY <1>3, <1>5 DEF ReloadRecords
    <3>. QED BY <2>2, <3>1
  <2>. QED BY <2>1, <2>2 DEF AuthEnds
<1>7. ReloadIs(r)' /\ SwapIs(r)' BY <1>6 DEF ReloadIs, SwapIs
<1>. QED BY <1>1, <1>2, <1>3, <1>4, <1>5, <1>6, <1>7, <1>3, ReloadStage

(* A logout begins its reload on the dispatch thread.                       *)
LEMMA LogoutReloadsKeeps ==
  ASSUME McpInvariant, NEW s \in Servers, LogoutReloads(s)
  PROVE  McpInvariant'
<1>1. /\ disp = "idle" /\ disp' = "logout"
      /\ ReloadAt("dispatch", [rel["dispatch"] EXCEPT !.pc = "check", !.server = s, !.born = gen])
      /\ UNCHANGED <<gen, cur, closed, mgr, client, agent, loader, missed, crossed>>
  BY DEF LogoutReloads
<1>2. "dispatch" \in Threads /\ s \in Threads /\ "dispatch" \notin Servers
  BY ServersAssumption DEF Threads
<1>3. /\ Formed /\ Fielded /\ rel["dispatch"] \in ReloadRecords /\ ReloadIs(rel["dispatch"])
      /\ rel["dispatch"].pc = "idle"
  BY <1>1, <1>2, ReloadFacts
<1>4. PICK r \in ReloadRecords :
        ReloadAt("dispatch", r) /\ r.pc = "check" /\ r.gen = 0 /\ r.server = s
  <2>. DEFINE r == [rel["dispatch"] EXCEPT !.pc = "check", !.server = s, !.born = gen]
  <2>1. gen \in Nat /\ rel["dispatch"].gen = 0 BY <1>1, <1>3 DEF Fielded, ReloadIs
  <2>2. r \in ReloadRecords /\ r.pc = "check" /\ r.server = s /\ r.gen = 0
    BY <1>2, <1>3, <2>1 DEF ReloadRecords
  <2>. QED BY <1>1, <2>2
<1>5. Aged /\ client' \in Seq(ClientRecords) /\ Clients' = Clients
  BY <1>1, <1>3, SameClientsAge DEF Formed, Clients
<1>6. ReloadIs(r)' /\ SwapIs(r)' BY <1>4 DEF ReloadIs, SwapIs
<1>7. ~Rebuilds(rel["dispatch"], cur) /\ crossed \in BOOLEAN BY <1>3 DEF Rebuilds, Formed
<1>8. cur # 0 => r.gen # cur BY <1>4
<1>. QED BY <1>1, <1>2, <1>3, <1>4, <1>5, <1>6, <1>7, <1>8, ReloadStage

(* An open builder is that of the last initialize.                          *)
LEMMA OpenIsCurrent ==
  ASSUME McpInvariant
  PROVE  /\ Open => cur = gen /\ disp # "building" /\ cur \in Gens
         /\ disp # "building" => cur \in {0, gen}
BY DEF McpInvariant, Superseding, Open, Formed

(* The authorization that goes on to the swap reloaded the current builder. *)
LEMMA AuthChecksKeeps ==
  ASSUME McpInvariant, NEW s \in Servers, AuthChecks(s)
  PROVE  McpInvariant'
<1>1. /\ rel[s].pc = "done"
      /\ UNCHANGED <<gen, cur, closed, mgr, client, agent, loader, disp, missed, crossed>>
  BY DEF AuthChecks
<1>2. s \in Threads /\ s # "dispatch" BY ServersAssumption DEF Threads
<1>3. /\ Formed /\ Fielded /\ rel[s] \in ReloadRecords /\ ReloadIs(rel[s])
      /\ NoReload(s) \in ReloadRecords /\ rel[s].server = s /\ (~crossed => SwapIs(rel[s]))
      /\ Superseding
  BY <1>2, ReloadFacts DEF McpInvariant
<1>4. Aged /\ client' \in Seq(ClientRecords) /\ Clients' = Clients
  BY <1>1, <1>3, SameClientsAge DEF Formed, Clients
<1>5. crossed \in BOOLEAN BY <1>3 DEF Formed
<1>6. CASE rel[s].changed /\ gen = rel[s].born /\ cur # 0
  <2>1. PICK r \in ReloadRecords :
          ReloadAt(s, r) /\ r.pc = "swap" /\ r.gen = cur /\ r.server = s
    <3>. DEFINE r == [NoReload(s) EXCEPT !.pc = "swap", !.gen = cur]
    <3>1. r \in ReloadRecords /\ r.pc = "swap" /\ r.server = s /\ r.gen = cur
      BY <1>3 DEF ReloadRecords, NoReload, Formed
    <3>2. ReloadAt(s, r) BY <1>6 DEF AuthChecks
    <3>. QED BY <3>1, <3>2
  <2>2. ~crossed => rel[s].gen = cur /\ disp # "building"
    <3>. SUFFICES ASSUME ~crossed PROVE rel[s].gen = cur /\ disp # "building" OBVIOUS
    <3>1. SwapIs(rel[s]) BY <1>3
    <3>2. rel[s].gen # 0 /\ rel[s].gen = gen BY <1>1, <1>6, <3>1 DEF SwapIs
    <3>3. gen \in {cur} \union closed BY <1>3, <3>2 DEF ReloadIs
    <3>4. disp # "building" BY <1>3, <3>3 DEF Superseding
    <3>. QED BY <1>6, <3>2, <3>4, OpenIsCurrent
  <2>3. ReloadIs(r)' BY <1>1, <1>6, <2>1 DEF ReloadIs
  <2>4. ~crossed' => SwapIs(r)'
    <3>1. cur' = cur /\ disp' = disp /\ crossed' = crossed BY <1>1
    <3>. QED BY <1>6, <2>1, <2>2, <3>1 DEF SwapIs
  <2>5. Rebuilds(r, cur) BY <2>1 DEF Rebuilds
  <2>. QED BY <1>1, <1>2, <1>4, <1>5, <2>1, <2>2, <2>3, <2>4, <2>5, ReloadStage
<1>7. CASE ~(rel[s].changed /\ gen = rel[s].born /\ cur # 0)
  <2>1. PICK r \in ReloadRecords :
          ReloadAt(s, r) /\ r.pc = "idle" /\ r.gen = 0 /\ r.server = s
    <3>1. ReloadAt(s, NoReload(s)) BY <1>7 DEF AuthChecks
    <3>. QED BY <1>3, <3>1 DEF NoReload
  <2>2. ReloadIs(r)' /\ SwapIs(r)' BY <2>1 DEF ReloadIs, SwapIs
  <2>3. cur # 0 => r.gen # cur BY <2>1
  <2>4. ~crossed /\ Open => ~Rebuilds(rel[s], cur)
    <3>. SUFFICES ASSUME ~crossed, Open, Rebuilds(rel[s], cur) PROVE FALSE OBVIOUS
    <3>1. SwapIs(rel[s]) /\ cur = gen /\ cur # 0 BY <1>3, OpenIsCurrent DEF Open
    <3>2. rel[s].changed /\ rel[s].gen = cur BY <1>1 DEF Rebuilds
    <3>3. rel[s].born = gen BY <1>1, <3>1, <3>2 DEF SwapIs
    <3>. QED BY <1>7, <3>1, <3>2, <3>3
  <2>5. ~crossed' => ~crossed BY <1>1
  <2>. QED BY <1>1, <1>2, <1>4, <1>5, <2>1, <2>2, <2>3, <2>4, <2>5, ReloadStage
<1>. QED BY <1>6, <1>7

(* A reload shuts the old client down: with the load over and no initialize *)
(* in between, it works on the builder it began for.                        *)
LEMMA ReloadShutsOldKeeps ==
  ASSUME McpInvariant, NEW t \in Threads, ReloadShutsOld(t)
  PROVE  McpInvariant'
<1>1. /\ rel[t].pc = "check"
      /\ UNCHANGED <<gen, cur, closed, mgr, agent, loader, disp>>
  BY DEF ReloadShutsOld
<1>2. t \in Servers => t # "dispatch" BY ServersAssumption
<1>3. /\ Formed /\ Fielded /\ rel[t] \in ReloadRecords /\ ReloadIs(rel[t])
      /\ (t \in Servers => rel[t].server = t) /\ Managing
      /\ (disp # "logout" => rel["dispatch"].pc = "idle")
  BY ReloadFacts DEF McpInvariant
<1>4. /\ ~Rebuilds(rel[t], cur) /\ crossed \in BOOLEAN /\ rel[t].gen = 0
      /\ rel[t].server \in Servers /\ (t = "dispatch" => disp = "logout")
  BY <1>1, <1>3 DEF Rebuilds, Formed, ReloadIs
<1>. DEFINE refused == cur \in {0} \union closed \/ ~mgr[cur].loaded \/ rel[t].server \notin DOMAIN ReadConfigs
<1>5. CASE refused
  <2>1. PICK r \in ReloadRecords :
          /\ ReloadAt(t, r) /\ r.pc = "done" /\ r.gen = 0 /\ r.changed = FALSE
          /\ r.server = rel[t].server
    <3>. DEFINE r == [rel[t] EXCEPT !.pc = "done", !.changed = FALSE]
    <3>1. r \in ReloadRecords /\ r.pc = "done" /\ r.gen = 0 /\ r.changed = FALSE /\ r.server = rel[t].server
      BY <1>3, <1>4 DEF ReloadRecords
    <3>2. ReloadAt(t, r) BY <1>5 DEF ReloadShutsOld
    <3>. QED BY <3>1, <3>2
  <2>2. UNCHANGED <<client, missed, crossed>> BY <1>5 DEF ReloadShutsOld
  <2>3. ReloadIs(r)' /\ SwapIs(r)' BY <2>1 DEF ReloadIs, SwapIs
  <2>4. Aged /\ client' \in Seq(ClientRecords) /\ Clients' = Clients
    BY <1>1, <1>3, <2>2, SameClientsAge DEF Formed, Clients
  <2>5. cur # 0 => r.gen # cur BY <2>1
  <2>. QED BY <1>1, <1>2, <1>3, <1>4, <2>1, <2>2, <2>3, <2>4, <2>5, ReloadStage
<1>6. CASE ~refused
  <2>. DEFINE old == mgr[cur].clients[rel[t].server]
  <2>0. cur \in Gens /\ cur \notin closed /\ mgr[cur].loaded /\ cur # 0 BY <1>3, <1>6 DEF Formed
  <2>1. PICK r \in ReloadRecords :
          /\ ReloadAt(t, r) /\ r.pc = "new" /\ r.gen = cur /\ r.client = old
          /\ r.server = rel[t].server /\ r.born = rel[t].born
    <3>. DEFINE r == [rel[t] EXCEPT !.pc = "new", !.gen = cur, !.client = old]
    <3>1. old \in Clients \union {0} BY <1>3, <1>4, <2>0 DEF Fielded
    <3>2. r \in ReloadRecords /\ r.pc = "new" /\ r.gen = cur /\ r.client = old
          /\ r.server = rel[t].server /\ r.born = rel[t].born
      BY <1>3, <2>0, <3>1 DEF ReloadRecords
    <3>3. ReloadAt(t, r) BY <1>6 DEF ReloadShutsOld
    <3>. QED BY <3>2, <3>3
  <2>2. /\ client' = Killed({old}) /\ missed \union Unopened({old} \ {0}) \subseteq missed'
        /\ crossed' = (crossed \/ loader[cur].pc = "wait" \/ rel[t].born # cur)
    BY <1>6 DEF ReloadShutsOld
  <2>3. /\ Aged /\ client' \in Seq(ClientRecords) /\ Clients' = Clients
        /\ \A c \in Clients : c \in {old} => Gone(c)'
    BY <1>3, <2>2, KilledAge
  <2>4. ReloadIs(r)'
    <3>1. r.client \in Clients \union {0} BY DEF ReloadRecords
    <3>2. r.client # 0 => Gone(r.client)' BY <2>1, <2>3, <3>1
    <3>3. mgr'[r.gen].loaded BY <1>1, <2>0, <2>1
    <3>. QED BY <1>1, <1>4, <2>0, <2>1, <3>2, <3>3 DEF ReloadIs, Gone
  <2>5. ~crossed' => rel[t].born = cur /\ loader[cur].pc # "wait" BY <2>2
  <2>6. ~crossed' => SwapIs(r)' BY <2>0, <2>1, <2>5 DEF SwapIs
  <2>7. ~crossed' => loader[cur].pc \notin {"lock", "load", "wait"}
    BY <1>3, <2>0, <2>5 DEF Managing
  <2>8. crossed' \in BOOLEAN /\ (crossed => crossed') BY <2>2
  <2>. QED BY <1>1, <1>2, <1>3, <1>4, <2>1, <2>3, <2>4, <2>6, <2>7, <2>8, ReloadStage
<1>. QED BY <1>5, <1>6

(* An agent the current builder has just built is served.                   *)
LEMMA BuiltIsServed ==
  ASSUME Formed, Wrapping, Aged, UNCHANGED <<cur, closed, mgr, client>>, SameHands,
         agent' = BuiltAgent(cur)
  PROVE  Serving'
<1>. SUFFICES ASSUME Open', NEW k \in agent'.tools
              PROVE  client'[k].server \in (Exposed(mgr[cur].tools))' /\ InPlace(k)'
  BY DEF Serving
<1>1. Open /\ cur \in Gens BY DEF Open, Formed
<1>2. k \in mgr[cur].tools BY <1>1 DEF BuiltAgent, Open
<1>3. k \in Clients BY <1>1, <1>2, FieldedIs DEF Fielded
<1>4. InPlace(k) BY <1>1, <1>2 DEF Wrapping
<1>. QED BY <1>1, <1>2, <1>3, <1>4, InPlaceStays DEF Exposed

(* Whoever was about to rebuild the agent lets go.                          *)
LEMMA AgentMoves ==
  ASSUME McpInvariant, NEW g \in Gens, NEW t \in Threads,
         UNCHANGED <<gen, cur, closed, mgr, client, missed, crossed>>,
         agent' \in [gen : Gens \union {0}, tools : SUBSET Clients],
         loader' = loader \/ (loader[g].pc = "swap" /\ loader' = [loader EXCEPT ![g].pc = "done"]),
         rel' = rel \/ (rel[t].pc \in {"swap", "done"} /\ ReloadAt(t, NoReload(t))),
         disp' = IF rel' # rel /\ t = "dispatch" THEN "idle" ELSE disp,
         rel' # rel /\ t = "dispatch" => disp = "logout",
         ~crossed /\ cur # 0 =>
           \/ agent' = BuiltAgent(cur)
           \/ agent' = agent /\ loader' = loader /\ ~Rebuilds(rel[t], cur)
  PROVE  McpInvariant'
<1>1. /\ Formed /\ Fielded /\ Superseding /\ Managing /\ Reloading /\ Attached /\ Wrapping
      /\ ~crossed => Served
  BY FieldedIs DEF McpInvariant
<1>2. NoReload(t) \in ReloadRecords BY ReloadFacts
<1>3. /\ loader' \in [Gens -> LoaderRecords]
      /\ \A h \in Gens : loader'[h] = loader[h] \/ (h = g /\ loader[g].pc = "swap" /\ loader'[g].pc = "done")
  <2>1. loader \in [Gens -> LoaderRecords] BY <1>1 DEF Formed
  <2>2. CASE loader' = loader BY <2>1, <2>2
  <2>3. CASE loader[g].pc = "swap" /\ loader' = [loader EXCEPT ![g].pc = "done"]
    <3>1. [loader[g] EXCEPT !.pc = "done"] \in LoaderRecords /\ [loader[g] EXCEPT !.pc = "done"].pc = "done"
      BY <2>1 DEF LoaderRecords
    <3>2. loader' = [loader EXCEPT ![g] = [loader[g] EXCEPT !.pc = "done"]] BY <2>1, <2>3 DEF LoaderRecords
    <3>. QED BY <2>1, <2>3, <3>1, <3>2
  <2>. QED BY <2>2, <2>3
<1>4. /\ rel' \in [Threads -> ReloadRecords]
      /\ \A u \in Threads : rel'[u] = rel[u] \/ (u = t /\ rel[t].pc \in {"swap", "done"} /\ rel'[t] = NoReload(t))
  BY <1>1, <1>2 DEF Formed, ReloadAt
<1>5. /\ NoReload(t).pc = "idle" /\ NoReload(t).gen = 0 /\ NoReload(t).server = t
      /\ \A h : ~Rebuilds(NoReload(t), h) /\ SwapIs(NoReload(t)) /\ ReloadIs(NoReload(t))
  BY DEF NoReload, Rebuilds, SwapIs, ReloadIs
<1>6. Aged BY SameClientsAge
<1>7. Formed'
  <2>1. /\ gen \in Gens /\ cur \in Gens \union {0} /\ closed \subseteq Gens /\ crossed \in BOOLEAN
        /\ disp' \in {"idle", "initialize", "mcp/shutdown", "building", "logout"}
        /\ client' \in Seq(ClientRecords) /\ Clients' = Clients
    BY <1>1 DEF Formed, Clients
  <2>2. loader' \in [Gens -> LoaderRecords'] /\ rel' \in [Threads -> ReloadRecords']
    BY <1>3, <1>4, <2>1, Widening
  <2>. QED BY <1>1, <2>1, <2>2, FormedKept
<1>8. SameHands BY <1>4 DEF SameHands
<1>9. \A h \in Gens : SameManager(h) BY DEF SameManager
<1>10. Superseding'
  <2>1. NoLoader.pc = "none" BY DEF NoLoader
  <2>2. \A h \in Gens \ (closed \union {cur}) : loader'[h] = loader[h]
    BY <1>1, <1>3, <2>1 DEF Superseding
  <2>. QED BY <1>1, <2>2, SupersedingKept
<1>11. Managing' BY <1>1, <1>3, <1>6, <1>9, ManagingKept
<1>12. Reloading'
  <2>1. CASE rel' = rel
    <3>1. disp' = disp BY <2>1
    <3>. QED BY <1>1, <1>6, <2>1, <3>1, ReloadingKept
  <2>2. CASE rel[t].pc \in {"swap", "done"} /\ ReloadAt(t, NoReload(t))
    <3>1. PICK r : r = NoReload(t) OBVIOUS
    <3>2. rel'[t] = NoReload(t) /\ rel[t] # NoReload(t) BY <1>1, <1>5, <2>2 DEF Formed, ReloadAt
    <3>3. ReloadIs(r)' /\ r.pc = "idle" /\ r.server = t BY <1>5, <3>1 DEF ReloadIs
    <3>4. IF t = "dispatch" THEN disp' = "idle" ELSE disp' = disp BY <3>2
    <3>. QED BY <1>1, <1>6, <2>2, <3>1, <3>3, <3>4, ReloadMoves
  <2>. QED BY <2>1, <2>2
<1>13. Attached'
  <2>1. Clients' = Clients BY DEF Clients
  <2>. QED BY <1>1, <1>6, <1>8, <2>1, AttachedKept
<1>14. Wrapping' BY <1>1, <1>6, <1>8, WrappingKept DEF Open
<1>15. ~crossed' => Served'
  <2>. SUFFICES ASSUME ~crossed PROVE Served' OBVIOUS
  <2>0. Served BY <1>1
  <2>1. (cur # 0 => agent.gen = cur)' BY <2>0 DEF Served, BuiltAgent
  <2>2. Swapping'
    <3>1. \A u \in Threads : SwapIs(rel[u]) BY <2>0, SwappingIs DEF Served
    <3>2. \A h \in Gens : loader[h].pc = "swap" => h = cur /\ disp # "building"
      BY <2>0 DEF Served, Swapping
    <3>3. disp' # "building" \/ disp' = disp OBVIOUS
    <3>4. \A u \in Threads : SwapIs(rel[u])' BY <1>4, <1>5, <3>1, <3>3 DEF SwapIs
    <3>5. \A h \in Gens : loader'[h].pc = "swap" => h = cur' /\ disp' # "building"
      BY <1>3, <3>2, <3>3
    <3>. QED BY <3>4, <3>5 DEF Swapping, SwapIs, Gens, Threads
  <2>3. Loading'
    <3>. SUFFICES ASSUME cur # 0, loader'[cur].pc \in {"lock", "load", "wait"}
                  PROVE  /\ agent'.tools = {} /\ mgr[cur].tools = {}
                         /\ \A u \in Threads : rel'[u].gen # cur
      BY DEF Loading, Threads
    <3>1. cur \in Gens BY <1>1 DEF Formed
    <3>2. loader'[cur] = loader[cur] BY <1>3, <3>1
    <3>3. agent.tools = {} /\ mgr[cur].tools = {} /\ \A u \in Threads : rel[u].gen # cur
      BY <2>0, <3>2 DEF Served, Loading
    <3>4. agent'.tools = {} BY <3>3 DEF BuiltAgent
    <3>. QED BY <1>4, <1>5, <3>3, <3>4
  <2>4. Serving'
    <3>1. CASE cur = 0 BY <3>1 DEF Serving, Open
    <3>2. CASE agent' = BuiltAgent(cur) BY <1>1, <1>6, <1>8, <3>2, BuiltIsServed
    <3>3. CASE agent' = agent /\ loader' = loader /\ ~Rebuilds(rel[t], cur)
      <4>1. Pending => Pending'
        <5>1. CASE \E u \in Threads : Rebuilds(rel[u], cur)
          <6>1. PICK u \in Threads : Rebuilds(rel[u], cur) BY <5>1
          <6>2. rel'[u] = rel[u] BY <1>4, <3>3, <6>1
          <6>3. \E v \in Threads : Rebuilds(rel'[v], cur) BY <6>1, <6>2
          <6>. QED BY <6>3 DEF Pending, Rebuilds, Threads
        <5>2. CASE loader[cur].pc \in {"check", "swap"} /\ loader[cur].had
          BY <3>3, <5>2 DEF Pending
        <5>. QED BY <5>1, <5>2, PendingIs
      <4>. QED BY <1>1, <1>6, <1>8, <2>0, <3>3, <4>1, ServingKept DEF Served, Open
    <3>. QED BY <3>1, <3>2, <3>3
  <2>. QED BY <2>1, <2>2, <2>3, <2>4 DEF Served
<1>. QED BY <1>7, <1>10, <1>11, <1>12, <1>13, <1>14, <1>15 DEF McpInvariant

(* What a build makes is an agent over clients of its own manager.          *)
LEMMA BuiltIs ==
  ASSUME Fielded, NEW g \in Gens
  PROVE  BuiltAgent(g) \in [gen : Gens \union {0}, tools : SUBSET Clients]
BY DEF BuiltAgent, Fielded

(* A loader whose load was not overtaken swaps in the current builder's.    *)
LEMMA LoaderSwapsKeeps ==
  ASSUME McpInvariant, NEW g \in Gens, LoaderSwaps(g)
  PROVE  McpInvariant'
<1>1. /\ loader[g].pc = "swap" /\ loader' = [loader EXCEPT ![g].pc = "done"]
      /\ agent' = BuiltAgent(g)
      /\ UNCHANGED <<gen, cur, closed, mgr, client, missed, crossed, disp, rel>>
  BY DEF LoaderSwaps, LoaderAt
<1>2. Fielded BY FieldedIs DEF McpInvariant
<1>3. ~crossed => g = cur BY <1>1 DEF McpInvariant, Served, Swapping
<1>4. "dispatch" \in Threads BY DEF Threads
<1>. QED BY <1>1, <1>2, <1>3, <1>4, BuiltIs, AgentMoves

(* So does an authorization.                                                *)
LEMMA AuthSwapsKeeps ==
  ASSUME McpInvariant, NEW s \in Servers, AuthSwaps(s)
  PROVE  McpInvariant'
<1>1. /\ rel[s].pc = "swap" /\ ReloadAt(s, NoReload(s))
      /\ agent' = BuiltAgent(rel[s].gen)
      /\ UNCHANGED <<gen, cur, closed, mgr, client, missed, crossed, disp, loader>>
  BY DEF AuthSwaps
<1>2. s \in Threads /\ s # "dispatch" BY ServersAssumption DEF Threads
<1>3. Fielded /\ ReloadIs(rel[s]) /\ (~crossed => SwapIs(rel[s])) BY <1>2, ReloadFacts
<1>4. rel[s].gen \in Gens BY <1>1, <1>2, <1>3 DEF Fielded, ReloadIs
<1>5. ~crossed => rel[s].gen = cur BY <1>1, <1>3 DEF SwapIs
<1>. QED BY <1>1, <1>2, <1>3, <1>4, <1>5, BuiltIs, AgentMoves

(* And a logout, if its reload changed anything.                            *)
LEMMA LogoutReturnsKeeps ==
  ASSUME McpInvariant, LogoutReturns
  PROVE  McpInvariant'
<1>1. /\ disp = "logout" /\ rel["dispatch"].pc = "done" /\ disp' = "idle"
      /\ agent' = IF rel["dispatch"].changed /\ cur # 0 THEN BuiltAgent(cur) ELSE agent
      /\ ReloadAt("dispatch", NoReload("dispatch"))
      /\ UNCHANGED <<gen, cur, closed, mgr, client, missed, crossed, loader>>
  BY DEF LogoutReturns
<1>2. "dispatch" \in Threads BY DEF Threads
<1>3. Formed /\ Fielded BY <1>2, ReloadFacts
<1>4. agent' \in [gen : Gens \union {0}, tools : SUBSET Clients]
  BY <1>1, <1>3, BuiltIs DEF Formed
<1>5. rel' # rel
  <2>1. rel'["dispatch"] = NoReload("dispatch") BY <1>1, <1>2, <1>3 DEF Fielded, ReloadAt
  <2>2. NoReload("dispatch").pc = "idle" BY DEF NoReload
  <2>. QED BY <1>1, <2>1, <2>2
<1>6. cur # 0 => agent' = BuiltAgent(cur) \/ (agent' = agent /\ ~Rebuilds(rel["dispatch"], cur))
  BY <1>1 DEF Rebuilds
<1>7. 1 \in Gens BY ServersAssumption DEF Gens
<1>. QED BY <1>1, <1>2, <1>4, <1>5, <1>6, <1>7, AgentMoves

(* The invariant, taken apart.                                              *)
LEMMA InvariantIs ==
  ASSUME McpInvariant
  PROVE  /\ Formed /\ Fielded /\ Superseding /\ Managing /\ Reloading /\ Attached /\ Wrapping
         /\ ~crossed => Served
BY FieldedIs DEF McpInvariant

(* With clients and managers as they were, the shape is kept.               *)
LEMMA FormedStays ==
  ASSUME Formed, UNCHANGED <<client, mgr>>,
         gen' \in Gens, cur' \in Gens \union {0}, closed' \subseteq Gens, crossed' \in BOOLEAN,
         agent' \in [gen : Gens \union {0}, tools : SUBSET Clients],
         loader' \in [Gens -> LoaderRecords], rel' \in [Threads -> ReloadRecords],
         disp' \in {"idle", "initialize", "mcp/shutdown", "building", "logout"}
  PROVE  Formed'
<1>1. Clients' = Clients /\ client' \in Seq(ClientRecords) BY DEF Formed, Clients
<1>2. /\ agent' \in [gen : Gens \union {0}, tools : SUBSET Clients']
      /\ loader' \in [Gens -> LoaderRecords'] /\ rel' \in [Threads -> ReloadRecords']
  BY <1>1, Widening
<1>. QED BY <1>1, <1>2, FormedKept

(* mcp/shutdown returns.                                                    *)
LEMMA McpIsShutDownKeeps ==
  ASSUME McpInvariant, McpIsShutDown
  PROVE  McpInvariant'
<1>1. /\ disp = "mcp/shutdown" /\ disp' = "idle"
      /\ UNCHANGED <<gen, cur, closed, mgr, client, agent, loader, rel, missed, crossed>>
  BY DEF McpIsShutDown
<1>2. /\ Formed /\ Fielded /\ Superseding /\ Managing /\ Reloading /\ Attached /\ Wrapping
      /\ ~crossed => Served
  BY InvariantIs
<1>3. Aged /\ SameHands /\ \A h \in Gens : SameManager(h)
  BY <1>1, SameClientsAge DEF SameHands, SameManager
<1>4. Formed' BY <1>1, <1>2, FormedStays DEF Formed
<1>5. Superseding' BY <1>1, <1>2, SupersedingKept
<1>6. Managing' BY <1>1, <1>2, <1>3, ManagingKept
<1>7. Reloading' BY <1>1, <1>2, <1>3, ReloadingKept
<1>8. Clients' = Clients BY <1>1 DEF Clients
<1>9. Attached' BY <1>1, <1>2, <1>3, <1>8, AttachedKept
<1>10. Wrapping' BY <1>1, <1>2, <1>3, WrappingKept DEF Open
<1>11. ~crossed' => Served'
  <2>. SUFFICES ASSUME ~crossed PROVE Served' BY <1>1
  <2>1. (cur # 0 => agent.gen = cur)' /\ Swapping' /\ Loading'
    BY <1>1, <1>2 DEF Served, Swapping, Loading, Gens, Threads
  <2>2. Pending => Pending' BY <1>1 DEF Pending, Threads
  <2>3. Serving' BY <1>1, <1>2, <1>3, <2>2, ServingKept DEF Served, Open
  <2>. QED BY <2>1, <2>3 DEF Served
<1>. QED BY <1>4, <1>5, <1>6, <1>7, <1>9, <1>10, <1>11 DEF McpInvariant

(* An initialize that finds an agent about to be swapped in overtakes it.   *)
LEMMA InitializeSupersedesKeeps ==
  ASSUME McpInvariant, InitializeSupersedes
  PROVE  McpInvariant'
<1>1. /\ disp = "initialize" /\ disp' = "building" /\ gen' = gen + 1
      /\ crossed' = (crossed \/ (\E g \in Gens : loader[g].pc = "swap")
                        \/ (\E t \in Threads : rel[t].pc = "swap"))
      /\ UNCHANGED <<cur, closed, mgr, client, agent, loader, rel, missed>>
  BY DEF InitializeSupersedes
<1>2. /\ Formed /\ Fielded /\ Superseding /\ Managing /\ Reloading /\ Attached /\ Wrapping
      /\ ~crossed => Served
  BY InvariantIs
<1>3. Aged /\ SameHands /\ \A h \in Gens : SameManager(h)
  BY <1>1, SameClientsAge DEF SameHands, SameManager
<1>4. gen + 1 \in Gens /\ gen \in Nat /\ cur \in Nat /\ closed \subseteq Nat
  BY <1>1, <1>2, ServersAssumption, SMT DEF Superseding, Gens, Formed
<1>5. crossed' \in BOOLEAN BY <1>1
<1>6. Formed'
  <2>1. /\ agent' \in [gen : Gens \union {0}, tools : SUBSET Clients] /\ cur' \in Gens \union {0}
        /\ loader' \in [Gens -> LoaderRecords] /\ rel' \in [Threads -> ReloadRecords]
        /\ closed' \subseteq Gens /\ disp' = "building"
    BY <1>1, <1>2 DEF Formed
  <2>. QED BY <1>1, <1>2, <1>4, <1>5, <2>1, FormedStays
<1>7. Superseding'
  <2>1. \A g \in closed : g <= gen /\ g \in Nat BY <1>2, <1>4 DEF Superseding
  <2>2. gen + 1 \notin closed /\ (\A g \in closed : g <= gen + 1)  BY <1>4, <2>1
  <2>3. cur <= gen /\ (cur # 0 => cur \in closed) BY <1>1, <1>2 DEF Superseding
  <2>4. cur <= gen + 1 /\ cur # gen + 1 BY <1>4, <2>3
  <2>5. \A g \in Gens \ (closed \union {cur}) : mgr[g] = FreshManager /\ loader[g] = NoLoader
    BY <1>2 DEF Superseding
  <2>. QED BY <1>1, <2>2, <2>3, <2>4, <2>5 DEF Superseding, Gens, FreshManager, NoLoader
<1>8. Managing' BY <1>1, <1>2, <1>3, ManagingKept
<1>9. Reloading' BY <1>1, <1>2, <1>3, ReloadingKept
<1>10. Clients' = Clients BY <1>1 DEF Clients
<1>11. Attached' BY <1>1, <1>2, <1>3, <1>10, AttachedKept
<1>12. Wrapping' BY <1>1, <1>2, <1>3, WrappingKept DEF Open
<1>13. ~crossed' => Served'
  <2>. SUFFICES ASSUME ~crossed' PROVE Served' OBVIOUS
  <2>1. /\ ~crossed /\ (\A g \in Gens : loader[g].pc # "swap")
        /\ \A t \in Threads : rel[t].pc # "swap"
    BY <1>1
  <2>2. Served BY <1>2, <2>1
  <2>3. (cur # 0 => agent.gen = cur)' /\ Swapping' /\ Loading'
    BY <1>1, <2>1, <2>2 DEF Served, Swapping, Loading, Gens, Threads
  <2>4. Serving' BY <1>1, <1>2 DEF Serving, Open, Superseding
  <2>. QED BY <2>3, <2>4 DEF Served
<1>. QED BY <1>6, <1>7, <1>8, <1>9, <1>11, <1>12, <1>13 DEF McpInvariant

(* While an initialize builds, the builder before it is closed.             *)
LEMMA BuildingIs ==
  ASSUME McpInvariant, disp = "building"
  PROVE  /\ {0, cur} \union closed \subseteq {0} \union closed
         /\ gen \notin closed \union {cur, 0} /\ gen \in Gens
         /\ mgr[gen] = FreshManager
         /\ ~crossed => /\ \A g \in Gens : loader[g].pc # "swap"
                        /\ \A t \in Threads : rel[t].pc # "swap"
<1>1. /\ Formed /\ Fielded /\ Superseding /\ (~crossed => Served) BY InvariantIs
<1>2. gen \notin closed \union {cur, 0} /\ gen \in Gens
  BY <1>1 DEF Superseding, Formed, Fielded
<1>. QED BY <1>1, <1>2 DEF Superseding, Served, Swapping

(* A blocked initialize leaves no builder.                                  *)
LEMMA InitializeIsBlockedKeeps ==
  ASSUME McpInvariant, InitializeIsBlocked
  PROVE  McpInvariant'
<1>1. /\ disp = "building" /\ disp' = "idle" /\ cur' = 0 /\ agent' = NoAgent
      /\ UNCHANGED <<gen, closed, mgr, client, loader, rel, missed, crossed>>
  BY DEF InitializeIsBlocked
<1>2. /\ Formed /\ Fielded /\ Superseding /\ Managing /\ Reloading /\ Attached /\ Wrapping
      /\ ~crossed => Served
  BY InvariantIs
<1>3. Aged /\ SameHands /\ \A h \in Gens : SameManager(h)
  BY <1>1, SameClientsAge DEF SameHands, SameManager
<1>4. {0, cur} \union closed \subseteq {0} \union closed BY <1>1, BuildingIs
<1>6. Formed'
  <2>1. /\ loader' \in [Gens -> LoaderRecords] /\ rel' \in [Threads -> ReloadRecords]
        /\ closed' \subseteq Gens /\ disp' = "idle" /\ gen' \in Gens /\ crossed' \in BOOLEAN
        /\ agent' \in [gen : Gens \union {0}, tools : SUBSET Clients]
    BY <1>1, <1>2 DEF Formed, NoAgent
  <2>. QED BY <1>1, <1>2, <2>1, FormedStays
<1>7. Superseding'
  <2>1. \A g \in Gens \ closed : g # 0 /\ (g # cur => mgr[g] = FreshManager /\ loader[g] = NoLoader)
    BY <1>2 DEF Superseding, Fielded
  <2>2. \A g \in Gens \ closed : mgr[g] = FreshManager /\ loader[g] = NoLoader
    BY <1>4, <2>1
  <2>3. 0 <= gen BY <1>2 DEF Fielded
  <2>. QED BY <1>1, <1>2, <2>2, <2>3 DEF Superseding, Gens, FreshManager, NoLoader
<1>8. Managing' BY <1>1, <1>2, <1>3, ManagingKept
<1>9. Reloading' BY <1>1, <1>2, <1>3, <1>4, ReloadingKept
<1>10. Clients' = Clients BY <1>1 DEF Clients
<1>11. Attached' BY <1>1, <1>2, <1>3, <1>10, AttachedKept
<1>12. Wrapping' BY <1>1 DEF Wrapping, Open
<1>13. ~crossed' => Served'
  <2>. SUFFICES ASSUME ~crossed PROVE Served' BY <1>1
  <2>1. /\ \A g \in Gens : loader[g].pc # "swap"
        /\ \A t \in Threads : rel[t].pc # "swap"
    BY <1>1, BuildingIs
  <2>2. Swapping' BY <1>1, <1>2, <2>1 DEF Served, Swapping, Gens, Threads
  <2>. QED BY <1>1, <2>2 DEF Served, Loading, Serving, Open
<1>. QED BY <1>6, <1>7, <1>8, <1>9, <1>11, <1>12, <1>13 DEF McpInvariant

(* A builder begins with no servers and a load of its own.                  *)
LEMMA InitializeBuildsKeeps ==
  ASSUME McpInvariant, InitializeBuilds
  PROVE  McpInvariant'
<1>1. /\ disp = "building" /\ disp' = "idle" /\ cur' = gen /\ agent' = [gen |-> gen, tools |-> {}]
      /\ loader' = [loader EXCEPT ![gen].pc = "lock"]
      /\ UNCHANGED <<gen, closed, mgr, client, rel, missed, crossed>>
  BY DEF InitializeBuilds
<1>2. /\ Formed /\ Fielded /\ Superseding /\ Managing /\ Reloading /\ Attached /\ Wrapping
      /\ ~crossed => Served
  BY InvariantIs
<1>3. Aged /\ SameHands /\ \A h \in Gens : SameManager(h)
  BY <1>1, SameClientsAge DEF SameHands, SameManager
<1>4. /\ {0, cur} \union closed \subseteq {0} \union closed
      /\ gen \notin closed \union {cur, 0} /\ gen \in Gens /\ mgr[gen] = FreshManager
  BY <1>1, BuildingIs
<1>5. /\ loader' \in [Gens -> LoaderRecords] /\ loader'[gen].pc = "lock"
      /\ \A g \in Gens : g # gen => loader'[g] = loader[g]
  <2>1. [loader[gen] EXCEPT !.pc = "lock"] \in LoaderRecords /\ [loader[gen] EXCEPT !.pc = "lock"].pc = "lock"
    BY <1>2, <1>4 DEF LoaderRecords, Fielded
  <2>2. loader' = [loader EXCEPT ![gen] = [loader[gen] EXCEPT !.pc = "lock"]]
    BY <1>1, <1>2, <1>4 DEF Formed, LoaderRecords
  <2>. QED BY <1>2, <1>4, <2>1, <2>2 DEF Formed
<1>6. Formed'
  <2>1. /\ rel' \in [Threads -> ReloadRecords]
        /\ closed' \subseteq Gens /\ disp' = "idle" /\ gen' \in Gens /\ crossed' \in BOOLEAN
        /\ agent' \in [gen : Gens \union {0}, tools : SUBSET Clients]
        /\ cur' \in Gens \union {0}
    BY <1>1, <1>2 DEF Formed
  <2>. QED BY <1>1, <1>2, <1>5, <2>1, FormedStays
<1>7. Superseding'
  <2>1. \A g \in Gens \ closed : g # 0 /\ (g # cur => mgr[g] = FreshManager /\ loader[g] = NoLoader)
    BY <1>2 DEF Superseding, Fielded
  <2>2. \A g \in Gens \ (closed \union {gen}) : mgr[g] = FreshManager /\ loader'[g] = NoLoader
    BY <1>4, <1>5, <2>1
  <2>3. gen <= gen BY <1>2 DEF Fielded
  <2>. QED BY <1>1, <1>2, <2>2, <2>3 DEF Superseding, Gens, FreshManager, NoLoader
<1>8. Managing'
  <2>1. \A g \in Gens : ~mgr[gen].loaded BY <1>4 DEF FreshManager
  <2>2. ASSUME NEW g \in Gens, NEW s \in Servers, mgr[g].clients[s] # 0
        PROVE  mgr[g].clients[s] \in Clients
    BY <1>2, <2>2 DEF Fielded
  <2>. QED BY <1>1, <1>2, <1>3, <1>5, <2>1, <2>2 DEF Managing, SameManager, Aged, Gens
<1>9. Reloading' BY <1>1, <1>2, <1>3, <1>4, ReloadingKept
<1>10. Clients' = Clients BY <1>1 DEF Clients
<1>11. Attached' BY <1>1, <1>2, <1>3, <1>10, AttachedKept
<1>12. Wrapping'
  <2>1. mgr'[cur'].tools = {} BY <1>1, <1>4 DEF FreshManager
  <2>. QED BY <2>1 DEF Wrapping
<1>13. ~crossed' => Served'
  <2>. SUFFICES ASSUME ~crossed PROVE Served' BY <1>1
  <2>1. /\ \A g \in Gens : loader[g].pc # "swap"
        /\ \A t \in Threads : rel[t].pc # "swap"
    BY <1>1, BuildingIs
  <2>2. Swapping' BY <1>1, <1>2, <1>5, <2>1 DEF Served, Swapping, Gens, Threads
  <2>3. agent'.tools = {} /\ agent'.gen = gen /\ cur' = gen BY <1>1
  <2>4. \A t \in Threads : rel[t].gen # gen
    BY <1>2, <1>4 DEF Reloading, ReloadIs
  <2>5. Loading'
    <3>1. mgr'[cur'].tools = {} BY <1>1, <1>4 DEF FreshManager
    <3>. QED BY <1>1, <2>3, <2>4, <3>1 DEF Loading, Threads
  <2>. QED BY <2>2, <2>3, <2>5 DEF Served, Serving
<1>. QED BY <1>6, <1>7, <1>8, <1>9, <1>11, <1>12, <1>13 DEF McpInvariant

(* A shutdown that starts closes the builder and tells its manager to stop. *)
LEMMA ShutdownIs ==
  ASSUME Formed, Managing, NEW g \in Gens, ShutdownStarts(g)
  PROVE  /\ closed' = closed \union {g} /\ mgr' \in [Gens -> ManagerRecords]
         /\ \A h \in Gens :
              /\ h # g => mgr'[h] = mgr[h]
              /\ mgr'[h].clients = mgr[h].clients /\ mgr'[h].tools = mgr[h].tools
              /\ mgr'[h].loaded = mgr[h].loaded
              /\ mgr'[h].stop = IF h = g /\ g \notin closed THEN "kill" ELSE mgr[h].stop
<1>1. mgr \in [Gens -> ManagerRecords] BY DEF Formed
<1>2. CASE g \in closed BY <1>1, <1>2 DEF ShutdownStarts
<1>3. CASE g \notin closed
  <2>. DEFINE m == [mgr[g] EXCEPT !.stop = "kill"]
  <2>1. mgr' = [mgr EXCEPT ![g] = m] BY <1>1, <1>3 DEF ShutdownStarts, ManagerRecords
  <2>2. m \in ManagerRecords /\ m.clients = mgr[g].clients /\ m.tools = mgr[g].tools
        /\ m.loaded = mgr[g].loaded /\ m.stop = "kill"
    BY <1>1 DEF ManagerRecords
  <2>3. closed' = closed \union {g} BY DEF ShutdownStarts
  <2>. HIDE DEF m
  <2>. QED BY <1>1, <1>3, <2>1, <2>2, <2>3
<1>. QED BY <1>2, <1>3

(* What a manager had is seen to by whoever kills it.                       *)
LEMMA ShutdownAttaches ==
  ASSUME Formed, Managing, Attached, NEW g \in Gens, ShutdownStarts(g), SameHands,
         UNCHANGED <<client, missed>>,
         \A h \in Gens : loader'[h].pc \in {"none", "lock", "load"} =>
                           loader[h].pc \in {"none", "lock", "load"}
  PROVE  /\ Managing' /\ Attached'
<1>1. /\ closed' = closed \union {g}
      /\ \A h \in Gens :
              /\ h # g => mgr'[h] = mgr[h]
              /\ mgr'[h].clients = mgr[h].clients /\ mgr'[h].tools = mgr[h].tools
              /\ mgr'[h].loaded = mgr[h].loaded
              /\ mgr'[h].stop = IF h = g /\ g \notin closed THEN "kill" ELSE mgr[h].stop
  BY ShutdownIs
<1>2. Fielded BY FieldedIs
<1>3. Managing'
  <2>1. ASSUME NEW h \in Gens PROVE h \in closed' <=> mgr'[h].stop # "no"
    <3>1. h \in closed <=> mgr[h].stop # "no" BY DEF Managing
    <3>. QED BY <1>1, <3>1
  <2>2. ASSUME NEW h \in Gens
        PROVE  /\ loader'[h].pc \in {"none", "lock", "load"} => ~mgr'[h].loaded
               /\ ~mgr'[h].loaded => mgr'[h].tools = {} /\ \A s \in Servers : mgr'[h].clients[s] = 0
               /\ \A s \in Servers : mgr'[h].clients[s] # 0 =>
                    client'[mgr'[h].clients[s]].gen = h /\ client'[mgr'[h].clients[s]].server = s
    BY <1>1 DEF Managing
  <2>. QED BY <2>1, <2>2 DEF Managing, Gens
<1>4. Attached'
  <2>. SUFFICES ASSUME NEW c \in Clients, ~Gone(c)' PROVE AttachedAt(c)'
    BY DEF Attached, Clients
  <2>1. AttachedAt(c) /\ client[c].gen \in Gens BY <1>2 DEF Attached, Gone, Fielded
  <2>2. InHand(c) => InHand(c)' BY HandsStay
  <2>3. client' = client OBVIOUS
  <2>4. CASE client[c].gen \in closed
    <3>1. /\ client[c].gen \in closed'
          /\ mgr'[client[c].gen].stop = mgr[client[c].gen].stop
          /\ mgr'[client[c].gen].clients = mgr[client[c].gen].clients
      BY <1>1, <2>1, <2>4
    <3>. QED BY <2>1, <2>2, <2>3, <2>4, <3>1 DEF AttachedAt
  <2>5. CASE client[c].gen \notin closed
    <3>1. /\ mgr'[client[c].gen].clients = mgr[client[c].gen].clients
          /\ client[c].gen \in closed' => mgr'[client[c].gen].stop = "kill"
      BY <1>1, <2>1, <2>5
    <3>. QED BY <2>1, <2>3, <2>5, <3>1 DEF AttachedAt
  <2>. QED BY <2>4, <2>5
<1>. QED BY <1>3, <1>4

(* The dispatch thread stops the current builder's servers.                 *)
LEMMA DispatchStopsKeeps ==
  ASSUME McpInvariant, NEW op \in {"initialize", "mcp/shutdown"}, DispatchStops(op)
  PROVE  McpInvariant'
<1>1. /\ disp = "idle" /\ disp' = op
      /\ op = "initialize" => gen < MaxInits
      /\ op = "mcp/shutdown" => cur # 0
      /\ UNCHANGED <<gen, cur, client, agent, loader, rel, missed, crossed>>
      /\ cur # 0 => ShutdownStarts(cur)
      /\ cur = 0 => UNCHANGED <<closed, mgr>>
  BY DEF DispatchStops
<1>2. /\ Formed /\ Fielded /\ Superseding /\ Managing /\ Reloading /\ Attached /\ Wrapping
      /\ ~crossed => Served
  BY InvariantIs
<1>3. Aged /\ SameHands /\ Clients' = Clients /\ client' \in Seq(ClientRecords)
  BY <1>1, <1>2, SameClientsAge DEF SameHands, Clients, Formed
<1>4. cur # 0 => cur \in Gens BY <1>2 DEF Formed
<1>5. /\ closed' = closed \union ({cur} \ {0}) /\ mgr' \in [Gens -> ManagerRecords]
      /\ \A h \in Gens :
              /\ h # cur => mgr'[h] = mgr[h]
              /\ mgr'[h].tools = mgr[h].tools /\ mgr'[h].loaded = mgr[h].loaded
  <2>1. CASE cur = 0 BY <1>1, <1>2, <2>1 DEF Formed
  <2>2. CASE cur # 0
    <3>. HIDE DEF ShutdownStarts
    <3>. QED BY <1>1, <1>2, <1>4, <2>2, ShutdownIs
  <2>. QED BY <2>1, <2>2
<1>6. Formed'
  <2>1. mgr' \in [Gens -> ManagerRecords'] BY <1>3, <1>5, Widening
  <2>2. /\ gen' \in Gens /\ cur' \in Gens \union {0} /\ closed' \subseteq Gens /\ crossed' \in BOOLEAN
        /\ disp' \in {"idle", "initialize", "mcp/shutdown", "building", "logout"}
        /\ agent' = agent /\ loader' = loader /\ rel' = rel
    BY <1>1, <1>2, <1>4, <1>5 DEF Formed
  <2>. QED BY <1>2, <1>3, <2>1, <2>2, FormedKept
<1>7. Superseding'
  <2>1. (\A g \in closed : g <= gen) /\ cur <= gen /\ cur \in {0, gen}
    BY <1>1, <1>2 DEF Superseding
  <2>2. \A g \in Gens \ (closed' \union {cur}) : mgr'[g] = FreshManager /\ loader[g] = NoLoader
    BY <1>2, <1>5 DEF Superseding
  <2>3. cur # 0 => cur \in closed' BY <1>5
  <2>4. \A g \in closed' : g <= gen BY <1>5, <2>1
  <2>. QED BY <1>1, <2>1, <2>2, <2>3, <2>4 DEF Superseding, Gens, FreshManager, NoLoader
<1>8. Managing' /\ Attached'
  <2>1. CASE cur = 0
    <3>1. \A h \in Gens : SameManager(h) BY <1>1, <2>1 DEF SameManager
    <3>. QED BY <1>1, <1>2, <1>3, <2>1, <3>1, ManagingKept, AttachedKept
  <2>2. CASE cur # 0 BY <1>1, <1>2, <1>3, <1>4, <2>2, ShutdownAttaches
  <2>. QED BY <2>1, <2>2
<1>9. Reloading' BY <1>1, <1>2, <1>3, <1>5, ReloadingKept
<1>10. ~Open' BY <1>1, <1>5 DEF Open
<1>11. Wrapping' BY <1>10 DEF Wrapping
<1>12. ~crossed' => Served'
  <2>. SUFFICES ASSUME ~crossed PROVE Served' BY <1>1
  <2>1. (cur # 0 => agent.gen = cur)' /\ Swapping'
    BY <1>1, <1>2 DEF Served, Swapping, Gens, Threads
  <2>2. Loading' BY <1>1, <1>2, <1>4, <1>5 DEF Served, Loading, Threads
  <2>. QED BY <1>10, <2>1, <2>2 DEF Served, Serving
<1>. QED BY <1>6, <1>7, <1>8, <1>9, <1>11, <1>12 DEF McpInvariant

(* A load that was superseded reclaims what it started; one that was not    *)
(* goes on to the swap.                                                     *)
LEMMA LoaderChecksKeeps ==
  ASSUME McpInvariant, NEW g \in Gens, LoaderChecks(g)
  PROVE  McpInvariant'
<1>1. /\ loader[g].pc = "check"
      /\ UNCHANGED <<gen, cur, client, agent, disp, rel, missed, crossed>>
  BY DEF LoaderChecks
<1>2. /\ Formed /\ Fielded /\ Superseding /\ Managing /\ Reloading /\ Attached /\ Wrapping
      /\ ~crossed => Served
  BY InvariantIs
<1>3. Aged /\ SameHands /\ Clients' = Clients /\ client' \in Seq(ClientRecords)
  BY <1>1, <1>2, SameClientsAge DEF SameHands, Clients, Formed
<1>4. CASE gen = g /\ cur = g
  <2>1. PICK l \in LoaderRecords :
          /\ loader' = [loader EXCEPT ![g] = l] /\ l.had = loader[g].had
          /\ l.pc = IF loader[g].had THEN "swap" ELSE "done"
    <3>. DEFINE l == [loader[g] EXCEPT !.pc = IF loader[g].had THEN "swap" ELSE "done"]
    <3>1. loader[g] \in LoaderRecords BY <1>2 DEF Fielded
    <3>2. l \in LoaderRecords /\ l.had = loader[g].had /\ l.pc = IF loader[g].had THEN "swap" ELSE "done"
      BY <3>1 DEF LoaderRecords
    <3>3. loader' = [loader EXCEPT ![g] = l] BY <1>2, <1>4, <3>1 DEF LoaderChecks, LoaderAt, Formed
    <3>. QED BY <3>2, <3>3
  <2>2. UNCHANGED <<closed, mgr>> BY <1>4 DEF LoaderChecks
  <2>3. disp # "building" BY <1>2, <1>4 DEF Superseding
  <2>. QED BY <1>1, <1>3, <1>4, <2>1, <2>2, <2>3, LoaderMoves
<1>5. CASE ~(gen = g /\ cur = g)
  <2>1. PICK l \in LoaderRecords : loader' = [loader EXCEPT ![g] = l] /\ l.pc = "reclaim"
    <3>. DEFINE l == [loader[g] EXCEPT !.pc = "reclaim"]
    <3>1. loader[g] \in LoaderRecords BY <1>2 DEF Fielded
    <3>2. l \in LoaderRecords /\ l.pc = "reclaim" BY <3>1 DEF LoaderRecords
    <3>3. loader' = [loader EXCEPT ![g] = l] BY <1>2, <1>5, <3>1 DEF LoaderChecks, LoaderAt, Formed
    <3>. QED BY <3>2, <3>3
  <2>2. ShutdownStarts(g) BY <1>5 DEF LoaderChecks
  <2>3. /\ closed' = closed \union {g} /\ mgr' \in [Gens -> ManagerRecords]
        /\ \A h \in Gens :
              /\ h # g => mgr'[h] = mgr[h]
              /\ mgr'[h].clients = mgr[h].clients /\ mgr'[h].tools = mgr[h].tools
              /\ mgr'[h].loaded = mgr[h].loaded
    BY <1>2, <2>2, ShutdownIs
  <2>4. /\ loader' \in [Gens -> LoaderRecords]
        /\ \A h \in Gens : loader'[h] = IF h = g THEN l ELSE loader[h]
    BY <1>2, <2>1 DEF Formed
  <2>5. g \in closed \union {cur} BY <1>1, <1>2, BegunIs
  <2>6. disp = "building" => g # gen BY <1>2, <2>5 DEF Superseding
  <2>7. Formed'
    <3>1. mgr' \in [Gens -> ManagerRecords'] /\ loader' \in [Gens -> LoaderRecords']
      BY <1>3, <2>3, <2>4, Widening
    <3>2. /\ gen' \in Gens /\ cur' \in Gens \union {0} /\ closed' \subseteq Gens /\ crossed' \in BOOLEAN
          /\ disp' \in {"idle", "initialize", "mcp/shutdown", "building", "logout"}
          /\ agent' = agent /\ rel' = rel
      BY <1>1, <1>2, <2>3 DEF Formed
    <3>. QED BY <1>2, <1>3, <3>1, <3>2, FormedKept
  <2>8. Superseding'
    <3>1. \A h \in closed \union {cur} : h <= gen BY <1>2 DEF Superseding
    <3>2. \A h \in closed' : h <= gen BY <2>3, <2>5, <3>1
    <3>3. \A h \in Gens \ (closed' \union {cur}) : mgr'[h] = FreshManager /\ loader'[h] = NoLoader
      BY <1>2, <2>3, <2>4 DEF Superseding
    <3>4. disp = "building" => gen \notin closed' BY <1>2, <2>3, <2>6 DEF Superseding
    <3>. QED BY <1>1, <1>2, <2>3, <3>2, <3>3, <3>4 DEF Superseding, Gens, FreshManager, NoLoader
  <2>9. Managing' /\ Attached' BY <1>1, <1>2, <1>3, <2>1, <2>2, <2>4, ShutdownAttaches
  <2>10. Reloading' BY <1>1, <1>2, <1>3, <2>3, ReloadingKept
  <2>11. Open' => Open /\ cur' = cur /\ g # cur /\ cur \in Gens BY <1>1, <1>2, <2>3 DEF Open, Formed
  <2>12. Wrapping' BY <1>2, <1>3, <2>3, <2>11, WrappingKept DEF Open, Formed
  <2>13. ~crossed' => Served'
    <3>. SUFFICES ASSUME ~crossed PROVE Served' BY <1>1
    <3>1. Served BY <1>2
    <3>2. (cur # 0 => agent.gen = cur)' BY <1>1, <3>1 DEF Served
    <3>3. Swapping' BY <1>1, <2>1, <2>4, <3>1 DEF Served, Swapping, Gens, Threads
    <3>4. cur # 0 => cur \in Gens BY <1>2 DEF Formed
    <3>5. Loading' BY <1>1, <2>1, <2>3, <2>4, <3>1, <3>4 DEF Served, Loading, Threads
    <3>6. Open /\ Open' /\ Pending => Pending' BY <1>1, <2>4, <2>11 DEF Pending, Threads
    <3>7. Open => mgr'[cur].clients = mgr[cur].clients /\ mgr'[cur].tools = mgr[cur].tools
      BY <2>3, <3>4 DEF Open
    <3>8. Serving' BY <1>1, <1>2, <1>3, <2>11, <3>1, <3>6, <3>7, ServingKept DEF Served
    <3>. QED BY <3>2, <3>3, <3>5, <3>8 DEF Served
  <2>. QED BY <2>7, <2>8, <2>9, <2>10, <2>12, <2>13 DEF McpInvariant
<1>. QED BY <1>4, <1>5

(* A manager that is stopping has been told so by a shutdown of its builder.*)
LEMMA StopStep ==
  ASSUME McpInvariant, NEW g \in Gens, NEW m \in ManagerRecords,
         mgr' = [mgr EXCEPT ![g] = m], g \in closed, m.stop # "no", m.loaded = mgr[g].loaded,
         m.tools \subseteq mgr[g].tools,
         \A s \in Servers : m.clients[s] \in {mgr[g].clients[s], 0},
         Aged, client' \in Seq(ClientRecords), Clients' = Clients,
         UNCHANGED <<gen, cur, closed, agent, loader, disp, rel, crossed>>,
         Attached'
  PROVE  McpInvariant'
<1>1. /\ Formed /\ Fielded /\ Superseding /\ Managing /\ Reloading /\ Attached /\ Wrapping
      /\ ~crossed => Served
  BY InvariantIs
<1>2. mgr' \in [Gens -> ManagerRecords] /\ \A h \in Gens : mgr'[h] = IF h = g THEN m ELSE mgr[h]
  BY <1>1 DEF Formed
<1>3. SameHands BY DEF SameHands
<1>4. Formed'
  <2>1. mgr' \in [Gens -> ManagerRecords'] BY <1>2, Widening
  <2>2. /\ gen' \in Gens /\ cur' \in Gens \union {0} /\ closed' \subseteq Gens /\ crossed' \in BOOLEAN
        /\ disp' \in {"idle", "initialize", "mcp/shutdown", "building", "logout"}
    BY <1>1 DEF Formed
  <2>. QED BY <1>1, <2>1, <2>2, FormedKept
<1>5. Superseding' BY <1>1, <1>2, SupersedingKept
<1>6. Managing'
  <2>1. ASSUME NEW h \in Gens, NEW s \in Servers, mgr[h].clients[s] # 0
        PROVE  /\ client'[mgr[h].clients[s]].gen = h /\ client'[mgr[h].clients[s]].server = s
    <3>1. mgr[h].clients[s] \in Clients BY <1>1, <2>1 DEF Fielded
    <3>. QED BY <1>1, <2>1, <3>1 DEF Managing, Aged
  <2>2. ASSUME NEW h \in Gens
        PROVE  /\ h \in closed <=> mgr'[h].stop # "no"
               /\ loader'[h].pc \in {"none", "lock", "load"} => ~mgr'[h].loaded
               /\ ~mgr'[h].loaded => mgr'[h].tools = {} /\ \A s \in Servers : mgr'[h].clients[s] = 0
               /\ \A s \in Servers : mgr'[h].clients[s] # 0 =>
                    client'[mgr'[h].clients[s]].gen = h /\ client'[mgr'[h].clients[s]].server = s
    <3>1. CASE h # g BY <1>1, <1>2, <2>1, <3>1 DEF Managing
    <3>2. CASE h = g
      <4>1. mgr'[h] = m BY <1>2, <3>2
      <4>2. /\ g \in closed <=> mgr[g].stop # "no"
            /\ loader[g].pc \in {"none", "lock", "load"} => ~mgr[g].loaded
            /\ ~mgr[g].loaded => mgr[g].tools = {} /\ \A s \in Servers : mgr[g].clients[s] = 0
        BY <1>1 DEF Managing
      <4>3. \A s \in Servers : m.clients[s] # 0 =>
                    client'[m.clients[s]].gen = g /\ client'[m.clients[s]].server = s
        BY <2>1
      <4>. QED BY <3>2, <4>1, <4>2, <4>3
    <3>. QED BY <3>1, <3>2
  <2>. QED BY <2>2 DEF Managing, Gens
<1>7. Reloading' BY <1>1, <1>2, ReloadingKept
<1>8. Open => cur \in Gens /\ cur # g /\ mgr'[cur] = mgr[cur] BY <1>1, <1>2 DEF Open, Formed
<1>9. Wrapping' BY <1>1, <1>3, <1>8, WrappingKept DEF Open
<1>10. ~crossed' => Served'
  <2>. SUFFICES ASSUME ~crossed PROVE Served' OBVIOUS
  <2>0. Served BY <1>1
  <2>1. (cur # 0 => agent.gen = cur)' /\ Swapping'
    BY <2>0 DEF Served, Swapping, Gens, Threads
  <2>2. cur # 0 => cur \in Gens BY <1>1 DEF Formed
  <2>3. Loading' BY <1>2, <2>0, <2>2 DEF Served, Loading, Threads
  <2>4. Pending => Pending' BY DEF Pending, Threads
  <2>5. Serving' BY <1>1, <1>3, <1>8, <2>0, <2>4, ServingKept DEF Served, Open
  <2>. QED BY <2>1, <2>3, <2>5 DEF Served
<1>. QED BY <1>4, <1>5, <1>6, <1>7, <1>9, <1>10 DEF McpInvariant

(* Those a manager has registered when it kills are killed.                 *)
LEMMA ManagerKillsKeeps ==
  ASSUME McpInvariant, NEW g \in Gens, ManagerKills(g)
  PROVE  McpInvariant'
<1>1. /\ mgr[g].stop = "kill" /\ client' = Killed(Registered(g))
      /\ missed' = missed \union Unopened(Registered(g))
      /\ mgr' = [mgr EXCEPT ![g].stop = "clear"]
      /\ UNCHANGED <<gen, cur, closed, agent, loader, disp, rel, crossed>>
  BY DEF ManagerKills
<1>2. /\ Formed /\ Fielded /\ Managing /\ Attached
  BY InvariantIs
<1>3. g \in closed BY <1>1, <1>2 DEF Managing
<1>4. PICK m \in ManagerRecords :
         /\ mgr' = [mgr EXCEPT ![g] = m] /\ m.stop = "clear" /\ m.loaded = mgr[g].loaded
         /\ m.clients = mgr[g].clients /\ m.tools = mgr[g].tools
  <2>. DEFINE m == [mgr[g] EXCEPT !.stop = "clear"]
  <2>1. mgr[g] \in ManagerRecords BY <1>2 DEF Fielded
  <2>2. /\ m \in ManagerRecords /\ m.stop = "clear" /\ m.loaded = mgr[g].loaded
        /\ m.clients = mgr[g].clients /\ m.tools = mgr[g].tools
    BY <2>1 DEF ManagerRecords
  <2>3. mgr' = [mgr EXCEPT ![g] = m] BY <1>1, <1>2, <2>1 DEF Formed, ManagerRecords
  <2>. QED BY <2>2, <2>3
<1>5. Registered(g) \ {0} = Registered(g) BY DEF Registered
<1>6. /\ Aged /\ client' \in Seq(ClientRecords) /\ Clients' = Clients
      /\ \A c \in Clients : c \in Registered(g) => Gone(c)'
  <2>1. missed \union Unopened(Registered(g) \ {0}) \subseteq missed' BY <1>1, <1>5
  <2>. QED BY <1>1, <1>2, <2>1, KilledAge
<1>7. SameHands BY <1>1 DEF SameHands
<1>8. Attached'
  <2>. SUFFICES ASSUME NEW c \in Clients, ~Gone(c)' PROVE AttachedAt(c)'
    BY <1>6 DEF Attached
  <2>1. AttachedAt(c) /\ client[c].gen \in Gens /\ client[c].server \in Servers /\ c # 0
    BY <1>2, <1>6 DEF Attached, Aged, Fielded
  <2>2. client'[c].gen = client[c].gen /\ client'[c].server = client[c].server BY <1>6 DEF Aged
  <2>3. InHand(c) => InHand(c)' BY <1>7, HandsStay
  <2>4. CASE client[c].gen = g
    <3>1. c \notin Registered(g) BY <1>6
    <3>2. mgr[g].clients[client[c].server] # c BY <2>1, <3>1 DEF Registered
    <3>3. InHand(c) BY <1>3, <2>1, <2>4, <3>2 DEF AttachedAt
    <3>. QED BY <1>1, <1>3, <2>2, <2>3, <2>4, <3>3 DEF AttachedAt
  <2>5. CASE client[c].gen # g
    <3>1. mgr'[client[c].gen] = mgr[client[c].gen] BY <1>2, <1>4, <2>1, <2>5 DEF Formed
    <3>. QED BY <1>1, <2>1, <2>2, <2>3, <3>1 DEF AttachedAt
  <2>. QED BY <2>4, <2>5
<1>. QED BY <1>1, <1>3, <1>4, <1>6, <1>8, StopStep

(* Those it then forgets are killed, or a reload has them in hand.          *)
LEMMA ManagerClearsKeeps ==
  ASSUME McpInvariant, NEW g \in Gens, ManagerClears(g)
  PROVE  McpInvariant'
<1>1. /\ mgr[g].stop = "clear"
      /\ mgr' = [mgr EXCEPT ![g].clients = [s \in Servers |-> 0], ![g].tools = {},
                        ![g].stop = "done"]
      /\ UNCHANGED <<gen, cur, closed, client, agent, loader, disp, rel, missed, crossed>>
  BY DEF ManagerClears
<1>2. /\ Formed /\ Fielded /\ Managing /\ Attached
  BY InvariantIs
<1>3. g \in closed BY <1>1, <1>2 DEF Managing
<1>4. PICK m \in ManagerRecords :
         /\ mgr' = [mgr EXCEPT ![g] = m] /\ m.stop = "done" /\ m.loaded = mgr[g].loaded
         /\ m.tools = {} /\ \A s \in Servers : m.clients[s] = 0
  <2>. DEFINE m == [mgr[g] EXCEPT !.clients = [s \in Servers |-> 0], !.tools = {}, !.stop = "done"]
  <2>1. mgr[g] \in ManagerRecords BY <1>2 DEF Fielded
  <2>2. /\ m \in ManagerRecords /\ m.stop = "done" /\ m.loaded = mgr[g].loaded
        /\ m.tools = {} /\ \A s \in Servers : m.clients[s] = 0
    BY <2>1 DEF ManagerRecords
  <2>3. mgr' = [mgr EXCEPT ![g] = m] BY <1>1, <1>2, <2>1 DEF Formed, ManagerRecords
  <2>. QED BY <2>2, <2>3
<1>5. Aged /\ client' \in Seq(ClientRecords) /\ Clients' = Clients
  BY <1>1, <1>2, SameClientsAge DEF Formed, Clients
<1>6. SameHands BY <1>1 DEF SameHands
<1>7. Attached'
  <2>. SUFFICES ASSUME NEW c \in Clients, ~Gone(c)' PROVE AttachedAt(c)'
    BY <1>5 DEF Attached
  <2>1. AttachedAt(c) /\ client[c].gen \in Gens BY <1>2, <1>5 DEF Attached, Aged, Fielded
  <2>2. client'[c].gen = client[c].gen /\ client'[c].server = client[c].server BY <1>5 DEF Aged
  <2>3. InHand(c) => InHand(c)' BY <1>6, HandsStay
  <2>4. CASE client[c].gen = g
    <3>1. InHand(c) BY <1>1, <1>3, <2>1, <2>4 DEF AttachedAt
    <3>. QED BY <1>1, <1>3, <2>2, <2>3, <2>4, <3>1 DEF AttachedAt
  <2>5. CASE client[c].gen # g
    <3>1. mgr'[client[c].gen] = mgr[client[c].gen] BY <1>2, <1>4, <2>1, <2>5 DEF Formed
    <3>. QED BY <1>1, <2>1, <2>2, <2>3, <3>1 DEF AttachedAt
  <2>. QED BY <2>4, <2>5
<1>8. /\ m.stop # "no" /\ m.tools \subseteq mgr[g].tools
      /\ \A s \in Servers : m.clients[s] \in {mgr[g].clients[s], 0}
  BY <1>4
<1>. QED BY <1>1, <1>3, <1>4, <1>5, <1>7, <1>8, StopStep

(* The tools are rebuilt from clients the manager has.                      *)
LEMMA RebuiltAreRegistered ==
  ASSUME Formed, Managing, NEW g \in Gens
  PROVE  /\ RebuiltTools(g) \subseteq Clients
         /\ \A k \in RebuiltTools(g) : mgr[g].clients[client[k].server] = k
         /\ ~mgr[g].loaded => RebuiltTools(g) = {}
<1>1. ASSUME NEW k \in RebuiltTools(g)
      PROVE  k \in Clients /\ mgr[g].clients[client[k].server] = k /\ mgr[g].loaded
  <2>1. PICK s \in Servers : k = mgr[g].clients[s] /\ k # 0 BY DEF RebuiltTools, Registered
  <2>2. client[k].server = s BY <2>1 DEF Managing
  <2>3. k \in Clients BY <2>1, FieldedIs DEF Fielded
  <2>4. mgr[g].loaded BY <2>1 DEF Managing
  <2>. QED BY <2>1, <2>2, <2>3, <2>4
<1>. QED BY <1>1

(* At the end of the load the tools are those of the clients just made.     *)
LEMMA LoaderRebuildsKeeps ==
  ASSUME McpInvariant, NEW g \in Gens, LoaderRebuilds(g)
  PROVE  McpInvariant'
<1>1. /\ loader[g].pc = "wait"
      /\ mgr' = [mgr EXCEPT ![g].tools = RebuiltTools(g)]
      /\ loader' = [loader EXCEPT ![g].pc = "check", ![g].waits = {},
                   ![g].had = g \notin closed /\ RebuiltTools(g) # {}]
      /\ UNCHANGED <<gen, cur, closed, client, agent, disp, rel, missed, crossed>>
  BY DEF LoaderRebuilds
<1>2. /\ Formed /\ Fielded /\ Superseding /\ Managing /\ Reloading /\ Attached /\ Wrapping
      /\ ~crossed => Served
  BY InvariantIs
<1>3. Aged /\ SameHands /\ Clients' = Clients /\ client' \in Seq(ClientRecords)
  BY <1>1, <1>2, SameClientsAge DEF SameHands, Clients, Formed
<1>4. /\ RebuiltTools(g) \subseteq Clients
      /\ \A k \in RebuiltTools(g) : mgr[g].clients[client[k].server] = k
      /\ ~mgr[g].loaded => RebuiltTools(g) = {}
  BY <1>2, RebuiltAreRegistered
<1>5. PICK m \in ManagerRecords :
         /\ mgr' = [mgr EXCEPT ![g] = m] /\ m.tools = RebuiltTools(g)
         /\ m.stop = mgr[g].stop /\ m.loaded = mgr[g].loaded /\ m.clients = mgr[g].clients
  <2>. DEFINE m == [mgr[g] EXCEPT !.tools = RebuiltTools(g)]
  <2>1. mgr[g] \in ManagerRecords BY <1>2 DEF Fielded
  <2>2. /\ m \in ManagerRecords /\ m.tools = RebuiltTools(g)
        /\ m.stop = mgr[g].stop /\ m.loaded = mgr[g].loaded /\ m.clients = mgr[g].clients
    BY <1>4, <2>1 DEF ManagerRecords
  <2>3. mgr' = [mgr EXCEPT ![g] = m] BY <1>1, <1>2, <2>1 DEF Formed, ManagerRecords
  <2>. QED BY <2>2, <2>3
<1>6. PICK l \in LoaderRecords : loader' = [loader EXCEPT ![g] = l] /\ l.pc = "check"
  <2>. DEFINE b == (g \notin closed /\ RebuiltTools(g) # {})
  <2>. DEFINE l == [loader[g] EXCEPT !.pc = "check", !.waits = {}, !.had = b]
  <2>1. loader[g] \in LoaderRecords /\ b \in BOOLEAN BY <1>2 DEF Fielded
  <2>2. loader' = [loader EXCEPT ![g].pc = "check", ![g].waits = {}, ![g].had = b] BY <1>1
  <2>. HIDE DEF b
  <2>3. l \in LoaderRecords /\ l.pc = "check" BY <2>1 DEF LoaderRecords
  <2>4. loader' = [loader EXCEPT ![g] = l] BY <1>2, <2>1, <2>2 DEF Formed, LoaderRecords
  <2>. QED BY <2>3, <2>4
<1>7. /\ mgr' \in [Gens -> ManagerRecords] /\ \A h \in Gens : mgr'[h] = IF h = g THEN m ELSE mgr[h]
      /\ loader' \in [Gens -> LoaderRecords]
      /\ \A h \in Gens : loader'[h] = IF h = g THEN l ELSE loader[h]
  BY <1>2, <1>5, <1>6 DEF Formed
<1>8. g \in closed \union {cur} BY <1>1, <1>2, BegunIs
<1>9. Formed'
  <2>1. mgr' \in [Gens -> ManagerRecords'] /\ loader' \in [Gens -> LoaderRecords'] BY <1>3, <1>7, Widening
  <2>2. /\ gen' \in Gens /\ cur' \in Gens \union {0} /\ closed' \subseteq Gens /\ crossed' \in BOOLEAN
        /\ disp' \in {"idle", "initialize", "mcp/shutdown", "building", "logout"}
        /\ agent' = agent /\ rel' = rel
    BY <1>1, <1>2 DEF Formed
  <2>. QED BY <1>2, <1>3, <2>1, <2>2, FormedKept
<1>10. Superseding' BY <1>1, <1>2, <1>7, <1>8, SupersedingKept
<1>11. Managing'
  <2>1. ASSUME NEW h \in Gens
        PROVE  /\ h \in closed <=> mgr'[h].stop # "no"
               /\ loader'[h].pc \in {"none", "lock", "load"} => ~mgr'[h].loaded
               /\ ~mgr'[h].loaded => mgr'[h].tools = {} /\ \A s \in Servers : mgr'[h].clients[s] = 0
               /\ \A s \in Servers : mgr'[h].clients[s] # 0 =>
                    client[mgr'[h].clients[s]].gen = h /\ client[mgr'[h].clients[s]].server = s
    BY <1>2, <1>4, <1>5, <1>6, <1>7 DEF Managing
  <2>. QED BY <1>1, <2>1 DEF Managing, Gens
<1>12. Reloading' BY <1>1, <1>2, <1>3, <1>5, <1>7, ReloadingKept
<1>13. Attached' BY <1>1, <1>2, <1>3, <1>5, <1>7, AttachedKept
<1>14. cur # 0 => cur \in Gens BY <1>2 DEF Formed
<1>15. Wrapping'
  <2>1. CASE g = cur
    <3>. SUFFICES ASSUME NEW k \in mgr'[cur].tools PROVE InPlace(k)' BY <1>1 DEF Wrapping
    <3>1. k \in RebuiltTools(g) BY <1>5, <1>7, <2>1
    <3>2. mgr'[cur].clients[client[k].server] = k BY <1>4, <1>5, <1>7, <2>1, <3>1
    <3>. QED BY <1>1, <3>2 DEF InPlace
  <2>2. CASE g # cur BY <1>1, <1>2, <1>3, <1>7, <1>14, <2>2, WrappingKept DEF Open
  <2>. QED BY <2>1, <2>2
<1>16. ~crossed' => Served'
  <2>. SUFFICES ASSUME ~crossed PROVE Served' BY <1>1
  <2>0. Served BY <1>2
  <2>1. (cur # 0 => agent.gen = cur)' BY <1>1, <2>0 DEF Served
  <2>2. Swapping' BY <1>1, <1>6, <1>7, <2>0 DEF Served, Swapping, Gens, Threads
  <2>3. Loading' BY <1>1, <1>6, <1>7, <1>14, <2>0 DEF Served, Loading, Threads
  <2>4. Serving'
    <3>1. CASE g = cur
      <4>1. cur # 0 BY <1>2, <3>1 DEF Fielded
      <4>2. agent.tools = {} BY <1>1, <2>0, <3>1, <4>1 DEF Served, Loading
      <4>. QED BY <1>1, <4>2 DEF Serving
    <3>2. CASE g # cur
      <4>1. Open => mgr'[cur] = mgr[cur] /\ loader'[cur] = loader[cur] BY <1>7, <1>14, <3>2 DEF Open
      <4>2. Open /\ Pending => Pending' BY <1>1, <4>1 DEF Pending, Threads
      <4>. QED BY <1>1, <1>2, <1>3, <2>0, <4>1, <4>2, ServingKept DEF Served, Open
    <3>. QED BY <3>1, <3>2
  <2>. QED BY <2>1, <2>2, <2>3, <2>4 DEF Served
<1>. QED BY <1>9, <1>10, <1>11, <1>12, <1>13, <1>15, <1>16 DEF McpInvariant

(* The configured servers come in an order, each of them once.              *)
LEMMA OrderOfServers ==
  ASSUME NEW order, order = SetToSeq(DOMAIN ReadConfigs)
  PROVE  /\ Len(order) \in Nat /\ DOMAIN order = 1..Len(order)
         /\ \A i \in 1..Len(order) : order[i] \in DOMAIN ReadConfigs /\ order[i] \in Servers
         /\ \A i, j \in 1..Len(order) : order[i] = order[j] => i = j
         /\ \A s \in DOMAIN ReadConfigs : \E i \in 1..Len(order) : order[i] = s
<1>1. DOMAIN ReadConfigs \subseteq Servers /\ IsFiniteSet(DOMAIN ReadConfigs)
  BY ConfiguredAreServers
<1>2. PICK S : S = DOMAIN ReadConfigs OBVIOUS
<1>3. /\ Len(SetToSeq(S)) \in Nat
      /\ DOMAIN SetToSeq(S) = 1..Len(SetToSeq(S))
      /\ \A i \in DOMAIN SetToSeq(S) : SetToSeq(S)[i] \in S
      /\ \A i, j \in DOMAIN SetToSeq(S) : SetToSeq(S)[i] = SetToSeq(S)[j] => i = j
      /\ \A s \in S : \E i \in DOMAIN SetToSeq(S) : SetToSeq(S)[i] = s
  BY <1>1, <1>2, OrderIs
<1>4. order = SetToSeq(S) BY <1>2
<1>. QED BY <1>1, <1>2, <1>3, <1>4

(* A load appends one client for each server configured.                    *)
Appends(g, order, ids, more) ==
  /\ order = SetToSeq(DOMAIN ReadConfigs)
  /\ ids = Len(client) + 1 .. Len(client) + Len(order)
  /\ \A i \in DOMAIN order : more[i] = NewClient(g, order[i])
  /\ more \in [DOMAIN order -> ClientRecords]
  /\ client' = client \o more

Appended(g, ids) ==
  /\ client' \in Seq(ClientRecords) /\ Clients' = Clients \union ids
  /\ ids \intersect Clients = {} /\ 0 \notin ids
  /\ \A c \in Clients : client'[c] = client[c]
  /\ \A c \in ids : client'[c].gen = g /\ client'[c].server \in DOMAIN ReadConfigs
  /\ \A c, d \in ids : client'[c].server = client'[d].server => c = d
  /\ \A s \in DOMAIN ReadConfigs : \E c \in ids : client'[c].server = s

(* A load registers one client for each server that is configured.          *)
LEMMA LoadedAre ==
  ASSUME Formed, NEW g \in Gens, NEW order, NEW ids, NEW more, Appends(g, order, ids, more)
  PROVE  Appended(g, ids)
<1>0. /\ order = SetToSeq(DOMAIN ReadConfigs)
      /\ ids = Len(client) + 1 .. Len(client) + Len(order)
      /\ \A i \in DOMAIN order : more[i] = NewClient(g, order[i])
      /\ more \in [DOMAIN order -> ClientRecords]
      /\ client' = client \o more
  BY DEF Appends
<1>. DEFINE S == DOMAIN ReadConfigs
<1>2. /\ Len(order) \in Nat /\ DOMAIN order = 1..Len(order)
      /\ \A i \in 1..Len(order) : order[i] \in S
      /\ \A i, j \in 1..Len(order) : order[i] = order[j] => i = j
      /\ \A s \in S : \E i \in 1..Len(order) : order[i] = s
  BY <1>0, OrderOfServers
<1>. HIDE DEF S
<1>. DEFINE n == Len(client)
            m == Len(order)
<1>3. n \in Nat /\ Clients = 1..n /\ client \in Seq(ClientRecords)
  BY FieldedIs DEF Fielded, Formed
<1>4. more \in Seq(ClientRecords) /\ Len(more) = m /\ DOMAIN more = 1..m
  <2>2. more \in [1..m -> ClientRecords] BY <1>0, <1>2
  <2>3. m \in Nat BY <1>2
  <2>. HIDE DEF m
  <2>4. more \in Seq(ClientRecords) BY <2>2, <2>3
  <2>. QED BY <2>2, <2>3, <2>4, LenProperties
<1>6. \A i \in 1..m : more[i].gen = g /\ more[i].server = order[i] BY <1>0, <1>2 DEF NewClient
<1>5. /\ client \o more \in Seq(ClientRecords)
      /\ Len(client \o more) = Len(client) + Len(more)
      /\ \A i \in 1 .. Len(client) + Len(more) : (client \o more)[i] =
                     IF i <= Len(client) THEN client[i] ELSE more[i - Len(client)]
  BY ONLY <1>3, <1>4, ConcatProperties
<1>7. client' \in Seq(ClientRecords) /\ Len(client') = n + m
  BY <1>0, <1>4, <1>5
<1>8. /\ \A c \in 1..n : client'[c] = client[c]
      /\ \A i \in 1..m : client'[n + i] = more[i]
  <2>1. \A i \in 1..(n + m) : client'[i] = IF i <= n THEN client[i] ELSE more[i - n]
    BY <1>0, <1>4, <1>5
  <2>2. n \in Nat /\ m \in Nat BY <1>2, <1>3
  <2>. HIDE DEF n, m
  <2>3. \A c \in 1..n : c \in 1..(n + m) /\ c <= n BY <2>2
  <2>4. \A i \in 1..m : n + i \in 1..(n + m) /\ ~(n + i <= n) /\ (n + i) - n = i BY <2>2
  <2>. QED BY <2>1, <2>3, <2>4
<1>9. ids = (n + 1)..(n + m) BY <1>0
<1>. HIDE DEF n, m
<1>10. Clients' = 1..(n + m) BY <1>2, <1>3, <1>7 DEF Clients, m
<1>11. /\ 1..(n + m) = 1..n \union ids /\ ids \intersect 1..n = {} /\ 0 \notin ids
       /\ \A c \in ids : c - n \in 1..m /\ n + (c - n) = c
       /\ \A i \in 1..m : n + i \in ids
  <2>1. n \in Nat /\ m \in Nat BY <1>2, <1>3 DEF m, n
  <2>. QED BY <1>9, <2>1
<1>12. ASSUME NEW c \in ids PROVE client'[c] = more[c - n] /\ c - n \in 1..m
  BY <1>8, <1>11
<1>13. \A i \in 1..m : order[i] \in S BY <1>2 DEF m
<1>14. \A i, j \in 1..m : order[i] = order[j] => i = j BY <1>2 DEF m
<1>15. \A s \in S : \E i \in 1..m : order[i] = s BY <1>2 DEF m
<1>16. ASSUME NEW c \in ids PROVE client'[c].gen = g /\ client'[c].server \in S
  <2>1. client'[c] = more[c - n] /\ c - n \in 1..m BY <1>12
  <2>2. more[c - n].gen = g /\ more[c - n].server = order[c - n] /\ order[c - n] \in S
    BY <1>6, <1>13, <2>1
  <2>. QED BY <2>1, <2>2
<1>17. ASSUME NEW c \in ids, NEW d \in ids, client'[c].server = client'[d].server
       PROVE  c = d
  <2>1. order[c - n] = order[d - n] BY <1>6, <1>12, <1>17
  <2>2. c - n = d - n BY <1>12, <1>14, <2>1
  <2>. QED BY <1>11, <2>2
<1>18. ASSUME NEW s \in S PROVE \E c \in ids : client'[c].server = s
  <2>1. PICK i \in 1..m : order[i] = s BY <1>15
  <2>2. n + i \in ids /\ client'[n + i].server = s BY <1>6, <1>8, <1>11, <2>1
  <2>. QED BY <2>2
<1>. QED BY <1>3, <1>7, <1>8, <1>10, <1>11, <1>16, <1>17, <1>18 DEF S, Appended

(* A load registers the clients it makes, unless its builder is already     *)
(* closed: no shutdown will reach those.                                    *)
LEMMA LoaderStartsKeeps ==
  ASSUME McpInvariant, NEW g \in Gens, LoaderStarts(g)
  PROVE  McpInvariant'
<1>1. PICK order, ids, more :
        /\ order = SetToSeq(DOMAIN ReadConfigs)
        /\ ids = Len(client) + 1 .. Len(client) + Len(order)
        /\ more = [i \in DOMAIN order |-> NewClient(g, order[i])]
        /\ client' = client \o more
        /\ mgr' = [mgr EXCEPT ![g].loaded = TRUE,
              ![g].clients = [s \in Servers |->
                 IF s \in DOMAIN ReadConfigs
                   THEN CHOOSE c \in ids : client'[c].server = s ELSE @[s]]]
        /\ loader' = [loader EXCEPT ![g].pc = "wait", ![g].waits = ids]
        /\ missed' = IF g \in closed THEN missed \union ids ELSE missed
  BY DEF LoaderStarts
<1>2. /\ loader[g].pc = "load"
      /\ UNCHANGED <<gen, cur, closed, agent, disp, rel, crossed>>
  BY DEF LoaderStarts
<1>3. /\ Formed /\ Fielded /\ Superseding /\ Managing /\ Reloading /\ Attached /\ Wrapping
      /\ ~crossed => Served
  BY InvariantIs
<1>4. /\ client' \in Seq(ClientRecords) /\ Clients' = Clients \union ids
      /\ ids \intersect Clients = {} /\ 0 \notin ids
      /\ \A c \in Clients : client'[c] = client[c]
      /\ \A c \in ids : client'[c].gen = g /\ client'[c].server \in DOMAIN ReadConfigs
      /\ \A c, d \in ids : client'[c].server = client'[d].server => c = d
      /\ \A s \in DOMAIN ReadConfigs : \E c \in ids : client'[c].server = s
  <2>1. more \in [DOMAIN order -> ClientRecords]
    <3>1. \A i \in DOMAIN order : order[i] \in Servers BY <1>1, OrderOfServers
    <3>2. \A i \in DOMAIN order : NewClient(g, order[i]) \in ClientRecords
      BY <3>1 DEF NewClient, ClientRecords
    <3>. QED BY <1>1, <3>2
  <2>2. Appends(g, order, ids, more) BY <1>1, <2>1 DEF Appends
  <2>3. Appended(g, ids) BY <1>3, <2>2, LoadedAre
  <2>. QED BY <2>3 DEF Appended
<1>5. /\ ~mgr[g].loaded /\ mgr[g].tools = {} /\ \A s \in Servers : mgr[g].clients[s] = 0
      /\ mgr[g] \in ManagerRecords /\ loader[g] \in LoaderRecords
  BY <1>2, <1>3 DEF Managing, Fielded
<1>6. PICK named : named = [s \in Servers |-> IF s \in DOMAIN ReadConfigs
                   THEN CHOOSE c \in ids : client'[c].server = s ELSE 0]
  OBVIOUS
<1>7. /\ named \in [Servers -> Clients' \union {0}]
      /\ \A s \in Servers : named[s] # 0 => named[s] \in ids /\ client'[named[s]].server = s
      /\ \A c \in ids : named[client'[c].server] = c
  <2>1. DOMAIN ReadConfigs \subseteq Servers BY ConfiguredAreServers
  <2>2. ASSUME NEW s \in Servers, s \in DOMAIN ReadConfigs
        PROVE  named[s] \in ids /\ client'[named[s]].server = s
    <3>1. named[s] = CHOOSE c \in ids : client'[c].server = s BY <1>6, <2>2
    <3>2. \E c \in ids : client'[c].server = s BY <1>4, <2>2
    <3>. QED BY <3>1, <3>2
  <2>3. \A s \in Servers : s \notin DOMAIN ReadConfigs => named[s] = 0 BY <1>6
  <2>4. \A s \in Servers : named[s] # 0 => named[s] \in ids /\ client'[named[s]].server = s
    BY <2>2, <2>3
  <2>5. \A s \in Servers : named[s] \in Clients' \union {0} BY <1>4, <2>2, <2>3
  <2>6. \A c \in ids : named[client'[c].server] = c BY <1>4, <2>1, <2>2
  <2>. QED BY <1>6, <2>4, <2>5, <2>6
<1>8. PICK m : /\ m \in ManagerRecords' /\ mgr' = [mgr EXCEPT ![g] = m]
               /\ m.loaded = TRUE /\ m.clients = named /\ m.tools = {} /\ m.stop = mgr[g].stop
  <2>. DEFINE m == [mgr[g] EXCEPT !.loaded = TRUE, !.clients = named]
  <2>1. mgr' = [mgr EXCEPT ![g] = m]
    <3>1. mgr[g].clients = [s \in Servers |-> 0] BY <1>3, <1>5 DEF ManagerRecords
    <3>2. named = [s \in Servers |-> IF s \in DOMAIN ReadConfigs
                   THEN CHOOSE c \in ids : client'[c].server = s ELSE mgr[g].clients[s]]
      BY <1>5, <1>6
    <3>3. mgr' = [mgr EXCEPT ![g] = [mgr[g] EXCEPT !.loaded = TRUE,
              !.clients = [s \in Servers |->
                 IF s \in DOMAIN ReadConfigs
                   THEN CHOOSE c \in ids : client'[c].server = s ELSE mgr[g].clients[s]]]]
      BY <1>1, <1>3, <1>5 DEF Formed, ManagerRecords
    <3>. QED BY <3>2, <3>3
  <2>2. m \in ManagerRecords' /\ m.loaded = TRUE /\ m.clients = named /\ m.tools = {} /\ m.stop = mgr[g].stop
    BY <1>5, <1>7 DEF ManagerRecords
  <2>. QED BY <2>1, <2>2
<1>9. PICK l : /\ l \in LoaderRecords' /\ loader' = [loader EXCEPT ![g] = l] /\ l.pc = "wait"
  <2>. DEFINE l == [loader[g] EXCEPT !.pc = "wait", !.waits = ids]
  <2>1. loader' = [loader EXCEPT ![g] = l] BY <1>1, <1>3, <1>5 DEF Formed, LoaderRecords
  <2>2. l \in LoaderRecords' /\ l.pc = "wait" BY <1>4, <1>5 DEF LoaderRecords
  <2>. QED BY <2>1, <2>2
<1>10. /\ mgr' \in [Gens -> ManagerRecords'] /\ \A h \in Gens : mgr'[h] = IF h = g THEN m ELSE mgr[h]
       /\ loader' \in [Gens -> LoaderRecords']
       /\ \A h \in Gens : loader'[h] = IF h = g THEN l ELSE loader[h]
  <2>1. ManagerRecords \subseteq ManagerRecords' /\ LoaderRecords \subseteq LoaderRecords'
    BY <1>4, Widening
  <2>2. mgr \in [Gens -> ManagerRecords] /\ loader \in [Gens -> LoaderRecords] BY <1>3 DEF Formed
  <2>. HIDE DEF ManagerRecords, LoaderRecords
  <2>. QED BY <1>8, <1>9, <2>1, <2>2
<1>11. Aged
  <2>1. missed \subseteq missed' BY <1>1
  <2>. QED BY <1>4, <2>1 DEF Aged, Gone
<1>12. SameHands BY <1>2 DEF SameHands
<1>13. g \in closed \union {cur} BY <1>2, <1>3, BegunIs
<1>14. Formed'
  <2>1. /\ gen' \in Gens /\ cur' \in Gens \union {0} /\ closed' \subseteq Gens /\ crossed' \in BOOLEAN
        /\ disp' \in {"idle", "initialize", "mcp/shutdown", "building", "logout"}
        /\ agent' = agent /\ rel' = rel /\ Clients \subseteq Clients'
    BY <1>2, <1>3, <1>4 DEF Formed
  <2>. QED BY <1>3, <1>4, <1>10, <2>1, FormedKept
<1>15. Superseding' BY <1>2, <1>3, <1>10, <1>13, SupersedingKept
<1>16. Managing'
  <2>1. ASSUME NEW h \in Gens, h # g, NEW s \in Servers, mgr[h].clients[s] # 0
        PROVE  /\ client'[mgr[h].clients[s]].gen = h /\ client'[mgr[h].clients[s]].server = s
    <3>1. mgr[h].clients[s] \in Clients BY <1>3, <2>1 DEF Fielded
    <3>. QED BY <1>3, <1>4, <2>1, <3>1 DEF Managing
  <2>2. ASSUME NEW h \in Gens
        PROVE  /\ h \in closed <=> mgr'[h].stop # "no"
               /\ loader'[h].pc \in {"none", "lock", "load"} => ~mgr'[h].loaded
               /\ ~mgr'[h].loaded => mgr'[h].tools = {} /\ \A s \in Servers : mgr'[h].clients[s] = 0
               /\ \A s \in Servers : mgr'[h].clients[s] # 0 =>
                    client'[mgr'[h].clients[s]].gen = h /\ client'[mgr'[h].clients[s]].server = s
    <3>1. CASE h # g BY <1>3, <1>10, <2>1, <3>1 DEF Managing
    <3>2. CASE h = g
      <4>1. mgr'[h] = m /\ loader'[h] = l BY <1>10, <3>2
      <4>2. g \in closed <=> mgr[g].stop # "no" BY <1>3 DEF Managing
      <4>. QED BY <1>4, <1>7, <1>8, <1>9, <3>2, <4>1, <4>2
    <3>. QED BY <3>1, <3>2
  <2>. QED BY <1>2, <2>2 DEF Managing, Gens
<1>17. Reloading' BY <1>2, <1>3, <1>8, <1>10, <1>11, ReloadingKept
<1>18. Attached'
  <2>. SUFFICES ASSUME NEW c \in Clients', ~Gone(c)' PROVE AttachedAt(c)'
    BY DEF Attached
  <2>1. CASE c \in ids
    <3>1. g \notin closed BY <1>1, <2>1 DEF Gone
    <3>2. mgr'[g].clients[client'[c].server] = c /\ client'[c].gen = g BY <1>4, <1>7, <1>8, <1>10, <2>1
    <3>. QED BY <1>2, <3>1, <3>2 DEF AttachedAt
  <2>2. CASE c \in Clients
    <3>1. AttachedAt(c) /\ client[c].gen \in Gens /\ client[c].server \in Servers /\ c # 0
      BY <1>3, <1>11, <2>2 DEF Attached, Aged, Fielded
    <3>2. client'[c] = client[c] BY <1>4, <2>2
    <3>3. InHand(c) => InHand(c)' BY <1>12, HandsStay
    <3>4. CASE client[c].gen = g
      <4>1. mgr[g].clients[client[c].server] # c BY <1>5, <3>1
      <4>2. g \in closed /\ InHand(c) BY <3>1, <3>4, <4>1 DEF AttachedAt
      <4>. QED BY <1>2, <3>2, <3>3, <3>4, <4>2 DEF AttachedAt
    <3>5. CASE client[c].gen # g
      <4>1. mgr'[client[c].gen] = mgr[client[c].gen] BY <1>10, <3>1, <3>5
      <4>. QED BY <1>2, <3>1, <3>2, <3>3, <4>1 DEF AttachedAt
    <3>. QED BY <3>4, <3>5
  <2>. QED BY <1>4, <2>1, <2>2
<1>19. cur # 0 => cur \in Gens BY <1>3 DEF Formed
<1>20. Wrapping'
  <2>1. CASE g = cur
    <3>1. mgr'[cur'].tools = {} BY <1>2, <1>8, <1>10, <2>1
    <3>. QED BY <3>1 DEF Wrapping
  <2>2. CASE g # cur BY <1>2, <1>3, <1>10, <1>11, <1>12, <1>19, <2>2, WrappingKept DEF Open
  <2>. QED BY <2>1, <2>2
<1>21. ~crossed' => Served'
  <2>. SUFFICES ASSUME ~crossed PROVE Served' BY <1>2
  <2>0. Served BY <1>3
  <2>1. (cur # 0 => agent.gen = cur)' BY <1>2, <2>0 DEF Served
  <2>2. Swapping' BY <1>2, <1>9, <1>10, <2>0 DEF Served, Swapping, Gens, Threads
  <2>3. Loading' BY <1>2, <1>8, <1>9, <1>10, <1>19, <2>0 DEF Served, Loading, Threads
  <2>4. Serving'
    <3>1. CASE g = cur
      <4>1. cur # 0 BY <1>3, <3>1 DEF Fielded
      <4>2. agent.tools = {} BY <1>2, <2>0, <3>1, <4>1 DEF Served, Loading
      <4>. QED BY <1>2, <4>2 DEF Serving
    <3>2. CASE g # cur
      <4>1. Open => mgr'[cur] = mgr[cur] /\ loader'[cur] = loader[cur] BY <1>10, <1>19, <3>2 DEF Open
      <4>2. Open /\ Pending => Pending' BY <1>2, <4>1 DEF Pending, Threads
      <4>. QED BY <1>2, <1>3, <1>11, <1>12, <2>0, <4>1, <4>2, ServingKept DEF Served, Open
    <3>. QED BY <3>1, <3>2
  <2>. QED BY <2>1, <2>2, <2>3, <2>4 DEF Served
<1>. QED BY <1>14, <1>15, <1>16, <1>17, <1>18, <1>20, <1>21 DEF McpInvariant

(* A reload registers its new client in the place of the one it shut down.  *)
(* Another one it finds there no shutdown will reach any more.              *)
LEMMA ReloadRegistersKeeps ==
  ASSUME McpInvariant, NEW t \in Threads, ReloadRegisters(t)
  PROVE  McpInvariant'
<1>1. PICK g, s, c :
        /\ g = rel[t].gen /\ s = rel[t].server /\ c = Len(client) + 1
        /\ client' = Append(client, NewClient(g, s))
        /\ mgr' = [mgr EXCEPT ![g].clients[s] = c]
        /\ ReloadAt(t, [rel[t] EXCEPT !.pc = "start", !.client = c,
                           !.before = Exposed(mgr[g].tools)])
        /\ missed' = missed \union ({mgr[g].clients[s]} \ {0, rel[t].client})
  BY DEF ReloadRegisters
<1>2. /\ rel[t].pc = "new"
      /\ UNCHANGED <<gen, cur, closed, agent, loader, disp, crossed>>
  BY DEF ReloadRegisters
<1>3. /\ Formed /\ Fielded /\ Superseding /\ Managing /\ Reloading /\ Attached /\ Wrapping
      /\ ~crossed => Served
  BY InvariantIs
<1>4. /\ rel[t] \in ReloadRecords /\ ReloadIs(rel[t]) /\ (~crossed => SwapIs(rel[t]))
      /\ t \in Servers => rel[t].server = t
      /\ disp # "logout" => rel["dispatch"].pc = "idle"
  BY ReloadFacts
<1>5. /\ g \in Gens /\ s \in Servers /\ mgr[g].loaded /\ g \in closed \union {cur}
      /\ rel[t].client = 0 \/ Gone(rel[t].client)
  BY <1>1, <1>2, <1>3, <1>4 DEF ReloadIs, Fielded
<1>6. /\ client' \in Seq(ClientRecords) /\ Clients' = Clients \union {c}
      /\ c \notin Clients /\ c # 0
      /\ \A k \in Clients : client'[k] = client[k]
      /\ client'[c] = NewClient(g, s)
  <2>1. Len(client) \in Nat /\ Clients = 1..Len(client) /\ client \in Seq(ClientRecords)
    BY <1>3 DEF Fielded, Formed
  <2>2. NewClient(g, s) \in ClientRecords BY <1>5 DEF NewClient, ClientRecords
  <2>3. client' \in Seq(ClientRecords) /\ Len(client') = Len(client) + 1 BY <1>1, <2>1, <2>2
  <2>4. Clients' = 1..(Len(client) + 1) BY <2>3 DEF Clients
  <2>5. /\ \A k \in 1..Len(client) : client'[k] = client[k]
        /\ client'[Len(client) + 1] = NewClient(g, s)
    BY <1>1, <2>1, <2>2
  <2>. QED BY <1>1, <2>1, <2>3, <2>4, <2>5
<1>7. client'[c].gen = g /\ client'[c].server = s BY <1>6 DEF NewClient
<1>8. PICK r : /\ r \in ReloadRecords' /\ rel' = [rel EXCEPT ![t] = r]
               /\ r.pc = "start" /\ r.client = c /\ r.gen = g /\ r.server = s
               /\ r.born = rel[t].born
  <2>. DEFINE r == [rel[t] EXCEPT !.pc = "start", !.client = c, !.before = Exposed(mgr[g].tools)]
  <2>1. Exposed(mgr[g].tools) \subseteq Servers BY <1>3, <1>5 DEF Exposed, Fielded
  <2>2. /\ r \in ReloadRecords' /\ r.pc = "start" /\ r.client = c /\ r.gen = g /\ r.server = s
        /\ r.born = rel[t].born
    BY <1>1, <1>4, <1>6, <2>1 DEF ReloadRecords
  <2>. QED BY <1>1, <2>2 DEF ReloadAt
<1>9. PICK m : /\ m \in ManagerRecords' /\ mgr' = [mgr EXCEPT ![g] = m]
               /\ m.clients = [mgr[g].clients EXCEPT ![s] = c]
               /\ m.loaded = mgr[g].loaded /\ m.tools = mgr[g].tools /\ m.stop = mgr[g].stop
  <2>. DEFINE m == [mgr[g] EXCEPT !.clients = [mgr[g].clients EXCEPT ![s] = c]]
  <2>1. mgr[g] \in ManagerRecords /\ mgr \in [Gens -> ManagerRecords] BY <1>3, <1>5 DEF Formed
  <2>2. /\ m \in ManagerRecords' /\ m.clients = [mgr[g].clients EXCEPT ![s] = c]
        /\ m.loaded = mgr[g].loaded /\ m.tools = mgr[g].tools /\ m.stop = mgr[g].stop
    BY <1>6, <2>1 DEF ManagerRecords
  <2>3. mgr' = [mgr EXCEPT ![g] = m] BY <1>1, <1>5, <2>1 DEF ManagerRecords
  <2>. QED BY <2>2, <2>3
<1>10. /\ mgr' \in [Gens -> ManagerRecords'] /\ \A h \in Gens : mgr'[h] = IF h = g THEN m ELSE mgr[h]
       /\ rel' \in [Threads -> ReloadRecords'] /\ \A u \in Threads : rel'[u] = IF u = t THEN r ELSE rel[u]
       /\ \A n \in Servers : m.clients[n] = IF n = s THEN c ELSE mgr[g].clients[n]
  <2>1. ManagerRecords \subseteq ManagerRecords' /\ ReloadRecords \subseteq ReloadRecords'
    BY <1>6, Widening
  <2>2. mgr \in [Gens -> ManagerRecords] /\ rel \in [Threads -> ReloadRecords] BY <1>3 DEF Formed
  <2>3. mgr' \in [Gens -> ManagerRecords'] /\ \A h \in Gens : mgr'[h] = IF h = g THEN m ELSE mgr[h]
    BY <1>9, <2>1, <2>2
  <2>4. rel' \in [Threads -> ReloadRecords'] /\ \A u \in Threads : rel'[u] = IF u = t THEN r ELSE rel[u]
    BY <1>8, <2>1, <2>2
  <2>5. DOMAIN mgr[g].clients = Servers BY <1>3, <1>5 DEF Fielded
  <2>. QED BY <1>9, <2>3, <2>4, <2>5
<1>11. Aged
  <2>1. missed \subseteq missed' BY <1>1
  <2>. QED BY <1>6, <2>1 DEF Aged, Gone
<1>12. SameHands BY <1>2, <1>10 DEF SameHands
<1>13. InHand(c)' BY <1>8, <1>10 DEF InHand, Threads
<1>14. Formed'
  <2>1. /\ gen' \in Gens /\ cur' \in Gens \union {0} /\ closed' \subseteq Gens /\ crossed' \in BOOLEAN
        /\ disp' \in {"idle", "initialize", "mcp/shutdown", "building", "logout"}
        /\ agent' = agent /\ loader' = loader /\ Clients \subseteq Clients'
    BY <1>2, <1>3, <1>6 DEF Formed
  <2>. QED BY <1>3, <1>6, <1>10, <2>1, FormedKept
<1>15. Superseding' BY <1>2, <1>3, <1>5, <1>10, SupersedingKept
<1>16. Managing'
  <2>1. ASSUME NEW h \in Gens, NEW n \in Servers, mgr[h].clients[n] # 0
        PROVE  /\ client'[mgr[h].clients[n]].gen = h /\ client'[mgr[h].clients[n]].server = n
    <3>1. mgr[h].clients[n] \in Clients BY <1>3, <2>1 DEF Fielded
    <3>. QED BY <1>3, <1>6, <2>1, <3>1 DEF Managing
  <2>2. ASSUME NEW h \in Gens
        PROVE  /\ h \in closed <=> mgr'[h].stop # "no"
               /\ loader[h].pc \in {"none", "lock", "load"} => ~mgr'[h].loaded
               /\ ~mgr'[h].loaded => mgr'[h].tools = {} /\ \A n \in Servers : mgr'[h].clients[n] = 0
               /\ \A n \in Servers : mgr'[h].clients[n] # 0 =>
                    client'[mgr'[h].clients[n]].gen = h /\ client'[mgr'[h].clients[n]].server = n
    <3>1. /\ h \in closed <=> mgr[h].stop # "no"
          /\ loader[h].pc \in {"none", "lock", "load"} => ~mgr[h].loaded
          /\ ~mgr[h].loaded => mgr[h].tools = {} /\ \A n \in Servers : mgr[h].clients[n] = 0
      BY <1>3 DEF Managing
    <3>2. CASE h # g BY <1>10, <2>1, <3>1, <3>2
    <3>3. CASE h = g
      <4>1. mgr'[h] = m BY <1>10, <3>3
      <4>2. \A n \in Servers : m.clients[n] # 0 =>
                    client'[m.clients[n]].gen = g /\ client'[m.clients[n]].server = n
        BY <1>7, <1>10, <2>1, <3>3
      <4>. QED BY <1>5, <1>9, <3>1, <3>3, <4>1, <4>2
    <3>. QED BY <3>2, <3>3
  <2>. QED BY <1>2, <2>2 DEF Managing, Gens
<1>17. \A h \in Gens : mgr[h].loaded => mgr'[h].loaded BY <1>9, <1>10
<1>18. Reloading'
  <2>1. ReloadIs(r)'
    <3>1. r.gen # 0 /\ r.client # 0 /\ r.gen \in {0, cur} \union closed /\ mgr'[r.gen].loaded
      BY <1>3, <1>5, <1>6, <1>8, <1>17 DEF Fielded
    <3>. QED BY <1>2, <1>5, <1>7, <1>8, <3>1 DEF ReloadIs
  <2>2. IF t = "dispatch" THEN IF disp' = "logout" THEN r.gen \in {0, cur} ELSE r.pc = "idle"
                          ELSE (disp' = "logout") <=> (disp = "logout")
    <3>1. t = "dispatch" => disp = "logout" BY <1>2, <1>4
    <3>2. t = "dispatch" => rel[t].gen \in {0, cur} BY <1>3, <3>1 DEF Reloading
    <3>. QED BY <1>1, <1>2, <1>8, <3>1, <3>2
  <2>3. t \in Servers => r.server = t BY <1>1, <1>4, <1>8
  <2>4. ReloadAt(t, r) BY <1>8 DEF ReloadAt
  <2>. QED BY <1>2, <1>3, <1>11, <1>17, <2>1, <2>2, <2>3, <2>4, ReloadMoves
<1>19. Attached'
  <2>. SUFFICES ASSUME NEW k \in Clients', ~Gone(k)' PROVE AttachedAt(k)'
    BY DEF Attached
  <2>1. CASE k = c
    <3>1. mgr'[g].clients[s] = c BY <1>5, <1>10
    <3>. QED BY <1>2, <1>7, <1>13, <2>1, <3>1 DEF AttachedAt
  <2>2. CASE k \in Clients
    <3>1. /\ AttachedAt(k) /\ client[k].gen \in Gens /\ client[k].server \in Servers /\ k # 0
          /\ client'[k] = client[k]
      BY <1>3, <1>6, <1>11, <2>2 DEF Attached, Aged, Fielded
    <3>2. InHand(k) => InHand(k)' BY <1>12, HandsStay
    <3>3. CASE client[k].gen # g
      <4>1. mgr'[client[k].gen] = mgr[client[k].gen] BY <1>10, <3>1, <3>3
      <4>. QED BY <1>2, <3>1, <3>2, <4>1 DEF AttachedAt
    <3>4. CASE client[k].gen = g /\ client[k].server # s
      <4>1. mgr'[g].clients[client[k].server] = mgr[g].clients[client[k].server] /\ mgr'[g].stop = mgr[g].stop
        BY <1>5, <1>9, <1>10, <3>1, <3>4
      <4>. QED BY <1>2, <3>1, <3>2, <3>4, <4>1 DEF AttachedAt
    <3>5. CASE client[k].gen = g /\ client[k].server = s
      <4>1. mgr[g].clients[s] # k
        <5>. SUFFICES ASSUME mgr[g].clients[s] = k PROVE FALSE OBVIOUS
        <5>1. k \in missed' \/ k = rel[t].client BY <1>1, <3>1
        <5>2. k # rel[t].client
          <6>. SUFFICES ASSUME k = rel[t].client PROVE FALSE OBVIOUS
          <6>1. Gone(k) BY <1>5, <3>1
          <6>. QED BY <1>11, <2>2, <6>1 DEF Aged
        <5>. QED BY <5>1, <5>2 DEF Gone
      <4>2. g \in closed /\ InHand(k) BY <3>1, <3>5, <4>1 DEF AttachedAt
      <4>. QED BY <1>2, <3>1, <3>2, <3>5, <4>2 DEF AttachedAt
    <3>. QED BY <3>3, <3>4, <3>5
  <2>. QED BY <1>6, <2>1, <2>2
<1>20. cur # 0 => cur \in Gens /\ mgr'[cur].tools = mgr[cur].tools
  <2>1. cur # 0 => cur \in Gens BY <1>3 DEF Formed
  <2>. QED BY <1>9, <1>10, <2>1
<1>21. ASSUME Open, NEW k \in Clients, InPlace(k) PROVE InPlace(k)'
  <2>1. /\ cur \in Gens /\ cur' = cur /\ client'[k] = client[k] /\ client[k].server \in Servers
    BY <1>2, <1>3, <1>6, <1>20, <1>21 DEF Open, Fielded
  <2>2. CASE cur = g /\ client[k].server = s
    <3>1. mgr'[cur].clients[client'[k].server] = c BY <1>5, <1>10, <2>1, <2>2
    <3>2. PICK h : h = mgr'[cur'].clients[client'[k].server] OBVIOUS
    <3>3. h = c BY <2>1, <3>1, <3>2
    <3>. QED BY <1>13, <3>2, <3>3 DEF InPlace, InHand
  <2>3. CASE ~(cur = g /\ client[k].server = s)
    <3>1. PICK h : h = mgr[cur].clients[client[k].server] OBVIOUS
    <3>2. mgr'[cur'].clients[client'[k].server] = h BY <1>10, <2>1, <2>3, <3>1
    <3>3. h = k \/ InHand(h) BY <1>21, <3>1 DEF InPlace
    <3>4. h = k \/ InHand(h)' BY <1>12, <3>3, HandsStay
    <3>. QED BY <3>2, <3>4 DEF InPlace, InHand
  <2>. QED BY <2>2, <2>3
<1>22. Open' => Open /\ cur # 0 BY <1>2 DEF Open
<1>23. Wrapping'
  <2>. SUFFICES ASSUME Open', NEW k \in mgr'[cur'].tools PROVE InPlace(k)' BY DEF Wrapping
  <2>1. k \in mgr[cur].tools /\ k \in Clients BY <1>2, <1>3, <1>20, <1>22 DEF Fielded
  <2>2. InPlace(k) BY <1>3, <1>22, <2>1 DEF Wrapping
  <2>. QED BY <1>21, <1>22, <2>1, <2>2
<1>24. ~crossed' => Served'
  <2>. SUFFICES ASSUME ~crossed PROVE Served' BY <1>2
  <2>0. Served BY <1>3
  <2>1. (cur # 0 => agent.gen = cur)' BY <1>2, <2>0 DEF Served
  <2>2. Swapping'
    <3>1. \A u \in Threads : SwapIs(rel[u]) BY <2>0, SwappingIs DEF Served
    <3>2. SwapIs(rel[t]) BY <3>1
    <3>3. r.gen # 0 /\ r.born = r.gen BY <1>1, <1>2, <1>8, <3>2 DEF SwapIs
    <3>4. SwapIs(r) BY <1>8, <3>3 DEF SwapIs
    <3>5. \A u \in Threads : SwapIs(rel[u])' BY <1>2, <1>10, <3>1, <3>4 DEF SwapIs
    <3>6. \A h \in Gens : loader[h].pc = "swap" => h = cur /\ disp # "building"
      BY <2>0 DEF Served, Swapping
    <3>. QED BY <1>2, <3>5, <3>6 DEF Swapping, SwapIs, Gens, Threads
  <2>3. Loading'
    <3>1. \A u \in Threads : rel'[u].gen = rel[u].gen BY <1>1, <1>8, <1>10
    <3>. QED BY <1>2, <1>20, <2>0, <3>1 DEF Served, Loading, Threads
  <2>4. Serving'
    <3>. SUFFICES ASSUME Open', NEW k \in agent'.tools, ~Pending'
                  PROVE  client'[k].server \in (Exposed(mgr[cur].tools))' /\ InPlace(k)'
      BY DEF Serving
    <3>1. Open /\ cur' = cur /\ cur # 0 /\ k \in agent.tools BY <1>2, <1>22
    <3>2. ~Pending
      <4>. SUFFICES ASSUME Pending PROVE FALSE OBVIOUS
      <4>1. CASE \E u \in Threads : Rebuilds(rel[u], cur)
        <5>1. PICK u \in Threads : Rebuilds(rel[u], cur) BY <4>1
        <5>2. u # t BY <1>2, <5>1 DEF Rebuilds
        <5>3. rel'[u] = rel[u] BY <1>10, <5>2
        <5>4. \E v \in Threads : Rebuilds(rel'[v], cur) BY <5>1, <5>3
        <5>. QED BY <1>2, <5>4 DEF Pending, Rebuilds, Threads
      <4>2. CASE loader[cur].pc \in {"check", "swap"} /\ loader[cur].had
        BY <1>2, <4>2 DEF Pending
      <4>. QED BY <4>1, <4>2, PendingIs
    <3>3. k \in Clients /\ mgr[cur].tools \subseteq Clients BY <1>3, <1>20, <3>1 DEF Fielded
    <3>4. client[k].server \in Exposed(mgr[cur].tools) /\ InPlace(k)
      BY <2>0, <3>1, <3>2 DEF Served, Serving
    <3>5. (Exposed(mgr[cur].tools))' = {client'[j].server : j \in mgr[cur].tools}
      BY <1>20, <3>1 DEF Exposed
    <3>6. (Exposed(mgr[cur].tools))' = Exposed(mgr[cur].tools) BY <1>3, <1>11, <3>3, <3>5, ExposedStays
    <3>7. client'[k].server = client[k].server BY <1>6, <3>3
    <3>. QED BY <1>21, <3>1, <3>3, <3>4, <3>6, <3>7
  <2>. QED BY <2>1, <2>2, <2>3, <2>4 DEF Served
<1>. QED BY <1>14, <1>15, <1>16, <1>18, <1>19, <1>23, <1>24 DEF McpInvariant

(* The other reloads keep what they have in hand.                           *)
LEMMA OtherHandsStay ==
  ASSUME NEW t \in Threads, \A u \in Threads : u # t => rel'[u] = rel[u],
         NEW c, c # rel[t].client
  PROVE  InHand(c) => InHand(c)'
BY DEF InHand, Threads

(* The builder was closed under the reload: it kills what it made, and what *)
(* has that client's name by now no shutdown will reach.                    *)
LEMMA ReloadIsUndone ==
  ASSUME McpInvariant, NEW t \in Threads, ReloadFinishes(t), rel[t].gen \in closed
  PROVE  McpInvariant'
<1>1. PICK g, s, own :
        /\ g = rel[t].gen /\ s = rel[t].server /\ own = rel[t].client
        /\ client' = Killed({own}) /\ client[own].op = "done"
        /\ mgr' = [mgr EXCEPT ![g].clients[s] = 0]
        /\ ReloadAt(t, [rel[t] EXCEPT !.pc = "done", !.client = 0, !.before = {}])
        /\ missed' = missed \union ({mgr[g].clients[s]} \ {0, own})
  <2>1. /\ client' = Killed({rel[t].client}) /\ client[rel[t].client].op = "done"
        /\ mgr' = [mgr EXCEPT ![rel[t].gen].clients[rel[t].server] = 0]
        /\ ReloadAt(t, [rel[t] EXCEPT !.pc = "done", !.client = 0, !.before = {}])
        /\ missed' = missed \union ({mgr[rel[t].gen].clients[rel[t].server]} \ {0, rel[t].client})
    BY DEF ReloadFinishes
  <2>. QED BY <2>1
<1>2. /\ rel[t].pc = "start"
      /\ UNCHANGED <<gen, cur, closed, agent, loader, disp, crossed>>
  BY DEF ReloadFinishes
<1>3. /\ Formed /\ Fielded /\ Superseding /\ Managing /\ Reloading /\ Attached /\ Wrapping
      /\ ~crossed => Served
  BY InvariantIs
<1>4. /\ rel[t] \in ReloadRecords /\ ReloadIs(rel[t]) /\ (~crossed => SwapIs(rel[t]))
      /\ t \in Servers => rel[t].server = t
      /\ disp # "logout" => rel["dispatch"].pc = "idle"
  BY ReloadFacts
<1>5. /\ g \in Gens /\ s \in Servers /\ g \in closed /\ own \in Clients
      /\ client[own].gen = g /\ client[own].server = s
  BY <1>1, <1>2, <1>3, <1>4 DEF ReloadIs, Fielded
<1>6. /\ Aged /\ client' \in Seq(ClientRecords) /\ Clients' = Clients /\ Gone(own)'
  <2>1. own # 0 /\ client[own].op # "new" BY <1>1, <1>3, <1>5 DEF Fielded
  <2>2. missed \union Unopened({own} \ {0}) \subseteq missed'
    BY <1>1, <2>1 DEF Unopened
  <2>. QED BY <1>1, <1>3, <1>5, <2>2, KilledAge
<1>7. PICK r \in ReloadRecords :
         /\ rel' = [rel EXCEPT ![t] = r]
         /\ r.pc = "done" /\ r.gen = g /\ r.server = s /\ r.born = rel[t].born
  <2>. DEFINE r == [rel[t] EXCEPT !.pc = "done", !.client = 0, !.before = {}]
  <2>1. /\ r \in ReloadRecords /\ r.pc = "done" /\ r.gen = g /\ r.server = s /\ r.born = rel[t].born
    BY <1>1, <1>4 DEF ReloadRecords
  <2>. QED BY <1>1, <2>1 DEF ReloadAt
<1>8. PICK m \in ManagerRecords :
         /\ mgr' = [mgr EXCEPT ![g] = m]
         /\ m.clients = [mgr[g].clients EXCEPT ![s] = 0]
         /\ m.loaded = mgr[g].loaded /\ m.tools = mgr[g].tools /\ m.stop = mgr[g].stop
  <2>. DEFINE m == [mgr[g] EXCEPT !.clients = [mgr[g].clients EXCEPT ![s] = 0]]
  <2>1. mgr[g] \in ManagerRecords /\ mgr \in [Gens -> ManagerRecords] BY <1>3, <1>5 DEF Formed
  <2>2. /\ m \in ManagerRecords /\ m.clients = [mgr[g].clients EXCEPT ![s] = 0]
        /\ m.loaded = mgr[g].loaded /\ m.tools = mgr[g].tools /\ m.stop = mgr[g].stop
    BY <2>1 DEF ManagerRecords
  <2>3. mgr' = [mgr EXCEPT ![g] = m] BY <1>1, <1>5, <2>1 DEF ManagerRecords
  <2>. QED BY <2>2, <2>3
<1>9. /\ mgr' \in [Gens -> ManagerRecords] /\ \A h \in Gens : mgr'[h] = IF h = g THEN m ELSE mgr[h]
      /\ rel' \in [Threads -> ReloadRecords] /\ \A u \in Threads : rel'[u] = IF u = t THEN r ELSE rel[u]
      /\ \A n \in Servers : m.clients[n] = IF n = s THEN 0 ELSE mgr[g].clients[n]
  <2>1. mgr \in [Gens -> ManagerRecords] /\ rel \in [Threads -> ReloadRecords] BY <1>3 DEF Formed
  <2>2. DOMAIN mgr[g].clients = Servers BY <1>3, <1>5 DEF Fielded
  <2>. QED BY <1>7, <1>8, <2>1, <2>2
<1>10. Formed'
  <2>1. mgr' \in [Gens -> ManagerRecords'] /\ rel' \in [Threads -> ReloadRecords'] BY <1>6, <1>9, Widening
  <2>2. /\ gen' \in Gens /\ cur' \in Gens \union {0} /\ closed' \subseteq Gens /\ crossed' \in BOOLEAN
        /\ disp' \in {"idle", "initialize", "mcp/shutdown", "building", "logout"}
        /\ agent' = agent /\ loader' = loader
    BY <1>2, <1>3 DEF Formed
  <2>. QED BY <1>3, <1>6, <2>1, <2>2, FormedKept
<1>11. Superseding' BY <1>2, <1>3, <1>5, <1>9, SupersedingKept
<1>12. Managing'
  <2>1. ASSUME NEW h \in Gens, NEW n \in Servers, mgr[h].clients[n] # 0
        PROVE  /\ client'[mgr[h].clients[n]].gen = h /\ client'[mgr[h].clients[n]].server = n
    <3>1. mgr[h].clients[n] \in Clients BY <1>3, <2>1 DEF Fielded
    <3>. QED BY <1>3, <1>6, <2>1, <3>1 DEF Managing, Aged
  <2>2. ASSUME NEW h \in Gens
        PROVE  /\ h \in closed <=> mgr'[h].stop # "no"
               /\ loader[h].pc \in {"none", "lock", "load"} => ~mgr'[h].loaded
               /\ ~mgr'[h].loaded => mgr'[h].tools = {} /\ \A n \in Servers : mgr'[h].clients[n] = 0
               /\ \A n \in Servers : mgr'[h].clients[n] # 0 =>
                    client'[mgr'[h].clients[n]].gen = h /\ client'[mgr'[h].clients[n]].server = n
    <3>1. /\ h \in closed <=> mgr[h].stop # "no"
          /\ loader[h].pc \in {"none", "lock", "load"} => ~mgr[h].loaded
          /\ ~mgr[h].loaded => mgr[h].tools = {} /\ \A n \in Servers : mgr[h].clients[n] = 0
      BY <1>3 DEF Managing
    <3>2. CASE h # g BY <1>9, <2>1, <3>1, <3>2
    <3>3. CASE h = g
      <4>1. mgr'[h] = m BY <1>9, <3>3
      <4>2. \A n \in Servers : m.clients[n] # 0 =>
                    client'[m.clients[n]].gen = g /\ client'[m.clients[n]].server = n
        BY <1>9, <2>1, <3>3
      <4>. QED BY <1>8, <1>9, <3>1, <3>3, <4>1, <4>2
    <3>. QED BY <3>2, <3>3
  <2>. QED BY <1>2, <2>2 DEF Managing, Gens
<1>13. Reloading'
  <2>1. ReloadIs(r)' BY <1>2, <1>5, <1>7 DEF ReloadIs
  <2>2. IF t = "dispatch" THEN IF disp' = "logout" THEN r.gen \in {0, cur} ELSE r.pc = "idle"
                          ELSE (disp' = "logout") <=> (disp = "logout")
    <3>1. t = "dispatch" => disp = "logout" BY <1>2, <1>4
    <3>2. t = "dispatch" => rel[t].gen \in {0, cur} BY <1>3, <3>1 DEF Reloading
    <3>. QED BY <1>1, <1>2, <1>7, <3>1, <3>2
  <2>3. t \in Servers => r.server = t BY <1>1, <1>4, <1>7
  <2>4. ReloadAt(t, r) BY <1>7 DEF ReloadAt
  <2>5. \A h \in Gens : mgr[h].loaded => mgr'[h].loaded BY <1>8, <1>9
  <2>. QED BY <1>2, <1>3, <1>6, <2>1, <2>2, <2>3, <2>4, <2>5, ReloadMoves
<1>14. ASSUME NEW c, c # own PROVE InHand(c) => InHand(c)'
  BY <1>1, <1>9, <1>14, OtherHandsStay
<1>15. Attached'
  <2>. SUFFICES ASSUME NEW k \in Clients, ~Gone(k)' PROVE AttachedAt(k)'
    BY <1>6 DEF Attached
  <2>1. /\ AttachedAt(k) /\ client[k].gen \in Gens /\ client[k].server \in Servers /\ k # 0
        /\ client'[k].gen = client[k].gen /\ client'[k].server = client[k].server
    BY <1>3, <1>6 DEF Attached, Aged, Fielded
  <2>2. k # own BY <1>6
  <2>3. InHand(k) => InHand(k)' BY <1>14, <2>2
  <2>4. CASE client[k].gen # g
    <3>1. mgr'[client[k].gen] = mgr[client[k].gen] BY <1>9, <2>1, <2>4
    <3>. QED BY <1>2, <2>1, <2>3, <3>1 DEF AttachedAt
  <2>5. CASE client[k].gen = g /\ client[k].server # s
    <3>1. mgr'[g].clients[client[k].server] = mgr[g].clients[client[k].server] /\ mgr'[g].stop = mgr[g].stop
      BY <1>5, <1>8, <1>9, <2>1, <2>5
    <3>. QED BY <1>2, <2>1, <2>3, <2>5, <3>1 DEF AttachedAt
  <2>6. CASE client[k].gen = g /\ client[k].server = s
    <3>1. mgr[g].clients[s] # k BY <1>1, <2>1, <2>2 DEF Gone
    <3>2. InHand(k) BY <1>5, <2>1, <2>6, <3>1 DEF AttachedAt
    <3>. QED BY <1>2, <1>5, <2>1, <2>3, <2>6, <3>2 DEF AttachedAt
  <2>. QED BY <2>4, <2>5, <2>6
<1>16. Open => cur \in Gens /\ cur # g /\ mgr'[cur] = mgr[cur] BY <1>3, <1>5, <1>9 DEF Open, Formed
<1>17. ASSUME Open, NEW k \in Clients, InPlace(k) PROVE InPlace(k)'
  <2>1. cur' = cur /\ client'[k].server = client[k].server /\ client[k].server \in Servers
    BY <1>2, <1>3, <1>6 DEF Aged, Fielded
  <2>2. PICK h : h = mgr[cur].clients[client[k].server] OBVIOUS
  <2>3. mgr'[cur'].clients[client'[k].server] = h BY <1>16, <1>17, <2>1, <2>2
  <2>4. h # own
    <3>. SUFFICES ASSUME h = own PROVE FALSE OBVIOUS
    <3>1. h # 0 BY <1>3, <1>5 DEF Fielded
    <3>2. client[h].gen = cur BY <1>3, <1>16, <1>17, <2>1, <2>2, <3>1 DEF Managing
    <3>. QED BY <1>5, <1>16, <1>17, <3>2
  <2>5. h = k \/ InHand(h) BY <1>17, <2>2 DEF InPlace
  <2>6. h = k \/ InHand(h)' BY <1>14, <2>4, <2>5
  <2>. QED BY <2>3, <2>6 DEF InPlace, InHand
<1>18. Wrapping'
  <2>. SUFFICES ASSUME Open', NEW k \in mgr'[cur'].tools PROVE InPlace(k)' BY DEF Wrapping
  <2>1. Open /\ k \in mgr[cur].tools BY <1>2, <1>16 DEF Open
  <2>2. k \in Clients BY <1>3, <1>16, <2>1 DEF Fielded
  <2>3. InPlace(k) BY <1>3, <2>1 DEF Wrapping
  <2>. QED BY <1>17, <2>1, <2>2, <2>3
<1>19. ~crossed' => Served'
  <2>. SUFFICES ASSUME ~crossed PROVE Served' BY <1>2
  <2>0. Served BY <1>3
  <2>1. (cur # 0 => agent.gen = cur)' BY <1>2, <2>0 DEF Served
  <2>2. Swapping'
    <3>1. \A u \in Threads : SwapIs(rel[u]) BY <2>0, SwappingIs DEF Served
    <3>2. SwapIs(rel[t]) BY <3>1
    <3>3. r.gen # 0 /\ r.born = r.gen BY <1>1, <1>2, <1>7, <3>2 DEF SwapIs
    <3>4. SwapIs(r) BY <1>7, <3>3 DEF SwapIs
    <3>5. \A u \in Threads : SwapIs(rel[u])' BY <1>2, <1>9, <3>1, <3>4 DEF SwapIs
    <3>6. \A h \in Gens : loader[h].pc = "swap" => h = cur /\ disp # "building"
      BY <2>0 DEF Served, Swapping
    <3>. QED BY <1>2, <3>5, <3>6 DEF Swapping, SwapIs, Gens, Threads
  <2>3. Loading'
    <3>1. \A u \in Threads : rel'[u].gen = rel[u].gen BY <1>1, <1>7, <1>9
    <3>2. cur # 0 => cur \in Gens BY <1>3 DEF Formed
    <3>3. cur # 0 => mgr'[cur].tools = mgr[cur].tools BY <1>8, <1>9, <3>2
    <3>. QED BY <1>2, <2>0, <3>1, <3>3 DEF Served, Loading, Threads
  <2>4. Serving'
    <3>. SUFFICES ASSUME Open', NEW k \in agent'.tools, ~Pending'
                  PROVE  client'[k].server \in (Exposed(mgr[cur].tools))' /\ InPlace(k)'
      BY DEF Serving
    <3>1. Open /\ cur' = cur /\ cur # 0 /\ k \in agent.tools BY <1>2 DEF Open
    <3>2. ~Pending
      <4>. SUFFICES ASSUME Pending PROVE FALSE OBVIOUS
      <4>1. CASE \E u \in Threads : Rebuilds(rel[u], cur)
        <5>1. PICK u \in Threads : Rebuilds(rel[u], cur) BY <4>1
        <5>2. u # t BY <1>2, <5>1 DEF Rebuilds
        <5>3. rel'[u] = rel[u] BY <1>9, <5>2
        <5>4. \E v \in Threads : Rebuilds(rel'[v], cur) BY <5>1, <5>3
        <5>. QED BY <1>2, <5>4 DEF Pending, Rebuilds, Threads
      <4>2. CASE loader[cur].pc \in {"check", "swap"} /\ loader[cur].had
        BY <1>2, <4>2 DEF Pending
      <4>. QED BY <4>1, <4>2, PendingIs
    <3>3. k \in Clients /\ mgr[cur].tools \subseteq Clients BY <1>3, <1>16, <3>1 DEF Fielded
    <3>4. client[k].server \in Exposed(mgr[cur].tools) /\ InPlace(k)
      BY <2>0, <3>1, <3>2 DEF Served, Serving
    <3>5. (Exposed(mgr[cur].tools))' = {client'[j].server : j \in mgr[cur].tools}
      BY <1>16, <3>1 DEF Exposed
    <3>6. (Exposed(mgr[cur].tools))' = Exposed(mgr[cur].tools) BY <1>3, <1>6, <3>3, <3>5, ExposedStays
    <3>7. client'[k].server = client[k].server BY <1>6, <3>3 DEF Aged
    <3>. QED BY <1>17, <3>1, <3>3, <3>4, <3>6, <3>7
  <2>. QED BY <2>1, <2>2, <2>3, <2>4 DEF Served
<1>. QED BY <1>10, <1>11, <1>12, <1>13, <1>15, <1>18, <1>19 DEF McpInvariant

(* The reload rebuilds the tools.  Unless they changed since it noted them, *)
(* they are changed by it or expose what they did; a server they expose has *)
(* a serving client, which the reload's own is not if it failed.            *)
LEMMA ReloadIsDone ==
  ASSUME McpInvariant, NEW t \in Threads, ReloadFinishes(t), rel[t].gen \notin closed
  PROVE  McpInvariant'
<1>1. PICK g, own, after, differs :
        /\ g = rel[t].gen /\ own = rel[t].client /\ after = Exposed(RebuiltTools(g))
        /\ differs = (client[own].status # "off" \/ rel[t].before # after)
        /\ mgr' = [mgr EXCEPT ![g].tools = RebuiltTools(g)]
        /\ ReloadAt(t, [rel[t] EXCEPT !.pc = "done", !.client = 0, !.before = {}, !.changed = differs])
        /\ crossed' = (crossed \/ (~differs /\ Exposed(mgr[g].tools) # after))
        /\ UNCHANGED <<client, missed>>
  <2>. DEFINE after == Exposed(RebuiltTools(rel[t].gen))
              differs == client[rel[t].client].status # "off" \/ rel[t].before # after
  <2>1. /\ mgr' = [mgr EXCEPT ![rel[t].gen].tools = RebuiltTools(rel[t].gen)]
        /\ crossed' = (crossed \/ (~differs /\ Exposed(mgr[rel[t].gen].tools) # after))
        /\ UNCHANGED <<client, missed>>
    BY DEF ReloadFinishes
  <2>2. ReloadAt(t, [[rel[t] EXCEPT !.pc = "done", !.client = 0, !.before = {}] EXCEPT !.changed = differs])
    BY DEF ReloadFinishes
  <2>3. [[rel[t] EXCEPT !.pc = "done", !.client = 0, !.before = {}] EXCEPT !.changed = differs]
          = [rel[t] EXCEPT !.pc = "done", !.client = 0, !.before = {}, !.changed = differs]
    OBVIOUS
  <2>. HIDE DEF differs
  <2>4. ReloadAt(t, [rel[t] EXCEPT !.pc = "done", !.client = 0, !.before = {}, !.changed = differs])
    BY <2>2, <2>3
  <2>. QED BY <2>1, <2>4 DEF differs
<1>2. /\ rel[t].pc = "start"
      /\ UNCHANGED <<gen, cur, closed, agent, loader, disp>>
  BY DEF ReloadFinishes
<1>3. /\ Formed /\ Fielded /\ Superseding /\ Managing /\ Reloading /\ Attached /\ Wrapping
      /\ ~crossed => Served
  BY InvariantIs
<1>4. /\ rel[t] \in ReloadRecords /\ ReloadIs(rel[t]) /\ (~crossed => SwapIs(rel[t]))
      /\ t \in Servers => rel[t].server = t
      /\ disp # "logout" => rel["dispatch"].pc = "idle"
  BY ReloadFacts
<1>5. /\ g \in Gens /\ g \notin closed /\ g = cur /\ own \in Clients /\ client[own].gen = g
      /\ Open /\ differs \in BOOLEAN
  <2>1. g # 0 /\ g \in {0, cur} \union closed /\ g \in Gens BY <1>1, <1>2, <1>3, <1>4 DEF ReloadIs, Fielded
  <2>2. own # 0 /\ client[own].gen = g /\ own \in Clients
    BY <1>1, <1>2, <1>3, <1>4 DEF ReloadIs, Fielded
  <2>. QED BY <1>1, <2>1, <2>2 DEF Open
<1>6. Aged /\ client' \in Seq(ClientRecords) /\ Clients' = Clients
  BY <1>1, <1>3, SameClientsAge DEF Formed, Clients
<1>7. /\ RebuiltTools(g) \subseteq Clients
      /\ \A k \in RebuiltTools(g) : mgr[g].clients[client[k].server] = k
      /\ ~mgr[g].loaded => RebuiltTools(g) = {}
  BY <1>3, <1>5, RebuiltAreRegistered
<1>8. PICK r \in ReloadRecords :
         /\ rel' = [rel EXCEPT ![t] = r] /\ r.pc = "done" /\ r.gen = g /\ r.server = rel[t].server
         /\ r.born = rel[t].born /\ r.changed = differs
  <2>. DEFINE r == [rel[t] EXCEPT !.pc = "done", !.client = 0, !.before = {}, !.changed = differs]
  <2>1. /\ r \in ReloadRecords /\ r.pc = "done" /\ r.gen = g /\ r.server = rel[t].server
        /\ r.born = rel[t].born /\ r.changed = differs
    BY <1>1, <1>4, <1>5 DEF ReloadRecords
  <2>. QED BY <1>1, <2>1 DEF ReloadAt
<1>9. PICK m \in ManagerRecords :
         /\ mgr' = [mgr EXCEPT ![g] = m] /\ m.tools = RebuiltTools(g)
         /\ m.stop = mgr[g].stop /\ m.loaded = mgr[g].loaded /\ m.clients = mgr[g].clients
  <2>. DEFINE m == [mgr[g] EXCEPT !.tools = RebuiltTools(g)]
  <2>1. mgr[g] \in ManagerRecords /\ mgr \in [Gens -> ManagerRecords] BY <1>3, <1>5 DEF Formed
  <2>2. /\ m \in ManagerRecords /\ m.tools = RebuiltTools(g)
        /\ m.stop = mgr[g].stop /\ m.loaded = mgr[g].loaded /\ m.clients = mgr[g].clients
    BY <1>7, <2>1 DEF ManagerRecords
  <2>3. mgr' = [mgr EXCEPT ![g] = m] BY <1>1, <1>5, <2>1 DEF ManagerRecords
  <2>. QED BY <2>2, <2>3
<1>10. /\ mgr' \in [Gens -> ManagerRecords] /\ \A h \in Gens : mgr'[h] = IF h = g THEN m ELSE mgr[h]
       /\ rel' \in [Threads -> ReloadRecords] /\ \A u \in Threads : rel'[u] = IF u = t THEN r ELSE rel[u]
  BY <1>3, <1>8, <1>9 DEF Formed
<1>11. \A h \in Gens : /\ mgr'[h].clients = mgr[h].clients /\ mgr'[h].stop = mgr[h].stop
                       /\ mgr'[h].loaded = mgr[h].loaded
  BY <1>9, <1>10
<1>12. crossed' \in BOOLEAN /\ (~crossed' => ~crossed) BY <1>1, <1>3 DEF Formed
<1>13. Formed'
  <2>1. mgr' \in [Gens -> ManagerRecords'] /\ rel' \in [Threads -> ReloadRecords'] BY <1>6, <1>10, Widening
  <2>2. /\ gen' \in Gens /\ cur' \in Gens \union {0} /\ closed' \subseteq Gens
        /\ disp' \in {"idle", "initialize", "mcp/shutdown", "building", "logout"}
        /\ agent' = agent /\ loader' = loader
    BY <1>2, <1>3 DEF Formed
  <2>. QED BY <1>3, <1>6, <1>12, <2>1, <2>2, FormedKept
<1>14. Superseding' BY <1>2, <1>3, <1>5, <1>10, SupersedingKept
<1>15. Managing'
  <2>1. ASSUME NEW h \in Gens
        PROVE  /\ h \in closed <=> mgr'[h].stop # "no"
               /\ loader[h].pc \in {"none", "lock", "load"} => ~mgr'[h].loaded
               /\ ~mgr'[h].loaded => mgr'[h].tools = {} /\ \A n \in Servers : mgr'[h].clients[n] = 0
               /\ \A n \in Servers : mgr'[h].clients[n] # 0 =>
                    client[mgr'[h].clients[n]].gen = h /\ client[mgr'[h].clients[n]].server = n
    BY <1>3, <1>7, <1>9, <1>10 DEF Managing
  <2>2. client' = client /\ loader' = loader /\ closed' = closed BY <1>1, <1>2
  <2>. QED BY <2>1, <2>2 DEF Managing, Gens
<1>16. Reloading'
  <2>1. ReloadIs(r)' BY <1>2, <1>5, <1>8 DEF ReloadIs
  <2>2. IF t = "dispatch" THEN IF disp' = "logout" THEN r.gen \in {0, cur} ELSE r.pc = "idle"
                          ELSE (disp' = "logout") <=> (disp = "logout")
    <3>1. t = "dispatch" => disp = "logout" BY <1>2, <1>4
    <3>. QED BY <1>2, <1>5, <1>8, <3>1
  <2>3. t \in Servers => r.server = t BY <1>4, <1>8
  <2>4. ReloadAt(t, r) BY <1>8 DEF ReloadAt
  <2>. QED BY <1>2, <1>3, <1>6, <1>11, <2>1, <2>2, <2>3, <2>4, ReloadMoves
<1>17. ASSUME NEW c, c # own PROVE InHand(c) => InHand(c)'
  BY <1>1, <1>10, <1>17, OtherHandsStay
<1>18. Attached'
  <2>. SUFFICES ASSUME NEW k \in Clients, ~Gone(k)' PROVE AttachedAt(k)'
    BY <1>6 DEF Attached
  <2>1. AttachedAt(k) /\ client[k].gen \in Gens BY <1>3, <1>6 DEF Attached, Aged, Fielded
  <2>2. /\ mgr'[client[k].gen].clients = mgr[client[k].gen].clients
        /\ mgr'[client[k].gen].stop = mgr[client[k].gen].stop
    BY <1>11, <2>1
  <2>3. client[k].gen \in closed => k # own BY <1>5
  <2>. QED BY <1>1, <1>2, <1>17, <2>1, <2>2, <2>3 DEF AttachedAt
<1>19. Wrapping'
  <2>. SUFFICES ASSUME NEW k \in mgr'[cur].tools PROVE InPlace(k)' BY <1>2 DEF Wrapping
  <2>1. k \in RebuiltTools(g) BY <1>5, <1>9, <1>10
  <2>2. mgr'[cur].clients[client[k].server] = k BY <1>5, <1>7, <1>11, <2>1
  <2>. QED BY <1>1, <1>2, <2>2 DEF InPlace
<1>20. ~crossed' => Served'
  <2>. SUFFICES ASSUME ~crossed' PROVE Served' OBVIOUS
  <2>0. Served BY <1>3, <1>12
  <2>1. (cur # 0 => agent.gen = cur)' BY <1>2, <2>0 DEF Served
  <2>2. Swapping'
    <3>1. \A u \in Threads : SwapIs(rel[u]) BY <2>0, SwappingIs DEF Served
    <3>2. SwapIs(rel[t]) BY <3>1
    <3>3. r.gen # 0 /\ r.born = r.gen BY <1>1, <1>2, <1>8, <3>2 DEF SwapIs
    <3>4. SwapIs(r) BY <1>8, <3>3 DEF SwapIs
    <3>5. \A u \in Threads : SwapIs(rel[u])' BY <1>2, <1>10, <3>1, <3>4 DEF SwapIs
    <3>6. \A h \in Gens : loader[h].pc = "swap" => h = cur /\ disp # "building"
      BY <2>0 DEF Served, Swapping
    <3>. QED BY <1>2, <3>5, <3>6 DEF Swapping, SwapIs, Gens, Threads
  <2>3. Loading'
    <3>1. loader[cur].pc \notin {"lock", "load", "wait"}
      BY <1>1, <1>5, <2>0 DEF Served, Loading, Open
    <3>. QED BY <1>2, <3>1 DEF Loading
  <2>4. Serving'
    <3>. SUFFICES ASSUME NEW k \in agent'.tools, ~Pending'
                  PROVE  client'[k].server \in (Exposed(mgr[cur].tools))' /\ InPlace(k)'
      BY DEF Serving
    <3>1. cur' = cur /\ k \in agent.tools /\ client' = client /\ k \in Clients
      BY <1>1, <1>2, <1>3 DEF Fielded
    <3>2. ~differs
      <4>. SUFFICES ASSUME differs PROVE FALSE OBVIOUS
      <4>1. Rebuilds(rel'[t], cur) BY <1>5, <1>8, <1>10 DEF Rebuilds
      <4>. QED BY <1>2, <4>1 DEF Pending, Rebuilds, Threads
    <3>3. client[own].status = "off" /\ Exposed(mgr[g].tools) = after BY <1>1, <3>2
    <3>4. ~Pending
      <4>. SUFFICES ASSUME Pending PROVE FALSE OBVIOUS
      <4>1. CASE \E u \in Threads : Rebuilds(rel[u], cur)
        <5>1. PICK u \in Threads : Rebuilds(rel[u], cur) BY <4>1
        <5>2. u # t BY <1>2, <5>1 DEF Rebuilds
        <5>3. rel'[u] = rel[u] BY <1>10, <5>2
        <5>4. \E v \in Threads : Rebuilds(rel'[v], cur) BY <5>1, <5>3
        <5>. QED BY <1>2, <5>4 DEF Pending, Rebuilds, Threads
      <4>2. CASE loader[cur].pc \in {"check", "swap"} /\ loader[cur].had
        BY <1>2, <4>2 DEF Pending
      <4>. QED BY <4>1, <4>2, PendingIs
    <3>5. client[k].server \in Exposed(mgr[cur].tools) /\ InPlace(k)
      BY <1>5, <2>0, <3>1, <3>4 DEF Served, Serving
    <3>6. client[k].server \in after BY <1>5, <3>3, <3>5
    <3>7. (Exposed(mgr[cur].tools))' = after
      <4>1. mgr'[cur].tools = RebuiltTools(g) BY <1>5, <1>9, <1>10
      <4>. QED BY <1>1, <3>1, <4>1 DEF Exposed
    <3>8. PICK j \in RebuiltTools(g) : client[j].server = client[k].server
      BY <1>1, <3>6 DEF Exposed
    <3>9. PICK h : h = mgr[cur].clients[client[k].server] OBVIOUS
    <3>10. h = j /\ client[j].status = "serving" BY <1>5, <1>7, <3>8, <3>9 DEF RebuiltTools
    <3>11. h # own BY <3>3, <3>10
    <3>12. h = k \/ InHand(h) BY <3>5, <3>9 DEF InPlace
    <3>13. h = k \/ InHand(h)' BY <1>17, <3>11, <3>12
    <3>14. mgr'[cur'].clients[client'[k].server] = h BY <1>5, <1>11, <3>1, <3>9
    <3>15. InPlace(k)' BY <3>13, <3>14 DEF InPlace, InHand
    <3>. QED BY <3>1, <3>6, <3>7, <3>15
  <2>. QED BY <2>1, <2>2, <2>3, <2>4 DEF Served
<1>. QED BY <1>13, <1>14, <1>15, <1>16, <1>18, <1>19, <1>20 DEF McpInvariant

(* A reload ends, in an open manager or in a closed one.                    *)
LEMMA ReloadFinishesKeeps ==
  ASSUME McpInvariant, NEW t \in Threads, ReloadFinishes(t)
  PROVE  McpInvariant'
BY ReloadIsUndone, ReloadIsDone

(* A step that changes nothing.                                             *)
LEMMA McpInvariantStays ==
  ASSUME McpInvariant, UNCHANGED mcpVars
  PROVE  McpInvariant'
<1>1. Aged /\ client' \in Seq(ClientRecords) /\ Clients' = Clients
  BY SameClientsAge DEF mcpVars, McpInvariant, Formed, Clients
<1>. QED BY <1>1, ClientsMove DEF mcpVars

(* Every step keeps the invariant.                                          *)
LEMMA McpStepKeeps ==
  ASSUME McpInvariant, [McpNext]_mcpVars
  PROVE  McpInvariant'
<1>1. ASSUME NEW op \in {"initialize", "mcp/shutdown"}, DispatchStops(op) PROVE McpInvariant'
  BY <1>1, DispatchStopsKeeps
<1>2. ASSUME NEW s \in Servers, AuthStarts(s) \/ LogoutReloads(s) \/ AuthStep(s) PROVE McpInvariant'
  BY <1>2, AuthStartsKeeps, LogoutReloadsKeeps, AuthEndsKeeps, AuthChecksKeeps, AuthSwapsKeeps
  DEF AuthStep
<1>3. CASE DispatchStep
  BY <1>3, McpIsShutDownKeeps, InitializeSupersedesKeeps, InitializeIsBlockedKeeps,
     InitializeBuildsKeeps, LogoutReturnsKeeps DEF DispatchStep
<1>4. ASSUME NEW g \in Gens, ShutdownStep(g) PROVE McpInvariant'
  BY <1>4, ManagerKillsKeeps, ManagerClearsKeeps DEF ShutdownStep
<1>5. ASSUME NEW g \in Gens, LoaderStep(g) PROVE McpInvariant'
  BY <1>5, LoaderLocksKeeps, LoaderStartsKeeps, LoaderGivesUpKeeps, LoaderRebuildsKeeps,
     LoaderChecksKeeps, LoaderSwapsKeeps, LoaderReclaimedKeeps DEF LoaderStep
<1>6. ASSUME NEW t \in Threads, ReloadStep(t) PROVE McpInvariant'
  BY <1>6, ReloadShutsOldKeeps, ReloadRegistersKeeps, ReloadFinishesKeeps DEF ReloadStep
<1>7. ASSUME NEW c \in Clients, ClientStep(c) \/ HandshakeSucceeds(c) PROVE McpInvariant'
  BY <1>7, ClientStepKeeps
<1>8. CASE UNCHANGED mcpVars BY <1>8, McpInvariantStays
<1>. QED BY <1>1, <1>2, <1>3, <1>4, <1>5, <1>6, <1>7, <1>8 DEF McpNext

(* What the two initial situations have in common.                          *)
Beginning ==
  /\ gen = 1 /\ cur = 1 /\ closed = {} /\ disp = "idle" /\ crossed = FALSE
  /\ rel = [t \in Threads |-> NoReload(t)]
  /\ client \in Seq(ClientRecords)
  /\ mgr \in [Gens -> ManagerRecords]
  /\ loader \in [Gens -> LoaderRecords]
  /\ agent \in [gen : Gens \union {0}, tools : SUBSET Clients]
  /\ agent.gen = 1 /\ agent.tools \subseteq mgr[1].tools
  /\ \A g \in Gens : g # 1 => mgr[g] = FreshManager /\ loader[g] = NoLoader
  /\ mgr[1].stop = "no"
  /\ IF mgr[1].loaded
       THEN loader[1].pc = "done"
       ELSE /\ loader[1].pc = "lock" /\ mgr[1].tools = {}
            /\ \A s \in Servers : mgr[1].clients[s] = 0
  /\ \A s \in Servers : mgr[1].clients[s] # 0 =>
       client[mgr[1].clients[s]].gen = 1 /\ client[mgr[1].clients[s]].server = s
  /\ \A c \in Clients : client[c].gen = 1 /\ mgr[1].clients[client[c].server] = c

(* Either beginning is accounted for.                                       *)
LEMMA BeginningIs == Beginning => McpInvariant
<1>. SUFFICES ASSUME Beginning PROVE McpInvariant OBVIOUS
<1>. USE DEF Beginning
<1>0. 1 \in Gens /\ Gens \subseteq Nat /\ 0 \notin Gens BY ServersAssumption, SMT DEF Gens
<1>1. Formed
  <2>1. \A t \in Threads : NoReload(t) \in ReloadRecords BY DEF NoReload, ReloadRecords
  <2>2. rel \in [Threads -> ReloadRecords] BY <2>1
  <2>. QED BY <1>0, <2>2 DEF Formed
<1>2. Superseding BY <1>0 DEF Superseding
<1>3. Managing
  <2>1. /\ FreshManager.stop = "no" /\ FreshManager.loaded = FALSE /\ FreshManager.tools = {}
        /\ \A s \in Servers : FreshManager.clients[s] = 0
    BY DEF FreshManager
  <2>. QED BY <1>0, <2>1 DEF Managing
<1>4. \A t \in Threads : rel[t].pc = "idle" /\ rel[t].gen = 0 /\ rel[t].server = t
  BY DEF NoReload
<1>5. Reloading
  <2>1. Servers \subseteq Threads /\ "dispatch" \in Threads BY DEF Threads
  <2>. QED BY <1>4, <2>1 DEF Reloading, ReloadIs
<1>6. Attached BY DEF Attached, AttachedAt
<1>7. mgr[1].tools \subseteq Clients BY <1>0, <1>1, FieldedIs DEF Fielded
<1>8. Wrapping BY <1>7 DEF Wrapping, InPlace
<1>9. Served
  <2>1. Swapping
    <3>1. NoLoader.pc = "none" BY DEF NoLoader
    <3>. QED BY <1>0, <1>4, <3>1 DEF Swapping
  <2>2. Loading BY <1>4 DEF Loading
  <2>3. Serving BY <1>7 DEF Serving, InPlace, Exposed
  <2>. QED BY <2>1, <2>2, <2>3 DEF Served
<1>. QED BY <1>1, <1>2, <1>3, <1>5, <1>6, <1>8, <1>9 DEF McpInvariant

(* A session begins as it is accounted for.                                 *)
LEMMA McpInitHolds == McpInit => McpInvariant
<1>. SUFFICES ASSUME McpInit PROVE McpInvariant OBVIOUS
<1>0. 1 \in Gens BY ServersAssumption, SMT DEF Gens
<1>1. /\ gen = 1 /\ cur = 1 /\ closed = {} /\ disp = "idle" /\ crossed = FALSE
      /\ rel = [t \in Threads |-> NoReload(t)]
  BY DEF McpInit
<1>2. FreshManager \in ManagerRecords /\ NoLoader \in LoaderRecords
  BY DEF FreshManager, ManagerRecords, NoLoader, LoaderRecords
<1>. DEFINE Starting ==
              /\ client = << >> /\ mgr = [g \in Gens |-> FreshManager]
              /\ agent = [gen |-> 1, tools |-> {}]
              /\ loader = [g \in Gens |-> IF g = 1 THEN [NoLoader EXCEPT !.pc = "lock"] ELSE NoLoader]
            Loaded(order) ==
              /\ order = SetToSeq(DOMAIN ReadConfigs)
              /\ client = [i \in DOMAIN order |->
                  [NewClient(1, order[i]) EXCEPT !.up = TRUE, !.op = "done", !.status = "serving"]]
              /\ mgr = [g \in Gens |-> IF g # 1 THEN FreshManager ELSE
                  [FreshManager EXCEPT !.loaded = TRUE, !.tools = DOMAIN order,
                     !.clients = [s \in Servers |->
                        IF s \in DOMAIN ReadConfigs
                          THEN CHOOSE i \in DOMAIN order : order[i] = s ELSE 0]]]
              /\ agent = [gen |-> 1, tools |-> DOMAIN order]
              /\ loader = [g \in Gens |-> IF g = 1 THEN [NoLoader EXCEPT !.pc = "done"] ELSE NoLoader]
<1>3. ASSUME Starting PROVE McpInvariant
  <2>1. client \in Seq(ClientRecords) /\ Clients = {} BY <1>3 DEF Clients
  <2>2. mgr \in [Gens -> ManagerRecords] BY <1>2, <1>3
  <2>3. [NoLoader EXCEPT !.pc = "lock"] \in LoaderRecords /\ [NoLoader EXCEPT !.pc = "lock"].pc = "lock"
    BY DEF NoLoader, LoaderRecords
  <2>4. loader \in [Gens -> LoaderRecords] /\ loader[1].pc = "lock" BY <1>0, <1>2, <1>3, <2>3
  <2>5. agent \in [gen : Gens \union {0}, tools : SUBSET Clients] /\ agent.gen = 1 /\ agent.tools = {}
    BY <1>0, <1>3
  <2>6. /\ mgr[1].stop = "no" /\ mgr[1].loaded = FALSE /\ mgr[1].tools = {}
        /\ \A s \in Servers : mgr[1].clients[s] = 0
    BY <1>0, <1>3 DEF FreshManager
  <2>7. \A g \in Gens : g # 1 => mgr[g] = FreshManager /\ loader[g] = NoLoader BY <1>3
  <2>. QED BY <1>1, <2>1, <2>2, <2>4, <2>5, <2>6, <2>7, BeginningIs DEF Beginning
<1>4. ASSUME NEW order, Loaded(order) PROVE McpInvariant
  <2>. DEFINE n == Len(order)
  <2>1. /\ n \in Nat /\ DOMAIN order = 1..n
        /\ \A i \in 1..n : order[i] \in DOMAIN ReadConfigs /\ order[i] \in Servers
        /\ \A i, j \in 1..n : order[i] = order[j] => i = j
        /\ \A s \in DOMAIN ReadConfigs : \E i \in 1..n : order[i] = s
    BY <1>4, OrderOfServers
  <2>. HIDE DEF n
  <2>2. \A i \in 1..n : /\ client[i] \in ClientRecords
                        /\ client[i].gen = 1 /\ client[i].server = order[i]
    BY <1>0, <1>4, <2>1 DEF NewClient, ClientRecords
  <2>3. client \in Seq(ClientRecords) /\ Clients = 1..n
    <3>1. DOMAIN client = 1..n /\ client = [i \in 1..n |-> client[i]] BY <1>4, <2>1
    <3>2. client \in [1..n -> ClientRecords] BY <2>2, <3>1
    <3>. QED BY <2>1, <3>1, <3>2 DEF Clients
  <2>4. PICK named : named = [s \in Servers |-> IF s \in DOMAIN ReadConfigs
                          THEN CHOOSE i \in DOMAIN order : order[i] = s ELSE 0]
    OBVIOUS
  <2>5. ASSUME NEW s \in Servers, s \in DOMAIN ReadConfigs
        PROVE  named[s] \in 1..n /\ order[named[s]] = s
    <3>1. named[s] = CHOOSE i \in 1..n : order[i] = s BY <2>1, <2>4, <2>5
    <3>2. \E i \in 1..n : order[i] = s BY <2>1, <2>5
    <3>. QED BY <3>1, <3>2
  <2>6. \A s \in Servers : s \notin DOMAIN ReadConfigs => named[s] = 0 BY <2>4
  <2>7. named \in [Servers -> Clients \union {0}]
    <3>1. \A s \in Servers : named[s] \in Clients \union {0} BY <2>3, <2>5, <2>6
    <3>. QED BY <2>4, <3>1
  <2>8. PICK m : m = [FreshManager EXCEPT !.loaded = TRUE, !.tools = DOMAIN order, !.clients = named]
    OBVIOUS
  <2>9. /\ m \in ManagerRecords /\ m.stop = "no" /\ m.loaded = TRUE /\ m.tools = Clients
        /\ m.clients = named
    BY <2>1, <2>3, <2>7, <2>8 DEF FreshManager, ManagerRecords
  <2>10. /\ mgr[1] = m /\ mgr \in [Gens -> ManagerRecords]
         /\ \A g \in Gens : g # 1 => mgr[g] = FreshManager /\ loader[g] = NoLoader
    <3>1. mgr = [g \in Gens |-> IF g # 1 THEN FreshManager ELSE m] BY <1>4, <2>4, <2>8
    <3>2. \A g \in Gens : g # 1 => loader[g] = NoLoader BY <1>4
    <3>3. m \in ManagerRecords BY <2>9
    <3>. QED BY ONLY <1>0, <1>2, <3>1, <3>2, <3>3
  <2>11. [NoLoader EXCEPT !.pc = "done"] \in LoaderRecords /\ [NoLoader EXCEPT !.pc = "done"].pc = "done"
    BY DEF NoLoader, LoaderRecords
  <2>12. loader \in [Gens -> LoaderRecords] /\ loader[1].pc = "done" BY <1>0, <1>2, <1>4, <2>11
  <2>13. /\ agent \in [gen : Gens \union {0}, tools : SUBSET Clients]
         /\ agent.gen = 1 /\ agent.tools \subseteq mgr[1].tools
    BY <1>0, <1>4, <2>1, <2>3, <2>9, <2>10
  <2>14. \A s \in Servers : mgr[1].clients[s] # 0 =>
           client[mgr[1].clients[s]].gen = 1 /\ client[mgr[1].clients[s]].server = s
    BY <2>2, <2>5, <2>6, <2>9, <2>10
  <2>15. \A c \in Clients : client[c].gen = 1 /\ mgr[1].clients[client[c].server] = c
    BY <2>1, <2>2, <2>3, <2>5, <2>9, <2>10
  <2>16. /\ mgr[1].stop = "no"
         /\ IF mgr[1].loaded
              THEN loader[1].pc = "done"
              ELSE /\ loader[1].pc = "lock" /\ mgr[1].tools = {}
                   /\ \A s \in Servers : mgr[1].clients[s] = 0
    BY <2>9, <2>10, <2>12
  <2>17. mgr \in [Gens -> ManagerRecords] /\ \A g \in Gens : g # 1 => mgr[g] = FreshManager /\ loader[g] = NoLoader
    BY <2>10
  <2>18. Beginning BY ONLY <1>1, <2>3, <2>12, <2>13, <2>14, <2>15, <2>16, <2>17 DEF Beginning
  <2>. QED BY <2>18, BeginningIs
<1>5. Starting \/ Loaded(SetToSeq(DOMAIN ReadConfigs)) BY DEF McpInit
<1>. HIDE DEF Starting, Loaded
<1>. QED BY <1>3, <1>4, <1>5

(* At every moment each server that may run is seen to by somebody, each    *)
(* wrapper's client is in its place, and the agent is served unless one of  *)
(* the four orders came.                                                    *)
THEOREM ServersAreSeenTo == McpSpec => []McpInvariant
<1>. QED BY McpInitHolds, McpStepKeeps, PTL DEF McpSpec

(* With nothing under way the invariant says that those that run, those     *)
(* registered and those the agent calls are the same.                       *)
LEMMA QuietServersAgree == McpInvariant => CalmServersAgree
<1>. SUFFICES ASSUME McpInvariant, Quiet PROVE CalmServersAgree
  BY DEF CalmServersAgree, NothingStray, AgentIsServed
<1>1. /\ Formed /\ Fielded /\ Superseding /\ Managing /\ Reloading /\ Attached /\ Wrapping
      /\ ~crossed => Served
  BY InvariantIs
<1>2. \A c : ~InHand(c) BY DEF Quiet, InHand
<1>3. NothingStray
  <2>. SUFFICES ASSUME NEW c \in Clients, client[c].up, c \notin missed
                PROVE  cur \notin {0} \union closed /\ c \in Registered(cur)
    BY DEF NothingStray
  <2>. DEFINE g == client[c].gen
  <2>1. g \in Gens /\ client[c].server \in Servers /\ c # 0 BY <1>1 DEF Fielded
  <2>2. AttachedAt(c) BY <1>1 DEF Attached, Gone
  <2>3. mgr[g].stop # "kill" BY <2>1 DEF Quiet, Stopped
  <2>4. g \notin closed /\ mgr[g].clients[client[c].server] = c
    BY <1>2, <2>2, <2>3 DEF AttachedAt
  <2>5. g = cur
    <3>1. FreshManager.clients[client[c].server] = 0 BY <2>1 DEF FreshManager
    <3>. QED BY <1>1, <2>1, <2>4, <3>1 DEF Superseding
  <2>. QED BY <1>1, <2>1, <2>4, <2>5 DEF Registered, Fielded
<1>4. AgentIsServed
  <2>. SUFFICES ASSUME cur # 0, ~crossed
                PROVE  agent.gen = cur /\ (cur \notin closed => agent.tools \subseteq Registered(cur))
    BY DEF AgentIsServed
  <2>1. Served /\ cur \in Gens BY <1>1 DEF Formed
  <2>2. ~Pending BY <2>1 DEF Quiet, Pending
  <2>3. ASSUME cur \notin closed, NEW k \in agent.tools PROVE k \in Registered(cur)
    <3>1. Open BY <2>3 DEF Open
    <3>2. InPlace(k) BY <2>1, <2>2, <2>3, <3>1 DEF Served, Serving
    <3>3. k \in Clients /\ client[k].server \in Servers /\ k # 0 BY <1>1, <2>3 DEF Fielded
    <3>4. mgr[cur].clients[client[k].server] = k BY <1>2, <3>2 DEF InPlace
    <3>. QED BY <3>3, <3>4 DEF Registered
  <2>. QED BY <2>1, <2>3 DEF Served
<1>. QED BY <1>3, <1>4 DEF CalmServersAgree

(* The servers that run, those that are registered and those the agent      *)
(* calls are the same ones whenever nobody is starting or stopping any.     *)
THEOREM ServersAgree == McpSpec => []CalmServersAgree
<1>. QED BY ServersAreSeenTo, QuietServersAgree, PTL
=============================================================================
