------------------------------ MODULE AgentTurn ------------------------------
(***************************************************************************)
(* The agent loop (src/cluxmate/core/agent.py, AgentLoop.run and           *)
(* _run_loop) over the surface of its session log: one turn after the      *)
(* other, each with its steps of model call, approvals and tools, the      *)
(* context relief in front of a step, the retries, and a stop that may     *)
(* arrive at every await.                                                  *)
(***************************************************************************)
EXTENDS Integers, Sequences, FiniteSets, ContextCuts

CONSTANTS MaxTurn,        \* bound: the number of turns
          MaxSteps,       \* max_turns, the model calls of a turn
          CallCounts,     \* bound: how many tool calls a reply may have
          MaxAsides,      \* bound: injections, recalls and notes nobody waits for
          PruneMinAge,    \* PRUNE_MIN_TURN_AGE
          MaxRecomputes,  \* MAX_COMPACTION_RECOMPUTES
          MaxEmpty,       \* MAX_EMPTY_END_TURN_RETRIES
          MaxAudit,       \* MAX_COMPLETION_AUDIT_RETRIES
          MaxStop         \* MAX_STOP_BLOCK_RETRIES

ASSUME AgentAssumption ==
  /\ MaxTurn \in Nat /\ MaxSteps \in Nat /\ CallCounts \subseteq Nat /\ MaxAsides \in Nat
  /\ PruneMinAge \in Nat /\ MaxRecomputes \in Nat
  /\ MaxEmpty \in Nat /\ MaxAudit \in Nat /\ MaxStop \in Nat

VARIABLES pc,        \* where the loop waits
          turn,      \* the session's turn count
          step,      \* model calls made in this turn
          messages,  \* the working request list, without the system prompt
          surface,   \* the log's surface
          calls,     \* the calls of the last tool_use reply, in order
          plan,      \* the region the summarizer works on
          spent,     \* the retries used in this turn
          claims,    \* the reply before the Stop hook claims work
          evidence,  \* the trace backs a claim (write paths, any bash)
          unbacked,  \* _completion_audit_unbacked
          ended      \* the last turn/end

\* What really happened, for the properties only.
VARIABLES drift,     \* this turn's marker is on the surface, not in messages
          shifted,   \* a summary was committed over other messages than it read
          worked,    \* a call of this turn did some work
          claimed    \* the reply the turn ended with claims work

loop  == <<step, messages, calls, plan, spent, claims, evidence, unbacked>>
ghost == <<drift, shifted, worked, claimed>>
vars  == <<pc, turn, surface, ended, loop, ghost>>

-----------------------------------------------------------------------------
Status == {"pending", "malformed", "denied", "approved", "hook_blocked",
           "executed", "worked"}
\* "worked" is an executed write or shell call that succeeded; "executed" is
\* any other call that ran.

NoPlan  == [from |-> 0, to |-> 0, attempt |-> 0, moved |-> FALSE]
NotEnded == [kind |-> "open", unbacked |-> FALSE]
Unspent == [empty |-> 0, audit |-> 0, stop |-> 0]

Msg(kind, t) == [kind |-> kind, turn |-> t, step |-> 0, n |-> 0]
Calls(n)     == [kind |-> "calls", turn |-> turn, step |-> step, n |-> n]
Result(i)    == [kind |-> "result", turn |-> turn, step |-> step, n |-> i]

Maybe(wanted, kind, t) == IF wanted THEN <<Msg(kind, t)>> ELSE <<>>

\* Room for one more of the messages that may or may not be there.
Room == Cardinality({i \in DOMAIN surface : surface[i].kind \in {"env", "recall", "note"}})
          < MaxAsides
Wish == IF Room THEN BOOLEAN ELSE {FALSE}

\* What both the request list and the log receive.
Say(ms) == messages' = messages \o ms /\ surface' = surface \o ms

\* _close_orphaned_tools: a result for every call that has none in the log, in
\* the order of the calls.
Unanswered == {i \in DOMAIN calls : ~calls[i].logged}

Nth(S, k) == CHOOSE i \in S : Cardinality({j \in S : j <= i}) = k

Closers == [k \in 1 .. Cardinality(Unanswered) |-> Result(Nth(Unanswered, k))]

\* The end of run(): what the loop says last, the closers, turn/end.  What only
\* this turn reads is forgotten here, ended by the turn that has read it.
Finish(kind, said, gap) ==
  /\ pc' = "idle"
  /\ surface' = surface \o said \o Closers
  /\ ended' = [kind |-> kind, unbacked |-> gap]
  /\ step' = 0
  /\ messages' = <<>> /\ calls' = <<>> /\ plan' = NoPlan
  /\ claims' = FALSE /\ spent' = Unspent /\ unbacked' = FALSE
  /\ UNCHANGED <<turn, evidence, drift, shifted, worked>>

-----------------------------------------------------------------------------
Init ==
  /\ pc = "idle" /\ turn = 0 /\ step = 0
  /\ messages = <<>> /\ surface = <<>> /\ calls = <<>>
  /\ plan = NoPlan /\ spent = Unspent
  /\ claims = FALSE /\ evidence = FALSE /\ unbacked = FALSE
  /\ ended = NotEnded
  /\ drift = FALSE /\ shifted = FALSE /\ worked = FALSE /\ claimed = FALSE

KeepTrace  == evidence' = evidence
ClearTrace == evidence' = FALSE

\* A prompt arrives.  The history the caller passes is the log's surface; the
\* marker that the last turn was stopped goes to the log only.
StartTurn(injected, recalled) ==
  LET t      == turn + 1
      marker == Maybe(ended.kind = "aborted", "marker", t)
      prompt == Maybe(injected, "env", t) \o <<Msg("human", t)>>
                  \o Maybe(recalled, "recall", t)
  IN  /\ pc = "idle" /\ turn < MaxTurn
      /\ pc' = "top"
      /\ turn' = t
      /\ surface' = surface \o (marker \o prompt)
      /\ messages' = surface \o prompt
      /\ drift' = (marker # <<>>)
      /\ ClearTrace
      /\ ended' = NotEnded
      /\ worked' = FALSE /\ claimed' = FALSE
      /\ UNCHANGED <<step, calls, plan, spent, claims, unbacked, shifted>>

-----------------------------------------------------------------------------
\* The top of the loop: the context may be over budget.
Ask == pc' = "model" /\ step' = step + 1

StepsLeft == step < MaxSteps

BeginStep ==
  /\ pc = "top" /\ StepsLeft
  /\ Ask
  /\ UNCHANGED <<turn, messages, surface, calls, plan, spent, claims, evidence,
                 unbacked, ended, ghost>>

\* A PreCompact hook blocks the relief; what it says is heard nevertheless.
PreCompactBlocks(feedback) ==
  /\ pc = "top" /\ StepsLeft
  /\ Say(Maybe(feedback, "note", turn))
  /\ Ask
  /\ UNCHANGED <<turn, calls, plan, spent, claims, evidence, unbacked, ended, ghost>>

\* _prune_step, by position, and only while the two lists agree.
Prunable(ms) == {i \in DOMAIN ms : ms[i].kind = "result"
                                   /\ turn - ms[i].turn >= PruneMinAge}

Pruned(ms, old) ==
  [i \in DOMAIN ms |-> IF i \in old THEN [ms[i] EXCEPT !.kind = "pruned"] ELSE ms[i]]

PrunableIfAlike(ms, sf) == IF ms = sf THEN Prunable(sf) ELSE {}

\* Which of the old results are oversized is open.
Relieve(feedback) ==
  LET said == Maybe(feedback, "note", turn)
      ms   == messages \o said
      sf   == surface \o said
  IN  /\ pc = "top" /\ StepsLeft
      /\ \E old \in SUBSET PrunableIfAlike(ms, sf) :
           /\ messages' = Pruned(ms, old)
           /\ surface' = Pruned(sf, old)
      /\ pc' = "measure"
      /\ UNCHANGED <<turn, step, calls, plan, spent, claims, evidence, unbacked,
                     ended, ghost>>

\* compact: within the budget now, or nothing between the head and the tail.
NoNeed ==
  /\ pc = "measure"
  /\ Ask
  /\ plan' = NoPlan
  /\ UNCHANGED <<turn, messages, surface, calls, spent, claims, evidence,
                 unbacked, ended, ghost>>

Summarize(region) ==
  /\ plan' = [from |-> region.from, to |-> region.to,
              attempt |-> plan.attempt, moved |-> FALSE]
  /\ pc' = "summarizing"
  /\ UNCHANGED <<turn, step, messages, surface, calls, spent, claims, evidence,
                 unbacked, ended, ghost>>

\* Another writer appends to the log while the summarizer runs.
Intrude ==
  /\ pc = "summarizing" /\ ~plan.moved /\ Room
  /\ surface' = Append(surface, Msg("note", turn))
  /\ plan' = [plan EXCEPT !.moved = TRUE]
  /\ UNCHANGED <<pc, turn, step, messages, calls, spent, claims, evidence,
                 unbacked, ended, ghost>>

\* The summary, or the note that stands for it when the summarizer fails.
CommitSummary ==
  /\ pc = "summarizing" /\ ~plan.moved
  /\ plan.to <= Len(surface)
  /\ messages' = Replaced(messages, plan.from, plan.to, Msg("summary", turn))
  /\ surface' = Replaced(surface, plan.from, plan.to, Msg("summary", turn))
  /\ shifted' = (shifted \/ SubSeq(messages, plan.from, plan.to)
                              # SubSeq(surface, plan.from, plan.to))
  /\ Ask
  /\ plan' = NoPlan
  /\ UNCHANGED <<turn, calls, spent, claims, evidence, unbacked, ended, drift,
                 worked, claimed>>

RecomputeFromRequest == messages' = messages /\ drift' = drift

RecomputeFromLog == messages' = surface /\ drift' = FALSE

DropSummary ==
  /\ pc = "summarizing" /\ plan.moved
  /\ RecomputeFromLog
  /\ IF plan.attempt < MaxRecomputes
     THEN /\ pc' = "measure"
          /\ plan' = [NoPlan EXCEPT !.attempt = plan.attempt + 1]
          /\ UNCHANGED step
     ELSE Ask /\ plan' = NoPlan
  /\ UNCHANGED <<turn, surface, calls, spent, claims, evidence, unbacked, ended,
                 shifted, worked, claimed>>

-----------------------------------------------------------------------------
\* The model answers.  provider.chat raised: an error reply ends the turn.
ProviderFails ==
  /\ pc = "model"
  /\ Finish("error", <<Msg("reply", turn)>>, unbacked)
  /\ UNCHANGED claimed

\* max_tokens, or a stop reason the loop does not know: no audit, no hook.
CutReply(kind) ==
  /\ pc = "model"
  /\ Finish(kind, <<Msg("reply", turn)>>, unbacked)
  /\ UNCHANGED claimed

\* A further step after a reply that was not committed, with what it is told.
Again(ms, kind) ==
  /\ pc' = "top"
  /\ Say(ms)
  /\ spent' = [spent EXCEPT ![kind] = @ + 1]

EmptyReply ==
  /\ pc = "model" /\ spent.empty < MaxEmpty
  /\ Again(<<>>, "empty")
  /\ UNCHANGED <<turn, step, calls, plan, claims, evidence, unbacked, ended, ghost>>

\* audit_completion: the reply claims work the trace does not back.
Reminder(claim) == claim /\ ~evidence

AuditBounces ==
  /\ pc = "model" /\ Reminder(TRUE) /\ spent.audit < MaxAudit
  /\ Again(<<Msg("note", turn)>>, "audit")
  /\ UNCHANGED <<turn, step, calls, plan, claims, evidence, unbacked, ended, ghost>>

\* The reply passes, or the audit has no bounce left and only records it.
Reply(claim) ==
  /\ pc = "model"
  /\ Reminder(claim) => spent.audit >= MaxAudit
  /\ pc' = "stop"
  /\ claims' = claim
  /\ unbacked' = (unbacked \/ Reminder(claim))
  /\ UNCHANGED <<turn, step, messages, surface, calls, plan, spent, evidence,
                 ended, ghost>>

StopHookBlocks ==
  /\ pc = "stop" /\ spent.stop < MaxStop
  /\ Again(<<Msg("note", turn)>>, "stop")
  /\ claims' = FALSE
  /\ UNCHANGED <<turn, step, calls, plan, evidence, unbacked, ended, ghost>>

CommitReply(feedback) ==
  /\ pc = "stop"
  /\ Finish("completed", Maybe(feedback, "note", turn) \o <<Msg("reply", turn)>>, unbacked)
  /\ claimed' = claims

\* The safety stop after the last step of the turn.
TurnsExhausted ==
  /\ pc = "top" /\ step = MaxSteps
  /\ Finish("max-turns", <<Msg("reply", turn)>>, unbacked)
  /\ UNCHANGED claimed

-----------------------------------------------------------------------------
\* A reply with tool calls: they are logged, malformed ones answer themselves,
\* the others ask the user one by one, what is approved runs in parallel.
Undecided(cs) == {i \in DOMAIN cs : cs[i].status = "pending"}

Stage(cs) == IF Undecided(cs) = {} THEN "tools" ELSE "approve"

ToolUse(malformed) ==
  LET cs == [i \in DOMAIN malformed |->
               [status |-> IF malformed[i] THEN "malformed" ELSE "pending",
                logged |-> FALSE]]
  IN  /\ pc = "model"
      /\ Say(<<Calls(Len(malformed))>>)
      /\ calls' = cs
      /\ pc' = Stage(cs)
      /\ UNCHANGED <<turn, step, plan, spent, claims, evidence, unbacked, ended, ghost>>

Settle(i, status) == calls' = [calls EXCEPT ![i].status = status]

Approve(yes) ==
  /\ pc = "approve"
  /\ Settle(Min(Undecided(calls)), IF yes THEN "approved" ELSE "denied")
  /\ pc' = Stage(calls')
  /\ UNCHANGED <<turn, step, messages, surface, plan, spent, claims, evidence,
                 unbacked, ended, ghost>>

\* _execute_one: the PreToolUse hook blocks the call, or the tool runs.
RunTool(i, status) ==
  /\ pc = "tools"
  /\ calls[i].status = "approved"
  /\ Settle(i, status)
  /\ worked' = (worked \/ status = "worked")
  /\ UNCHANGED <<pc, turn, step, messages, surface, plan, spent, claims, evidence,
                 unbacked, ended, drift, shifted, claimed>>

\* gather is done: the trace, the results in the order of the calls, then what
\* hooks and the loop guard say.  Nobody asks again what became of the calls.
AllRan(cs) == \A i \in DOMAIN cs : cs[i].status \in {"executed", "worked"}

AllSettled(cs) == \A i \in DOMAIN cs : cs[i].status # "approved"

TraceWork(cs) == \E i \in DOMAIN cs : cs[i].status = "worked"

LogResults(noted) ==
  /\ pc = "tools"
  /\ AllSettled(calls)
  /\ evidence' = (evidence \/ TraceWork(calls))
  /\ Say([i \in DOMAIN calls |-> Result(i)] \o Maybe(noted, "note", turn))
  /\ calls' = [i \in DOMAIN calls |-> [status |-> "executed", logged |-> TRUE]]
  /\ pc' = "top"
  /\ UNCHANGED <<turn, step, plan, spent, claims, unbacked, ended, ghost>>

\* A stop, or anything else that is raised at an await.
Abort ==
  /\ pc # "idle"
  /\ Finish("aborted", <<>>, unbacked)
  /\ UNCHANGED claimed

-----------------------------------------------------------------------------
Relief ==
  \/ \E feedback \in Wish : PreCompactBlocks(feedback) \/ Relieve(feedback)
  \/ NoNeed
  \/ pc = "measure" /\ \E region \in Regions(messages, surface) : Summarize(region)
  \/ CommitSummary \/ DropSummary

Replies ==
  \/ ProviderFails
  \/ \E kind \in {"max-tokens", "completed"} : CutReply(kind)
  \/ EmptyReply \/ AuditBounces
  \/ \E claim \in BOOLEAN : Reply(claim)
  \/ StopHookBlocks
  \/ \E feedback \in Wish : CommitReply(feedback)

Tools ==
  \/ \E n \in CallCounts : \E malformed \in [1 .. n -> BOOLEAN] : ToolUse(malformed)
  \/ \E yes \in BOOLEAN : Approve(yes)
  \/ \E i \in DOMAIN calls : \E status \in {"hook_blocked", "executed", "worked"} :
        RunTool(i, status)
  \/ \E noted \in Wish : LogResults(noted)

Work == BeginStep \/ TurnsExhausted \/ Relief \/ Replies \/ Tools

Next ==
  \/ \E injected, recalled \in Wish : StartTurn(injected, recalled)
  \/ Work
  \/ Intrude
  \/ Abort

Spec == Init /\ [][Next]_vars

\* The provider answers or times out, the user decides, tools and hooks end.
FairSpec == Spec /\ WF_vars(Work)

-----------------------------------------------------------------------------
CallState == [status : Status, logged : BOOLEAN]

\* Every variable has its type.
TypeOK ==
  /\ pc \in {"idle", "top", "measure", "summarizing", "model", "stop", "approve", "tools"}
  /\ turn \in 0 .. MaxTurn /\ step \in 0 .. MaxSteps
  /\ messages \in Seq(Message) /\ surface \in Seq(Message)
  /\ calls \in Seq(CallState)
  /\ plan \in [from : Nat, to : Nat, attempt : 0 .. MaxRecomputes, moved : BOOLEAN]
  /\ spent \in [empty : 0 .. MaxEmpty, audit : 0 .. MaxAudit, stop : 0 .. MaxStop]
  /\ ended \in [kind : {"open", "completed", "error", "max-tokens", "max-turns", "aborted"},
                unbacked : BOOLEAN]
  /\ {claims, evidence, unbacked, drift, shifted, worked, claimed} \subseteq BOOLEAN

\* What goes to the model is what the log's surface holds, in every turn but
\* one that follows a stopped turn, and there again once the list was derived
\* anew (session_log.py "Model-visible <=> logged").
RequestIsLogged == pc = "model" /\ ~drift => messages = surface

\* However turns were stopped, pruned and compacted: each request, and what a
\* turn leaves for the next, is a conversation a provider accepts, unless a
\* summary went to the wrong place.
Replayable ==
  ~shifted => /\ pc = "model" => IsTranscript(messages)
              /\ pc = "idle" => IsTranscript(surface)

\* Every compaction keeps the task the conversation began with.
TaskIsKept ==
  turn > 0 => \E i \in DOMAIN surface : surface[i].kind = "human" /\ surface[i].turn = 1

\* What a stop, a prune or a compaction leaves is still a conversation about the
\* task it began with.
HistoryIsSound == Replayable /\ TaskIsKept

\* A turn whose final reply claims work no tool of the turn did says so in its
\* turn/end, whatever earlier turns did and hooks answered.
UnbackedIsReported == pc = "idle" /\ claimed /\ ~worked => ended.unbacked

\* A turn ends, whatever the model, the hooks and the other writer do.
TurnEnds == pc # "idle" ~> pc = "idle"
=============================================================================
