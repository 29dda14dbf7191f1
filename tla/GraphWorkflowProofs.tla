-------------------------- MODULE GraphWorkflowProofs --------------------------
(***************************************************************************)
(* Proofs of the safety properties of GraphWorkflow, for any briefs, plans  *)
(* and critiques and any limits.                                            *)
(*                                                                          *)
(* The properties speak of an execution that has ended; the invariant says  *)
(* where one that runs is (Placed): the node determines the path walked,    *)
(* with one revision for each note, and whether the tools have run.  It     *)
(* says nothing of the state before the planner, so whatever a thread kept  *)
(* of an earlier execution does not matter.                                 *)
(***************************************************************************)
EXTENDS GraphWorkflow, SequenceTheorems, TLAPS

States ==
    [path : Seq(Nodes), plan : [tools : {<<>>, InitialTools}, budget : Nat, days : Nat],
     results : Results, critique : Found, requires_revision : BOOLEAN,
     revision_count : 0 .. MaxRevisions, notes : Seq(Critiques)]

StructuredCalls ==
    {NoCall} \cup [mode : {"native", "prompt", "repair"},
                   repairs : 0 .. MaxRepairs, content : BOOLEAN]

\* Before the tools, nothing of an earlier execution is left.
Clean == state.results = <<>> /\ state.notes = <<>> /\ state.revision_count = 0

\* After them, every rejected critique has its revision.
Counted ==
    /\ state.results = AllOk
    /\ state.revision_count = Len(state.notes)
    /\ \A i \in DOMAIN state.notes : ~Satisfies(state.notes[i])

Placed ==
    /\ node = "planner" => state.path = <<>>
    /\ node = "retriever" => Clean /\ state.path = Walk(1)
    /\ node = "tool_executor" => Clean /\ state.path = Walk(2)
    /\ node = "critic" => Counted /\ state.path = Walk(3 + 2 * Len(state.notes))
    /\ node = "revision" =>
          /\ Counted /\ state.path = Walk(4 + 2 * Len(state.notes))
          /\ state.critique \in Critiques /\ ~Satisfies(state.critique)
          /\ state.revision_count < MaxRevisions
    /\ node = "finalizer" =>
          /\ Counted /\ state.path = Walk(4 + 2 * Len(state.notes))
          /\ state.critique.passed
          /\ config.llm_critic => Satisfies(state.critique)
    /\ node \notin {"idle", "planner"} /\ ~config.llm_planner =>
          state.plan.budget = brief.budget
    /\ node # "idle" => outcome = NoOutcome
    /\ call # NoCall => AsksModel

Inv == TypeOK /\ Placed /\ FinishedWasAccepted /\ FailureIsExplained

-----------------------------------------------------------------------------
(* The walk and the results.                                                *)

LEMMA ToolsAre ==
    /\ Tools = <<"recommend_audience", "generate_creative_brief", "optimize_budget",
                 "estimate_performance", "create_campaign_draft">>
    /\ DOMAIN Tools = 1 .. 5
  BY DEF Tools, InitialTools

LEMMA InitialToolsAre ==
    /\ InitialTools \in Seq({"recommend_audience", "generate_creative_brief", "optimize_budget"})
    /\ DOMAIN InitialTools = 1 .. 3
  BY DEF InitialTools

LEMMA WalkType ==
    ASSUME NEW n \in Nat
    PROVE  Walk(n) \in Seq(Nodes) /\ Len(Walk(n)) = n /\ DOMAIN Walk(n) = 1 .. n
  <1>1. \A i \in 1 .. n : Walk(n)[i] \in Nodes
    BY DEF Walk, Nodes
  <1>2. Walk(n) \in [1 .. n -> Nodes]
    BY <1>1 DEF Walk
  <1> QED
    BY <1>2

\* The node that follows a walk of n nodes.
At(n) ==
    CASE n = 0 -> "planner" [] n = 1 -> "retriever" [] n = 2 -> "tool_executor"
      [] n > 2 /\ n % 2 = 1 -> "critic" [] OTHER -> "revision"

LEMMA WalkStep ==
    ASSUME NEW n \in Nat
    PROVE  Append(Walk(n), At(n)) = Walk(n + 1)
  <1> DEFINE s == Append(Walk(n), At(n))
  <1>1. /\ Walk(n) \in Seq(Nodes) /\ Len(Walk(n)) = n
        /\ Walk(n + 1) \in Seq(Nodes) /\ Len(Walk(n + 1)) = n + 1
    BY WalkType
  <1>2. At(n) \in Nodes
    BY DEF At, Nodes
  <1>3. /\ s \in Seq(Nodes) /\ Len(s) = n + 1 /\ s[n + 1] = At(n)
        /\ \A i \in 1 .. n : s[i] = Walk(n)[i]
    BY <1>1, <1>2, AppendProperties
  <1>4. \A i \in 1 .. n : Walk(n)[i] = Walk(n + 1)[i]
    BY DEF Walk
  <1>5. Walk(n + 1)[n + 1] = At(n)
    <2>1. n > 2 => ((n + 1) % 2 = 0 <=> n % 2 = 1)
      OBVIOUS
    <2> QED
      BY <2>1 DEF Walk, At
  <1> HIDE DEF s
  <1>6. \A i \in 1 .. n + 1 : s[i] = Walk(n + 1)[i]
    <2>1. \A i \in 1 .. n + 1 : i \in 1 .. n \/ i = n + 1
      OBVIOUS
    <2> QED
      BY <1>3, <1>4, <1>5, <2>1
  <1>7. s = Walk(n + 1)
    BY <1>1, <1>3, <1>6, SeqEqual
  <1> QED
    BY <1>7 DEF s

\* The walk, node by node.
LEMMA WalkNodes ==
    /\ Append(<<>>, "planner") = Walk(1)
    /\ Append(Walk(1), "retriever") = Walk(2)
    /\ Append(Walk(2), "tool_executor") = Walk(3)
    /\ \A k \in Nat : Append(Walk(3 + 2 * k), "critic") = Walk(4 + 2 * k)
    /\ \A k \in Nat : Append(Walk(4 + 2 * k), "revision") = Walk(3 + 2 * (k + 1))
  <1>1. Walk(0) = <<>>
    BY WalkType
  <1>2. At(0) = "planner" /\ At(1) = "retriever" /\ At(2) = "tool_executor"
    BY DEF At
  <1>3. ASSUME NEW k \in Nat
        PROVE  /\ Append(Walk(3 + 2 * k), "critic") = Walk(4 + 2 * k)
               /\ Append(Walk(4 + 2 * k), "revision") = Walk(3 + 2 * (k + 1))
    <2>1. /\ 3 + 2 * k \in Nat /\ 3 + 2 * k > 2 /\ (3 + 2 * k) % 2 = 1
          /\ 4 + 2 * k \in Nat /\ 4 + 2 * k > 2 /\ (4 + 2 * k) % 2 = 0
          /\ (3 + 2 * k) + 1 = 4 + 2 * k /\ (4 + 2 * k) + 1 = 3 + 2 * (k + 1)
      OBVIOUS
    <2>2. At(3 + 2 * k) = "critic" /\ At(4 + 2 * k) = "revision"
      BY <2>1 DEF At
    <2> QED
      BY <2>1, <2>2, WalkStep
  <1>4. Append(Walk(0), At(0)) = Walk(1) /\ Append(Walk(1), At(1)) = Walk(2)
        /\ Append(Walk(2), At(2)) = Walk(3)
    <2>1. 0 + 1 = 1 /\ 1 + 1 = 2 /\ 2 + 1 = 3 /\ {0, 1, 2} \subseteq Nat
      OBVIOUS
    <2> QED
      BY <2>1, WalkStep
  <1> QED
    BY <1>1, <1>2, <1>3, <1>4

LEMMA TupleIsSeq ==
    ASSUME NEW S, NEW n \in Nat, NEW f \in [1 .. n -> S]
    PROVE  f \in Seq(S) /\ Len(f) = n /\ DOMAIN f = 1 .. n
  OBVIOUS

LEMMA ResultTypes ==
    /\ <<>> \in Results /\ AllOk \in Results /\ DOMAIN AllOk = 1 .. 5 /\ Len(AllOk) = 5
    /\ \A results \in Results, code \in Codes,
          tool \in {Tools[i] : i \in DOMAIN Tools} \cup {"llm_planner", "llm_critic"} :
             Append(results, Failure(tool, code)) \in Results
  <1>1. \A i \in 1 .. 5 : Ok(Tools[i]) \in ToolResult
    BY ToolsAre DEF Ok, Codes, ToolResult
  <1>2. AllOk \in [1 .. 5 -> ToolResult]
    BY <1>1, ToolsAre DEF AllOk
  <1>3. AllOk \in Seq(ToolResult) /\ DOMAIN AllOk = 1 .. 5 /\ Len(AllOk) = 5
    BY <1>2, TupleIsSeq
  <1>4. <<>> \in Seq(ToolResult)
    BY EmptySeq
  <1>5. ASSUME NEW results \in Results, NEW code \in Codes,
               NEW tool \in {Tools[i] : i \in DOMAIN Tools} \cup {"llm_planner", "llm_critic"}
        PROVE  Append(results, Failure(tool, code)) \in Results
    <2>1. Failure(tool, code) \in ToolResult
      BY DEF Failure, ToolResult
    <2> QED
      BY <2>1, AppendProperties DEF Results
  <1> QED
    BY <1>3, <1>4, <1>5 DEF Results

-----------------------------------------------------------------------------
(* What the steps have in common.                                           *)

\* One node leaves its update to the next.
LEMMA GotoInv ==
    ASSUME Inv, node # "idle", NEW n \in Nodes \ {"planner"}, Goto(n), state' \in States,
           (Placed)'
    PROVE  Inv'
  <1>1. TypeOK'
    BY DEF Goto, Inv, TypeOK, States, Configs
  <1>2. outcome' = NoOutcome
    BY DEF Goto, Inv, Placed
  <1>3. FinishedWasAccepted' /\ FailureIsExplained'
    BY <1>2 DEF FinishedWasAccepted, FailureIsExplained, NoOutcome
  <1> QED
    BY <1>1, <1>3 DEF Inv

\* An execution ends without a strategy.
LEMMA RaiseInv ==
    ASSUME Inv, NEW status \in {"failed", "escaped", "lost"},
           NEW path \in Seq(Nodes), NEW results \in Results, Raise(status, path, results),
           status = "failed" => FailureIsExplained'
    PROVE  Inv'
  <1>1. /\ outcome' = [status |-> status, path |-> path, results |-> results]
        /\ node' = "idle" /\ call' = NoCall /\ UNCHANGED <<state, brief, config, executions>>
    BY DEF Raise, Ends
  <1>2. TypeOK'
    BY <1>1 DEF Inv, TypeOK
  <1>3. Placed'
    BY <1>1 DEF Placed
  <1>4. FinishedWasAccepted'
    BY <1>1 DEF FinishedWasAccepted
  <1>5. FailureIsExplained'
    BY <1>1 DEF FailureIsExplained
  <1> QED
    BY <1>2, <1>3, <1>4, <1>5 DEF Inv

\* The model is asked, or asked again.
LEMMA CallInv ==
    ASSUME Inv, AsksModel, call' \in StructuredCalls,
           UNCHANGED <<brief, config, node, state, outcome, executions>>
    PROVE  Inv'
  <1>1. TypeOK'
    BY DEF Inv, TypeOK, StructuredCalls
  <1>2. Placed'
    BY DEF Inv, Placed, Clean, Counted, AsksModel
  <1>3. FinishedWasAccepted' /\ FailureIsExplained'
    BY DEF Inv, FinishedWasAccepted, FailureIsExplained
  <1> QED
    BY <1>1, <1>2, <1>3 DEF Inv

\* The failures of a model: the planner's stands alone, the critic's follows
\* five successes; it is a rejection only after every revision.
LEMMA RaiseModelInv ==
    ASSUME Inv, AsksModel, NEW code \in Codes \ {"ok"}, RaiseModel(code),
           code = "LLM_CRITIC_REJECTED_STRATEGY" =>
               node = "critic" /\ state.revision_count >= MaxRevisions
    PROVE  Inv'
  <1>1. CASE node = "planner"
    <2>1. Raise("failed", Path, Append(<<>>, Failure("llm_planner", code)))
      BY <1>1 DEF RaiseModel, RaiseFailure
    <2>2. Path = Walk(1) /\ Path \in Seq(Nodes)
      BY <1>1, WalkNodes, WalkType DEF Inv, Placed, Path
    <2>3. Append(<<>>, Failure("llm_planner", code)) \in Results
      BY ResultTypes
    <2>4. FailureIsExplained'
      BY <2>1, <2>2 DEF Raise, Ends, FailureIsExplained, Failure
    <2> QED
      BY <2>1, <2>2, <2>3, <2>4, RaiseInv
  <1>2. CASE node = "critic"
    <2> DEFINE k == Len(state.notes)
    <2> DEFINE results == Append(AllOk, Failure("llm_critic", code))
    <2>1. Raise("failed", Path, results) /\ Counted
      BY <1>2 DEF RaiseModel, RaiseFailure, Inv, Placed, Counted
    <2>2. k \in 0 .. MaxRevisions
      BY <2>1 DEF Counted, Inv, TypeOK
    <2>3. Path = Walk(4 + 2 * k) /\ Path \in Seq(Nodes)
      <3>1. k \in Nat /\ 4 + 2 * k \in Nat
        BY <2>2, LimitsAssumption
      <3>2. Path = Append(Walk(3 + 2 * k), "critic")
        BY <1>2 DEF Inv, Placed, Path
      <3> HIDE DEF k
      <3> QED
        BY <3>1, <3>2, WalkNodes, WalkType
    <2>4. results \in Results /\ Len(results) = 6 /\ results[6] = Failure("llm_critic", code)
          /\ \A i \in 1 .. 5 : results[i] = AllOk[i]
      <3>1. results \in Results
        BY ResultTypes
      <3>2. Failure("llm_critic", code) \in ToolResult
        BY DEF Failure, ToolResult
      <3>3. AllOk \in Seq(ToolResult) /\ Len(AllOk) = 5 /\ 5 + 1 = 6
        BY ResultTypes DEF Results
      <3>4. /\ Len(results) = Len(AllOk) + 1 /\ results[Len(AllOk) + 1] = Failure("llm_critic", code)
            /\ \A i \in 1 .. Len(AllOk) : results[i] = AllOk[i]
        <4> DEFINE failure == Failure("llm_critic", code)
        <4>1. failure \in ToolResult /\ AllOk \in Seq(ToolResult)
          BY <3>2, <3>3
        <4> HIDE DEF failure
        <4>2. /\ Len(Append(AllOk, failure)) = Len(AllOk) + 1
              /\ Append(AllOk, failure)[Len(AllOk) + 1] = failure
              /\ \A i \in 1 .. Len(AllOk) : Append(AllOk, failure)[i] = AllOk[i]
          BY <4>1, AppendProperties
        <4> QED
          BY <4>2 DEF failure
      <3> HIDE DEF results
      <3> QED
        BY <3>1, <3>3, <3>4
    <2>5. code = "LLM_CRITIC_REJECTED_STRATEGY" => k = MaxRevisions
      BY <2>1, <2>2, LimitsAssumption DEF Counted
    <2> HIDE DEF results
    <2>6. FailureIsExplained'
      <3>1. outcome' = [status |-> "failed", path |-> Path, results |-> results]
        BY <2>1 DEF Raise, Ends
      <3>2. results[6].code # "ok" /\ results[6].tool = "llm_critic"
        BY <2>4 DEF Failure
      <3>3. results[6].code = "LLM_CRITIC_REJECTED_STRATEGY" => k = MaxRevisions
        BY <2>4, <2>5 DEF Failure
      <3> HIDE DEF k
      <3>4. outcome'.results = results /\ outcome'.path = Walk(4 + 2 * k)
        BY <2>3, <3>1
      <3>5. /\ Len(results) >= 1 /\ results[Len(results)].code # "ok"
            /\ \A i \in 1 .. Len(results) - 1 : results[i] = AllOk[i]
            /\ Len(results) = 6 /\ results[Len(results)].tool = "llm_critic"
        BY <2>4, <3>2
      <3>6. results[Len(results)].code = "LLM_CRITIC_REJECTED_STRATEGY" => k = MaxRevisions
        BY <2>4, <3>3
      <3> QED
        BY <2>2, <3>4, <3>5, <3>6 DEF FailureIsExplained
    <2> QED
      BY <2>1, <2>3, <2>4, <2>6, RaiseInv
  <1> QED
    BY <1>1, <1>2 DEF AsksModel

-----------------------------------------------------------------------------
(* The structured output.                                                   *)

LEMMA AskInv ==
    ASSUME Inv, Ask
    PROVE  Inv'
  <1>1. call' \in StructuredCalls
    BY LimitsAssumption DEF Ask, StructuredCalls
  <1> QED
    BY <1>1, CallInv DEF Ask

LEMMA TryAgainInv ==
    ASSUME Inv, call # NoCall, NEW content \in BOOLEAN, TryAgain(content)
    PROVE  Inv'
  <1>1. /\ AsksModel
        /\ call \in [mode : {"native", "prompt", "repair"},
                     repairs : 0 .. MaxRepairs, content : BOOLEAN]
    BY DEF Inv, Placed, TypeOK
  <1>2. CASE /\ call' = [call EXCEPT !.mode = "prompt", !.content = content]
             /\ UNCHANGED <<brief, config, node, state, outcome, executions>>
    <2>1. call' \in StructuredCalls
      BY <1>1, <1>2 DEF StructuredCalls
    <2> QED
      BY <1>1, <1>2, <2>1, CallInv
  <1>3. CASE /\ call.repairs > 0
             /\ call' = [mode |-> "repair", repairs |-> call.repairs - 1,
                         content |-> call.mode = "repair"]
             /\ UNCHANGED <<brief, config, node, state, outcome, executions>>
    <2>1. call' \in StructuredCalls
      BY <1>1, <1>3, LimitsAssumption DEF StructuredCalls
    <2> QED
      BY <1>1, <1>3, <2>1, CallInv
  <1>4. CASE RaiseModel("STRUCTURED_OUTPUT_VALIDATION_ERROR")
    <2>1. "STRUCTURED_OUTPUT_VALIDATION_ERROR" \in Codes \ {"ok"}
      BY DEF Codes
    <2> QED
      BY <1>1, <1>4, <2>1, RaiseModelInv
  <1> QED
    BY <1>2, <1>3, <1>4 DEF TryAgain

\* An exception that tells nothing.
LEMMA EscapeInv ==
    ASSUME Inv, NEW status \in {"escaped", "lost"}, Raise(status, <<>>, <<>>)
    PROVE  Inv'
  <1>1. <<>> \in Seq(Nodes) /\ <<>> \in Results
    BY EmptySeq, ResultTypes
  <1> QED
    BY <1>1, RaiseInv

LEMMA ReplyFailsInv ==
    ASSUME Inv, ReplyInvalid \/ ReplyBroken \/ ReplyUnsupported \/ ReplyError
    PROVE  Inv'
  <1>1. CASE ReplyInvalid
    BY <1>1, TryAgainInv DEF ReplyInvalid
  <1>2. CASE ReplyBroken
    <2>1. call # NoCall
      BY <1>2 DEF ReplyBroken
    <2>2. PICK content \in BOOLEAN : content = call.content
      BY <2>1 DEF Inv, TypeOK
    <2>3. TryAgain(content) \/ Raise("escaped", <<>>, <<>>)
      BY <1>2, <2>2 DEF ReplyBroken, TryAgain
    <2> QED
      BY <2>1, <2>3, TryAgainInv, EscapeInv
  <1>3. CASE ReplyUnsupported
    <2>0. call.mode \in {"native", "prompt", "repair"}
      BY <1>3 DEF ReplyUnsupported
    <2>1. call # NoCall /\ AsksModel
      BY <2>0 DEF NoCall, Inv, Placed
    <2>2. "MODEL_GATEWAY_HTTP_ERROR" \in Codes \ {"ok"}
      BY DEF Codes
    <2> QED
      BY <1>3, <2>1, <2>2, TryAgainInv, RaiseModelInv DEF ReplyUnsupported
  <1>4. CASE ReplyError
    <2>1. AsksModel
      BY <1>4 DEF ReplyError, Inv, Placed
    <2>2. "MODEL_GATEWAY_ERROR" \in Codes \ {"ok"}
      BY DEF Codes
    <2> QED
      BY <1>4, <2>1, <2>2, RaiseModelInv DEF ReplyError
  <1> QED
    BY <1>1, <1>2, <1>3, <1>4

-----------------------------------------------------------------------------
(* The nodes.                                                               *)

\* The planner resets what an earlier execution left.
LEMMA AdoptInv ==
    ASSUME Inv, node = "planner", NEW b \in Nat, NEW d \in Nat,
           Adopt([tools |-> InitialTools, budget |-> b, days |-> d]),
           ~config.llm_planner => b = brief.budget
    PROVE  Inv'
  <1>1. state \in States /\ Path = Walk(1) /\ Path \in Seq(Nodes)
    BY WalkNodes, WalkType DEF Inv, Placed, Path, TypeOK, States
  <1>2. /\ Goto("retriever") /\ "retriever" \in Nodes \ {"planner"}
        /\ state' = [Fresh EXCEPT !.path = Path, !.critique = state.critique,
                                  !.plan = [tools |-> InitialTools, budget |-> b, days |-> d]]
    BY DEF Adopt, Nodes
  <1>3. state' \in States
    <2>1. <<>> \in Seq(Critiques) /\ <<>> \in Results
      BY EmptySeq, ResultTypes
    <2>2. state' = [path |-> Path,
                    plan |-> [tools |-> InitialTools, budget |-> b, days |-> d],
                    results |-> <<>>, critique |-> state.critique, requires_revision |-> FALSE,
                    revision_count |-> 0, notes |-> <<>>]
      BY <1>2 DEF Fresh
    <2>3. state.critique \in Found /\ 0 \in 0 .. MaxRevisions
      BY <1>1, LimitsAssumption DEF States
    <2> QED
      BY <1>1, <2>1, <2>2, <2>3 DEF States
  <1>4. Placed'
    BY <1>1, <1>2 DEF Goto, Fresh, Placed, Clean, Inv
  <1> QED
    BY <1>2, <1>3, <1>4, GotoInv

LEMMA PlanInv ==
    ASSUME Inv, Plan
    PROVE  Inv'
  <1>1. PICK b \in Nat, d \in Nat : b = brief.budget /\ d = brief.days
    BY InputsAssumption DEF Inv, TypeOK
  <1> QED
    BY <1>1, AdoptInv DEF Plan, Adopt

LEMMA ReplyPlanInv ==
    ASSUME Inv, NEW plan \in ModelPlans, ReplyPlan(plan)
    PROVE  Inv'
  <1>1. node = "planner" /\ call # NoCall /\ AsksModel /\ config.llm_planner
    BY DEF ReplyPlan, Inv, Placed, AsksModel
  <1>2. CASE Adopt([plan EXCEPT !.tools = InitialTools])
    <2>1. plan = [tools |-> plan.tools, budget |-> plan.budget, days |-> plan.days]
          /\ plan.budget \in Nat /\ plan.days \in Nat
      BY InputsAssumption
    <2>2. [plan EXCEPT !.tools = InitialTools] =
              [tools |-> InitialTools, budget |-> plan.budget, days |-> plan.days]
      BY <2>1
    <2> QED
      BY <1>1, <1>2, <2>1, <2>2, AdoptInv
  <1>3. CASE RaiseModel("LLM_PLANNER_INVALID_TOOL_PLAN")
    <2>1. "LLM_PLANNER_INVALID_TOOL_PLAN" \in Codes \ {"ok"}
      BY DEF Codes
    <2> QED
      BY <1>1, <1>3, <2>1, RaiseModelInv
  <1> QED
    BY <1>2, <1>3 DEF ReplyPlan

LEMMA RetrieveInv ==
    ASSUME Inv, Retrieve
    PROVE  Inv'
  <1>0. Path = Walk(2) /\ Path \in Seq(Nodes)
    BY WalkNodes, WalkType DEF Retrieve, Inv, Placed, Path
  <1>1. /\ node = "retriever" /\ state \in States
        /\ state' = [state EXCEPT !.path = Path] /\ Goto("tool_executor")
        /\ "tool_executor" \in Nodes \ {"planner"}
    BY DEF Retrieve, Inv, TypeOK, States, Nodes
  <1>2. state' \in States
    BY <1>0, <1>1 DEF States
  <1>3. Placed'
    BY <1>0, <1>1 DEF Goto, Inv, Placed, Clean, States
  <1> QED
    BY <1>1, <1>2, <1>3, GotoInv

\* A tool's result is its success or a failure that names it.
LEMMA ResultIs ==
    ASSUME NEW i \in 1 .. 5, NEW plan, NEW refused
    PROVE  LET result == Result(Tools[i], plan, refused)
           IN /\ result \in ToolResult /\ result.tool = Tools[i]
              /\ result # Ok(Tools[i]) => result.code # "ok"
  BY ToolsAre DEF Result, Failure, Ok, ToolResult, Codes

\* The results up to the first failure.
LEMMA FirstFailure ==
    ASSUME NEW results \in [1 .. 5 -> ToolResult], NEW i \in 1 .. 5,
           \A j \in 1 .. i - 1 : results[j] = AllOk[j]
    PROVE  LET told == Append(<<>> \o SubSeq(results, 1, i - 1), results[i])
           IN /\ told \in Results /\ Len(told) = i /\ told[i] = results[i]
              /\ \A j \in 1 .. i - 1 : told[j] = AllOk[j]
  <1> DEFINE before == SubSeq(results, 1, i - 1)
  <1>1. /\ before \in Seq(ToolResult) /\ Len(before) = i - 1
        /\ \A j \in 1 .. i - 1 : before[j] = results[j]
    <2>1. \A j \in 1 .. i - 1 : results[j] \in ToolResult
      OBVIOUS
    <2>2. 1 \in Int /\ i - 1 \in Int /\ (i - 1) - 1 + 1 = i - 1
          /\ \A j \in 1 .. i - 1 : 1 + j - 1 = j
      OBVIOUS
    <2>3. /\ before \in Seq(ToolResult)
          /\ Len(before) = IF 1 <= i - 1 THEN (i - 1) - 1 + 1 ELSE 0
          /\ \A j \in 1 .. (i - 1) - 1 + 1 : before[j] = results[1 + j - 1]
      BY <2>1, <2>2, SubSeqProperties
    <2> HIDE DEF before
    <2> QED
      BY <2>2, <2>3
  <1> HIDE DEF before
  <1>2. <<>> \o before = before
    BY <1>1, ConcatEmptySeq
  <1>3. /\ Append(before, results[i]) \in Seq(ToolResult)
        /\ Len(Append(before, results[i])) = Len(before) + 1
        /\ Append(before, results[i])[Len(before) + 1] = results[i]
        /\ \A j \in 1 .. Len(before) : Append(before, results[i])[j] = before[j]
    BY <1>1, AppendProperties
  <1> QED
    BY <1>1, <1>2, <1>3 DEF before, Results

LEMMA ExecuteInv ==
    ASSUME Inv, NEW refused, Execute(refused)
    PROVE  Inv'
  <1> DEFINE results == [i \in DOMAIN Tools |-> Result(Tools[i], state.plan, refused)]
  <1>0. Path = Walk(3) /\ Path \in Seq(Nodes)
    BY WalkNodes, WalkType DEF Execute, Inv, Placed, Path
  <1>1. node = "tool_executor" /\ state \in States /\ Clean
    BY DEF Execute, Inv, TypeOK, States, Placed
  <1>2. results \in [1 .. 5 -> ToolResult]
    BY ToolsAre, ResultIs
  <1>3. CASE /\ \A i \in DOMAIN Tools : results[i] = Ok(Tools[i])
             /\ state' = [state EXCEPT !.path = Path, !.results = @ \o results]
             /\ Goto("critic")
    <2>1. results = AllOk
      BY <1>3 DEF AllOk
    <2>2. state' = [state EXCEPT !.path = Path, !.results = AllOk]
      BY <1>1, <1>3, <2>1, ResultTypes, ConcatEmptySeq DEF Clean, Results
    <2>3. state' \in States /\ "critic" \in Nodes \ {"planner"}
      BY <1>0, <1>1, <2>2, ResultTypes DEF States, Nodes
    <2>4. /\ state'.path = Path /\ state'.results = AllOk /\ state'.notes = <<>>
          /\ state'.revision_count = 0 /\ state'.plan = state.plan
      BY <1>1, <2>2 DEF Clean, States
    <2>5. Len(state'.notes) = 0 /\ 3 + 2 * Len(state'.notes) = 3 /\ DOMAIN state'.notes = {}
      BY <2>4
    <2>6. Counted'
      BY <2>4, <2>5 DEF Counted
    <2>7. Placed'
      BY <1>0, <1>1, <1>3, <2>4, <2>5, <2>6 DEF Goto, Inv, Placed
    <2> QED
      BY <1>1, <1>3, <2>3, <2>7, GotoInv
  <1>4. ASSUME NEW i \in DOMAIN Tools, results[i] # Ok(Tools[i]),
               \A j \in DOMAIN Tools : results[j] # Ok(Tools[j]) => i <= j,
               RaiseFailure(state.results \o SubSeq(results, 1, i - 1), results[i])
        PROVE  Inv'
    <2> DEFINE told == Append(<<>> \o SubSeq(results, 1, i - 1), results[i])
    <2>1. i \in 1 .. 5 /\ \A j \in 1 .. i - 1 : results[j] = AllOk[j]
      BY <1>4, ToolsAre DEF AllOk
    <2>2. results[i].tool = Tools[i] /\ results[i].code # "ok"
      BY <1>4, <2>1, ResultIs
    <2>3. /\ told \in Results /\ Len(told) = i /\ told[i] = results[i]
          /\ \A j \in 1 .. i - 1 : told[j] = AllOk[j]
      <3> HIDE DEF results
      <3> QED
        BY <1>2, <2>1, FirstFailure
    <2>4. Raise("failed", Path, told)
      BY <1>1, <1>4 DEF RaiseFailure, Clean
    <2> HIDE DEF told, results
    <2>5. outcome' = [status |-> "failed", path |-> Path, results |-> told]
      BY <2>4 DEF Raise, Ends
    <2>6. FailureIsExplained'
      BY <1>0, <1>4, <2>1, <2>2, <2>3, <2>5 DEF FailureIsExplained
    <2> QED
      BY <1>0, <2>3, <2>4, <2>6, RaiseInv
  <1> QED
    BY <1>3, <1>4 DEF Execute

\* The critic's decision, which a deterministic critic takes as well.
LEMMA DecideInv ==
    ASSUME Inv, node = "critic", NEW critique \in Found, NEW revise \in BOOLEAN,
           Decide(critique, revise),
           revise => /\ critique \in Critiques /\ ~Satisfies(critique)
                     /\ state.revision_count < MaxRevisions,
           ~revise => critique.passed /\ (config.llm_critic => Satisfies(critique))
    PROVE  Inv'
  <1> DEFINE k == Len(state.notes)
  <1>1. state \in States /\ Counted /\ k \in Nat
    BY DEF Inv, TypeOK, States, Placed
  <1>2. Path = Walk(4 + 2 * k) /\ Path \in Seq(Nodes)
    <2>1. 4 + 2 * k \in Nat
      BY <1>1
    <2>2. Path = Append(Walk(3 + 2 * k), "critic")
      BY DEF Inv, Placed, Path
    <2> HIDE DEF k
    <2> QED
      BY <1>1, <2>1, <2>2, WalkNodes, WalkType
  <1>3. /\ state' = [state EXCEPT !.path = Path, !.critique = critique,
                                  !.requires_revision = revise]
        /\ Goto(IF revise THEN "revision" ELSE "finalizer")
    BY DEF Decide
  <1>4. state' \in States /\ state'.notes = state.notes
    BY <1>1, <1>2, <1>3 DEF States
  <1>5. {"revision", "finalizer"} \subseteq Nodes \ {"planner"}
    BY DEF Nodes
  <1>6. Placed'
    BY <1>1, <1>2, <1>3, <1>4 DEF Goto, Inv, Placed, Counted, States, Satisfies
  <1> QED
    BY <1>3, <1>4, <1>5, <1>6, GotoInv

LEMMA CritiqueInv ==
    ASSUME Inv, Critique
    PROVE  Inv'
  <1>1. [passed |-> TRUE, score |-> 8] \in Found
    BY DEF Found
  <1> QED
    BY <1>1, DecideInv DEF Critique

LEMMA ReplyCritiqueInv ==
    ASSUME Inv, NEW critique \in Critiques, ReplyCritique(critique)
    PROVE  Inv'
  <1>1. /\ node = "critic" /\ AsksModel /\ critique \in Found
        /\ critique.passed \in BOOLEAN
    BY InputsAssumption DEF ReplyCritique, Inv, Placed, Found
  <1>2. CASE Satisfies(critique) /\ Decide(critique, FALSE)
    BY <1>1, <1>2, DecideInv DEF Satisfies
  <1>3. CASE /\ ~Satisfies(critique) /\ state.revision_count < MaxRevisions
             /\ Decide(critique, TRUE)
    BY <1>1, <1>3, DecideInv
  <1>4. CASE /\ state.revision_count >= MaxRevisions
             /\ RaiseModel("LLM_CRITIC_REJECTED_STRATEGY")
    <2>1. "LLM_CRITIC_REJECTED_STRATEGY" \in Codes \ {"ok"}
      BY DEF Codes
    <2> QED
      BY <1>1, <1>4, <2>1, RaiseModelInv
  <1> QED
    BY <1>2, <1>3, <1>4 DEF ReplyCritique

LEMMA ReviseInv ==
    ASSUME Inv, Revise
    PROVE  Inv'
  <1> DEFINE k == Len(state.notes)
  <1>1. /\ node = "revision" /\ state \in States /\ Counted /\ k \in Nat
        /\ state.critique \in Critiques /\ ~Satisfies(state.critique)
        /\ state.revision_count < MaxRevisions
    BY DEF Revise, Inv, TypeOK, States, Placed
  <1>2. Path = Walk(3 + 2 * (k + 1)) /\ Path \in Seq(Nodes)
    <2>1. 3 + 2 * (k + 1) \in Nat
      BY <1>1
    <2>2. Path = Append(Walk(4 + 2 * k), "revision")
      BY <1>1 DEF Inv, Placed, Path
    <2> HIDE DEF k
    <2> QED
      BY <1>1, <2>1, <2>2, WalkNodes, WalkType
  <1>3. /\ state.notes \in Seq(Critiques)
        /\ Append(state.notes, state.critique) \in Seq(Critiques)
        /\ Len(Append(state.notes, state.critique)) = k + 1
        /\ Append(state.notes, state.critique)[k + 1] = state.critique
        /\ \A i \in 1 .. k : Append(state.notes, state.critique)[i] = state.notes[i]
    <2>1. state.notes \in Seq(Critiques)
      BY <1>1 DEF States
    <2> QED
      BY <1>1, <2>1, AppendProperties
  <1>4. /\ state' = [state EXCEPT !.path = Path, !.requires_revision = FALSE,
                                  !.revision_count = @ + 1,
                                  !.notes = Append(state.notes, state.critique)]
        /\ Goto("critic") /\ "critic" \in Nodes \ {"planner"}
    BY DEF Revise, Nodes
  <1>5. state.revision_count + 1 \in 0 .. MaxRevisions
    BY <1>1, LimitsAssumption DEF States
  <1>6. state' \in States
    BY <1>1, <1>2, <1>3, <1>4, <1>5 DEF States
  <1>7. /\ state'.path = Path /\ state'.results = state.results
        /\ state'.revision_count = state.revision_count + 1
        /\ state'.notes = Append(state.notes, state.critique)
        /\ state'.plan = state.plan
    BY <1>1, <1>4 DEF States
  <1>8. Counted'
    <2>1. DOMAIN state'.notes = 1 .. k + 1
      BY <1>3, <1>7
    <2>2. ASSUME NEW i \in 1 .. k + 1 PROVE ~Satisfies(state'.notes[i])
      <3>1. CASE i = k + 1
        BY <1>1, <1>3, <1>7, <3>1
      <3>2. CASE i \in 1 .. k
        BY <1>1, <1>3, <1>7, <3>2 DEF Counted
      <3> QED
        BY <1>1, <3>1, <3>2
    <2> QED
      BY <1>1, <1>3, <1>7, <2>1, <2>2 DEF Counted, Satisfies
  <1>9. Placed'
    BY <1>1, <1>2, <1>3, <1>4, <1>7, <1>8 DEF Goto, Inv, Placed
  <1> QED
    BY <1>1, <1>4, <1>6, <1>9, GotoInv

\* The finalizer tells what was planned, executed and accepted.
LEMMA FinalizeInv ==
    ASSUME Inv, Finalize
    PROVE  Inv'
  <1> DEFINE k == Len(state.notes)
  <1>1. /\ node = "finalizer" /\ state \in States /\ Counted /\ k \in 0 .. MaxRevisions
        /\ state.path = Walk(4 + 2 * k) /\ state.critique.passed
        /\ config.llm_critic => Satisfies(state.critique)
        /\ ~config.llm_planner => state.plan.budget = brief.budget
    BY DEF Finalize, Inv, TypeOK, States, Placed, Counted
  <1>2. Path \in Seq(Nodes) /\ Path = Append(Walk(4 + 2 * k), "finalizer")
    <2>1. state.path \in Seq(Nodes) /\ "finalizer" \in Nodes
      BY <1>1 DEF States, Nodes
    <2> QED
      BY <1>1, <2>1, AppendProperties DEF Path
  <1>3. /\ state' = [state EXCEPT !.path = Path] /\ node' = "idle" /\ call' = NoCall
        /\ outcome' = [status |-> "finished", path |-> Path, results |-> AllOk]
        /\ UNCHANGED <<brief, config, executions>>
    BY <1>1 DEF Finalize, Ends, Counted
  <1>4. /\ state' \in States /\ state'.notes = state.notes
        /\ state'.critique = state.critique /\ state'.plan = state.plan
    BY <1>1, <1>2, <1>3 DEF States
  <1>5. TypeOK'
    BY <1>2, <1>3, <1>4, ResultTypes DEF Inv, TypeOK, States
  <1>6. Placed'
    BY <1>3 DEF Placed
  <1>7. FinishedWasAccepted'
    BY <1>1, <1>2, <1>3, <1>4, LimitsAssumption DEF FinishedWasAccepted, Counted, Satisfies
  <1>8. FailureIsExplained'
    BY <1>3 DEF FailureIsExplained
  <1> QED
    BY <1>5, <1>6, <1>7, <1>8 DEF Inv

\* An execution starts from whatever the thread kept.
LEMMA StartInv ==
    ASSUME Inv, NEW kept \in BOOLEAN, NEW c \in Configs, Start(kept, c)
    PROVE  Inv'
  <1>1. /\ node = "idle" /\ state \in States /\ call = NoCall
    BY DEF Start, Inv, TypeOK, States, Placed, AsksModel
  <1>2. /\ config' = c /\ node' = "planner" /\ outcome' = NoOutcome /\ call' = NoCall
        /\ brief' = brief /\ executions' = executions + 1 /\ executions < MaxExecutions
        /\ state' = IF kept THEN [state EXCEPT !.path = <<>>] ELSE Fresh
    BY <1>1 DEF Start
  <1>3. <<>> \in Seq(Nodes) /\ <<>> \in Seq(Critiques) /\ <<>> \in Results
    BY EmptySeq, ResultTypes
  <1>4. Fresh \in States
    BY <1>3, LimitsAssumption DEF Fresh, States, NoPlan, Found
  <1>5. state' \in States /\ state'.path = <<>>
    BY <1>1, <1>2, <1>3, <1>4 DEF States, Fresh
  <1>6. TypeOK'
    <2>1. executions' \in 0 .. MaxExecutions
      BY <1>2, LimitsAssumption DEF Inv, TypeOK
    <2>2. outcome' \in [status : {"none", "finished", "failed", "escaped", "lost"},
                        path : Seq(Nodes), results : Results]
      BY <1>2, <1>3 DEF NoOutcome
    <2> QED
      BY <1>2, <1>5, <2>1, <2>2 DEF Inv, TypeOK, States, Nodes
  <1>7. Placed'
    BY <1>2, <1>5 DEF Placed
  <1>8. FinishedWasAccepted' /\ FailureIsExplained'
    BY <1>2 DEF FinishedWasAccepted, FailureIsExplained, NoOutcome
  <1> QED
    BY <1>6, <1>7, <1>8 DEF Inv

-----------------------------------------------------------------------------

LEMMA InitInv == Init => Inv
  <1> SUFFICES ASSUME Init PROVE Inv
    OBVIOUS
  <1>1. <<>> \in Seq(Nodes) /\ <<>> \in Seq(Critiques) /\ <<>> \in Results
    BY EmptySeq, ResultTypes
  <1>2. Fresh \in States
    BY <1>1, LimitsAssumption DEF Fresh, States, NoPlan, Found
  <1>3. TypeOK
    BY <1>1, <1>2, LimitsAssumption DEF Init, TypeOK, States, NoOutcome, Configs
  <1>4. Placed /\ FinishedWasAccepted /\ FailureIsExplained
    BY DEF Init, Placed, FinishedWasAccepted, FailureIsExplained, NoOutcome
  <1> QED
    BY <1>3, <1>4 DEF Inv

LEMMA NextInv == Inv /\ [Next]_vars => Inv'
  <1> SUFFICES ASSUME Inv, [Next]_vars PROVE Inv'
    OBVIOUS
  <1>1. CASE Reply
    BY <1>1, ReplyFailsInv, ReplyPlanInv, ReplyCritiqueInv DEF Reply
  <1>2. CASE Plan \/ Ask \/ Retrieve \/ RetrieveRaises \/ FinalizeRaises
    BY <1>2, PlanInv, AskInv, RetrieveInv, EscapeInv DEF RetrieveRaises, FinalizeRaises
  <1>3. ASSUME NEW refused, Execute(refused) PROVE Inv'
    BY <1>3, ExecuteInv
  <1>4. CASE Critique \/ Revise \/ Finalize
    BY <1>4, CritiqueInv, ReviseInv, FinalizeInv
  <1>5. CASE Crash
    BY <1>5, EscapeInv DEF Crash
  <1>6. ASSUME NEW kept \in BOOLEAN, NEW c \in Configs, Start(kept, c) PROVE Inv'
    BY <1>6, StartInv
  <1>7. CASE UNCHANGED vars
    BY <1>7 DEF vars, Inv, TypeOK, Placed, Clean, Counted, AsksModel, FinishedWasAccepted,
                FailureIsExplained
  <1> QED
    BY <1>1, <1>2, <1>3, <1>4, <1>5, <1>6, <1>7 DEF Next, Step

LEMMA InvHolds == Spec => []Inv
  BY InitInv, NextInv, PTL DEF Spec

\* The state keeps its type: never more revisions than allowed, nor repairs.
THEOREM GraphTypeCorrect == Spec => []TypeOK
  <1>1. Inv => TypeOK
    BY DEF Inv
  <1> QED
    BY <1>1, InvHolds, PTL

\* A finished strategy is one execution's: planned, executed once, criticised
\* until it passed, whatever the thread kept of the executions before.
THEOREM FinishedStrategiesWereAccepted == Spec => []FinishedWasAccepted
  <1>1. Inv => FinishedWasAccepted
    BY DEF Inv
  <1> QED
    BY <1>1, InvHolds, PTL

\* A failure tells what succeeded, what failed and where.
THEOREM FailuresAreExplained == Spec => []FailureIsExplained
  <1>1. Inv => FailureIsExplained
    BY DEF Inv
  <1> QED
    BY <1>1, InvHolds, PTL

-----------------------------------------------------------------------------
(* What ExecutionEnds stands on: every step of an execution leaves fewer    *)
(* nodes before it, or the same node with fewer attempts at the model.      *)

\* The nodes that an execution may still enter, and the one it is in.
NodesLeft ==
    LET rounds == 2 * (MaxRevisions - state.revision_count)
    IN CASE node = "planner"       -> 2 * MaxRevisions + 5
         [] node = "retriever"     -> 2 * MaxRevisions + 4
         [] node = "tool_executor" -> 2 * MaxRevisions + 3
         [] node = "critic"        -> rounds + 2
         [] node = "revision"      -> rounds + 1
         [] node = "finalizer"     -> 1
         [] OTHER                  -> 0

\* The replies that the node may still wait for, and the first question.
AttemptsLeft ==
    CASE call = NoCall        -> MaxRepairs + 3
      [] call.mode = "native" -> MaxRepairs + 2
      [] OTHER                -> call.repairs + 1

LeftIsBounded ==
    /\ NodesLeft \in 0 .. 2 * MaxRevisions + 5
    /\ AttemptsLeft \in 1 .. MaxRepairs + 3

LEMMA BoundsHold == Inv => LeftIsBounded
  <1> SUFFICES ASSUME Inv PROVE LeftIsBounded
    OBVIOUS
  <1>1. MaxRevisions \in Nat /\ MaxRepairs \in Nat
    BY LimitsAssumption
  <1>2. NodesLeft \in 0 .. 2 * MaxRevisions + 5
    <2>1. state.revision_count \in 0 .. MaxRevisions
      BY DEF Inv, TypeOK
    <2> QED
      BY <1>1, <2>1 DEF NodesLeft
  <1>3. AttemptsLeft \in 1 .. MaxRepairs + 3
    <2>1. call = NoCall \/ call.repairs \in 0 .. MaxRepairs
      BY DEF Inv, TypeOK
    <2> QED
      BY <1>1, <2>1 DEF AttemptsLeft
  <1> QED
    BY <1>2, <1>3 DEF LeftIsBounded

Advances ==
    \/ NodesLeft' < NodesLeft
    \/ NodesLeft' = NodesLeft /\ AttemptsLeft' < AttemptsLeft

\* An execution that ends has no node left.
LEMMA EndAdvances ==
    ASSUME Inv, node # "idle", node' = "idle"
    PROVE  Advances
  <1>1. MaxRevisions \in Nat /\ state.revision_count \in 0 .. MaxRevisions
    BY LimitsAssumption DEF Inv, TypeOK
  <1>2. NodesLeft >= 1 /\ NodesLeft \in Nat
    <2>1. node \in Nodes
      BY DEF Inv, TypeOK
    <2> QED
      BY <1>1, <2>1 DEF Nodes, NodesLeft
  <1>3. NodesLeft' = 0
    BY DEF NodesLeft
  <1> QED
    BY <1>2, <1>3 DEF Advances

\* Asking again costs an attempt, or ends the execution.
LEMMA AskingAdvances ==
    ASSUME Inv, node # "idle",
           \/ Ask \/ ReplyInvalid \/ ReplyBroken \/ ReplyUnsupported \/ ReplyError
    PROVE  Advances
  <1>1. \/ call = NoCall
        \/ /\ call.mode \in {"native", "prompt", "repair"} /\ call.repairs \in 0 .. MaxRepairs
           /\ call # NoCall
    BY DEF Inv, TypeOK
  <1>2. MaxRepairs \in Nat /\ NodesLeft \in Nat
    BY BoundsHold, LimitsAssumption DEF LeftIsBounded
  <1>3. ASSUME UNCHANGED <<node, state>>, AttemptsLeft' < AttemptsLeft
        PROVE  Advances
    <2>1. NodesLeft' = NodesLeft
      BY <1>3 DEF NodesLeft
    <2> QED
      BY <1>3, <2>1 DEF Advances
  <1>4. \A status, path, results : Raise(status, path, results) => Advances
    BY EndAdvances DEF Raise, Ends
  <1>5. \A code : RaiseModel(code) => Advances
    BY <1>4 DEF RaiseModel, RaiseFailure
  <1>6. CASE Ask
    <2>1. UNCHANGED <<node, state>> /\ call = NoCall
      BY <1>6 DEF Ask
    <2>2. call'.mode = "native" /\ call' # NoCall
      BY <1>6 DEF Ask, NoCall
    <2>3. AttemptsLeft = MaxRepairs + 3 /\ AttemptsLeft' = MaxRepairs + 2
      BY <2>1, <2>2 DEF AttemptsLeft, NoCall
    <2> QED
      BY <1>2, <1>3, <2>1, <2>3
  <1>7. ASSUME NEW content \in BOOLEAN, call # NoCall, TryAgain(content)
        PROVE  Advances
    <2>1. CASE /\ call.mode = "native"
               /\ call' = [call EXCEPT !.mode = "prompt", !.content = content]
               /\ UNCHANGED <<node, state>>
      <3>1. call'.mode = "prompt" /\ call' # NoCall /\ call'.repairs \in 0 .. MaxRepairs
        BY <1>1, <1>7, <2>1 DEF NoCall, Inv, TypeOK
      <3>2. AttemptsLeft' = call'.repairs + 1 /\ AttemptsLeft = MaxRepairs + 2
        BY <1>7, <2>1, <3>1 DEF AttemptsLeft
      <3> QED
        BY <1>2, <1>3, <2>1, <3>1, <3>2
    <2>2. CASE /\ call.mode # "native" /\ call.repairs > 0
               /\ call' = [mode |-> "repair", repairs |-> call.repairs - 1,
                           content |-> call.mode = "repair"]
               /\ UNCHANGED <<node, state>>
      <3>1. call'.mode = "repair" /\ call' # NoCall /\ call'.repairs = call.repairs - 1
        BY <2>2 DEF NoCall
      <3>2. AttemptsLeft' = call'.repairs + 1 /\ AttemptsLeft = call.repairs + 1
        BY <1>7, <2>2, <3>1 DEF AttemptsLeft
      <3> QED
        BY <1>1, <1>3, <1>7, <2>2, <3>1, <3>2
    <2>3. CASE RaiseModel("STRUCTURED_OUTPUT_VALIDATION_ERROR")
      BY <1>5, <2>3
    <2> QED
      BY <1>7, <2>1, <2>2, <2>3 DEF TryAgain
  <1>8. CASE ReplyInvalid
    BY <1>7, <1>8 DEF ReplyInvalid
  <1>9. CASE ReplyBroken
    <2>1. call # NoCall => call.content \in BOOLEAN
      BY DEF Inv, TypeOK
    <2> QED
      BY <1>4, <1>7, <1>9, <2>1 DEF ReplyBroken
  <1>10. CASE ReplyUnsupported
    <2>1. call.mode = "native" => call # NoCall
      BY DEF NoCall
    <2>2. CASE call.mode = "native" /\ TryAgain(FALSE)
      BY <1>7, <2>1, <2>2
    <2>3. CASE RaiseModel("MODEL_GATEWAY_HTTP_ERROR")
      BY <1>5, <2>3
    <2> QED
      BY <1>10, <2>2, <2>3 DEF ReplyUnsupported
  <1>11. CASE ReplyError
    BY <1>5, <1>11 DEF ReplyError
  <1> QED
    BY <1>6, <1>8, <1>9, <1>10, <1>11

\* A node that goes on leaves fewer nodes: each revision is counted.
LEMMA NodesAdvance ==
    ASSUME Inv, Inv', node # "idle",
           \/ Plan \/ Retrieve \/ Critique \/ Revise
           \/ \E plan \in ModelPlans : ReplyPlan(plan)
           \/ \E critique \in Critiques : ReplyCritique(critique)
           \/ \E refused : Execute(refused)
    PROVE  Advances
  <1>1. /\ MaxRevisions \in Nat /\ state.revision_count \in 0 .. MaxRevisions
        /\ state'.revision_count \in 0 .. MaxRevisions
    BY LimitsAssumption DEF Inv, TypeOK
  <1>2. ASSUME NEW plan, Adopt(plan), node = "planner" PROVE Advances
    BY <1>1, <1>2 DEF Adopt, Goto, NodesLeft, Advances
  <1>3. CASE Plan
    BY <1>2, <1>3 DEF Plan
  <1>4. ASSUME NEW plan \in ModelPlans, ReplyPlan(plan) PROVE Advances
    <2>1. ASSUME NEW code, RaiseModel(code) PROVE Advances
      BY <2>1, EndAdvances DEF RaiseModel, RaiseFailure, Raise, Ends
    <2> QED
      BY <1>2, <1>4, <2>1 DEF ReplyPlan
  <1>5. CASE Retrieve
    <2>1. node = "retriever" /\ node' = "tool_executor"
      BY <1>5 DEF Retrieve, Goto
    <2> QED
      BY <1>1, <2>1 DEF NodesLeft, Advances
  <1>6. ASSUME NEW refused, Execute(refused) PROVE Advances
    <2>1. CASE node = "tool_executor" /\ Goto("critic")
      BY <1>1, <2>1 DEF Goto, NodesLeft, Advances
    <2>2. ASSUME NEW results, NEW failure, RaiseFailure(results, failure) PROVE Advances
      BY <2>2, EndAdvances DEF RaiseFailure, Raise, Ends
    <2> QED
      BY <1>6, <2>1, <2>2 DEF Execute
  <1>7. ASSUME NEW critique, NEW revise \in BOOLEAN, node = "critic", Decide(critique, revise)
        PROVE  Advances
    <2>1. state'.revision_count = state.revision_count
      BY <1>7 DEF Decide, Inv, TypeOK
    <2>2. node' = IF revise THEN "revision" ELSE "finalizer"
      BY <1>7 DEF Decide, Goto
    <2> QED
      BY <1>1, <1>7, <2>1, <2>2 DEF NodesLeft, Advances
  <1>8. CASE Critique
    BY <1>7, <1>8 DEF Critique
  <1>9. ASSUME NEW critique \in Critiques, ReplyCritique(critique) PROVE Advances
    <2>1. ASSUME NEW code, RaiseModel(code) PROVE Advances
      BY <2>1, EndAdvances DEF RaiseModel, RaiseFailure, Raise, Ends
    <2> QED
      BY <1>7, <1>9, <2>1 DEF ReplyCritique
  <1>10. CASE Revise
    <2>1. /\ node = "revision" /\ node' = "critic"
          /\ state'.revision_count = state.revision_count + 1
      BY <1>10 DEF Revise, Goto, Inv, TypeOK
    <2> QED
      BY <1>1, <2>1 DEF NodesLeft, Advances
  <1> QED
    BY <1>3, <1>4, <1>5, <1>6, <1>8, <1>9, <1>10

\* Every step of an execution brings it nearer to its end, whatever the model
\* replies, the tools refuse and the thread kept of other executions: it has at
\* most 2 * MaxRevisions + 5 nodes, and MaxRepairs + 3 steps in each.
ExecutionsAdvance == [][node # "idle" => Advances]_vars

\* The routes of the graph, its revision loop and the repairs of a structured output
\* cannot make an execution go on for ever: what is left is bounded, and each step
\* uses some of it up.
THEOREM NoExecutionLoops == Spec => []LeftIsBounded /\ ExecutionsAdvance
  <1>1. ASSUME Inv, Inv', Next, node # "idle" PROVE Advances
    <2>1. CASE Reply
      BY <1>1, <2>1, AskingAdvances, NodesAdvance DEF Reply
    <2>2. CASE Plan \/ Ask \/ Retrieve \/ Critique \/ Revise \/ \E refused : Execute(refused)
      BY <1>1, <2>2, AskingAdvances, NodesAdvance
    <2>3. CASE RetrieveRaises \/ Finalize \/ FinalizeRaises \/ Crash
      BY <1>1, <2>3, EndAdvances
         DEF RetrieveRaises, Finalize, FinalizeRaises, Crash, Raise, Ends
    <2>4. CASE \E kept \in BOOLEAN, c \in Configs : Start(kept, c)
      BY <1>1, <2>4 DEF Start
    <2> QED
      BY <1>1, <2>1, <2>2, <2>3, <2>4 DEF Next, Step
  <1>2. Inv /\ Inv' /\ [Next]_vars => [node # "idle" => Advances]_vars
    BY <1>1
  <1> QED
    BY <1>2, BoundsHold, InvHolds, PTL DEF Spec, ExecutionsAdvance

\* optimize_budget: seventy and twenty per cent, each rounded, never leave less
\* than nothing for creative tests: no budget is refused for its split.
THEOREM SplitIsPayable == \A total \in Nat : CreativeTests(total) >= 0
  BY DEF CreativeTests, Prospecting, Retargeting, Quantized
=============================================================================
