----------------------------- MODULE GraphWorkflow -----------------------------
(***************************************************************************)
(* One run of the strategy workflow: a graph of nodes that plan, retrieve,  *)
(* execute tools, criticise, revise and finalize.                           *)
(*                                                                          *)
(*   graph.py               the nodes and the routes between them           *)
(*   llm.py                 generate_structured_output                      *)
(*   tools.py               ToolRegistry.execute, the five planned tools    *)
(*   graph_checkpointer.py  the thread of a run                             *)
(*                                                                          *)
(* A node returns an update of the graph's state, or raises and leaves it.  *)
(* The planner and the critic are deterministic or ask a model, as each     *)
(* execution is configured.  A run is executed again when it is resumed or  *)
(* its job is retried; with a Postgres checkpointer it then starts from the *)
(* state its last execution left.  StrategyRuns models when that happens    *)
(* and what is recorded; the texts of prompts and plans are left out.       *)
(***************************************************************************)
EXTENDS Money, Sequences, FiniteSets

CONSTANTS
    Briefs,         \* [budget, days]
    ModelPlans,     \* what a model may plan: [tools, budget, days]
    Critiques,      \* what a model may find: [passed, score]
    MinScore,       \* llm_critic_min_score
    MaxRevisions,   \* max_revision_attempts
    MaxRepairs,     \* llm_structured_output_max_repair_attempts
    MaxExecutions   \* bound: executions of the run

\* What contracts.py accepts of a brief, a plan and a critique.
ASSUME InputsAssumption ==
    /\ Briefs \subseteq [budget : Nat \ {0}, days : Nat \ {0}]
    /\ ModelPlans \subseteq [tools : Seq(STRING), budget : Nat \ {0}, days : Nat \ {0}]
    /\ Critiques \subseteq [passed : BOOLEAN, score : Nat]

ASSUME LimitsAssumption == {MinScore, MaxRevisions, MaxRepairs, MaxExecutions} \subseteq Nat

VARIABLES
    brief,
    config,         \* does the planner, does the critic ask a model
    node,           \* the node that runs, or "idle"
    state,          \* GrowthStrategyState, as the last node left it
    call,           \* a structured output that is being asked for
    outcome,        \* how the last execution ended, and what it told
    executions

vars == <<brief, config, node, state, call, outcome, executions>>

InitialTools == <<"recommend_audience", "generate_creative_brief", "optimize_budget">>

Tools == <<InitialTools[1], InitialTools[2], InitialTools[3],
           "estimate_performance", "create_campaign_draft">>

NoPlan == [tools |-> <<>>, budget |-> 0, days |-> 0]

NoCritique == [passed |-> FALSE, score |-> 0]

Fresh == [path |-> <<>>, plan |-> NoPlan, results |-> <<>>, critique |-> NoCritique,
          requires_revision |-> FALSE, revision_count |-> 0, notes |-> <<>>]

NoCall == [mode |-> "none", repairs |-> 0, content |-> FALSE]

NoOutcome == [status |-> "none", path |-> <<>>, results |-> <<>>]

Path == Append(state.path, node)

-----------------------------------------------------------------------------
(* How an execution ends.                                                   *)

Ends(status, path, results) ==
    /\ node' = "idle"
    /\ outcome' = [status |-> status, path |-> path, results |-> results]
    /\ call' = NoCall
    /\ UNCHANGED <<brief, config, executions>>

\* An exception: the state is as the last node left it.
Raise(status, path, results) == Ends(status, path, results) /\ UNCHANGED state

Ok(tool) == [tool |-> tool, code |-> "ok"]

Failure(tool, code) == [tool |-> tool, code |-> code]

\* StrategyGenerationError: the results so far, and the one that failed.
RaiseFailure(results, failure) == Raise("failed", Path, Append(results, failure))

\* The planner's failure stands alone, whatever an execution before it left.
RaiseModel(code) ==
    IF node = "planner" THEN RaiseFailure(<<>>, Failure("llm_planner", code))
    ELSE RaiseFailure(state.results, Failure("llm_critic", code))

Goto(n) ==
    /\ node' = n
    /\ call' = NoCall
    /\ UNCHANGED <<brief, config, outcome, executions>>

-----------------------------------------------------------------------------
(* A structured output: native schema, then a prompt, then repairs.         *)

AsksModel ==
    \/ node = "planner" /\ config.llm_planner
    \/ node = "critic" /\ config.llm_critic

Ask ==
    /\ AsksModel /\ call = NoCall
    /\ call' = [mode |-> "native", repairs |-> MaxRepairs, content |-> FALSE]
    /\ UNCHANGED <<brief, config, node, state, outcome, executions>>

\* Faulty: the repairs are counted anew for every reply.
TryAgainAnew(content) ==
    /\ call' = [call EXCEPT !.mode = IF @ = "native" THEN "prompt" ELSE "repair", !.content = content,
                            !.repairs = IF @ = 0 THEN MaxRepairs ELSE @ - 1]
    /\ UNCHANGED <<brief, config, node, state, outcome, executions>>

\* Faulty: one repair more than allowed.
TryAgainOnceMore(content) ==
    \/ /\ call.mode = "native"
       /\ call' = [call EXCEPT !.mode = "prompt", !.content = content]
       /\ UNCHANGED <<brief, config, node, state, outcome, executions>>
    \/ /\ call.mode # "native" /\ call.repairs >= 0
       /\ call' = [call EXCEPT !.mode = "repair", !.repairs = @ - 1]
       /\ UNCHANGED <<brief, config, node, state, outcome, executions>>

\* What to ask after an attempt that did not validate; content tells whether
\* this mode has received any.
TryAgain(content) ==
    \/ /\ call.mode = "native"
       /\ call' = [call EXCEPT !.mode = "prompt", !.content = content]
       /\ UNCHANGED <<brief, config, node, state, outcome, executions>>
    \/ /\ call.mode # "native" /\ call.repairs > 0
       /\ call' = [mode |-> "repair", repairs |-> call.repairs - 1,
                   content |-> call.mode = "repair"]
       /\ UNCHANGED <<brief, config, node, state, outcome, executions>>
    \/ /\ call.mode # "native" /\ call.repairs = 0
       /\ RaiseModel("STRUCTURED_OUTPUT_VALIDATION_ERROR")

ReplyInvalid == call # NoCall /\ TryAgain(TRUE)

\* A reply that is not JSON is taken for an invalid output.  What to repair is
\* then the content an earlier attempt received, and an unbound variable if none
\* has: an exception that nothing in the workflow catches.
ReplyBroken ==
    /\ call # NoCall
    /\ \/ (call.mode = "native" \/ call.content) /\ TryAgain(call.content)
       \/ /\ call.mode # "native" /\ ~call.content
          /\ Raise("escaped", <<>>, <<>>)

\* 400, 404 or 422: the provider does not know the native schema.
ReplyUnsupported ==
    \/ call.mode = "native" /\ TryAgain(FALSE)
    \/ call.mode \in {"prompt", "repair"} /\ RaiseModel("MODEL_GATEWAY_HTTP_ERROR")

ReplyError == call # NoCall /\ RaiseModel("MODEL_GATEWAY_ERROR")

-----------------------------------------------------------------------------
(* The planner and the retriever.                                           *)

\* Faulty: the count of revisions stays.
AdoptAndKeepCount(plan) ==
    /\ state' = [Fresh EXCEPT !.path = Path, !.plan = plan, !.critique = state.critique,
                              !.revision_count = state.revision_count]
    /\ Goto("retriever")

\* Everything an earlier execution left is reset, except its critique.
Adopt(plan) ==
    /\ state' = [Fresh EXCEPT !.path = Path, !.plan = plan, !.critique = state.critique]
    /\ Goto("retriever")

Plan ==
    /\ node = "planner" /\ ~config.llm_planner
    /\ Adopt([tools |-> InitialTools, budget |-> brief.budget, days |-> brief.days])

\* Neither a tool missing, nor one unexpected, nor one twice.
IsInitialPlan(plan) ==
    /\ Len(plan.tools) = Len(InitialTools)
    /\ {plan.tools[i] : i \in DOMAIN plan.tools} = {InitialTools[i] : i \in DOMAIN InitialTools}

\* The tools' parameters are the model's: nothing compares them to the brief.
ReplyPlan(plan) ==
    /\ node = "planner" /\ call # NoCall
    /\ \/ IsInitialPlan(plan) /\ Adopt([plan EXCEPT !.tools = InitialTools])
       \/ ~IsInitialPlan(plan) /\ RaiseModel("LLM_PLANNER_INVALID_TOOL_PLAN")

Retrieve ==
    /\ node = "retriever"
    /\ state' = [state EXCEPT !.path = Path]
    /\ Goto("tool_executor")

\* The knowledge store raises, which nothing in the workflow catches.
RetrieveRaises == node = "retriever" /\ Raise("escaped", <<>>, <<>>)

-----------------------------------------------------------------------------
(* The tool executor.                                                       *)

Prospecting(total) == Quantized(7 * total, 10)

Retargeting(total) == Quantized(2 * total, 10)

CreativeTests(total) == total - Prospecting(total) - Retargeting(total)

\* No allocation below zero, and a daily budget above.
Splits(total, days) == CreativeTests(total) >= 0 /\ Quantized(total, days) > 0

\* The result of a tool, refused being the tools that find their parameters
\* invalid.  A handler's ValidationError is an exception like any other.
Result(tool, plan, refused) ==
    CASE tool \in refused -> Failure(tool, "VALIDATION_ERROR")
      [] tool = "optimize_budget" /\ ~Splits(plan.budget, plan.days) ->
            Failure(tool, "TOOL_FAILURE")
      [] tool = "create_campaign_draft" /\ Quantized(plan.budget, brief.days) = 0 ->
            Failure(tool, "TOOL_FAILURE")
      [] OTHER -> Ok(tool)

\* In order, up to the first that fails.
Execute(refused) ==
    LET results == [i \in DOMAIN Tools |-> Result(Tools[i], state.plan, refused)]
        failed  == {i \in DOMAIN Tools : results[i] # Ok(Tools[i])}
    IN /\ node = "tool_executor"
       /\ \/ /\ failed = {}
             /\ state' = [state EXCEPT !.path = Path, !.results = @ \o results]
             /\ Goto("critic")
          \/ \E i \in failed :
                /\ \A j \in failed : i <= j
                /\ RaiseFailure(state.results \o SubSeq(results, 1, i - 1), results[i])

-----------------------------------------------------------------------------
(* The critic, the revision and the finalizer.                              *)

Decide(critique, revise) ==
    /\ state' = [state EXCEPT !.path = Path, !.critique = critique, !.requires_revision = revise]
    /\ Goto(IF revise THEN "revision" ELSE "finalizer")

Critique ==
    /\ node = "critic" /\ ~config.llm_critic
    /\ Decide([passed |-> TRUE, score |-> 8], FALSE)

Satisfies(critique) == critique.passed /\ critique.score >= MinScore

\* Faulty: after the last revision the strategy is finalized as it is.
ReplyCritiqueLenient(critique) ==
    /\ node = "critic" /\ call # NoCall
    /\ Decide(critique, ~Satisfies(critique) /\ state.revision_count < MaxRevisions)

ReplyCritique(critique) ==
    /\ node = "critic" /\ call # NoCall
    /\ \/ Satisfies(critique) /\ Decide(critique, FALSE)
       \/ /\ ~Satisfies(critique) /\ state.revision_count < MaxRevisions
          /\ Decide(critique, TRUE)
       \/ /\ ~Satisfies(critique) /\ state.revision_count >= MaxRevisions
          /\ RaiseModel("LLM_CRITIC_REJECTED_STRATEGY")

Revise ==
    /\ node = "revision"
    /\ state' = [state EXCEPT !.path = Path, !.requires_revision = FALSE,
                              !.revision_count = @ + 1, !.notes = Append(@, state.critique)]
    /\ Goto("critic")

Finalize ==
    /\ node = "finalizer"
    /\ state' = [state EXCEPT !.path = Path]
    /\ Ends("finished", Path, state.results)

\* Texts that a valid brief or tool may have, as long names and blank audiences,
\* are refused where the strategy repeats them: nothing catches that either.
FinalizeRaises == node = "finalizer" /\ Raise("escaped", <<>>, <<>>)

-----------------------------------------------------------------------------
(* Executions.                                                              *)

\* The thread's state is kept by a Postgres checkpointer only.
Start(kept, c) ==
    /\ node = "idle" /\ executions < MaxExecutions
    /\ config' = c
    /\ node' = "planner"
    /\ state' = IF kept THEN [state EXCEPT !.path = <<>>] ELSE Fresh
    /\ outcome' = NoOutcome
    /\ executions' = executions + 1
    /\ UNCHANGED <<brief, call>>

Crash == node # "idle" /\ Raise("lost", <<>>, <<>>)

Configs == [llm_planner : BOOLEAN, llm_critic : BOOLEAN]

Init ==
    /\ brief      \in Briefs
    /\ config     = [llm_planner |-> FALSE, llm_critic |-> FALSE]
    /\ node       = "idle"
    /\ state      = Fresh
    /\ call       = NoCall
    /\ outcome    = NoOutcome
    /\ executions = 0

Reply ==
    \/ ReplyInvalid \/ ReplyBroken \/ ReplyUnsupported \/ ReplyError
    \/ \E plan \in ModelPlans : ReplyPlan(plan)
    \/ \E critique \in Critiques : ReplyCritique(critique)

\* A deterministic plan's parameters are those of the brief, which are valid.
Step ==
    \/ Plan \/ Ask \/ Reply \/ Retrieve \/ RetrieveRaises
    \/ \E refused \in IF config.llm_planner THEN SUBSET {InitialTools[i] : i \in 1 .. 3} ELSE {{}} :
          Execute(refused)
    \/ Critique \/ Revise \/ Finalize \/ FinalizeRaises

Next == Step \/ Crash \/ \E kept \in BOOLEAN, c \in Configs : Start(kept, c)

Spec == Init /\ [][Next]_vars

\* Nodes run without waiting for anything but the model, whose client gives up
\* after a minute.  Nothing has to start a run.
FairSpec == Spec /\ WF_vars(Step)

-----------------------------------------------------------------------------
(* Properties.                                                              *)

Nodes == {"planner", "retriever", "tool_executor", "critic", "revision", "finalizer"}

Codes == {"ok", "VALIDATION_ERROR", "TOOL_FAILURE", "MODEL_GATEWAY_ERROR", "MODEL_GATEWAY_HTTP_ERROR",
          "STRUCTURED_OUTPUT_VALIDATION_ERROR", "LLM_PLANNER_INVALID_TOOL_PLAN",
          "LLM_CRITIC_REJECTED_STRATEGY"}

ToolResult ==
    [tool : {Tools[i] : i \in DOMAIN Tools} \cup {"llm_planner", "llm_critic"}, code : Codes]

Results == Seq(ToolResult)

Found == Critiques \cup {NoCritique, [passed |-> TRUE, score |-> 8]}

\* The state, the call and the outcome keep their types: no more revisions than
\* allowed and no more repairs, whatever the thread kept.
TypeOK ==
    /\ brief      \in Briefs
    /\ config     \in Configs
    /\ node       \in Nodes \cup {"idle"}
    /\ state      \in [path : Seq(Nodes), plan : [tools : {<<>>, InitialTools}, budget : Nat, days : Nat],
                       results : Results, critique : Found, requires_revision : BOOLEAN,
                       revision_count : 0 .. MaxRevisions, notes : Seq(Critiques)]
    /\ call       \in {NoCall} \cup [mode : {"native", "prompt", "repair"},
                                     repairs : 0 .. MaxRepairs, content : BOOLEAN]
    /\ outcome    \in [status : {"none", "finished", "failed", "escaped", "lost"},
                       path : Seq(Nodes), results : Results]
    /\ executions \in 0 .. MaxExecutions

\* The first n nodes of every execution.
Walk(n) ==
    [i \in 1 .. n |->
        CASE i = 1 -> "planner" [] i = 2 -> "retriever" [] i = 3 -> "tool_executor"
          [] i > 3 /\ i % 2 = 0 -> "critic" [] OTHER -> "revision"]

AllOk == [i \in DOMAIN Tools |-> Ok(Tools[i])]

\* A finished strategy was planned, executed and criticised by one execution,
\* whatever an earlier one left in the thread: five tools succeeded once each,
\* the last critique passes, every rejected one led to one revision that the
\* strategy records, and what no model planned is the brief's budget.
FinishedWasAccepted ==
    outcome.status = "finished" =>
        LET n == Len(state.notes)
        IN /\ n <= MaxRevisions
           /\ outcome.path = Append(Walk(4 + 2 * n), "finalizer")
           /\ outcome.results = AllOk
           /\ state.critique.passed
           /\ config.llm_critic => Satisfies(state.critique)
           /\ \A i \in 1 .. n : ~Satisfies(state.notes[i])
           /\ ~config.llm_planner => state.plan.budget = brief.budget

\* A failed execution tells the results of the tools in their order, all of them
\* successes but the last, which is of the node the path ends with; it tells a
\* rejection only when every revision has been tried.
FailureIsExplained ==
    outcome.status = "failed" =>
        LET results == outcome.results
            n       == Len(results)
            path    == outcome.path
        IN /\ n >= 1 /\ results[n].code # "ok"
           /\ \A i \in 1 .. n - 1 : results[i] = AllOk[i]
           /\ \/ path = Walk(1) /\ n = 1 /\ results[n].tool = "llm_planner"
              \/ path = Walk(3) /\ n \in DOMAIN Tools /\ results[n].tool = Tools[n]
              \/ /\ n = 6 /\ results[n].tool = "llm_critic"
                 /\ \E k \in 0 .. MaxRevisions :
                       /\ path = Walk(4 + 2 * k)
                       /\ results[n].code = "LLM_CRITIC_REJECTED_STRATEGY" => k = MaxRevisions

\* Every execution ends, whatever the model replies: the loop of critiques, the
\* fallbacks and the repairs are bounded.
ExecutionEnds == node # "idle" ~> node = "idle"
=============================================================================
