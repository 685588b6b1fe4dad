----------------------------- MODULE ToolBatch -----------------------------
(***************************************************************************)
(* openclaw/agent/tool_executor.go and agent_runtime.go: one batch of tool *)
(* calls.  ExecuteToolCallsParallel starts a goroutine per call and waits  *)
(* for all of them, ExecuteToolCallsSequential makes one call after the    *)
(* other; each call goes through OpenClawToolExecutor.Execute, with its    *)
(* checks, the question to a reviewer, and the tool itself.                *)
(*                                                                         *)
(* Governance, hooks, the plan check, the reviewer and the tool answer     *)
(* anything the code tells apart.  A call that ends without an error has a *)
(* result, "blocked", "failed" or "completed".                             *)
(***************************************************************************)
EXTENDS Naturals

CONSTANTS
    MaxCalls,             \* bound: calls in a batch
    ToolKinds,            \* what the checks know of a tool, see ToolKind
    RequireToolApproval   \* o.requireToolApproval

\* goal: update_goal.  aware: SupportsActionAwareApproval.  mutates,
\* described: IsMutation and RequiresApproval of the action's descriptor.
\* listed: in approvalRequiredTools.  explicit: named by the list of the
\* configuration (explicitlyConfiguredApproval) or of the preset.
ToolKind == [goal : BOOLEAN, aware : BOOLEAN, mutates : BOOLEAN, described : BOOLEAN,
             listed : BOOLEAN, explicit : BOOLEAN]

ASSUME ToolBatchAssumption ==
    /\ MaxCalls \in Nat \ {0}
    /\ ToolKinds \subseteq ToolKind
    /\ RequireToolApproval \in BOOLEAN

VARIABLES
    calls,      \* the tools called, in order
    parallel,   \* which of the two functions runs the batch
    reviewer,   \* whether there is an approvalCallback
    stage,      \* how far each call is
    callCtx,    \* the context of the batch: "live", "cancelled" or "expired"
    batch       \* "running", then "done" or "failed"

toolVars == <<calls, parallel, reviewer, stage, callCtx, batch>>

Call == DOMAIN calls

HasResult == {"blocked", "failed", "completed"}

ToolInit ==
    /\ \E n \in 0..MaxCalls : calls \in [1..n -> ToolKinds]
    /\ parallel \in BOOLEAN
    /\ parallel => Call \notin {{}, {1}}
    /\ reviewer \in BOOLEAN
    /\ stage = [c \in Call |-> "waiting"]
    /\ callCtx = "live"
    /\ batch = IF Call = {} THEN "done" ELSE "running"

\* innerApproval of Execute.  The lists count for action-aware tools only, and
\* only for those that neither the configuration nor the preset names.
InnerApproval(t) ==
    /\ RequireToolApproval
    /\ t.aware
    /\ \/ t.mutates \/ t.described
       \/ t.listed /\ ~t.explicit

\* requiresApproval, from what governance and the plan check say.
NeedsApproval(t, governance, plan) ==
    \/ "approval" \in {governance, plan}
    \/ t.described
    \/ InnerApproval(t)

Move(c, s) == stage' = [stage EXCEPT ![c] = s]
-----------------------------------------------------------------------------
\* A goroutine starts, unless its context has ended; in the sequential form
\* the calls before it have their results.
Begin(c) ==
    /\ batch = "running"
    /\ stage[c] = "waiting"
    /\ IF parallel THEN callCtx = "live" ELSE \A d \in 1..c - 1 : stage[d] \in HasResult
    /\ Move(c, "checks")
    /\ UNCHANGED <<calls, parallel, reviewer, callCtx, batch>>

\* Mutated form: a goroutine that finds its context ended just returns.
SkipForgotten(c) ==
    /\ parallel
    /\ stage[c] = "waiting"
    /\ callCtx # "live"
    /\ UNCHANGED toolVars

Skip(c) ==
    /\ parallel
    /\ stage[c] = "waiting"
    /\ callCtx # "live"
    /\ Move(c, "error")
    /\ UNCHANGED <<calls, parallel, reviewer, callCtx, batch>>

\* Mutated form: the siblings are not told of the error.
CallErrsAlone(c) ==
    /\ Move(c, "error")
    /\ UNCHANGED <<calls, parallel, reviewer, callCtx, batch>>

\* A call ends with an error; the parallel form cancels the siblings.
CallErrs(c) ==
    /\ Move(c, "error")
    /\ callCtx' = IF parallel /\ callCtx = "live" THEN "cancelled" ELSE callCtx
    /\ UNCHANGED <<calls, parallel, reviewer, batch>>

\* update_goal with other calls, an unknown or disabled tool, a preset,
\* governance, a hook or the plan check refuses the call.
Block(c) ==
    /\ stage[c] = "checks"
    /\ Move(c, "blocked")
    /\ UNCHANGED <<calls, parallel, reviewer, callCtx, batch>>

\* Governance or the plan check fails, with the context's error or its own.
ServiceFails(c) ==
    /\ stage[c] = "checks"
    /\ ~(calls[c].goal /\ Call # {1})
    /\ CallErrs(c)

\* Nothing refuses the call: it is asked about, denied for want of a
\* reviewer, or goes ahead.
PassChecks(c) ==
    /\ stage[c] = "checks"
    /\ ~(calls[c].goal /\ Call # {1})
    /\ \E governance \in {"allow", "approval"}, plan \in {"proceed", "approval"} :
          Move(c, IF NeedsApproval(calls[c], governance, plan)
                  THEN IF reviewer THEN "asked" ELSE "blocked"
                  ELSE "running")
    /\ UNCHANGED <<calls, parallel, reviewer, callCtx, batch>>

\* The reviewer approves; the call is blocked all the same when the
\* descriptor of the action has changed meanwhile.
Approve(c) ==
    /\ stage[c] = "asked"
    /\ Move(c, "running") \/ Move(c, "blocked")
    /\ UNCHANGED <<calls, parallel, reviewer, callCtx, batch>>

Refuse(c) ==
    /\ stage[c] = "asked"
    /\ Move(c, "blocked")
    /\ UNCHANGED <<calls, parallel, reviewer, callCtx, batch>>

\* The tool returns, with what it was asked for or with an error (its own or
\* that of a deadline) that becomes a result.
RunTool(c) ==
    /\ stage[c] = "running"
    /\ \/ Move(c, "completed")
       \/ Move(c, "failed")
       \/ Move(c, "blocked")
    /\ UNCHANGED <<calls, parallel, reviewer, callCtx, batch>>

\* The tool returns an error and the context is found cancelled.
RunCut(c) ==
    /\ stage[c] = "running"
    /\ callCtx = "cancelled"
    /\ CallErrs(c)

CallStep(c) ==
    \/ Begin(c) \/ Skip(c) \/ Block(c) \/ ServiceFails(c) \/ PassChecks(c)
    \/ Approve(c) \/ Refuse(c) \/ RunTool(c) \/ RunCut(c)

\* Mutated form: the first error is returned without waiting for the others.
CollectAtFirstError ==
    /\ batch = "running"
    /\ \/ /\ \A c \in Call : stage[c] \in HasResult
          /\ batch' = "done"
       \/ /\ \E c \in Call : stage[c] = "error"
          /\ batch' = "failed"
    /\ UNCHANGED <<calls, parallel, reviewer, stage, callCtx>>

\* wg.Wait and the collection of the results, or the end of the loop.
Collect ==
    /\ batch = "running"
    /\ \/ /\ \A c \in Call : stage[c] \in HasResult
          /\ batch' = "done"
       \/ /\ \E c \in Call : stage[c] = "error"
          /\ parallel => \A c \in Call : stage[c] \in HasResult \cup {"error"}
          /\ batch' = "failed"
    /\ UNCHANGED <<calls, parallel, reviewer, stage, callCtx>>

\* The turn is cancelled, or its deadline passes.
BatchCtxEnds ==
    /\ batch = "running"
    /\ callCtx = "live"
    /\ callCtx' \in {"cancelled", "expired"}
    /\ UNCHANGED <<calls, parallel, reviewer, stage, batch>>

ToolNext == (\E c \in Call : CallStep(c)) \/ Collect \/ BatchCtxEnds

ToolSpec == ToolInit /\ [][ToolNext]_toolVars

\* Goroutines run on, tools end or notice their timeout, and reviewers answer
\* or time out (WaitForDecisionOutcome).
ToolFairness ==
    /\ \A c \in 1..MaxCalls : WF_toolVars(c \in Call /\ CallStep(c))
    /\ WF_toolVars(Collect)
-----------------------------------------------------------------------------
ToolTypeOK ==
    /\ DOMAIN calls \in {1..n : n \in 0..MaxCalls}
    /\ \A c \in Call : calls[c] \in ToolKinds
    /\ parallel \in BOOLEAN /\ reviewer \in BOOLEAN
    /\ stage \in [Call -> HasResult \cup {"waiting", "checks", "asked", "running", "error"}]
    /\ callCtx \in {"live", "cancelled", "expired"}
    /\ batch \in {"running", "done", "failed"}

\* A batch that is reported done has a result for every call; one that is
\* reported failed leaves no tool running that could still change something
\* (wg.Wait), although the results of the other calls are thrown away.
NothingRunsOn ==
    batch # "running" => \A c \in Call : stage[c] \notin {"checks", "asked", "running"}

\* Once a call has ended with an error, the calls that have not begun never
\* run: the parallel form cancels its context before it records the error,
\* whichever sibling fails and however the goroutines are scheduled, and the
\* sequential form returns.  Their tools would act after the batch has failed,
\* with results that nobody collects.
StopsAtError ==
    [][\A c \in Call :
        stage[c] = "waiting" /\ (\E d \in Call : stage[d] = "error")
            => stage'[c] \in {"waiting", "error"}]_toolVars

\* The turn gets its answer: no call is left out and none is waited for in vain.
BatchReturns == batch = "running" ~> batch # "running"
=============================================================================
