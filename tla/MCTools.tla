------------------------------ MODULE MCTools ------------------------------
(* The way of a tool call: the batch it is made in, the approval it waits   *)
(* for, and the bridge to a plugin.  The three keep no state in common; a   *)
(* behaviour follows one of them, the others stay as they begin.            *)
EXTENDS ToolApproval, ToolBatch, PluginBridge, FiniteSets

VARIABLE part

Plain == [goal |-> FALSE, aware |-> FALSE, mutates |-> FALSE, described |-> FALSE,
          listed |-> FALSE, explicit |-> FALSE]

\* update_goal; a mutation of an action-aware tool; an action that asks for
\* approval itself; a mutating tool that is listed but not action-aware; a
\* listed action-aware tool, and one that the configuration names as well.
MCToolKinds ==
    {[Plain EXCEPT !.goal = TRUE],
     [Plain EXCEPT !.aware = TRUE, !.mutates = TRUE],
     [Plain EXCEPT !.described = TRUE],
     [Plain EXCEPT !.mutates = TRUE, !.listed = TRUE],
     [Plain EXCEPT !.aware = TRUE, !.listed = TRUE],
     [Plain EXCEPT !.aware = TRUE, !.listed = TRUE, !.explicit = TRUE]}

MCInit ==
    /\ part \in {"approval", "batch", "bridge"}
    /\ Init
    /\ BridgeInit
    /\ ToolInit
    /\ Cardinality({calls[c] : c \in Call}) <= 2   \* bound: kinds of tools in a batch
    /\ part # "batch" => calls = <<>> /\ ~reviewer

MCNext ==
    /\ UNCHANGED part
    /\ \/ part = "approval" /\ Next /\ UNCHANGED toolVars /\ UNCHANGED bridgeVars
       \/ part = "batch" /\ ToolNext /\ UNCHANGED vars /\ UNCHANGED bridgeVars
       \/ part = "bridge" /\ BridgeNext /\ UNCHANGED vars /\ UNCHANGED toolVars

\* A part that is not followed has nothing to be fair to.
MCSpec ==
    /\ MCInit /\ [][MCNext]_<<part, vars, toolVars, bridgeVars>>
    /\ Fairness /\ ToolFairness /\ BridgeFairness
=============================================================================
