----------------------------- MODULE MCNamedLock -----------------------------
(* Two structures that count their users: the named locks and the           *)
(* notification handlers.  A gate per goroutine is enough: a live gate has  *)
(* a user.  They share no state; a behaviour follows one of them, the other *)
(* stays as it begins.                                                      *)
EXTENDS NamedLock, McpNotifications

VARIABLE part

MCInit ==
    /\ part \in {"lock", "notify"}
    /\ Init /\ NotifyInit
    /\ part # "lock" => key = [p \in Proc |-> CHOOSE k \in Key : TRUE]

MCNext ==
    /\ UNCHANGED part
    /\ \/ part = "lock" /\ Next /\ UNCHANGED notifyVars
       \/ part = "notify" /\ NotifyNext /\ UNCHANGED vars

\* The part that is not followed has nothing to be fair to.
MCSpec == MCInit /\ [][MCNext]_<<part, vars, notifyVars>> /\ Fairness /\ NotifyFairness
=============================================================================
