---------------------------- MODULE MCAgentTurn ----------------------------
(* Turns of one session on a small instance: a history of a few entries    *)
(* is trimmed and summarised within the turns that are begun.  Beside it,  *)
(* what the gateway keeps around the turns: the window a message passes,   *)
(* the registry that aborts a turn, the loop that begins one, and the      *)
(* payments its tools make.  They share no state; a behaviour follows one  *)
(* of them, the others stay as they begin.                                 *)
EXTENDS AgentTurn, RateWindow, AbortRegistry, LoopScheduler, Payments

VARIABLE part

Parts == {"turn", "rate", "abort", "loop", "payment"}

MCInit ==
    /\ part \in Parts
    /\ Init /\ RateInit /\ AbortInit /\ LoopInit /\ PaymentInit

Parked ==
    /\ part # "turn" => UNCHANGED vars
    /\ part # "rate" => UNCHANGED rateVars
    /\ part # "abort" => UNCHANGED abortVars
    /\ part # "loop" => UNCHANGED loopVars
    /\ part # "payment" => UNCHANGED paymentVars

MCNext ==
    /\ UNCHANGED part
    /\ Parked
    /\ \/ part = "turn" /\ Next
       \/ part = "rate" /\ RateNext
       \/ part = "abort" /\ AbortNext
       \/ part = "loop" /\ LoopNext
       \/ part = "payment" /\ PaymentNext

MCSpec ==
    /\ MCInit /\ [][MCNext]_<<part, vars, rateVars, abortVars, loopVars, paymentVars>>
    /\ Fairness
=============================================================================
