--------------------------- MODULE MCCronScheduler ---------------------------
(* The two ends of the gateway that start work by themselves: the scheduler, *)
(* with a job that has a name and one without, and the client of a live      *)
(* session.  They share no state; a behaviour follows one of them, the other *)
(* stays as it begins.                                                       *)
EXTENDS CronScheduler, LiveClient

VARIABLE part

Jobs == {"report", "untitled"}
Markers == {"report", "unnamed"}
Names == [j \in Jobs |-> IF j = "report" THEN j ELSE "unnamed"]

MCInit == part \in {"cron", "live"} /\ Init /\ LiveInit

MCNext ==
    /\ UNCHANGED part
    /\ \/ part = "cron" /\ Next /\ UNCHANGED liveVars
       \/ part = "live" /\ LiveNext /\ UNCHANGED vars

\* The part that is not followed has nothing to be fair to, but the ticks and
\* the age of markers of a scheduler that is.
MCSpec ==
    /\ MCInit /\ [][MCNext]_<<part, vars, liveVars>>
    /\ part = "cron" => Fairness
    /\ LiveFairness
=============================================================================
