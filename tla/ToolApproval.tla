---------------------------- MODULE ToolApproval ----------------------------
(***************************************************************************)
(* openclaw/core/pipeline.go, type ToolApprovalService.  A turn creates a  *)
(* request for a tool call and waits for its decision; people decide over  *)
(* other goroutines, and lists of what is pending clean up on the way.     *)
(* The map is changed under s.mu; the decision travels through a channel   *)
(* of capacity one that a sync.Once guards, outside s.mu.                  *)
(*                                                                         *)
(* A call that returns before it changes anything (no such request, a      *)
(* requester that does not match) is not a step.                           *)
(***************************************************************************)
EXTENDS Naturals, FiniteSets

CONSTANTS
    Request,    \* approval ids; each is created once and has one waiter
    Decider,    \* goroutines that call TrySetDecision
    Stranger,   \* those whose channel or sender does not match the request
    Listing,    \* whether anybody calls ListPending or PendingCount
    NoRequest

ASSUME ApprovalAssumption ==
    /\ Stranger \subseteq Decider
    /\ Listing \in BOOLEAN
    /\ NoRequest \notin Request

Verdict == {"approve", "deny"}

VARIABLES
    pending,    \* the map of requests
    expired,    \* requests past ExpiresAt
    once,       \* requests whose setDecision has run
    channel,    \* decisionChan: what it holds, or "empty"
    wait,       \* where the waiter of a request is, or its result
    looked,     \* the request a decider has found in the map
    recorded    \* history: the decisions answered with Recorded

vars == <<pending, expired, once, channel, wait, looked, recorded>>

Result == {"Approved", "Denied", "TimedOut", "NotFound", "Cancelled"}

Outcome(v) == IF v = "approve" THEN "Approved" ELSE "Denied"

Init ==
    /\ pending = {}
    /\ expired = {}
    /\ once = {}
    /\ channel = [r \in Request |-> "empty"]
    /\ wait = [r \in Request |-> "none"]
    /\ looked = [d \in Decider |-> NoRequest]
    /\ recorded = [r \in Request |-> {}]

Create(r) ==
    /\ wait[r] = "none"
    /\ pending' = pending \cup {r}
    /\ wait' = [wait EXCEPT ![r] = "created"]
    /\ UNCHANGED <<expired, once, channel, looked, recorded>>

\* Time passes ExpiresAt.
Expire(r) ==
    /\ r \in pending \ expired
    /\ expired' = expired \cup {r}
    /\ UNCHANGED <<pending, once, channel, wait, looked, recorded>>
-----------------------------------------------------------------------------
(* TrySetDecision: find the request and check the requester, then decide. *)

FindRequest(d, r) ==
    /\ looked[d] = NoRequest
    /\ r \in pending
    /\ d \notin Stranger
    /\ looked' = [looked EXCEPT ![d] = r]
    /\ UNCHANGED <<pending, expired, once, channel, wait, recorded>>

SetDecision(d, v) ==
    LET r == looked[d] IN
    /\ r # NoRequest
    /\ looked' = [looked EXCEPT ![d] = NoRequest]
    /\ IF r \in once
       THEN UNCHANGED <<once, channel, recorded>>
       ELSE /\ once' = once \cup {r}
            /\ channel' = [channel EXCEPT ![r] = v]
            /\ recorded' = [recorded EXCEPT ![r] = @ \cup {<<d, v>>}]
    /\ UNCHANGED <<pending, expired, wait>>
-----------------------------------------------------------------------------
(* WaitForDecisionOutcome *)

StartWait(r) ==
    /\ wait[r] = "created"
    /\ wait' = [wait EXCEPT ![r] = IF r \in pending THEN "waiting" ELSE "NotFound"]
    /\ UNCHANGED <<pending, expired, once, channel, looked, recorded>>

\* ctx.Done: the request stays in the map.
CancelWait(r) ==
    /\ wait[r] = "waiting"
    /\ wait' = [wait EXCEPT ![r] = "Cancelled"]
    /\ UNCHANGED <<pending, expired, once, channel, looked, recorded>>

\* The decision is received ...
Receive(r) ==
    /\ wait[r] \in {"waiting", "late"}
    /\ channel[r] # "empty"
    /\ channel' = [channel EXCEPT ![r] = "empty"]
    /\ wait' = [wait EXCEPT ![r] = channel[r]]
    /\ UNCHANGED <<pending, expired, once, looked, recorded>>

\* ... the entry is deleted and the outcome returned.
Finish(r) ==
    /\ wait[r] \in Verdict
    /\ wait' = [wait EXCEPT ![r] = Outcome(wait[r])]
    /\ pending' = pending \ {r}
    /\ UNCHANGED <<expired, once, channel, looked, recorded>>

\* The timer fires and the entry is deleted ...
TimeOut(r) ==
    /\ wait[r] = "waiting"
    /\ wait' = [wait EXCEPT ![r] = "timeout"]
    /\ pending' = pending \ {r}
    /\ UNCHANGED <<expired, once, channel, looked, recorded>>

\* Mutated form: the timeout does not claim the Once.
CloseRequestUnclaimed(r) ==
    /\ wait[r] = "timeout"
    /\ wait' = [wait EXCEPT ![r] = IF r \in once THEN "late" ELSE "TimedOut"]
    /\ UNCHANGED <<pending, expired, once, channel, looked, recorded>>

\* ... then the Once decides between a timeout and a decision that was just
\* in time, which is read from the channel, whatever the context says.
CloseRequest(r) ==
    /\ wait[r] = "timeout"
    /\ once' = once \cup {r}
    /\ wait' = [wait EXCEPT ![r] = IF r \in once THEN "late" ELSE "TimedOut"]
    /\ UNCHANGED <<pending, expired, channel, looked, recorded>>
-----------------------------------------------------------------------------
\* Mutated form: expired requests are kept.
ListPendingKeepsExpired ==
    LET decided == {r \in pending \ expired : channel[r] # "empty"} IN
    /\ Listing
    /\ pending' = pending \ decided
    /\ channel' = [r \in Request |-> IF r \in decided THEN "empty" ELSE channel[r]]
    /\ UNCHANGED <<expired, once, wait, looked, recorded>>

\* One pass over the map under s.mu: expired requests go, and so do those
\* whose channel holds a decision, which the pass receives.
ListPending ==
    LET decided == {r \in pending \ expired : channel[r] # "empty"} IN
    /\ Listing
    /\ pending' = pending \ (expired \cup decided)
    /\ channel' = [r \in Request |-> IF r \in decided THEN "empty" ELSE channel[r]]
    /\ UNCHANGED <<expired, once, wait, looked, recorded>>

Next ==
    \/ \E r \in Request :
          \/ Create(r) \/ Expire(r)
          \/ StartWait(r) \/ CancelWait(r) \/ Receive(r) \/ Finish(r) \/ TimeOut(r) \/ CloseRequest(r)
    \/ \E d \in Decider :
          \/ \E r \in Request : FindRequest(d, r)
          \/ \E v \in Verdict : SetDecision(d, v)
    \/ ListPending

Spec == Init /\ [][Next]_vars

\* The turn runs on, timers fire, deadlines pass, and a list is asked for now
\* and then.  Nobody has to decide, and no context has to be cancelled.
Fairness ==
    /\ \A r \in Request :
          /\ WF_vars(StartWait(r)) /\ WF_vars(TimeOut(r)) /\ WF_vars(CloseRequest(r))
          /\ WF_vars(Receive(r)) /\ WF_vars(Finish(r)) /\ WF_vars(Expire(r))
    /\ WF_vars(ListPending)

FairSpec == Spec /\ Fairness
-----------------------------------------------------------------------------
TypeOK ==
    /\ pending \subseteq Request
    /\ expired \subseteq Request
    /\ once \subseteq Request
    /\ channel \in [Request -> Verdict \cup {"empty"}]
    /\ wait \in [Request -> Result \cup Verdict \cup {"none", "created", "waiting", "timeout", "late"}]
    /\ looked \in [Decider -> Request \cup {NoRequest}]
    /\ recorded \in [Request -> SUBSET (Decider \X Verdict)]

\* One decision per request is answered with Recorded, however many arrive at
\* the same time (setDecision, a sync.Once).
OneDecision == \A r \in Request : Cardinality(recorded[r]) <= 1

\* The tool runs, or is refused, as the recorded decision says; and a timeout
\* is reported only when nobody was, or will be, told that the decision
\* counted (the two uses of setDecision.Do).
OutcomeIsTheDecision ==
    \A r \in Request :
        /\ wait[r] \in {"Approved", "Denied"} =>
              \E d \in Decider, v \in Verdict : recorded[r] = {<<d, v>>} /\ wait[r] = Outcome(v)
        /\ wait[r] = "TimedOut" => recorded[r] = {}

\* A request does not stay in the list for ever, even when its waiter was
\* cancelled (ListPending drops what has expired).
PendingDrains == \A r \in Request : r \in pending ~> r \notin pending

\* Waiting for a decision ends: with the decision, with a timeout or with the
\* cancellation of the turn.
WaitEnds == \A r \in Request : wait[r] = "waiting" ~> wait[r] \in Result
=============================================================================
