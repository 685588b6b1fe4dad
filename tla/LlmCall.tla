------------------------------ MODULE LlmCall ------------------------------
(***************************************************************************)
(* openclaw/agent/agent_runtime.go: how turns reach the model through the  *)
(* breaker.  CallLlmWithResilience retries Execute; executeWithFallbacks   *)
(* streams from one model after another behind ThrowIfOpen, and tells the  *)
(* breaker nothing of what became of the stream.                           *)
(*                                                                         *)
(* A request is a goroutine inside one of the two.  The context of a       *)
(* request may end, or its timeout pass, whenever the provider is being    *)
(* called.  The wait between two attempts only delays the next one: when   *)
(* the context ends in it, Execute is called all the same.                 *)
(***************************************************************************)
EXTENDS CircuitBreaker

CONSTANTS
    Streamer,      \* goroutines that stream
    RetryCount,    \* attempts after the first one
    Fallbacks      \* models tried after the first one

ASSUME StreamerAssumption == Streamer \cap Caller = {}
ASSUME RetryAssumption == RetryCount \in Nat /\ Fallbacks \in Nat

VARIABLES
    phase,      \* "idle", "try" (about to ask the breaker) or "run" (at the provider)
    attempt,    \* attempts, or models, already given up
    lost        \* history: the probe of this half-open period was cancelled

callVars == <<vars, phase, attempt, lost>>

Request == Caller \cup Streamer

CallInit ==
    /\ Init
    /\ phase = [r \in Request |-> "idle"]
    /\ attempt = [r \in Request |-> 0]
    /\ lost = FALSE

\* A new half-open period has a new probe.
Forget == lost' = (lost /\ state' = "HalfOpen")

Start(r) ==
    /\ phase[r] = "idle"
    /\ phase' = [phase EXCEPT ![r] = "try"]
    /\ UNCHANGED <<vars, attempt, lost>>

\* The next call begins at zero again.
Stop(r) ==
    /\ phase' = [phase EXCEPT ![r] = "idle"]
    /\ attempt' = [attempt EXCEPT ![r] = 0]

\* Mutated form: an attempt the breaker refuses is not counted.
NextAttemptRefusedIsFree(r, limit, refused) ==
    /\ IF attempt[r] < limit \/ refused
       THEN /\ attempt' = [attempt EXCEPT ![r] = IF refused THEN @ ELSE @ + 1]
            /\ phase' = [phase EXCEPT ![r] = "try"]
       ELSE Stop(r)

\* The loops go round, or end with the error they kept; an attempt that the
\* breaker refused counts like any other.
NextAttempt(r, limit, refused) ==
    /\ IF attempt[r] < limit
       THEN /\ attempt' = [attempt EXCEPT ![r] = @ + 1]
            /\ phase' = [phase EXCEPT ![r] = "try"]
       ELSE Stop(r)
-----------------------------------------------------------------------------
\* CallLlmWithResilience.
Refuses == ~(state = "Closed" \/ (state = "Open" /\ CooledDown)
             \/ (state = "HalfOpen" /\ ~halfOpenProbeActive))

TryExecute(c) ==
    /\ phase[c] = "try"
    /\ Admit(c)
    /\ phase' = [phase EXCEPT ![c] = "run"]
    /\ Forget
    /\ UNCHANGED attempt

\* ErrCircuitOpen is an error like any other to the loop.
Refused(c) ==
    /\ phase[c] = "try"
    /\ Refuses
    /\ NextAttempt(c, RetryCount, TRUE)
    /\ UNCHANGED <<vars, lost>>

Answered(c) ==
    /\ phase[c] = "run"
    /\ Succeed(c)
    /\ Stop(c)
    /\ Forget

\* Neither a response nor an error: the loop goes on.
AnsweredEmpty(c) ==
    /\ phase[c] = "run"
    /\ Succeed(c)
    /\ NextAttempt(c, RetryCount, FALSE)
    /\ Forget

Failed(c) ==
    /\ phase[c] = "run"
    /\ Fail(c)
    /\ NextAttempt(c, RetryCount, FALSE)
    /\ Forget

\* The error of a context ends the loop at once.
ContextEnded(c) ==
    /\ phase[c] = "run"
    /\ Cancel(c)
    /\ lost' = (lost \/ (state = "HalfOpen" /\ c \in probes))
    /\ Stop(c)

CallLlmWithResilience(c) ==
    \/ TryExecute(c)
    \/ Refused(c)
    \/ Answered(c)
    \/ AnsweredEmpty(c)
    \/ Failed(c)
    \/ ContextEnded(c)
-----------------------------------------------------------------------------
\* Mutated form: ThrowIfOpen claims the probe it does not make.
OpenStreamClaims(s) ==
    /\ phase[s] = "try"
    /\ state = "Closed" \/ state = "HalfOpen" \/ CooledDown
    /\ state' = IF state = "Open" THEN "HalfOpen" ELSE state
    /\ halfOpenProbeActive' = (halfOpenProbeActive \/ state = "Open")
    /\ UNCHANGED <<consecutiveFailures, probeFailures, currentCooldown, elapsed, running, probes>>
    /\ phase' = [phase EXCEPT ![s] = "run"]
    /\ Forget
    /\ UNCHANGED attempt

\* StreamLlm: ThrowIfOpen lets everybody through unless the breaker is open.
OpenStream(s) ==
    /\ phase[s] = "try"
    /\ \/ ThrowIfOpen
       \/ state # "Open" /\ UNCHANGED vars
    /\ phase' = [phase EXCEPT ![s] = "run"]
    /\ Forget
    /\ UNCHANGED attempt

\* The refusal of the breaker ends the loop over the models.
StreamRefused(s) ==
    /\ phase[s] = "try"
    /\ state = "Open" /\ ~CooledDown
    /\ Stop(s)
    /\ UNCHANGED <<vars, lost>>

\* The stream is complete, or the context or the timeout ends the loop.
StreamEnded(s) ==
    /\ phase[s] = "run"
    /\ Stop(s)
    /\ UNCHANGED <<vars, lost>>

\* A stream that breaks is begun anew with the next model.
StreamBroke(s) ==
    /\ phase[s] = "run"
    /\ NextAttempt(s, Fallbacks, FALSE)
    /\ UNCHANGED <<vars, lost>>

ExecuteWithFallbacks(s) ==
    \/ OpenStream(s)
    \/ StreamRefused(s)
    \/ StreamEnded(s)
    \/ StreamBroke(s)

\* Operations of the breaker that no request makes.
Other ==
    /\ RecordSuccess \/ RecordFailure \/ Reset \/ Tick
    /\ Forget
    /\ UNCHANGED <<phase, attempt>>

CallNext ==
    \/ \E r \in Request : Start(r)
    \/ \E c \in Caller : CallLlmWithResilience(c)
    \/ \E s \in Streamer : ExecuteWithFallbacks(s)
    \/ Other

CallSpec == CallInit /\ [][CallNext]_callVars

\* Time passes; goroutines inside a call go on, and the provider, a timeout or
\* the context ends every call; turns keep coming.
CallFairness ==
    /\ WF_callVars(Tick /\ Other)
    /\ WF_callVars(\E c \in Caller : Start(c))
    /\ \A c \in Caller : WF_callVars(CallLlmWithResilience(c))
    /\ \A s \in Streamer : WF_callVars(ExecuteWithFallbacks(s))

FairCallSpec == CallSpec /\ CallFairness
-----------------------------------------------------------------------------
\* The loops stay within their attempts, and only a goroutine that is inside
\* a call is at the provider on behalf of the breaker.
CallTypeOK ==
    /\ phase \in [Request -> {"idle", "try", "run"}]
    /\ attempt \in [Request -> Nat]
    /\ \A c \in Caller : attempt[c] <= RetryCount /\ (c \in running <=> phase[c] = "run")
    /\ \A s \in Streamer : attempt[s] <= Fallbacks
    /\ lost \in BOOLEAN

\* A half-open breaker that refuses calls waits for a probe that is under way,
\* unless its probe was cancelled: no late result of another call, no check of
\* a stream and no retry leaves halfOpenProbeActive set with nobody to clear it.
ProbeUnderWay == state = "HalfOpen" /\ halfOpenProbeActive /\ ~lost => probes \cap running # {}

\* Every request comes back: the retries end even while the breaker refuses
\* every attempt, which it may do for good after a cancelled probe.
RequestsReturn == \A r \in Request : phase[r] # "idle" ~> phase[r] = "idle"

\* A half-open breaker decides unless its probe was cancelled: the checks of
\* streams neither use up nor decide the probe (ThrowIfOpen, StreamLlm), and
\* the callers who are refused meanwhile do not keep it from being made.
ProbeDecides == (state = "HalfOpen" /\ ~lost) ~> (state # "HalfOpen" \/ lost)
=============================================================================
