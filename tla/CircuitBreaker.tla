--------------------------- MODULE CircuitBreaker ---------------------------
(***************************************************************************)
(* openclaw/circuitbreaker/circuit.go: the breaker in front of the LLM     *)
(* provider.  Execute takes cb.mu twice, once to admit the call and once   *)
(* to record its result; the call itself runs in between without it, so    *)
(* results arrive in states other than the one the call was admitted in.   *)
(*                                                                         *)
(* A refused Execute and a ThrowIfOpen that finds nothing to change leave  *)
(* the state alone and are not steps.  Time is the time since openedAt,    *)
(* counted only while the code compares it with the cooldown.              *)
(***************************************************************************)
EXTENDS Integers

CONSTANTS
    Caller,            \* goroutines that call Execute
    Cancellable,       \* those whose context may be cancelled or time out
    FailureThreshold,
    BaseCooldown,
    MaxCooldown,
    IntMax,            \* the largest time.Duration
    ProbeCap           \* probe failures counted; from here on all act alike

ASSUME ThresholdAssumption == FailureThreshold \in Nat \ {0}
ASSUME CooldownAssumption ==
    /\ BaseCooldown \in Nat \ {0}
    /\ MaxCooldown \in Nat \ {0}
    /\ IntMax \in Nat
    /\ BaseCooldown <= IntMax /\ MaxCooldown <= IntMax
ASSUME ProbeCapAssumption == ProbeCap \in Nat \ {0}
ASSUME CancellableAssumption == Cancellable \subseteq Caller

VARIABLES
    state,                 \* "Closed", "Open" or "HalfOpen"
    consecutiveFailures,   \* counted up to FailureThreshold
    probeFailures,         \* counted up to ProbeCap
    currentCooldown,
    elapsed,               \* time.Since(openedAt)
    halfOpenProbeActive,
    running,               \* callers between admission and result
    probes                 \* history: callers Execute let in since HalfOpen began

vars == <<state, consecutiveFailures, probeFailures, currentCooldown, elapsed,
          halfOpenProbeActive, running, probes>>

breaker == <<state, consecutiveFailures, probeFailures, currentCooldown,
             elapsed, halfOpenProbeActive, probes>>

IntMin == -IntMax - 1

\* A count that is only ever compared with limits up to cap.
Bump(n, cap) == IF n < cap THEN n + 1 ELSE n

\* computeBackoffCooldown.  The conversion from float64 of a value beyond the
\* largest Duration is left to the implementation: amd64 gives the smallest
\* Duration, which passes the comparison with maxCooldown, and arm64 the
\* largest.
Backoff(n) ==
    LET cooldown == BaseCooldown * 2^n IN
    IF cooldown > IntMax THEN {MaxCooldown, IntMin}
    ELSE IF cooldown <= MaxCooldown THEN {cooldown} ELSE {MaxCooldown}

CooledDown == elapsed >= currentCooldown

Init ==
    /\ state = "Closed"
    /\ consecutiveFailures = 0
    /\ probeFailures = 0
    /\ currentCooldown = BaseCooldown
    /\ elapsed = 0
    /\ halfOpenProbeActive = FALSE
    /\ running = {}
    /\ probes = {}

\* Reset, and what onSuccess does unless there is nothing to reset.
Close ==
    /\ consecutiveFailures' = 0
    /\ probeFailures' = 0
    /\ currentCooldown' = BaseCooldown
    /\ state' = "Closed"
    /\ halfOpenProbeActive' = FALSE
    /\ probes' = {}
    /\ UNCHANGED elapsed

OnSuccess ==
    IF state = "Closed" /\ consecutiveFailures = 0
    THEN UNCHANGED breaker
    ELSE Close

Trips == state = "HalfOpen" \/ (state = "Closed" /\ consecutiveFailures + 1 >= FailureThreshold)

\* Mutated form: a late failure restarts the cooldown of a breaker that is
\* already open.
OnFailureRestartsCooldown ==
    /\ consecutiveFailures' = Bump(consecutiveFailures, FailureThreshold)
    /\ elapsed' = 0
    /\ IF Trips
       THEN /\ probeFailures' = 0
            /\ currentCooldown' = BaseCooldown
            /\ state' = "Open"
            /\ halfOpenProbeActive' = FALSE
            /\ probes' = {}
       ELSE UNCHANGED <<state, probeFailures, currentCooldown, halfOpenProbeActive, probes>>

OnFailure ==
    /\ consecutiveFailures' = Bump(consecutiveFailures, FailureThreshold)
    /\ IF Trips
       THEN /\ IF state = "HalfOpen"
               THEN /\ probeFailures' = Bump(probeFailures, ProbeCap)
                    /\ currentCooldown' \in Backoff(probeFailures')
               ELSE /\ probeFailures' = 0
                    /\ currentCooldown' = BaseCooldown
            /\ state' = "Open"
            /\ halfOpenProbeActive' = FALSE
            /\ probes' = {}
            /\ elapsed' = 0
       ELSE UNCHANGED <<state, probeFailures, currentCooldown, elapsed,
                        halfOpenProbeActive, probes>>
-----------------------------------------------------------------------------
\* The first critical section of Execute.
AdmitClosed(c) ==
    /\ state = "Closed"
    /\ UNCHANGED breaker

AdmitFirstProbe(c) ==
    /\ state = "Open"
    /\ CooledDown
    /\ state' = "HalfOpen"
    /\ halfOpenProbeActive' = TRUE
    /\ probes' = {c}
    /\ UNCHANGED <<consecutiveFailures, probeFailures, currentCooldown, elapsed>>

\* Mutated form: the flag is read and not set.
AdmitProbeUnmarked(c) ==
    /\ state = "HalfOpen"
    /\ ~halfOpenProbeActive
    /\ probes' = probes \cup {c}
    /\ UNCHANGED <<state, consecutiveFailures, probeFailures, currentCooldown, elapsed,
                   halfOpenProbeActive>>

AdmitProbe(c) ==
    /\ state = "HalfOpen"
    /\ ~halfOpenProbeActive
    /\ halfOpenProbeActive' = TRUE
    /\ probes' = probes \cup {c}
    /\ UNCHANGED <<state, consecutiveFailures, probeFailures, currentCooldown, elapsed>>

Admit(c) ==
    /\ c \notin running
    /\ AdmitClosed(c) \/ AdmitFirstProbe(c) \/ AdmitProbe(c)
    /\ running' = running \cup {c}

\* The rest of Execute: the call returns a result, an error, or the error of
\* its context, which is not recorded.
Succeed(c) == c \in running /\ OnSuccess /\ running' = running \ {c}

Fail(c) == c \in running /\ OnFailure /\ running' = running \ {c}

Cancel(c) ==
    /\ c \in running \cap Cancellable
    /\ running' = running \ {c}
    /\ UNCHANGED breaker

\* The check in front of a streaming call.
ThrowIfOpen ==
    /\ state = "Open"
    /\ CooledDown
    /\ state' = "HalfOpen"
    /\ UNCHANGED <<consecutiveFailures, probeFailures, currentCooldown, elapsed,
                   halfOpenProbeActive, running, probes>>

RecordSuccess == OnSuccess /\ UNCHANGED running

RecordFailure == OnFailure /\ UNCHANGED running

Reset == Close /\ UNCHANGED running

Tick ==
    /\ state = "Open"
    /\ ~CooledDown
    /\ elapsed' = elapsed + 1
    /\ UNCHANGED <<state, consecutiveFailures, probeFailures, currentCooldown,
                   halfOpenProbeActive, running, probes>>

Next ==
    \/ \E c \in Caller : Admit(c) \/ Succeed(c) \/ Fail(c) \/ Cancel(c)
    \/ ThrowIfOpen
    \/ RecordSuccess
    \/ RecordFailure
    \/ Reset
    \/ Tick

Spec == Init /\ [][Next]_vars
-----------------------------------------------------------------------------
TypeOK ==
    /\ state \in {"Closed", "Open", "HalfOpen"}
    /\ consecutiveFailures \in 0..FailureThreshold
    /\ probeFailures \in 0..ProbeCap
    /\ elapsed \in Nat
    /\ halfOpenProbeActive \in BOOLEAN
    /\ running \subseteq Caller
    /\ probes \subseteq Caller

\* One call at a time tries a provider that was down: from the moment the
\* breaker becomes half-open until it closes or opens again, Execute lets a
\* single call through, whatever late results and streaming checks come in
\* between (Execute, ThrowIfOpen, onSuccess, onFailure).
SingleProbe ==
    /\ \A c, d \in probes : c = d
    /\ state # "HalfOpen" => probes = {} /\ ~halfOpenProbeActive

\* The breaker is closed exactly while fewer failures in a row than the
\* threshold were seen; late failures do not reopen it early and late
\* successes do not leave it closed with old failures on its account.
ClosedBelowThreshold ==
    state = "Closed" <=> consecutiveFailures < FailureThreshold

\* The wait a caller is told never exceeds the larger of the configured
\* cooldown and maxCooldown (computeBackoffCooldown, onFailure).
CooldownCapped == currentCooldown <= MaxCooldown \/ currentCooldown = BaseCooldown

\* A closed breaker starts its next outage from the base cooldown: nothing is
\* left of the backoff of the last one.
BackoffForgotten == state = "Closed" => probeFailures = 0 /\ currentCooldown = BaseCooldown

\* While callers keep coming, an open breaker lets one try again.
ProbesAgain == state = "Open" ~> state # "Open"

\* A half-open breaker decides: it closes or opens again.  Its refusals tell
\* the caller to try again later.
HalfOpenResolves == state = "HalfOpen" ~> state # "HalfOpen"
=============================================================================
