------------------------ MODULE CircuitBreakerProofs ------------------------
(* Proofs about CircuitBreaker for every threshold, cooldown and set of    *)
(* callers, and about the calls to the model that LlmCall makes through    *)
(* it, for any number of retries, fallbacks and streams.                   *)
EXTENDS LlmCall, TLAPS

(* A probe of the present half-open period keeps the flag up, so Execute   *)
(* admits no second one.                                                   *)
ProbeKeepsFlag == probes # {} => halfOpenProbeActive

IInv ==
    /\ TypeOK
    /\ SingleProbe
    /\ ProbeKeepsFlag
    /\ ClosedBelowThreshold
    /\ CooldownCapped
    /\ BackoffForgotten

LEMMA BumpBounded ==
    ASSUME NEW cap \in Nat, NEW n \in 0..cap
    PROVE  Bump(n, cap) \in 0..cap /\ Bump(n, cap) >= n /\ (n < cap => Bump(n, cap) = n + 1)
BY DEF Bump

(* Every outcome of the conversion in computeBackoffCooldown is below the  *)
(* cap.                                                                    *)
LEMMA BackoffCapped ==
    ASSUME NEW n, NEW d \in Backoff(n)
    PROVE  d <= MaxCooldown
BY CooldownAssumption DEF Backoff, IntMin

LEMMA InitInv == Init => IInv
<1>. SUFFICES ASSUME Init PROVE IInv
  OBVIOUS
<1>0. 0 \in 0..FailureThreshold /\ 0 \in 0..ProbeCap /\ 0 \in Nat
  BY ThresholdAssumption, ProbeCapAssumption
<1>1. TypeOK
  BY <1>0, Zenon DEF Init, TypeOK
<1>2. SingleProbe /\ ProbeKeepsFlag
  BY DEF Init, SingleProbe, ProbeKeepsFlag
<1>3. ClosedBelowThreshold /\ CooldownCapped /\ BackoffForgotten
  BY ThresholdAssumption DEF Init, ClosedBelowThreshold, CooldownCapped, BackoffForgotten
<1>. QED BY <1>1, <1>2, <1>3 DEF IInv

(* Closing, by a success or by Reset.                                      *)
LEMMA CloseInv ==
    ASSUME IInv, Close, running' \subseteq Caller
    PROVE  IInv'
<1>0. 0 \in 0..FailureThreshold /\ 0 \in 0..ProbeCap
  BY ThresholdAssumption, ProbeCapAssumption
<1>1. TypeOK'
  BY <1>0, Zenon DEF Close, IInv, TypeOK
<1>2. (SingleProbe /\ ProbeKeepsFlag)'
  BY DEF Close, SingleProbe, ProbeKeepsFlag
<1>3. (ClosedBelowThreshold /\ CooldownCapped /\ BackoffForgotten)'
  BY ThresholdAssumption DEF Close, ClosedBelowThreshold, CooldownCapped, BackoffForgotten
<1>. QED BY <1>1, <1>2, <1>3 DEF IInv

LEMMA UnchangedInv ==
    ASSUME IInv, UNCHANGED breaker, running' \subseteq Caller
    PROVE  IInv'
BY DEF breaker, IInv, TypeOK, SingleProbe, ProbeKeepsFlag, ClosedBelowThreshold, CooldownCapped, BackoffForgotten

(* A success of any call, recorded in any state.                           *)
LEMMA OnSuccessInv ==
    ASSUME IInv, OnSuccess, running' \subseteq Caller
    PROVE  IInv'
BY CloseInv, UnchangedInv DEF OnSuccess

(* A failure of any call, recorded in any state.                           *)
LEMMA OnFailureInv ==
    ASSUME IInv, OnFailure, running' \subseteq Caller
    PROVE  IInv'
<1>. USE ThresholdAssumption, ProbeCapAssumption
<1>1. /\ consecutiveFailures' \in 0..FailureThreshold
      /\ consecutiveFailures' >= consecutiveFailures
      /\ consecutiveFailures < FailureThreshold => consecutiveFailures' = consecutiveFailures + 1
  BY BumpBounded DEF OnFailure, IInv, TypeOK
<1>2. CASE Trips
  <2>1. state' = "Open" /\ halfOpenProbeActive' = FALSE /\ probes' = {} /\ elapsed' = 0
    BY <1>2 DEF OnFailure
  <2>2. probeFailures' \in 0..ProbeCap
    BY <1>2, BumpBounded DEF OnFailure, IInv, TypeOK
  <2>3. consecutiveFailures' >= FailureThreshold
    BY <1>1, <1>2 DEF Trips, IInv, TypeOK, ClosedBelowThreshold
  <2>4. CooldownCapped'
    BY <1>2, BackoffCapped DEF OnFailure, CooldownCapped
  <2>5. TypeOK'
    BY <1>1, <2>1, <2>2 DEF TypeOK
  <2>6. (SingleProbe /\ ProbeKeepsFlag)'
    BY <2>1 DEF SingleProbe, ProbeKeepsFlag
  <2>7. (ClosedBelowThreshold /\ BackoffForgotten)'
    BY <1>1, <2>1, <2>3 DEF ClosedBelowThreshold, BackoffForgotten
  <2>. QED BY <2>4, <2>5, <2>6, <2>7 DEF IInv
<1>3. CASE ~Trips
  <2>1. UNCHANGED <<state, probeFailures, currentCooldown, elapsed, halfOpenProbeActive, probes>>
    BY <1>3 DEF OnFailure
  <2>2. ClosedBelowThreshold'
    BY <1>1, <1>3, <2>1 DEF Trips, IInv, TypeOK, ClosedBelowThreshold
  <2>. QED
    BY <1>1, <2>1, <2>2
       DEF IInv, TypeOK, SingleProbe, ProbeKeepsFlag, CooldownCapped, BackoffForgotten
<1>. QED BY <1>2, <1>3

(* Admission: only an unset flag lets a probe in, and then none was let in *)
(* since the breaker became half-open.                                     *)
LEMMA AdmitInv ==
    ASSUME IInv, NEW c \in Caller, Admit(c)
    PROVE  IInv'
<1>1. running' \subseteq Caller
  BY DEF IInv, TypeOK, Admit
<1>2. CASE AdmitClosed(c)
  BY <1>1, <1>2, UnchangedInv DEF AdmitClosed
<1>3. CASE AdmitFirstProbe(c)
  BY <1>1, <1>3 DEF AdmitFirstProbe, IInv, TypeOK, SingleProbe, ProbeKeepsFlag, ClosedBelowThreshold,
                    CooldownCapped, BackoffForgotten
<1>4. CASE AdmitProbe(c)
  <2>1. probes = {}
    BY <1>4 DEF AdmitProbe, IInv, ProbeKeepsFlag
  <2>. QED
    BY <1>1, <1>4, <2>1 DEF AdmitProbe, IInv, TypeOK, SingleProbe, ProbeKeepsFlag, ClosedBelowThreshold,
                            CooldownCapped, BackoffForgotten
<1>. QED BY <1>2, <1>3, <1>4 DEF Admit

(* The invariant is inductive.                                             *)
LEMMA NextInv == IInv /\ [Next]_vars => IInv'
<1>. SUFFICES ASSUME IInv, [Next]_vars PROVE IInv'
  OBVIOUS
<1>1. ASSUME NEW c \in Caller, Admit(c) PROVE IInv'
  BY <1>1, AdmitInv
<1>2. ASSUME NEW c \in Caller, Succeed(c) PROVE IInv'
  <2>1. running' \subseteq Caller
    BY <1>2 DEF Succeed, IInv, TypeOK
  <2>. QED BY <1>2, <2>1, OnSuccessInv DEF Succeed
<1>3. ASSUME NEW c \in Caller, Fail(c) PROVE IInv'
  <2>1. running' \subseteq Caller
    BY <1>3 DEF Fail, IInv, TypeOK
  <2>. QED BY <1>3, <2>1, OnFailureInv DEF Fail
<1>4. ASSUME NEW c \in Caller, Cancel(c) PROVE IInv'
  <2>1. running' \subseteq Caller
    BY <1>4 DEF Cancel, IInv, TypeOK
  <2>. QED BY <1>4, <2>1, UnchangedInv DEF Cancel
<1>5. CASE ThrowIfOpen
  BY <1>5 DEF ThrowIfOpen, IInv, TypeOK, SingleProbe, ProbeKeepsFlag, ClosedBelowThreshold,
              CooldownCapped, BackoffForgotten
<1>6. CASE RecordSuccess \/ RecordFailure \/ Reset
  <2>1. running' \subseteq Caller
    BY <1>6 DEF RecordSuccess, RecordFailure, Reset, IInv, TypeOK
  <2>. QED BY <1>6, <2>1, OnSuccessInv, OnFailureInv, CloseInv DEF RecordSuccess, RecordFailure, Reset
<1>7. CASE Tick
  BY <1>7 DEF Tick, IInv, TypeOK, SingleProbe, ProbeKeepsFlag, ClosedBelowThreshold,
              CooldownCapped, BackoffForgotten
<1>8. CASE UNCHANGED vars
  <2>1. UNCHANGED breaker /\ running' \subseteq Caller
    BY <1>8 DEF vars, breaker, IInv, TypeOK
  <2>. QED BY <2>1, UnchangedInv
<1>. QED BY <1>1, <1>2, <1>3, <1>4, <1>5, <1>6, <1>7, <1>8 DEF Next

LEMMA Inductive == Spec => []IInv
BY InitInv, NextInv, PTL DEF Spec

-----------------------------------------------------------------------------
(* Execute lets one call through a half-open breaker.                      *)
THEOREM SingleProbeHolds == Spec => []SingleProbe
<1>1. IInv => SingleProbe
  BY DEF IInv
<1>. QED BY <1>1, Inductive, PTL

(* The breaker is closed exactly below the threshold, for every threshold. *)
THEOREM ClosedBelowThresholdHolds == Spec => []ClosedBelowThreshold
<1>1. IInv => ClosedBelowThreshold
  BY DEF IInv
<1>. QED BY <1>1, Inductive, PTL

(* The backoff never passes maxCooldown, and a closed breaker has none.    *)
THEOREM CooldownHolds == Spec => [](CooldownCapped /\ BackoffForgotten)
<1>1. IInv => CooldownCapped /\ BackoffForgotten
  BY DEF IInv
<1>. QED BY <1>1, Inductive, PTL

-----------------------------------------------------------------------------
(* The calls to the model *)

(* What a goroutine is doing, and how often the loops have gone round.     *)
LEMMA NextAttemptTypes ==
    ASSUME CallTypeOK, NEW r \in Request, NEW limit \in Nat, NEW refused, attempt[r] <= limit,
           NextAttempt(r, limit, refused)
    PROVE  /\ phase' \in [Request -> {"idle", "try", "run"}]
           /\ attempt' \in [Request -> Nat]
           /\ attempt'[r] <= limit /\ phase'[r] # "run"
           /\ \A q \in Request : q # r => attempt'[q] = attempt[q] /\ phase'[q] = phase[q]
<1>1. CASE attempt[r] < limit
  BY <1>1 DEF CallTypeOK, NextAttempt
<1>2. CASE ~(attempt[r] < limit)
  BY <1>2 DEF CallTypeOK, NextAttempt, Stop
<1>. QED BY <1>1, <1>2

LEMMA StopTypes ==
    ASSUME CallTypeOK, NEW r \in Request, Stop(r)
    PROVE  /\ phase' \in [Request -> {"idle", "try", "run"}]
           /\ attempt' \in [Request -> Nat]
           /\ attempt'[r] = 0 /\ phase'[r] # "run"
           /\ \A q \in Request : q # r => attempt'[q] = attempt[q] /\ phase'[q] = phase[q]
BY DEF CallTypeOK, Stop

(* One request moves on; a caller is at the provider exactly while the     *)
(* breaker counts it as running.                                           *)
LEMMA CallTypesKept ==
    ASSUME CallTypeOK, NEW r \in Request,
           phase' \in [Request -> {"idle", "try", "run"}],
           attempt' \in [Request -> Nat],
           r \in Caller => attempt'[r] <= RetryCount /\ (r \in running' <=> phase'[r] = "run"),
           r \in Streamer => attempt'[r] <= Fallbacks,
           \A q \in Request : q # r => attempt'[q] = attempt[q] /\ phase'[q] = phase[q],
           \A c \in Caller : c # r => (c \in running' <=> c \in running),
           lost' \in BOOLEAN
    PROVE  CallTypeOK'
<1>1. \A c \in Caller : attempt'[c] <= RetryCount /\ (c \in running' <=> phase'[c] = "run")
  BY DEF CallTypeOK, Request
<1>2. \A s \in Streamer : attempt'[s] <= Fallbacks
  BY DEF CallTypeOK, Request
<1>. QED BY <1>1, <1>2 DEF CallTypeOK

LEMMA ForgetType == ASSUME CallTypeOK, Forget PROVE lost' \in BOOLEAN
BY DEF CallTypeOK, Forget

(* Every step of a request is a step of the breaker or leaves it alone.    *)
LEMMA CallStep == [CallNext]_callVars => [Next]_vars
<1>. SUFFICES ASSUME [CallNext]_callVars PROVE [Next]_vars
  OBVIOUS
<1>1. ASSUME NEW r \in Request, Start(r) PROVE [Next]_vars
  BY <1>1 DEF Start
<1>2. ASSUME NEW c \in Caller, CallLlmWithResilience(c) PROVE [Next]_vars
  <2>1. CASE TryExecute(c)
    BY <2>1 DEF TryExecute, Next
  <2>2. CASE Refused(c)
    BY <2>2 DEF Refused
  <2>3. CASE Answered(c) \/ AnsweredEmpty(c)
    BY <2>3 DEF Answered, AnsweredEmpty, Next
  <2>4. CASE Failed(c)
    BY <2>4 DEF Failed, Next
  <2>5. CASE ContextEnded(c)
    BY <2>5 DEF ContextEnded, Next
  <2>. QED BY <1>2, <2>1, <2>2, <2>3, <2>4, <2>5 DEF CallLlmWithResilience
<1>3. ASSUME NEW s \in Streamer, ExecuteWithFallbacks(s) PROVE [Next]_vars
  BY <1>3 DEF ExecuteWithFallbacks, OpenStream, StreamRefused, StreamEnded, StreamBroke, Next
<1>4. CASE Other
  BY <1>4 DEF Other, Next
<1>5. CASE UNCHANGED callVars
  BY <1>5 DEF callVars
<1>. QED BY <1>1, <1>2, <1>3, <1>4, <1>5 DEF CallNext

(* The requests use the breaker only the way CircuitBreaker describes:     *)
(* what is proved of every use of it holds for CallLlmWithResilience and   *)
(* for the streams.                                                        *)
THEOREM CallsUseTheBreaker == CallSpec => Spec
<1>1. CallInit => Init
  BY DEF CallInit
<1>. QED BY <1>1, CallStep, PTL DEF CallSpec, Spec

CallIInv == IInv /\ CallTypeOK /\ ProbeUnderWay

LEMMA CallInitInv == CallInit => CallIInv
<1>. SUFFICES ASSUME CallInit PROVE CallIInv
  OBVIOUS
<1>1. IInv
  BY InitInv DEF CallInit
<1>2. CallTypeOK
  <2>1. /\ phase \in [Request -> {"idle", "try", "run"}] /\ attempt \in [Request -> Nat]
        /\ \A r \in Request : phase[r] = "idle" /\ attempt[r] = 0
        /\ running = {} /\ lost \in BOOLEAN
    BY DEF CallInit, Init
  <2>. QED BY <2>1, RetryAssumption DEF CallTypeOK, Request
<1>3. ProbeUnderWay
  BY DEF CallInit, Init, ProbeUnderWay
<1>. QED BY <1>1, <1>2, <1>3 DEF CallIInv

(* A result that is recorded ends the half-open period.                    *)
LEMMA ResultDecides == ASSUME IInv, OnSuccess \/ OnFailure PROVE state' # "HalfOpen"
<1>1. ASSUME OnSuccess PROVE state' # "HalfOpen"
  BY <1>1 DEF OnSuccess, Close, breaker
<1>2. ASSUME OnFailure PROVE state' # "HalfOpen"
  BY <1>2 DEF OnFailure, Trips
<1>. QED BY <1>1, <1>2

LEMMA CallNextInv == CallIInv /\ [CallNext]_callVars => CallIInv'
<1>. SUFFICES ASSUME CallIInv, [CallNext]_callVars PROVE CallIInv'
  OBVIOUS
<1>. USE RetryAssumption, StreamerAssumption
<1>0. IInv'
  BY CallStep, NextInv DEF CallIInv
<1>1. ASSUME NEW r \in Request, Start(r) PROVE CallIInv'
  <2>1. CallTypeOK'
    BY <1>1 DEF Start, CallIInv, CallTypeOK, Request, vars
  <2>2. ProbeUnderWay'
    BY <1>1 DEF Start, CallIInv, ProbeUnderWay, vars
  <2>. QED BY <1>0, <2>1, <2>2 DEF CallIInv
<1>2. ASSUME NEW c \in Caller, TryExecute(c) PROVE CallIInv'
  <2>1. CallTypeOK'
    <3>1. /\ phase' \in [Request -> {"idle", "try", "run"}] /\ attempt' = attempt
          /\ phase'[c] = "run" /\ \A q \in Request : q # c => phase'[q] = phase[q]
      BY <1>2 DEF TryExecute, CallIInv, CallTypeOK, Request
    <3>2. running' = running \cup {c} /\ lost' \in BOOLEAN
      BY <1>2, ForgetType DEF TryExecute, Admit, CallIInv
    <3>. QED BY <3>1, <3>2, CallTypesKept DEF CallIInv, CallTypeOK, Request
  <2>2. ProbeUnderWay'
    BY <1>2 DEF TryExecute, Admit, AdmitClosed, AdmitFirstProbe, AdmitProbe, breaker, ProbeUnderWay
  <2>. QED BY <1>0, <2>1, <2>2 DEF CallIInv
<1>3. ASSUME NEW c \in Caller, Refused(c) PROVE CallIInv'
  <2>1. CallTypeOK'
    <3>1. running' = running /\ lost' \in BOOLEAN
      BY <1>3 DEF Refused, vars, CallIInv, CallTypeOK
    <3>2. c \notin running
      BY <1>3 DEF Refused, CallIInv, CallTypeOK
    <3>. QED BY <1>3, <3>1, <3>2, NextAttemptTypes, CallTypesKept
             DEF Refused, CallIInv, CallTypeOK, Request
  <2>2. ProbeUnderWay'
    BY <1>3 DEF Refused, CallIInv, ProbeUnderWay, vars
  <2>. QED BY <1>0, <2>1, <2>2 DEF CallIInv
<1>4. ASSUME NEW c \in Caller, Answered(c) \/ AnsweredEmpty(c) \/ Failed(c) PROVE CallIInv'
  <2>1. CallTypeOK'
    <3>1. running' = running \ {c} /\ lost' \in BOOLEAN
      BY <1>4, ForgetType DEF Answered, AnsweredEmpty, Failed, Succeed, Fail, CallIInv
    <3>2. CASE NextAttempt(c, RetryCount, FALSE)
      BY <3>1, <3>2, NextAttemptTypes, CallTypesKept DEF CallIInv, CallTypeOK, Request
    <3>3. CASE Stop(c)
      BY <3>1, <3>3, StopTypes, CallTypesKept DEF CallIInv, CallTypeOK, Request
    <3>. QED BY <1>4, <3>2, <3>3 DEF Answered, AnsweredEmpty, Failed
  <2>2. ProbeUnderWay'
    BY <1>4, ResultDecides DEF Answered, AnsweredEmpty, Failed, Succeed, Fail, CallIInv, ProbeUnderWay
  <2>. QED BY <1>0, <2>1, <2>2 DEF CallIInv
<1>5. ASSUME NEW c \in Caller, ContextEnded(c) PROVE CallIInv'
  <2>1. CallTypeOK'
    <3>1. running' = running \ {c} /\ lost' \in BOOLEAN
      BY <1>5 DEF ContextEnded, Cancel, CallIInv, CallTypeOK
    <3>. QED BY <1>5, <3>1, StopTypes, CallTypesKept DEF ContextEnded, CallIInv, CallTypeOK, Request
  <2>2. ProbeUnderWay'
    BY <1>5 DEF ContextEnded, Cancel, breaker, CallIInv, ProbeUnderWay
  <2>. QED BY <1>0, <2>1, <2>2 DEF CallIInv
<1>6. ASSUME NEW s \in Streamer, ExecuteWithFallbacks(s) PROVE CallIInv'
  <2>1. running' = running /\ lost' \in BOOLEAN
    BY <1>6, ForgetType DEF ExecuteWithFallbacks, OpenStream, StreamRefused, StreamEnded, StreamBroke,
                            ThrowIfOpen, vars, CallIInv, CallTypeOK
  <2>2. CallTypeOK'
    <3>1. CASE OpenStream(s)
      BY <2>1, <3>1, CallTypesKept DEF OpenStream, CallIInv, CallTypeOK, Request
    <3>2. CASE Stop(s)
      BY <2>1, <3>2, StopTypes, CallTypesKept DEF CallIInv, CallTypeOK, Request
    <3>3. CASE NextAttempt(s, Fallbacks, FALSE)
      BY <2>1, <3>3, NextAttemptTypes, CallTypesKept DEF CallIInv, CallTypeOK, Request
    <3>. QED BY <1>6, <3>1, <3>2, <3>3 DEF ExecuteWithFallbacks, StreamRefused, StreamEnded, StreamBroke
  <2>3. ProbeUnderWay'
    <3>1. CASE OpenStream(s)
      BY <3>1 DEF OpenStream, ThrowIfOpen, Forget, vars, CallIInv, IInv, SingleProbe, ProbeUnderWay
    <3>2. CASE UNCHANGED <<vars, lost>>
      BY <3>2 DEF vars, CallIInv, ProbeUnderWay
    <3>. QED BY <1>6, <3>1, <3>2 DEF ExecuteWithFallbacks, StreamRefused, StreamEnded, StreamBroke
  <2>. QED BY <1>0, <2>2, <2>3 DEF CallIInv
<1>7. CASE Other
  <2>1. running' = running /\ lost' \in BOOLEAN
    BY <1>7, ForgetType DEF Other, RecordSuccess, RecordFailure, Reset, Tick, CallIInv
  <2>2. CallTypeOK'
    BY <1>7, <2>1 DEF Other, CallIInv, CallTypeOK
  <2>3. state' # "HalfOpen"
    BY <1>7, ResultDecides DEF Other, RecordSuccess, RecordFailure, Reset, Close, Tick, CallIInv
  <2>. QED BY <1>0, <2>2, <2>3 DEF CallIInv, ProbeUnderWay
<1>8. CASE UNCHANGED callVars
  BY <1>0, <1>8 DEF callVars, vars, CallIInv, CallTypeOK, ProbeUnderWay
<1>. QED BY <1>1, <1>2, <1>3, <1>4, <1>5, <1>6, <1>7, <1>8 DEF CallNext, CallLlmWithResilience

LEMMA CallInductive == CallSpec => []CallIInv
BY CallInitInv, CallNextInv, PTL DEF CallSpec

(* A half-open breaker refuses calls only while its probe is under way,    *)
(* unless the probe was cancelled.                                         *)
THEOREM ProbeUnderWayHolds == CallSpec => []ProbeUnderWay
<1>1. CallIInv => ProbeUnderWay
  BY DEF CallIInv
<1>. QED BY <1>1, CallInductive, PTL

(* The retry loop and the loop over the models keep to their attempts, and *)
(* a caller is at the provider exactly while the breaker counts it.        *)
THEOREM AttemptsBounded == CallSpec => []CallTypeOK
<1>1. CallIInv => CallTypeOK
  BY DEF CallIInv
<1>. QED BY <1>1, CallInductive, PTL

(* One probe per half-open period, for the agent's own calls.              *)
THEOREM CallsProbeOnce == CallSpec => []SingleProbe
BY CallsUseTheBreaker, SingleProbeHolds
=============================================================================
