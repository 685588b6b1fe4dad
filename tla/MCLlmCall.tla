----------------------------- MODULE MCLlmCall -----------------------------
(* The breaker with the requests that use it, on a small instance.  A      *)
(* Duration of a few ticks makes the backoff reach maxCooldown, and pass   *)
(* the largest Duration, within a few failed probes.                       *)
EXTENDS LlmCall

(* The cap on probeFailures hides nothing: beyond it the product has left  *)
(* the range of a Duration for good.                                       *)
ASSUME ProbeCapIsExact == BaseCooldown * 2^ProbeCap > IntMax
=============================================================================
