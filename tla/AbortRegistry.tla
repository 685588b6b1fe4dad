--------------------------- MODULE AbortRegistry ---------------------------
(***************************************************************************)
(* openclaw/core/pipeline.go, type SessionAbortRegistry: the cancel        *)
(* function of the turn of a session that can be aborted.  Unregister and  *)
(* TryAbort read the map under its lock and cancel after the unlock;       *)
(* Unregister knows the session and not the turn, and ends whichever turn  *)
(* is registered.  The registry has no caller in the repository: turns     *)
(* register, run and unregister, and may be aborted at any time.           *)
(***************************************************************************)
EXTENDS FiniteSets

CONSTANTS
    AbortTurn,   \* turns of one session, each registered once
    Aborter,     \* goroutines that call TryAbort
    NoTurn

ASSUME AbortAssumption == NoTurn \notin AbortTurn

AbortUser == AbortTurn \cup Aborter

VARIABLES
    registered,  \* the entry of the session in the map
    stage,       \* per turn: "new", "made" (it has a context), "running", "ended"
    live,        \* turns whose context is not cancelled
    taken,       \* the turn whose cancel function a caller has read and not called
    disturbed    \* history: turns that were aborted or replaced, or that another turn
                 \* overlapped

abortVars == <<registered, stage, live, taken, disturbed>>

AbortInit ==
    /\ registered = NoTurn
    /\ stage = [t \in AbortTurn |-> "new"]
    /\ live = {}
    /\ taken = [u \in AbortUser |-> NoTurn]
    /\ disturbed = {}

Running == {t \in AbortTurn : stage[t] = "running"}

\* Register makes the context ...
MakeContext(t) ==
    /\ stage[t] = "new"
    /\ stage' = [stage EXCEPT ![t] = "made"]
    /\ live' = live \cup {t}
    /\ UNCHANGED <<registered, taken, disturbed>>

\* ... and, under the lock, cancels the turn it replaces.
RegisterTurn(t) ==
    /\ stage[t] = "made"
    /\ stage' = [stage EXCEPT ![t] = "running"]
    /\ live' = live \ {registered}
    /\ registered' = t
    /\ disturbed' = disturbed \cup (IF Running = {} THEN {} ELSE Running \cup {t})
    /\ UNCHANGED taken

\* Unregister takes the entry out; whose turn it is does not matter.
Unregister(t) ==
    /\ stage[t] = "running"
    /\ taken[t] = NoTurn
    /\ taken' = [taken EXCEPT ![t] = registered]
    /\ registered' = NoTurn
    /\ stage' = [stage EXCEPT ![t] = "ended"]
    /\ UNCHANGED <<live, disturbed>>

TryAbort(a) ==
    /\ registered # NoTurn
    /\ taken[a] = NoTurn
    /\ taken' = [taken EXCEPT ![a] = registered]
    /\ disturbed' = disturbed \cup {registered}
    /\ UNCHANGED <<registered, stage, live>>

\* Mutated form: the cancel function is the one registered by now.
CancelTakenLate(u) ==
    /\ taken[u] # NoTurn
    /\ live' = live \ {IF registered = NoTurn THEN taken[u] ELSE registered}
    /\ taken' = [taken EXCEPT ![u] = NoTurn]
    /\ UNCHANGED <<registered, stage, disturbed>>

\* The cancel function that was read is called after the unlock.
CancelTaken(u) ==
    /\ taken[u] # NoTurn
    /\ live' = live \ {taken[u]}
    /\ taken' = [taken EXCEPT ![u] = NoTurn]
    /\ UNCHANGED <<registered, stage, disturbed>>

AbortNext ==
    \/ \E t \in AbortTurn : MakeContext(t) \/ RegisterTurn(t) \/ Unregister(t)
    \/ \E a \in Aborter : TryAbort(a)
    \/ \E u \in AbortUser : CancelTaken(u)

AbortSpec == AbortInit /\ [][AbortNext]_abortVars
-----------------------------------------------------------------------------
AbortTypeOK ==
    /\ registered \in AbortTurn \cup {NoTurn}
    /\ stage \in [AbortTurn -> {"new", "made", "running", "ended"}]
    /\ live \subseteq AbortTurn /\ disturbed \subseteq AbortTurn
    /\ taken \in [AbortUser -> AbortTurn \cup {NoTurn}]

\* Whoever is still at work can be stopped: a registered turn with a live
\* context is the one in the map, or somebody is about to cancel it (Register,
\* Unregister, TryAbort).
AbortReaches ==
    \A t \in AbortTurn :
        t \in live /\ stage[t] \in {"running", "ended"} =>
            t = registered \/ \E u \in AbortUser : taken[u] = t

\* A turn that nobody aborted and that met no other turn of the session keeps
\* its context to the end: cancel functions that were read before it began do
\* not reach it.
UndisturbedRuns == \A t \in Running : t \notin disturbed => t \in live
=============================================================================
