-------------------------- MODULE SessionAdmission --------------------------
(***************************************************************************)
(* openclaw/core/session.go: which sessions SessionManager holds in memory *)
(* and how many it believes it holds.  The map (a sync.Map) and the count  *)
(* (an atomic) are changed in separate steps.  GetOrCreateById changes     *)
(* them under admissionGate; SweepExpiredActiveSessions and RemoveActive,  *)
(* which other goroutines call, do not take the gate.                      *)
(*                                                                         *)
(* LastActiveAt is kept as the order of the active keys from the least to  *)
(* the most recently active one, with the expired ones in front.           *)
(***************************************************************************)
EXTENDS Integers, FiniteSets, SequencesExt

CONSTANTS
    Key,          \* session ids
    Admitter,     \* goroutines that call GetOrCreateById
    Sweeper,      \* goroutines that call SweepExpiredActiveSessions
    Remover,      \* goroutines that call RemoveActive
    MaxSessions,
    MaxMisses,    \* bound: nobody sweeps or removes from outside once that many
                  \* sessions were counted out twice
    Nobody,       \* admissionGate is free
    NoKey

Worker == Admitter \cup Sweeper \cup Remover

ASSUME AdmissionAssumption ==
    /\ MaxSessions \in Nat \ {0}
    /\ MaxMisses \in Nat
    /\ IsFiniteSet(Key) /\ IsFiniteSet(Worker)
    /\ Admitter \cap (Sweeper \cup Remover) = {}
    /\ Nobody \notin Admitter
    /\ NoKey \notin Key

VARIABLES
    order,         \* active sessions, least recently active first
    expired,       \* how many of them, from the front, are past the timeout
    activeCount,
    gate,          \* holder of admissionGate
    pc,
    key,           \* the session an admitter asks for
    todo,          \* keys a sweep has still to visit
    target,        \* the session a worker has found and takes out of the map
    resume,        \* where it goes on after that
    attempts,      \* evictLeastRecentlyActive
    misses         \* history: how often Delete found the session gone

vars == <<order, expired, activeCount, gate, pc, key, todo, target, resume, attempts, misses>>

\* what only the worker's own progress through the code is made of
locals == <<key, todo, target, resume, attempts>>

active == {order[i] : i \in 1..Len(order)}

Expired == {order[i] : i \in 1..expired}

\* session.LastActiveAt = now
Touch(k) ==
    \E i \in 1..Len(order) :
        /\ order[i] = k
        /\ order' = Append(RemoveAt(order, i), k)
        /\ expired' = IF i <= expired THEN expired - 1 ELSE expired

\* active.Delete(k)
Drop(k) ==
    \E i \in 1..Len(order) :
        /\ order[i] = k
        /\ order' = RemoveAt(order, i)
        /\ expired' = IF i <= expired THEN expired - 1 ELSE expired

Goto(w, l) == pc' = [pc EXCEPT ![w] = l]

Init ==
    /\ order = <<>>
    /\ expired = 0
    /\ activeCount = 0
    /\ gate = Nobody
    /\ pc = [w \in Worker |-> "idle"]
    /\ key = [p \in Admitter |-> NoKey]
    /\ todo = [w \in Worker |-> {}]
    /\ target = [w \in Worker |-> NoKey]
    /\ resume = [w \in Worker |-> "idle"]
    /\ attempts = 0
    /\ misses = 0

\* The least recently active session that has not timed out does so.
TimePasses ==
    /\ expired < Len(order)
    /\ expired' = expired + 1
    /\ UNCHANGED <<order, activeCount, gate, pc, key, todo, target, resume, attempts, misses>>
-----------------------------------------------------------------------------
(* GetOrCreateById *)

FastPath(p, k) ==
    /\ pc[p] = "idle"
    /\ k \in active
    /\ Touch(k)
    /\ UNCHANGED <<activeCount, gate, pc, key, todo, target, resume, attempts, misses>>

SlowPath(p, k) ==
    /\ pc[p] = "idle"
    /\ k \notin active
    /\ Goto(p, "gate")
    /\ key' = [key EXCEPT ![p] = k]
    /\ UNCHANGED <<order, expired, activeCount, gate, todo, target, resume, attempts, misses>>

EnterGate(p) ==
    /\ pc[p] = "gate"
    /\ gate = Nobody
    /\ gate' = p
    /\ Goto(p, "recheck")
    /\ UNCHANGED <<order, expired, activeCount, key, todo, target, resume, attempts, misses>>

Return(p) ==
    /\ gate' = Nobody
    /\ Goto(p, "idle")
    /\ key' = [key EXCEPT ![p] = NoKey]

SecondLook(p) ==
    /\ pc[p] = "recheck"
    /\ IF key[p] \in active
       THEN Touch(key[p]) /\ Return(p)
       ELSE Goto(p, "load") /\ UNCHANGED <<order, expired, gate, key>>
    /\ UNCHANGED <<activeCount, todo, target, resume, attempts, misses>>

\* Mutated form: the gate is kept after a failed load.
LoadFailsKeepsGate(p) ==
    /\ pc[p] = "load"
    /\ Goto(p, "idle")
    /\ key' = [key EXCEPT ![p] = NoKey]
    /\ UNCHANGED <<order, expired, activeCount, gate, todo, target, resume, attempts, misses>>

\* store.GetSession fails, or finds the session or not; both of the latter go
\* through ensureCapacityForAdmission and LoadOrStore.
LoadFails(p) ==
    /\ pc[p] = "load"
    /\ Return(p)
    /\ UNCHANGED <<order, expired, activeCount, todo, target, resume, attempts, misses>>

\* ensureCapacityForAdmission, first check.
CheckCapacity(p) ==
    /\ pc[p] = "load"
    /\ IF activeCount >= MaxSessions
       THEN Goto(p, "sweep") /\ todo' = [todo EXCEPT ![p] = Key]
       ELSE Goto(p, "store") /\ UNCHANGED todo
    /\ UNCHANGED <<order, expired, activeCount, gate, key, target, resume, attempts, misses>>

\* Second check.  The third one only counts a rejection and returns an error
\* that GetOrCreateById does not look at.
CheckAgain(p) ==
    /\ pc[p] = "swept"
    /\ IF activeCount >= MaxSessions THEN Goto(p, "evict") ELSE Goto(p, "store")
    /\ UNCHANGED <<order, expired, activeCount, gate, key, todo, target, resume, attempts, misses>>

\* A worker that has found k in the map goes on to delete it, count it out
\* and resume at l.
TakeOut(w, k, l) ==
    /\ Goto(w, "delete")
    /\ target' = [target EXCEPT ![w] = k]
    /\ resume' = [resume EXCEPT ![w] = l]

\* Mutated form: the loop of the eviction stops with the count at the limit.
EvictEarlyStop(p) ==
    /\ pc[p] = "evict"
    /\ IF activeCount <= MaxSessions \/ attempts > MaxSessions \/ order = <<>>
       THEN Goto(p, "store") /\ UNCHANGED target
       ELSE Goto(p, "evictLoad") /\ target' = [target EXCEPT ![p] = Head(order)]
    /\ attempts' = attempts + 1
    /\ UNCHANGED <<order, expired, activeCount, gate, key, todo, resume, misses>>

\* Head of the loop of evictLeastRecentlyActive, with its search for the
\* least recently active session.
Evict(p) ==
    /\ pc[p] = "evict"
    /\ IF activeCount < MaxSessions \/ attempts > MaxSessions \/ order = <<>>
       THEN Goto(p, "store") /\ UNCHANGED target
       ELSE Goto(p, "evictLoad") /\ target' = [target EXCEPT ![p] = Head(order)]
    /\ attempts' = attempts + 1
    /\ UNCHANGED <<order, expired, activeCount, gate, key, todo, resume, misses>>

EvictLoad(p) ==
    /\ pc[p] = "evictLoad"
    /\ IF target[p] \in active
       THEN TakeOut(p, target[p], "evict")
       ELSE Goto(p, "store") /\ UNCHANGED <<target, resume>>
    /\ UNCHANGED <<order, expired, activeCount, gate, key, todo, attempts, misses>>

\* active.LoadOrStore.  Only the holder of the gate inserts, so the branch in
\* which somebody else was faster is never taken; an admission that reached it
\* would not return.
Store(p) ==
    /\ pc[p] = "store"
    /\ key[p] \notin active
    /\ order' = Append(order, key[p])
    /\ Goto(p, "count")
    /\ UNCHANGED <<expired, activeCount, gate, key, todo, target, resume, attempts, misses>>

Count(p) ==
    /\ pc[p] = "count"
    /\ activeCount' = activeCount + 1
    /\ Return(p)
    /\ attempts' = 0
    /\ target' = [target EXCEPT ![p] = NoKey]
    /\ UNCHANGED <<order, expired, todo, resume, misses>>
-----------------------------------------------------------------------------
(* SweepExpiredActiveSessions, called by a sweeper or inside the gate.     *)
(* Range visits a key at most once and sees it as it is then.              *)

SweepStart(s) ==
    /\ pc[s] = "idle"
    /\ misses < MaxMisses
    /\ todo' = [todo EXCEPT ![s] = Key]
    /\ Goto(s, "sweep")
    /\ UNCHANGED <<order, expired, activeCount, gate, key, target, resume, attempts, misses>>

SweepVisit(w, k) ==
    /\ pc[w] = "sweep"
    /\ k \in todo[w]
    /\ todo' = [todo EXCEPT ![w] = @ \ {k}]
    /\ IF k \in Expired THEN TakeOut(w, k, "sweep") ELSE UNCHANGED <<pc, target, resume>>
    /\ UNCHANGED <<order, expired, activeCount, gate, key, attempts, misses>>

SweepEnd(w) ==
    /\ pc[w] = "sweep"
    /\ todo[w] = {}
    /\ Goto(w, IF w \in Admitter THEN "swept" ELSE "idle")
    /\ UNCHANGED <<order, expired, activeCount, gate, locals, misses>>
-----------------------------------------------------------------------------
RemoveActive(r, k) ==
    /\ pc[r] = "idle"
    /\ misses < MaxMisses
    /\ k \in active
    /\ TakeOut(r, k, "idle")
    /\ UNCHANGED <<order, expired, activeCount, gate, key, todo, attempts, misses>>

\* The last two steps of sweep, eviction and removal.  Delete takes out
\* whatever is under the key by now, which may be nothing.
Delete(w) ==
    /\ pc[w] = "delete"
    /\ IF target[w] \in active
       THEN Drop(target[w]) /\ UNCHANGED misses
       ELSE misses' = misses + 1 /\ UNCHANGED <<order, expired>>
    /\ Goto(w, "uncount")
    /\ UNCHANGED <<activeCount, gate, locals>>

\* Mutated form: the count is kept.
UncountForgotten(w) ==
    /\ pc[w] = "uncount"
    /\ Goto(w, resume[w])
    /\ target' = [target EXCEPT ![w] = NoKey]
    /\ resume' = [resume EXCEPT ![w] = "idle"]
    /\ UNCHANGED <<order, expired, activeCount, gate, key, todo, attempts, misses>>

Uncount(w) ==
    /\ pc[w] = "uncount"
    /\ activeCount' = activeCount - 1
    /\ Goto(w, resume[w])
    /\ target' = [target EXCEPT ![w] = NoKey]
    /\ resume' = [resume EXCEPT ![w] = "idle"]
    /\ UNCHANGED <<order, expired, gate, key, todo, attempts, misses>>
-----------------------------------------------------------------------------
GetOrCreateById(p) ==
    \/ \E k \in Key : FastPath(p, k) \/ SlowPath(p, k)
    \/ EnterGate(p) \/ SecondLook(p) \/ LoadFails(p)
    \/ CheckCapacity(p) \/ CheckAgain(p) \/ Evict(p) \/ EvictLoad(p)
    \/ Store(p) \/ Count(p)

Sweep(w) == (\E k \in Key : SweepVisit(w, k)) \/ SweepEnd(w)

Next ==
    \/ TimePasses
    \/ \E p \in Admitter : GetOrCreateById(p)
    \/ \E s \in Sweeper : SweepStart(s)
    \/ \E w \in Worker : Sweep(w) \/ Delete(w) \/ Uncount(w)
    \/ \E r \in Remover, k \in Key : RemoveActive(r, k)

Spec == Init /\ [][Next]_vars

\* A goroutine inside a call keeps running, and a mutex is handed to a waiter
\* in the end (Go's mutex stops barging after a millisecond).
Fairness ==
    /\ \A p \in Admitter :
          /\ SF_vars(EnterGate(p))
          /\ WF_vars(SecondLook(p) \/ LoadFails(p) \/ CheckCapacity(p) \/ CheckAgain(p)
                      \/ Evict(p) \/ EvictLoad(p) \/ Store(p) \/ Count(p))
    /\ \A w \in Worker : WF_vars(Sweep(w) \/ Delete(w) \/ Uncount(w))

FairSpec == Spec /\ Fairness
-----------------------------------------------------------------------------
PC == {"idle", "gate", "recheck", "load", "swept", "evict", "evictLoad", "store", "count",
       "sweep", "delete", "uncount"}

TypeOK ==
    /\ order \in Seq(Key)
    /\ expired \in 0..Len(order)
    /\ activeCount \in Int
    /\ gate \in Admitter \cup {Nobody}
    /\ pc \in [Worker -> PC]
    /\ key \in [Admitter -> Key \cup {NoKey}]
    /\ todo \in [Worker -> SUBSET Key]
    /\ target \in [Worker -> Key \cup {NoKey}]
    /\ resume \in [Worker -> {"idle", "sweep", "evict"}]
    /\ attempts \in 0..MaxSessions + 2
    /\ misses \in Nat

Counting(l) == Cardinality({w \in Worker : pc[w] = l})

\* The count is off by exactly the sessions that were counted out twice, once
\* every step is taken: no path leaves a session uncounted or counts one that
\* is gone (LoadOrStore/Add(1) and Delete/Add(-1) on every path).
CountDrift ==
    activeCount + Counting("count") - Counting("uncount") + misses = Cardinality(active)

\* The limit of ensureCapacityForAdmission.
SessionLimit == Cardinality(active) <= MaxSessions

\* The map outgrows the limit by no more than the sessions that were counted
\* out twice, although the error of ensureCapacityForAdmission is ignored and
\* a sweep, an eviction and a removal go on at the same time.
LimitUpToMisses == Cardinality(active) <= MaxSessions + misses

\* Whoever asks for a session gets an answer, through sweeps and evictions.
AdmissionReturns == \A p \in Admitter : pc[p] # "idle" ~> pc[p] = "idle"
=============================================================================
