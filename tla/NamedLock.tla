------------------------------ MODULE NamedLock ------------------------------
(***************************************************************************)
(* openclaw/util/locker.go, type NamedLockManager: a mutex per key whose   *)
(* gate (a channel of capacity one with a reference count) is made by the  *)
(* first goroutine that asks for the key and is dropped from the map by    *)
(* the last one that stops using it.                                       *)
(*                                                                         *)
(* Everything done under m.mu is one step.  The select of Lock lies        *)
(* outside m.mu, so a goroutine keeps a pointer to a gate across steps in  *)
(* which others may delete the map entry.  Gates are heap objects: a new   *)
(* one is any gate that neither the map nor a goroutine refers to.         *)
(***************************************************************************)
EXTENDS Naturals, FiniteSets

CONSTANTS
    Proc,    \* goroutines that call Lock
    Key,     \* lock names
    Gate,    \* heap addresses of countedLock objects
    NoGate   \* the missing map entry

ASSUME ProcAssumption == IsFiniteSet(Proc)
ASSUME GateAssumption == NoGate \notin Gate

VARIABLES
    gates,      \* the map: Key -> gate, or NoGate when the key is absent
    refCount,   \* countedLock.refCount
    tokens,     \* len(countedLock.ch): 1 while somebody has the lock
    pc,         \* where a goroutine is in Lock / unlock
    key,        \* the key of its current call
    lock        \* the gate its current call points to

vars == <<gates, refCount, tokens, pc, key, lock>>

PC == {"idle", "select", "cancel", "held"}

Init ==
    /\ gates = [k \in Key |-> NoGate]
    /\ refCount = [g \in Gate |-> 0]
    /\ tokens = [g \in Gate |-> 0]
    /\ pc = [p \in Proc |-> "idle"]
    /\ key \in [Proc -> Key]
    /\ lock = [p \in Proc |-> NoGate]

\* A goroutine refers to a gate from the first critical section of Lock to
\* the last one of the cancellation path or of unlock.
Users(g) == {p \in Proc : lock[p] = g}

Unreachable(g) == Users(g) = {} /\ \A k \in Key : gates[k] # g

-----------------------------------------------------------------------------
\* The first critical section of Lock finds the gate or makes one, and counts
\* the caller in.
Enter(p, k, g) ==
    /\ pc[p] = "idle"
    /\ IF gates[k] # NoGate THEN g = gates[k] ELSE Unreachable(g)
    /\ gates' = [gates EXCEPT ![k] = g]
    /\ refCount' = [refCount EXCEPT ![g] = IF gates[k] # NoGate THEN @ + 1 ELSE 1]
    /\ tokens' = [tokens EXCEPT ![g] = IF gates[k] # NoGate THEN @ ELSE 0]
    /\ pc' = [pc EXCEPT ![p] = "select"]
    /\ key' = [key EXCEPT ![p] = k]
    /\ lock' = [lock EXCEPT ![p] = g]

\* select: the send succeeds while the channel is empty.
Take(p) ==
    /\ pc[p] = "select"
    /\ tokens[lock[p]] = 0
    /\ tokens' = [tokens EXCEPT ![lock[p]] = 1]
    /\ pc' = [pc EXCEPT ![p] = "held"]
    /\ UNCHANGED <<gates, refCount, key, lock>>

\* select: the context is done; both branches may be ready, and then either
\* is taken.
CtxDone(p) ==
    /\ pc[p] = "select"
    /\ pc' = [pc EXCEPT ![p] = "cancel"]
    /\ UNCHANGED <<gates, refCount, tokens, key, lock>>

\* Mutated forms of Leave: the entry dropped one user early, the entry never
\* dropped.
LeaveEarlyDrop(p) ==
    LET g == lock[p] IN
    /\ refCount' = [refCount EXCEPT ![g] = @ - 1]
    /\ gates' = IF refCount[g] <= 2 THEN [gates EXCEPT ![key[p]] = NoGate] ELSE gates
    /\ pc' = [pc EXCEPT ![p] = "idle"]
    /\ lock' = [lock EXCEPT ![p] = NoGate]
    /\ UNCHANGED key

LeaveNoDrop(p) ==
    LET g == lock[p] IN
    /\ refCount' = [refCount EXCEPT ![g] = @ - 1]
    /\ pc' = [pc EXCEPT ![p] = "idle"]
    /\ lock' = [lock EXCEPT ![p] = NoGate]
    /\ UNCHANGED <<gates, key>>

\* Both exits count the caller out and drop the entry at zero.
Leave(p) ==
    LET g == lock[p] IN
    /\ refCount' = [refCount EXCEPT ![g] = @ - 1]
    /\ gates' = IF refCount[g] = 1 THEN [gates EXCEPT ![key[p]] = NoGate] ELSE gates
    /\ pc' = [pc EXCEPT ![p] = "idle"]
    /\ lock' = [lock EXCEPT ![p] = NoGate]
    /\ UNCHANGED key

\* Mutated form: the cancellation path also empties the channel.
CancelledDrains(p) ==
    /\ pc[p] = "cancel"
    /\ Leave(p)
    /\ tokens' = [tokens EXCEPT ![lock[p]] = 0]

Cancelled(p) ==
    /\ pc[p] = "cancel"
    /\ Leave(p)
    /\ UNCHANGED tokens

\* Mutated form: unlock forgets to receive the token.
UnlockKeepsToken(p) ==
    /\ pc[p] = "held"
    /\ Leave(p)
    /\ UNCHANGED tokens

\* unlock receives the token under m.mu; with an empty channel it would block
\* with m.mu held.
Unlock(p) ==
    /\ pc[p] = "held"
    /\ tokens[lock[p]] = 1
    /\ tokens' = [tokens EXCEPT ![lock[p]] = 0]
    /\ Leave(p)

Next ==
    \E p \in Proc :
        \/ \E k \in Key, g \in Gate : Enter(p, k, g)
        \/ Take(p)
        \/ CtxDone(p)
        \/ Cancelled(p)
        \/ Unlock(p)

Spec == Init /\ [][Next]_vars

\* A goroutine that holds the lock releases it (callers defer unlock), one
\* that cancelled runs to the end of Lock.  A channel serves its blocked
\* senders in the order they came, so one for whom the channel is free again
\* and again does get it.
Fairness ==
    \A p \in Proc : WF_vars(Cancelled(p)) /\ WF_vars(Unlock(p)) /\ SF_vars(Take(p))

FairSpec == Spec /\ Fairness
-----------------------------------------------------------------------------
TypeOK ==
    /\ gates \in [Key -> Gate \cup {NoGate}]
    /\ refCount \in [Gate -> Nat]
    /\ tokens \in [Gate -> {0, 1}]
    /\ pc \in [Proc -> PC]
    /\ key \in [Proc -> Key]
    /\ lock \in [Proc -> Gate \cup {NoGate}]

\* Two goroutines never hold the same key, although the gate that guards it
\* is deleted and made again while others still wait (the purpose of Lock).
MutualExclusion ==
    \A p, q \in Proc :
        pc[p] = "held" /\ pc[q] = "held" /\ key[p] = key[q] => p = q

\* Whoever waits for, holds or gives up a key points to the very gate the map
\* has for it: the entry is dropped only after its last user left.
UsersShareTheGate ==
    \A p \in Proc : pc[p] # "idle" => lock[p] # NoGate /\ gates[key[p]] = lock[p]

\* The reference count is the number of goroutines that point to the gate,
\* and an entry without users is dropped at once: the map does not leak.
CountIsExact ==
    /\ \A g \in Gate : refCount[g] = Cardinality(Users(g))
    /\ \A k \in Key : gates[k] # NoGate => Users(gates[k]) # {}

\* unlock never waits for a token while it holds m.mu, which would stop
\* every user of the manager.
UnlockNeverBlocks == \A p \in Proc : pc[p] = "held" => tokens[lock[p]] = 1

\* The manager is a mutex per key.
Holders == [k \in Key |-> {p \in Proc : pc[p] = "held" /\ key[p] = k}]

Abstract == INSTANCE KeyedMutex WITH holders <- Holders

\* Every step of the gates, counts and channels is a step of, or invisible to,
\* the abstract mutex.
ImplementsKeyedMutex == Abstract!Spec

\* A goroutine that waits for the gate gets it or gives up.
WaitersServed == \A p \in Proc : pc[p] = "select" ~> pc[p] # "select"
=============================================================================
