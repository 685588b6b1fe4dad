--------------------------- MODULE NamedLockProofs ---------------------------
(* Proofs about NamedLock for every set of keys and gates and every finite *)
(* set of goroutines, and about McpNotifications, which counts the users   *)
(* of a registration the same way.                                         *)
EXTENDS NamedLock, McpNotifications, FiniteSetTheorems, TLAPS

-----------------------------------------------------------------------------
(* NamedLock *)

(* Idle goroutines point nowhere.  Two entries never share a gate, so the  *)
(* users of a gate all ask for one key.                                    *)
IdlePointsNowhere == \A p \in Proc : pc[p] = "idle" => lock[p] = NoGate

GatesDistinct ==
    \A k, l \in Key : gates[k] # NoGate /\ gates[k] = gates[l] => k = l

(* The token is in the channel exactly while one user of the gate holds    *)
(* the lock.                                                               *)
TokenHasOneOwner ==
    /\ \A p \in Proc : pc[p] = "held" => tokens[lock[p]] = 1
    /\ \A p, q \in Proc :
          pc[p] = "held" /\ pc[q] = "held" /\ lock[p] = lock[q] => p = q

IInv ==
    /\ TypeOK
    /\ IdlePointsNowhere
    /\ UsersShareTheGate
    /\ GatesDistinct
    /\ CountIsExact
    /\ TokenHasOneOwner

-----------------------------------------------------------------------------
(* The set of users of a gate is finite, so its cardinality is a number    *)
(* that is zero exactly when nobody is left.                               *)
LEMMA UsersFinite ==
    ASSUME NEW g \in Gate
    PROVE  /\ IsFiniteSet(Users(g))
           /\ Cardinality(Users(g)) \in Nat
           /\ Cardinality(Users(g)) = 0 <=> Users(g) = {}
<1>1. Users(g) \subseteq Proc
  BY DEF Users
<1>2. IsFiniteSet(Users(g))
  BY <1>1, FS_Subset, ProcAssumption
<1>. QED
  BY <1>2, FS_CardinalityType, FS_EmptySet

(* Nobody has a gate yet: the initial states satisfy the invariant.        *)
LEMMA InitInv == Init => IInv
<1>. SUFFICES ASSUME Init PROVE IInv
  OBVIOUS
<1>1. TypeOK
  BY DEF Init, TypeOK, PC
<1>2. CountIsExact
  <2>1. \A g \in Gate : Users(g) = {}
    BY GateAssumption DEF Init, Users
  <2>2. \A g \in Gate : Cardinality(Users(g)) = 0
    BY <2>1, FS_EmptySet
  <2>. QED
    BY <2>1, <2>2 DEF Init, CountIsExact
<1>. QED
  BY <1>1, <1>2 DEF Init, IInv, IdlePointsNowhere, UsersShareTheGate, GatesDistinct, TokenHasOneOwner

(* Entering: the caller joins the users of the entry's gate, or is alone   *)
(* with a gate that nothing pointed to.                                    *)
LEMMA EnterInv ==
    ASSUME IInv, NEW p \in Proc, NEW k \in Key, NEW g \in Gate, Enter(p, k, g)
    PROVE  IInv'
<1>. USE GateAssumption
<1>1. TypeOK'
  BY DEF IInv, TypeOK, Enter, PC
<1>2. lock[p] = NoGate
  BY DEF IInv, IdlePointsNowhere, Enter
<1>3. \A q \in Proc : lock[q] = g => gates[k] = g
  BY DEF IInv, Enter, Unreachable, Users
<1>4. \A l \in Key : gates[l] = g => l = k
  BY DEF IInv, GatesDistinct, Enter, Unreachable
<1>5. /\ IdlePointsNowhere'
      /\ UsersShareTheGate'
  BY <1>1, <1>2 DEF IInv, TypeOK, Enter, IdlePointsNowhere, UsersShareTheGate
<1>6. GatesDistinct'
  BY <1>1, <1>4 DEF IInv, TypeOK, Enter, GatesDistinct
<1>7. TokenHasOneOwner'
  BY <1>1, <1>2, <1>3 DEF IInv, TypeOK, Enter, TokenHasOneOwner, UsersShareTheGate, IdlePointsNowhere
<1>8. CountIsExact'
  <2>1. /\ Users(g)' = Users(g) \cup {p}
        /\ \A h \in Gate : h # g => Users(h)' = Users(h)
    BY <1>1, <1>2 DEF IInv, TypeOK, Enter, Users
  <2>2. p \notin Users(g)
    BY <1>2 DEF Users
  <2>3. Cardinality(Users(g)') = Cardinality(Users(g)) + 1
    BY <2>1, <2>2, UsersFinite, FS_AddElement
  <2>4. gates[k] = NoGate => Cardinality(Users(g)) = 0
    BY UsersFinite DEF Enter, Unreachable
  <2>5. \A h \in Gate : refCount'[h] = Cardinality(Users(h)')
    <3>. SUFFICES ASSUME NEW h \in Gate PROVE refCount'[h] = Cardinality(Users(h)')
      OBVIOUS
    <3>1. CASE h = g
      BY <3>1, <2>3, <2>4, UsersFinite DEF IInv, TypeOK, Enter, CountIsExact
    <3>2. CASE h # g
      BY <3>2, <2>1 DEF IInv, TypeOK, Enter, CountIsExact
    <3>. QED BY <3>1, <3>2
  <2>6. \A l \in Key : gates'[l] # NoGate => (Users(gates[l]) # {})'
    <3>. SUFFICES ASSUME NEW l \in Key, gates'[l] # NoGate PROVE (Users(gates[l]) # {})'
      OBVIOUS
    <3>1. CASE l = k
      BY <3>1, <2>1 DEF IInv, TypeOK, Enter
    <3>2. CASE l # k
      <4>1. gates'[l] = gates[l] /\ gates[l] # g /\ gates[l] \in Gate
        BY <3>2, <1>4 DEF IInv, TypeOK, Enter
      <4>. QED BY <4>1, <2>1 DEF IInv, CountIsExact
    <3>. QED BY <3>1, <3>2
  <2>. QED BY <2>5, <2>6 DEF CountIsExact, Users
<1>. QED BY <1>1, <1>5, <1>6, <1>7, <1>8 DEF IInv

(* Leaving: the caller is one of the counted users; the entry goes with    *)
(* the last of them.                                                       *)
LEMMA LeaveInv ==
    ASSUME IInv, NEW p \in Proc, pc[p] \in {"cancel", "held"}, Leave(p),
           \/ pc[p] = "cancel" /\ UNCHANGED tokens
           \/ pc[p] = "held" /\ tokens' = [tokens EXCEPT ![lock[p]] = 0]
    PROVE  IInv'
<1>. USE GateAssumption
<1>1. PICK g \in Gate : g = lock[p] /\ gates[key[p]] = g /\ key[p] \in Key
  BY DEF IInv, TypeOK, UsersShareTheGate
<1>2. /\ Users(g)' = Users(g) \ {p}
      /\ \A h \in Gate : h # g => Users(h)' = Users(h)
  BY <1>1 DEF IInv, TypeOK, Leave, Users
<1>3. p \in Users(g)
  BY <1>1 DEF Users
<1>4. /\ Cardinality(Users(g)') = Cardinality(Users(g)) - 1
      /\ Cardinality(Users(g)) \in Nat \ {0}
  BY <1>1, <1>2, <1>3, UsersFinite, FS_RemoveElement
<1>5. refCount[g] = Cardinality(Users(g))
  BY <1>1 DEF IInv, CountIsExact
<1>6. TypeOK'
  BY <1>1, <1>4, <1>5 DEF IInv, TypeOK, Leave, PC
<1>7. refCount[g] = 1 <=> \A q \in Proc : q # p => lock[q] # g
  <2>1. IsFiniteSet(Users(g)) /\ IsFiniteSet(Users(g) \ {p})
    BY <1>1, UsersFinite, FS_RemoveElement
  <2>2. Cardinality(Users(g) \ {p}) = 0 <=> Users(g) \ {p} = {}
    BY <2>1, FS_EmptySet
  <2>3. Users(g) \ {p} = {} <=> \A q \in Proc : q # p => lock[q] # g
    BY DEF Users
  <2>. QED BY <2>2, <2>3, <1>2, <1>4, <1>5
<1>8. \A q \in Proc : q # p => pc'[q] = pc[q] /\ lock'[q] = lock[q] /\ key'[q] = key[q]
  BY DEF IInv, TypeOK, Leave
<1>9. pc'[p] = "idle" /\ lock'[p] = NoGate
  BY DEF IInv, TypeOK, Leave
<1>10. \A l \in Key : gates'[l] = gates[l] \/ (l = key[p] /\ refCount[g] = 1 /\ gates'[l] = NoGate)
  BY <1>1 DEF IInv, TypeOK, Leave
<1>11. IdlePointsNowhere'
  BY <1>8, <1>9 DEF IInv, IdlePointsNowhere
<1>12. UsersShareTheGate'
  <2>. SUFFICES ASSUME NEW q \in Proc, pc'[q] # "idle"
                PROVE  lock'[q] # NoGate /\ gates'[key'[q]] = lock'[q]
    BY DEF UsersShareTheGate
  <2>1. q # p /\ lock[q] # NoGate /\ gates[key[q]] = lock[q] /\ key[q] \in Key
    BY <1>8, <1>9 DEF IInv, TypeOK, UsersShareTheGate
  <2>2. key[q] = key[p] => refCount[g] # 1
    BY <2>1, <1>1, <1>7
  <2>. QED BY <2>1, <2>2, <1>8, <1>10
<1>13. GatesDistinct'
  BY <1>10 DEF IInv, GatesDistinct
<1>14. TokenHasOneOwner'
  <2>1. \A q \in Proc : q # p /\ pc[q] = "held" /\ pc[p] = "held" => lock[q] # g
    BY <1>1 DEF IInv, TokenHasOneOwner
  <2>. QED BY <2>1, <1>1, <1>8, <1>9 DEF IInv, TypeOK, TokenHasOneOwner, UsersShareTheGate
<1>15. CountIsExact'
  <2>1. \A h \in Gate : refCount'[h] = Cardinality(Users(h)')
    <3>. SUFFICES ASSUME NEW h \in Gate PROVE refCount'[h] = Cardinality(Users(h)')
      OBVIOUS
    <3>1. CASE h = g
      BY <3>1, <1>1, <1>4, <1>5 DEF IInv, TypeOK, Leave
    <3>2. CASE h # g
      BY <3>2, <1>1, <1>2 DEF IInv, TypeOK, Leave, CountIsExact
    <3>. QED BY <3>1, <3>2
  <2>2. \A l \in Key : gates'[l] # NoGate => (Users(gates[l]) # {})'
    <3>. SUFFICES ASSUME NEW l \in Key, gates'[l] # NoGate PROVE (Users(gates[l]) # {})'
      OBVIOUS
    <3>1. gates'[l] = gates[l] /\ gates[l] \in Gate
      BY <1>10 DEF IInv, TypeOK
    <3>2. CASE gates[l] = g
      <4>1. l = key[p]
        BY <3>1, <3>2, <1>1 DEF IInv, GatesDistinct
      <4>2. refCount[g] # 1
        BY <4>1, <3>1, <1>1 DEF IInv, TypeOK, Leave
      <4>3. PICK q \in Proc : q # p /\ lock[q] = g
        BY <4>2, <1>7
      <4>. QED BY <4>3, <3>1, <3>2, <1>2 DEF Users
    <3>3. CASE gates[l] # g
      BY <3>1, <3>3, <1>2 DEF IInv, CountIsExact
    <3>. QED BY <3>2, <3>3
  <2>. QED BY <2>1, <2>2 DEF CountIsExact, Users
<1>. QED BY <1>6, <1>11, <1>12, <1>13, <1>14, <1>15 DEF IInv

(* The invariant is inductive.                                             *)
LEMMA NextInv == IInv /\ [Next]_vars => IInv'
<1>. SUFFICES ASSUME IInv, [Next]_vars PROVE IInv'
  OBVIOUS
<1>. USE GateAssumption
<1>1. ASSUME NEW p \in Proc, NEW k \in Key, NEW g \in Gate, Enter(p, k, g) PROVE IInv'
  BY <1>1, EnterInv
<1>2. ASSUME NEW p \in Proc, Take(p) PROVE IInv'
  <2>1. TypeOK'
    BY <1>2 DEF IInv, TypeOK, Take, PC
  <2>2. lock[p] \in Gate
    BY <1>2 DEF IInv, TypeOK, UsersShareTheGate, Take
  <2>3. TokenHasOneOwner'
    BY <1>2, <2>2 DEF IInv, TypeOK, TokenHasOneOwner, Take
  <2>4. CountIsExact'
    BY <1>2 DEF IInv, CountIsExact, Users, Take
  <2>. QED
    BY <1>2, <2>1, <2>3, <2>4
       DEF IInv, TypeOK, Take, IdlePointsNowhere, UsersShareTheGate, GatesDistinct
<1>3. ASSUME NEW p \in Proc, CtxDone(p) PROVE IInv'
  <2>1. CountIsExact'
    BY <1>3 DEF IInv, CountIsExact, Users, CtxDone
  <2>. QED
    BY <1>3, <2>1 DEF IInv, TypeOK, PC, CtxDone, TokenHasOneOwner, IdlePointsNowhere,
                      UsersShareTheGate, GatesDistinct
<1>4. ASSUME NEW p \in Proc, Cancelled(p) PROVE IInv'
  BY <1>4, LeaveInv DEF Cancelled
<1>5. ASSUME NEW p \in Proc, Unlock(p) PROVE IInv'
  BY <1>5, LeaveInv DEF Unlock
<1>6. CASE UNCHANGED vars
  BY <1>6 DEF IInv, vars, TypeOK, IdlePointsNowhere, UsersShareTheGate, GatesDistinct,
              CountIsExact, Users, TokenHasOneOwner
<1>. QED BY <1>1, <1>2, <1>3, <1>4, <1>5, <1>6 DEF Next

LEMMA Inductive == Spec => []IInv
BY InitInv, NextInv, PTL DEF Spec

-----------------------------------------------------------------------------
(* Lock never gives one key to two goroutines, whatever gates are deleted  *)
(* and made again in between.                                              *)
THEOREM MutualExclusionHolds == Spec => []MutualExclusion
<1>1. IInv => MutualExclusion
  BY DEF IInv, TypeOK, MutualExclusion, UsersShareTheGate, TokenHasOneOwner
<1>. QED BY <1>1, Inductive, PTL

(* The reference count of countedLock is exact and the map does not leak.  *)
THEOREM CountIsExactHolds == Spec => []CountIsExact
<1>1. IInv => CountIsExact
  BY DEF IInv
<1>. QED BY <1>1, Inductive, PTL

(* unlock finds its token: it never waits while it holds m.mu.             *)
THEOREM UnlockNeverBlocksHolds == Spec => []UnlockNeverBlocks
<1>1. IInv => UnlockNeverBlocks
  BY DEF IInv, TokenHasOneOwner, UnlockNeverBlocks
<1>. QED BY <1>1, Inductive, PTL

(* The manager of gates implements the abstract mutex per key.             *)
THEOREM Refinement == Spec => ImplementsKeyedMutex
<1>1. Init => Abstract!Init
  BY DEF Init, Abstract!Init, Holders
<1>2. IInv /\ [Next]_vars => [Abstract!Next]_Holders
  <2>. SUFFICES ASSUME IInv, [Next]_vars PROVE [Abstract!Next]_Holders
    OBVIOUS
  <2>1. ASSUME NEW p \in Proc, NEW k \in Key, NEW g \in Gate, Enter(p, k, g)
        PROVE  UNCHANGED Holders
    BY <2>1 DEF IInv, TypeOK, Enter, Holders
  <2>2. ASSUME NEW p \in Proc, Take(p) PROVE Abstract!Acquire(p, key[p])
    <3>. DEFINE k == key[p]
    <3>1. k \in Key
      BY DEF IInv, TypeOK
    <3>2. \A q \in Proc : pc[q] = "held" => key[q] # k
      BY <2>2, <3>1 DEF IInv, UsersShareTheGate, TokenHasOneOwner, Take
    <3>3. Abstract!Free(p)
      BY <2>2 DEF Abstract!Free, Holders, Take
    <3>4. Holders[k] = {}
      BY <3>1, <3>2 DEF Holders
    <3>5. \A q \in Proc : pc'[q] = "held" <=> (pc[q] = "held" \/ q = p)
      BY <2>2 DEF IInv, TypeOK, Take
    <3>6. Holders' = [Holders EXCEPT ![k] = {p}]
      <4>1. key' = key
        BY <2>2 DEF Take
      <4>2. \A l \in Key : {q \in Proc : pc'[q] = "held" /\ key'[q] = l}
                             = IF l = k THEN {p} ELSE Holders[l]
        BY <4>1, <3>2, <3>5 DEF Holders
      <4>. QED BY <4>2 DEF Holders
    <3>. QED BY <3>3, <3>4, <3>6 DEF Abstract!Acquire
  <2>3. ASSUME NEW p \in Proc, CtxDone(p) \/ Cancelled(p) PROVE UNCHANGED Holders
    <3>1. \A q \in Proc : pc'[q] = "held" <=> pc[q] = "held"
      BY <2>3 DEF IInv, TypeOK, CtxDone, Cancelled, Leave
    <3>2. key' = key
      BY <2>3 DEF CtxDone, Cancelled, Leave
    <3>. QED BY <3>1, <3>2 DEF Holders
  <2>4. ASSUME NEW p \in Proc, Unlock(p) PROVE Abstract!Release(p, key[p])
    <3>. DEFINE k == key[p]
    <3>1. k \in Key /\ pc[p] = "held"
      BY <2>4 DEF IInv, TypeOK, Unlock
    <3>2. \A q \in Proc : pc[q] = "held" /\ key[q] = k => q = p
      BY <3>1 DEF IInv, UsersShareTheGate, TokenHasOneOwner
    <3>3. Holders[k] = {p}
      BY <3>1, <3>2 DEF Holders
    <3>4. \A q \in Proc : pc'[q] = "held" <=> (pc[q] = "held" /\ q # p)
      BY <2>4 DEF IInv, TypeOK, Unlock, Leave
    <3>5. Holders' = [Holders EXCEPT ![k] = {}]
      <4>1. key' = key
        BY <2>4 DEF Unlock, Leave
      <4>2. \A l \in Key : {q \in Proc : pc'[q] = "held" /\ key'[q] = l}
                             = IF l = k THEN {} ELSE Holders[l]
        BY <4>1, <3>1, <3>2, <3>4 DEF Holders
      <4>. QED BY <4>2 DEF Holders
    <3>. QED BY <3>3, <3>5 DEF Abstract!Release
  <2>5. CASE UNCHANGED vars
    BY <2>5 DEF vars, Holders
  <2>6. \A p \in Proc : key[p] \in Key
    BY DEF IInv, TypeOK
  <2>. QED BY <2>1, <2>2, <2>3, <2>4, <2>5, <2>6 DEF Next, Abstract!Next
<1>. QED BY <1>1, <1>2, Inductive, PTL DEF Spec, ImplementsKeyedMutex, Abstract!Spec
-----------------------------------------------------------------------------
(* McpNotifications *)

RunningOn(r) == {i \in Invoker : walk[i] = "run" /\ on[i] = r}

(* The types that matter, and where a walk may stand.                      *)
WalkTypes ==
    /\ head \in Reg \cup {NoReg} /\ next \in [Reg -> Reg \cup {NoReg}]
    /\ prev \in [Reg -> Reg \cup {NoReg}]
    /\ disposed \subseteq Reg \ Permanent
    /\ refs \in [Reg -> Int]
    /\ walk \in [Invoker -> {"idle", "visit", "run", "advance"}]
    /\ on \in [Invoker -> Reg \cup {NoReg}]
    /\ \A i \in Invoker : walk[i] # "idle" => on[i] \in Reg

(* A registration counts itself, until it is closed, and the calls under   *)
(* way; the channel is closed once both are gone.                          *)
RefsCountCalls ==
    \A r \in Reg :
        refs[r] = IF r \in Permanent THEN 1
                  ELSE Cardinality(RunningOn(r)) + (IF r \in disposed THEN 0 ELSE 1)

DoneIsQuiet ==
    /\ quiet \subseteq doneChan /\ doneChan \subseteq disposed
    /\ \A r \in doneChan : RunningOn(r) = {}

NotifyIInv == WalkTypes /\ RefsCountCalls /\ DoneIsQuiet

LEMMA RunningOnFinite ==
    ASSUME NEW r \in Reg
    PROVE  /\ IsFiniteSet(RunningOn(r))
           /\ Cardinality(RunningOn(r)) \in Nat
           /\ Cardinality(RunningOn(r)) = 0 <=> RunningOn(r) = {}
<1>1. RunningOn(r) \subseteq Invoker
  BY DEF RunningOn
<1>2. IsFiniteSet(RunningOn(r))
  BY <1>1, FS_Subset, RegAssumption
<1>. QED BY <1>2, FS_CardinalityType, FS_EmptySet

LEMMA NotifyInitInv == NotifyInit => NotifyIInv
<1>. SUFFICES ASSUME NotifyInit PROVE NotifyIInv
  OBVIOUS
<1>. USE RegAssumption
<1>1. \A r \in Reg : RunningOn(r) = {}
  BY DEF NotifyInit, RunningOn
<1>2. \A r \in Reg : Cardinality(RunningOn(r)) = 0
  BY <1>1, RunningOnFinite
<1>. QED BY <1>2 DEF NotifyInit, NotifyIInv, WalkTypes, RefsCountCalls, DoneIsQuiet

(* What Dispose does to the registration and its count.                    *)
LEMMA DisposeInv ==
    ASSUME NotifyIInv, NEW r \in Reg \ Permanent, Dispose(r), UNCHANGED <<quiet, walk, on>>
    PROVE  NotifyIInv'
<1>. USE RegAssumption DEF NotifyIInv
<1>0. \A q \in Reg : RunningOn(q)' = RunningOn(q)
  BY DEF RunningOn
<1>1. CASE r \in disposed
  BY <1>0, <1>1 DEF Dispose, links, WalkTypes, RefsCountCalls, DoneIsQuiet
<1>2. CASE r \notin disposed
  <2>1. /\ disposed' = disposed \cup {r}
        /\ refs' = [refs EXCEPT ![r] = @ - 1]
        /\ doneChan' = IF refs'[r] = 0 THEN doneChan \cup {r} ELSE doneChan
    BY <1>2 DEF Dispose
  <2>2. head' \in Reg \cup {NoReg} /\ next' \in [Reg -> Reg \cup {NoReg}]
    BY <1>2 DEF Dispose, Unlink, WalkTypes
  <2>3. prev' \in [Reg -> Reg \cup {NoReg}]
    BY <1>2 DEF Dispose, Unlink, WalkTypes
  <2>4. refs'[r] = Cardinality(RunningOn(r)) /\ refs'[r] \in Int
    BY <1>2, <2>1, RunningOnFinite DEF WalkTypes, RefsCountCalls
  <2>5. WalkTypes'
    <3>1. refs' \in [Reg -> Int]
      BY <2>1 DEF WalkTypes
    <3>2. disposed' \subseteq Reg \ Permanent
      BY <2>1 DEF WalkTypes
    <3>. QED BY <2>2, <2>3, <3>1, <3>2 DEF WalkTypes
  <2>6. RefsCountCalls'
    BY <1>0, <2>1, <2>4 DEF RefsCountCalls, WalkTypes
  <2>7. refs'[r] = 0 => RunningOn(r) = {}
    BY <2>4, RunningOnFinite
  <2>8. DoneIsQuiet'
    BY <1>0, <2>1, <2>7 DEF DoneIsQuiet, WalkTypes
  <2>. QED BY <2>5, <2>6, <2>8
<1>. QED BY <1>1, <1>2

LEMMA NotifyNextInv == NotifyIInv /\ [NotifyNext]_notifyVars => NotifyIInv'
<1>. SUFFICES ASSUME NotifyIInv, [NotifyNext]_notifyVars
              PROVE  NotifyIInv'
  OBVIOUS
<1>. USE RegAssumption DEF NotifyIInv, Walk
<1>1. ASSUME NEW r \in Reg, RegisterHandler(r)
      PROVE  NotifyIInv'
  <2>1. \A q \in Reg : RunningOn(q)' = RunningOn(q)
    BY <1>1 DEF RegisterHandler, RunningOn
  <2>2. WalkTypes'
    BY <1>1 DEF RegisterHandler, WalkTypes
  <2>. QED BY <1>1, <2>1, <2>2 DEF RegisterHandler, RefsCountCalls, DoneIsQuiet, WalkTypes
<1>2. ASSUME NEW r \in Reg, CloseOutside(r)
      PROVE  NotifyIInv'
  BY <1>2, DisposeInv DEF CloseOutside
<1>3. ASSUME NEW r \in Reg, CloseReturns(r) \/ CloseCancelled(r)
      PROVE  NotifyIInv'
  <2>1. \A q \in Reg : RunningOn(q)' = RunningOn(q)
    BY <1>3 DEF CloseReturns, CloseCancelled, RunningOn
  <2>. QED BY <1>3, <2>1 DEF CloseReturns, CloseCancelled, links, RefsCountCalls, DoneIsQuiet, WalkTypes
<1>4. ASSUME NEW i \in Invoker, CloseInside(i)
      PROVE  NotifyIInv'
  <2>1. on[i] \in Reg \ Permanent
    BY <1>4 DEF CloseInside, WalkTypes
  <2>. QED BY <1>4, <2>1, DisposeInv DEF CloseInside
<1>5. ASSUME NEW i \in Invoker, BeginWalk(i) \/ Advance(i)
      PROVE  NotifyIInv'
  <2>1. WalkTypes'
    BY <1>5 DEF BeginWalk, Advance, links, WalkTypes
  <2>2. \A q \in Reg : RunningOn(q)' = RunningOn(q)
    BY <1>5, <2>1 DEF BeginWalk, Advance, RunningOn, WalkTypes
  <2>3. UNCHANGED <<refs, disposed, quiet, doneChan>>
    BY <1>5 DEF BeginWalk, Advance
  <2>. QED BY <2>1, <2>2, <2>3 DEF RefsCountCalls, DoneIsQuiet, WalkTypes
<1>6. ASSUME NEW i \in Invoker, Visit(i)
      PROVE  NotifyIInv'
  <2>0. on[i] \in Reg /\ walk[i] = "visit"
    BY <1>6 DEF Visit, WalkTypes
  <2>1. WalkTypes'
    BY <1>6 DEF Visit, links, WalkTypes
  <2>2. CASE on[i] \in disposed
    <3>1. \A q \in Reg : RunningOn(q)' = RunningOn(q)
      BY <1>6, <2>0, <2>2 DEF Visit, RunningOn, WalkTypes
    <3>2. UNCHANGED <<refs, disposed, quiet, doneChan>>
      BY <1>6, <2>2 DEF Visit
    <3>. QED BY <2>1, <3>1, <3>2 DEF RefsCountCalls, DoneIsQuiet, WalkTypes
  <2>3. CASE on[i] \notin disposed
    <3>0. PICK r \in Reg : r = on[i]
      BY <2>0
    <3>1. RunningOn(r)' = RunningOn(r) \cup {i} /\ \A q \in Reg : q # r => RunningOn(q)' = RunningOn(q)
      BY <1>6, <2>0, <3>0, <2>3 DEF Visit, RunningOn, WalkTypes
    <3>2. i \notin RunningOn(r)
      BY <2>0, <3>0 DEF RunningOn
    <3>3. Cardinality(RunningOn(r)') = Cardinality(RunningOn(r)) + 1
      BY <3>1, <3>2, RunningOnFinite, FS_AddElement
    <3>4. /\ UNCHANGED <<disposed, quiet, doneChan>>
          /\ refs' = IF r \in Permanent THEN refs ELSE [refs EXCEPT ![r] = @ + 1]
      BY <1>6, <2>3, <3>0 DEF Visit
    <3>5. RefsCountCalls'
      <4>. SUFFICES ASSUME NEW q \in Reg
                    PROVE  refs'[q] = IF q \in Permanent THEN 1
                                      ELSE Cardinality(RunningOn(q)') + (IF q \in disposed' THEN 0 ELSE 1)
        BY DEF RefsCountCalls
      <4>1. CASE q = r
        BY <2>3, <3>0, <3>3, <3>4, <4>1, RunningOnFinite DEF RefsCountCalls, WalkTypes
      <4>2. CASE q # r
        BY <3>1, <3>4, <4>2 DEF RefsCountCalls, WalkTypes
      <4>. QED BY <4>1, <4>2
    <3>6. DoneIsQuiet'
      BY <2>3, <3>0, <3>1, <3>4 DEF DoneIsQuiet, WalkTypes
    <3>. QED BY <2>1, <3>5, <3>6
  <2>. QED BY <2>2, <2>3
<1>7. ASSUME NEW i \in Invoker, HandlerReturns(i)
      PROVE  NotifyIInv'
  <2>0. PICK r \in Reg : r = on[i] /\ walk[i] = "run"
    BY <1>7 DEF HandlerReturns, WalkTypes
  <2>1. /\ UNCHANGED <<disposed, quiet, on>>
        /\ refs' = IF r \in Permanent THEN refs ELSE [refs EXCEPT ![r] = @ - 1]
        /\ doneChan' = IF refs'[r] = 0 THEN doneChan \cup {r} ELSE doneChan
    BY <1>7, <2>0 DEF HandlerReturns
  <2>2. WalkTypes'
    BY <1>7 DEF HandlerReturns, links, WalkTypes
  <2>3. RunningOn(r)' = RunningOn(r) \ {i} /\ \A q \in Reg : q # r => RunningOn(q)' = RunningOn(q)
    BY <1>7, <2>0 DEF HandlerReturns, RunningOn, WalkTypes
  <2>4. i \in RunningOn(r)
    BY <2>0 DEF RunningOn
  <2>5. Cardinality(RunningOn(r)') = Cardinality(RunningOn(r)) - 1
    <3>1. IsFiniteSet(RunningOn(r)) /\ Cardinality(RunningOn(r)) \in Nat
      BY RunningOnFinite
    <3>2. Cardinality(RunningOn(r) \ {i}) = Cardinality(RunningOn(r)) - 1
      BY <2>4, <3>1, FS_RemoveElement
    <3>. QED BY <2>3, <3>2
  <2>6. RefsCountCalls'
    <3>. SUFFICES ASSUME NEW q \in Reg
                  PROVE  refs'[q] = IF q \in Permanent THEN 1
                                    ELSE Cardinality(RunningOn(q)') + (IF q \in disposed' THEN 0 ELSE 1)
      BY DEF RefsCountCalls
    <3>1. CASE q = r
      BY <2>0, <2>1, <2>5, <3>1, RunningOnFinite DEF RefsCountCalls, WalkTypes
    <3>2. CASE q # r
      BY <2>0, <2>1, <2>3, <3>2 DEF RefsCountCalls, WalkTypes
    <3>. QED BY <3>1, <3>2
  <2>7. refs'[r] = 0 => r \in disposed /\ RunningOn(r)' = {}
    <3>1. refs'[r] = 0 => r \notin Permanent /\ Cardinality(RunningOn(r)') = 0 /\ r \in disposed
      <4>1. Cardinality(RunningOn(r)) \in Nat /\ Cardinality(RunningOn(r)) # 0
        BY <2>0, <2>4, RunningOnFinite
      <4>. QED BY <2>0, <2>1, <2>5, <2>6, <4>1 DEF RefsCountCalls
    <3>2. RunningOn(r)' \subseteq RunningOn(r)
      BY <2>3
    <3>3. IsFiniteSet(RunningOn(r)')
      BY <2>0, <3>2, RunningOnFinite, FS_Subset
    <3>. QED BY <3>1, <3>3, FS_EmptySet
  <2>8. DoneIsQuiet'
    BY <2>1, <2>3, <2>7 DEF DoneIsQuiet, WalkTypes
  <2>. QED BY <2>2, <2>6, <2>8
<1>8. CASE UNCHANGED notifyVars
  BY <1>8 DEF notifyVars, WalkTypes, RefsCountCalls, DoneIsQuiet, RunningOn
<1>. QED BY <1>1, <1>2, <1>3, <1>4, <1>5, <1>6, <1>7, <1>8 DEF NotifyNext, WalkStep

(* Once Close has waited for a registration its handler does not run       *)
(* (Close, InvokeHandlers).                                                *)
THEOREM QuietAfterCloseHolds == NotifySpec => []QuietAfterClose
<1>1. NotifyIInv => QuietAfterClose
  BY DEF NotifyIInv, DoneIsQuiet, QuietAfterClose, RunningOn
<1>. QED BY <1>1, NotifyInitInv, NotifyNextInv, PTL DEF NotifySpec

(* What a walk still owes lies ahead of it.  "Ahead" is said without       *)
(* following the links one by one: every set that holds the place where    *)
(* the walk stands and that the links do not leave holds what is owed.     *)
Live == made \ disposed

ClosedUnder(S, links_) == \A q \in S : links_[q] \in S \cup {NoReg}

ListTypes ==
    /\ made \subseteq Reg /\ disposed \subseteq made
    /\ head \in made \cup {NoReg}
    /\ \A q \in Reg : next[q] \in made \cup {NoReg}
    /\ \A r \in Reg \ made : next[r] = NoReg /\ prev[r] = NoReg
    /\ \A i \in Invoker : walk[i] # "idle" => on[i] \in made
    /\ owed \in [Invoker -> SUBSET Reg]

(* Among the registrations that are not closed, next and prev are inverse, *)
(* and only the head has none before it.                                   *)
LinksAgree ==
    /\ head \in Live \cup {NoReg}
    /\ \A r \in Live :
          /\ next[r] \in Live \cup {NoReg} /\ prev[r] \in Live \cup {NoReg}
          /\ prev[r] = NoReg <=> head = r
          /\ \A q \in Live : next[q] = r <=> prev[r] = q

HeadLeadsToAll ==
    \A S \in SUBSET Live : head \in S \cup {NoReg} /\ ClosedUnder(S, next) => S = Live

(* A registration that is passed stays passed; of what is owed only closed *)
(* registrations can be missed.                                            *)
OwedIsAhead ==
    \A i \in Invoker :
        /\ walk[i] = "idle" => owed[i] \subseteq disposed
        /\ walk[i] \in {"run", "advance"} => on[i] \notin owed[i]
        /\ walk[i] # "idle" =>
              \A S \in SUBSET Reg :
                  on[i] \in S /\ ClosedUnder(S, next) => owed[i] \ disposed \subseteq S

ListInv == ListTypes /\ LinksAgree /\ HeadLeadsToAll /\ OwedIsAhead

LEMMA ListInitInv == NotifyInit => ListInv
BY RegAssumption DEF NotifyInit, ListInv, ListTypes, Live, LinksAgree, HeadLeadsToAll,
   ClosedUnder, OwedIsAhead

(* The list has no ring of one or two registrations: leaving such a ring   *)
(* out would leave a closed set with the head and without them.            *)
LEMMA NoRing ==
    ASSUME WalkTypes, ListInv, NEW r \in Live, NEW p \in Live, next[p] = r
    PROVE  next[r] # p
<1>. SUFFICES ASSUME next[r] = p PROVE FALSE
  OBVIOUS
<1>. USE RegAssumption DEF ListInv
<1>0. r \in Reg /\ p \in Reg /\ Live \subseteq Reg
  BY DEF Live, ListTypes
<1>1. prev[r] = p /\ prev[p] = r
  BY DEF LinksAgree
<1>2. head # r /\ head # p
  BY <1>0, <1>1 DEF LinksAgree
<1>3. head \in (Live \ {r, p}) \cup {NoReg}
  BY <1>2 DEF LinksAgree
<1>4. ClosedUnder(Live \ {r, p}, next)
  <2>. SUFFICES ASSUME NEW q \in Live \ {r, p}
                PROVE  next[q] \in (Live \ {r, p}) \cup {NoReg}
    BY DEF ClosedUnder
  <2>1. next[q] \in Live \cup {NoReg}
    BY DEF LinksAgree
  <2>2. next[q] # r /\ next[q] # p
    BY <1>1 DEF LinksAgree
  <2>. QED BY <2>1, <2>2
<1>5. Live \ {r, p} = Live
  BY <1>3, <1>4 DEF HeadLeadsToAll
<1>. QED BY <1>5

LEMMA RegisterList ==
    ASSUME WalkTypes, ListInv, NEW r \in Reg, RegisterHandler(r)
    PROVE  ListInv'
<1>. USE RegAssumption DEF ListInv
<1>1. /\ r \notin made /\ made' = made \cup {r}
      /\ next' = [next EXCEPT ![r] = head] /\ head' = r
      /\ prev' = IF head = NoReg THEN prev ELSE [prev EXCEPT ![head] = r]
      /\ UNCHANGED <<disposed, walk, on, owed>>
  BY DEF RegisterHandler
<1>2. /\ next[r] = NoReg /\ prev[r] = NoReg /\ r \notin Live /\ Live' = Live \cup {r}
      /\ Live \subseteq Reg /\ head # r
  BY <1>1 DEF ListTypes, Live
<1>3. next'[r] = head /\ \A q \in Reg \ {r} : next'[q] = next[q]
  BY <1>1 DEF WalkTypes
<1>4. (head # NoReg => prev'[head] = r) /\ \A q \in Reg : q # head => prev'[q] = prev[q]
  BY <1>1 DEF WalkTypes
<1>5. ListTypes'
  <2>1. \A q \in Reg : next'[q] \in made' \cup {NoReg}
    BY <1>1, <1>3 DEF ListTypes
  <2>2. \A q \in Reg \ made' : next'[q] = NoReg /\ prev'[q] = NoReg
    BY <1>1, <1>3, <1>4 DEF ListTypes
  <2>. QED BY <1>1, <2>1, <2>2 DEF ListTypes
<1>6. LinksAgree'
  <2>1. \A q \in Live' :
          next'[q] \in Live' \cup {NoReg} /\ prev'[q] \in Live' \cup {NoReg}
    BY <1>2, <1>3, <1>4 DEF LinksAgree
  <2>2. \A q \in Live' : prev'[q] = NoReg <=> head' = q
    BY <1>1, <1>2, <1>4 DEF LinksAgree
  <2>3. ASSUME NEW s \in Live', NEW q \in Live'
        PROVE  next'[q] = s <=> prev'[s] = q
    <3>1. CASE s = r
      BY <1>2, <1>3, <1>4, <3>1 DEF LinksAgree
    <3>2. CASE s # r /\ q = r
      BY <1>2, <1>3, <1>4, <3>2 DEF LinksAgree
    <3>3. CASE s # r /\ q # r
      BY <1>2, <1>3, <1>4, <3>3 DEF LinksAgree
    <3>. QED BY <3>1, <3>2, <3>3
  <2>. QED BY <1>1, <1>2, <2>1, <2>2, <2>3 DEF LinksAgree
<1>7. ASSUME NEW S \in SUBSET Reg, ClosedUnder(S, next')
      PROVE  ClosedUnder(S, next)
  BY <1>2, <1>3, <1>7 DEF ClosedUnder
<1>8. HeadLeadsToAll'
  <2>. SUFFICES ASSUME NEW S \in SUBSET Live', head' \in S \cup {NoReg}, ClosedUnder(S, next')
                PROVE  S = Live'
    BY DEF HeadLeadsToAll
  <2>1. r \in S /\ S \subseteq Reg
    BY <1>1, <1>2
  <2>2. head \in (S \ {r}) \cup {NoReg}
    BY <1>2, <1>3, <2>1 DEF ClosedUnder
  <2>3. ClosedUnder(S \ {r}, next)
    BY <1>2, <1>7, <2>1 DEF ClosedUnder, LinksAgree
  <2>4. S \ {r} = Live
    BY <1>2, <2>2, <2>3 DEF HeadLeadsToAll
  <2>. QED BY <1>2, <2>1, <2>4
<1>9. OwedIsAhead'
  BY <1>1, <1>7 DEF OwedIsAhead
<1>. QED BY <1>5, <1>6, <1>8, <1>9

LEMMA DisposeList ==
    ASSUME WalkTypes, ListInv, NEW r \in made, Dispose(r), UNCHANGED <<made, walk, on, owed>>
    PROVE  ListInv'
<1>. USE RegAssumption DEF ListInv
<1>1. CASE r \in disposed
  BY <1>1 DEF Dispose, links, ListTypes, LinksAgree, HeadLeadsToAll, OwedIsAhead, Live
<1>2. CASE r \notin disposed
  <2>0. /\ disposed' = disposed \cup {r} /\ Unlink(r)
        /\ r \in Reg /\ r \in Live /\ Live \subseteq Reg /\ Live' = Live \ {r}
    BY <1>2 DEF Dispose, Live, ListTypes
  <2>1. PICK p \in Live \cup {NoReg} : p = prev[r]
    BY <2>0 DEF LinksAgree
  <2>2. PICK n \in Live \cup {NoReg} : n = next[r]
    BY <2>0 DEF LinksAgree
  <2>3. /\ head' = IF head = r THEN n ELSE head
        /\ \A q \in Reg : next'[q] = IF q = p THEN n ELSE next[q]
        /\ \A q \in Reg : prev'[q] = IF q = n THEN p ELSE prev[q]
    BY <2>0, <2>1, <2>2 DEF Unlink
  <2>4. p # NoReg => next[p] = r
    BY <2>0, <2>1 DEF LinksAgree
  <2>5. n # NoReg => prev[n] = r
    BY <2>0, <2>2 DEF LinksAgree
  <2>6. p # r /\ n # r
    <3>1. next[r] # r
      BY <2>0, NoRing
    <3>. QED BY <2>0, <2>2, <2>4, <3>1
  <2>7. p # NoReg => n # p
    BY <2>0, <2>2, <2>4, NoRing
  <2>8. ListTypes'
    <3>1. \A q \in Reg : next'[q] \in made \cup {NoReg}
      BY <2>2, <2>3 DEF ListTypes, Live
    <3>2. \A q \in Reg \ made : next'[q] = NoReg /\ prev'[q] = NoReg
      BY <2>1, <2>2, <2>3 DEF ListTypes, Live
    <3>3. head' \in made \cup {NoReg}
      BY <2>2, <2>3 DEF ListTypes, Live
    <3>. QED BY <2>0, <3>1, <3>2, <3>3 DEF ListTypes
  <2>9. LinksAgree'
    <3>1. head' \in Live' \cup {NoReg}
      BY <2>0, <2>2, <2>3, <2>6 DEF LinksAgree
    <3>2. ASSUME NEW q \in Live'
          PROVE  next'[q] \in Live' \cup {NoReg} /\ prev'[q] \in Live' \cup {NoReg}
      <4>0. q \in Live /\ q \in Reg /\ q # r
        BY <2>0
      <4>1. q # p => next[q] # r
        BY <2>0, <2>1, <4>0 DEF LinksAgree
      <4>2. q # n => prev[q] # r
        BY <2>0, <2>2, <4>0 DEF LinksAgree
      <4>3. next'[q] \in Live' \cup {NoReg}
        BY <2>0, <2>3, <2>6, <4>0, <4>1 DEF LinksAgree
      <4>4. prev'[q] \in Live' \cup {NoReg}
        BY <2>0, <2>3, <2>6, <4>0, <4>2 DEF LinksAgree
      <4>. QED BY <4>3, <4>4
    <3>3. ASSUME NEW q \in Live'
          PROVE  prev'[q] = NoReg <=> head' = q
      <4>0. q \in Live /\ q \in Reg /\ q # r
        BY <2>0
      <4>1. p = NoReg <=> head = r
        BY <2>0, <2>1 DEF LinksAgree
      <4>2. prev[q] = NoReg <=> head = q
        BY <4>0 DEF LinksAgree
      <4>3. q = n => head # q
        BY <2>0, <2>5, <4>0, <4>2
      <4>. QED BY <2>0, <2>3, <4>0, <4>1, <4>2, <4>3
    <3>4. ASSUME NEW s \in Live', NEW q \in Live'
          PROVE  next'[q] = s <=> prev'[s] = q
      <4>0. s \in Live /\ s \in Reg /\ s # r /\ q \in Live /\ q \in Reg /\ q # r
        BY <2>0
      <4>1. next[q] = s <=> prev[s] = q
        BY <4>0 DEF LinksAgree
      <4>. QED BY <2>3, <2>4, <2>5, <4>0, <4>1
    <3>. QED BY <3>1, <3>2, <3>3, <3>4 DEF LinksAgree
  <2>10. ASSUME NEW S \in SUBSET Reg, ClosedUnder(S, next'), p \in S
         PROVE  ClosedUnder(S \cup {r}, next)
    <3>1. next'[p] = n /\ n \in S \cup {NoReg}
      BY <2>3, <2>10 DEF ClosedUnder
    <3>. QED BY <2>2, <2>3, <2>4, <2>10, <3>1 DEF ClosedUnder
  <2>11. ASSUME NEW S \in SUBSET Reg, ClosedUnder(S, next'), p \notin S
         PROVE  ClosedUnder(S, next)
    BY <2>3, <2>11 DEF ClosedUnder
  <2>12. HeadLeadsToAll'
    <3>. SUFFICES ASSUME NEW S \in SUBSET Live', head' \in S \cup {NoReg}, ClosedUnder(S, next')
                  PROVE  S = Live'
      BY DEF HeadLeadsToAll
    <3>0. S \in SUBSET Reg /\ S \in SUBSET Live /\ S \cup {r} \in SUBSET Live /\ r \notin S
      BY <2>0
    <3>1. CASE p \in S
      <4>1. head \in (S \cup {r}) \cup {NoReg}
        BY <2>3
      <4>2. S \cup {r} = Live
        BY <2>10, <3>0, <3>1, <4>1 DEF HeadLeadsToAll
      <4>. QED BY <2>0, <3>0, <4>2
    <3>2. CASE p \notin S /\ head # r
      <4>1. S = Live
        BY <2>3, <2>11, <3>0, <3>2 DEF HeadLeadsToAll
      <4>. QED BY <2>0, <3>0, <4>1
    <3>3. CASE p \notin S /\ head = r
      <4>1. ClosedUnder(S, next) /\ n \in S \cup {NoReg}
        BY <2>3, <2>11, <3>0, <3>3
      <4>2. ClosedUnder(S \cup {r}, next)
        BY <2>2, <4>1 DEF ClosedUnder
      <4>3. S \cup {r} = Live
        BY <3>0, <3>3, <4>2 DEF HeadLeadsToAll
      <4>. QED BY <2>0, <3>0, <4>3
    <3>. QED BY <3>1, <3>2, <3>3
  <2>13. OwedIsAhead'
    <3>. SUFFICES ASSUME NEW i \in Invoker
                  PROVE  /\ walk[i] = "idle" => owed[i] \subseteq disposed'
                         /\ walk[i] \in {"run", "advance"} => on[i] \notin owed[i]
                         /\ walk[i] # "idle" =>
                               \A S \in SUBSET Reg :
                                   on[i] \in S /\ ClosedUnder(S, next') => owed[i] \ disposed' \subseteq S
      BY DEF OwedIsAhead
    <3>1. ASSUME walk[i] # "idle", NEW S \in SUBSET Reg, on[i] \in S, ClosedUnder(S, next')
          PROVE  owed[i] \ disposed' \subseteq S
      <4>1. CASE p \in S
        <5>1. S \cup {r} \in SUBSET Reg /\ on[i] \in S \cup {r}
          BY <2>0, <3>1
        <5>2. owed[i] \ disposed \subseteq S \cup {r}
          BY <2>10, <3>1, <4>1, <5>1 DEF OwedIsAhead
        <5>. QED BY <2>0, <5>2
      <4>2. CASE p \notin S
        <5>1. owed[i] \ disposed \subseteq S
          BY <2>11, <3>1, <4>2 DEF OwedIsAhead
        <5>. QED BY <2>0, <5>1
      <4>. QED BY <4>1, <4>2
    <3>. QED BY <2>0, <3>1 DEF OwedIsAhead
  <2>. QED BY <2>8, <2>9, <2>12, <2>13
<1>. QED BY <1>1, <1>2

(* A step of a walk leaves the list as it is.                              *)
LEMMA WalkList ==
    ASSUME WalkTypes, ListInv, NEW i \in Invoker, BeginWalk(i) \/ WalkStep(i)
    PROVE  ListInv'
<1>. USE RegAssumption DEF ListInv, Walk
<1>1. UNCHANGED <<head, next, prev, made, disposed>>
  BY DEF BeginWalk, WalkStep, Visit, HandlerReturns, Advance, links
<1>2. LinksAgree' /\ HeadLeadsToAll'
  BY <1>1 DEF LinksAgree, HeadLeadsToAll, Live
<1>3. \A j \in Invoker \ {i} : walk'[j] = walk[j] /\ on'[j] = on[j] /\ owed'[j] = owed[j]
  BY DEF BeginWalk, WalkStep, Visit, HandlerReturns, Advance, WalkTypes, ListTypes
<1>4. SUFFICES
        /\ owed' \in [Invoker -> SUBSET Reg]
        /\ walk'[i] # "idle" => on'[i] \in made
        /\ walk'[i] = "idle" => owed'[i] \subseteq disposed
        /\ walk'[i] \in {"run", "advance"} => on'[i] \notin owed'[i]
        /\ walk'[i] # "idle" =>
              \A S \in SUBSET Reg :
                  on'[i] \in S /\ ClosedUnder(S, next) => owed'[i] \ disposed \subseteq S
  <2>1. ListTypes'
    BY <1>1, <1>3, <1>4 DEF ListTypes
  <2>2. OwedIsAhead'
    BY <1>1, <1>3, <1>4 DEF OwedIsAhead
  <2>. QED BY <1>2, <2>1, <2>2
<1>5. CASE BeginWalk(i)
  <2>1. /\ walk'[i] = "visit" /\ on'[i] = head /\ head \in made
        /\ owed'[i] = Live /\ owed' \in [Invoker -> SUBSET Reg]
    BY <1>5 DEF BeginWalk, WalkTypes, ListTypes, Live
  <2>2. ASSUME NEW S \in SUBSET Reg, head \in S, ClosedUnder(S, next)
        PROVE  Live \subseteq S
    <3>1. head \in S \cap Live
      BY <1>5, <2>2 DEF BeginWalk, LinksAgree
    <3>2. ClosedUnder(S \cap Live, next)
      BY <2>2 DEF ClosedUnder, LinksAgree
    <3>3. S \cap Live = Live
      BY <3>1, <3>2 DEF HeadLeadsToAll
    <3>. QED BY <3>3
  <2>. QED BY <2>1, <2>2
<1>6. CASE Visit(i)
  <2>1. /\ walk[i] = "visit" /\ walk'[i] \in {"run", "advance"} /\ on'[i] = on[i]
        /\ owed'[i] = owed[i] \ {on[i]} /\ owed' \in [Invoker -> SUBSET Reg]
    BY <1>6 DEF Visit, WalkTypes, ListTypes
  <2>2. on[i] \in made
    BY <2>1 DEF ListTypes
  <2>. QED BY <2>1, <2>2 DEF OwedIsAhead
<1>7. CASE HandlerReturns(i)
  <2>1. walk[i] = "run" /\ walk'[i] = "advance" /\ UNCHANGED <<on, owed>>
    BY <1>7 DEF HandlerReturns, WalkTypes
  <2>. QED BY <2>1 DEF OwedIsAhead, ListTypes
<1>8. CASE Advance(i)
  <2>0. on[i] \in Reg /\ walk[i] = "advance" /\ UNCHANGED owed
    BY <1>8 DEF Advance, WalkTypes
  <2>1. /\ on'[i] = next[on[i]]
        /\ walk'[i] = IF next[on[i]] = NoReg THEN "idle" ELSE "visit"
    BY <1>8, <2>0 DEF Advance, WalkTypes
  <2>2. on[i] \notin owed[i]
    BY <2>0 DEF OwedIsAhead
  <2>3. ASSUME NEW S \in SUBSET Reg, next[on[i]] \in S \cup {NoReg}, ClosedUnder(S, next)
        PROVE  owed[i] \ disposed \subseteq S
    <3>1. ClosedUnder(S \cup {on[i]}, next)
      BY <2>3 DEF ClosedUnder
    <3>2. S \cup {on[i]} \in SUBSET Reg
      BY <2>0
    <3>3. owed[i] \ disposed \subseteq S \cup {on[i]}
      BY <2>0, <3>1, <3>2 DEF OwedIsAhead
    <3>. QED BY <2>2, <3>3
  <2>4. walk'[i] = "idle" => owed[i] \subseteq disposed
    <3>1. ClosedUnder({}, next)
      BY DEF ClosedUnder
    <3>2. walk'[i] = "idle" => next[on[i]] \in {} \cup {NoReg}
      BY <2>1
    <3>. QED BY <2>3, <3>1, <3>2
  <2>5. walk'[i] # "idle" => on'[i] \in made
    BY <2>0, <2>1 DEF ListTypes
  <2>6. walk'[i] \notin {"run", "advance"}
    BY <2>1
  <2>. QED BY <2>0, <2>1, <2>3, <2>4, <2>5, <2>6 DEF ListTypes
<1>. QED BY <1>5, <1>6, <1>7, <1>8 DEF WalkStep

LEMMA ListNextInv == WalkTypes /\ ListInv /\ [NotifyNext]_notifyVars => ListInv'
<1>. SUFFICES ASSUME WalkTypes, ListInv, [NotifyNext]_notifyVars
              PROVE  ListInv'
  OBVIOUS
<1>1. ASSUME NEW r \in Reg, CloseOutside(r)
      PROVE  ListInv'
  BY <1>1, DisposeList DEF CloseOutside
<1>2. ASSUME NEW i \in Invoker, CloseInside(i)
      PROVE  ListInv'
  <2>1. on[i] \in made
    BY <1>2 DEF CloseInside, ListInv, ListTypes
  <2>. QED BY <1>2, <2>1, DisposeList DEF CloseInside
<1>3. ASSUME NEW r \in Reg, CloseReturns(r) \/ CloseCancelled(r)
      PROVE  ListInv'
  BY <1>3 DEF CloseReturns, CloseCancelled, links, ListInv, ListTypes, LinksAgree,
     HeadLeadsToAll, OwedIsAhead, Live
<1>4. CASE UNCHANGED notifyVars
  BY <1>4 DEF notifyVars, ListInv, ListTypes, LinksAgree, HeadLeadsToAll, OwedIsAhead, Live
<1>. QED BY <1>1, <1>2, <1>3, <1>4, RegisterList, WalkList DEF NotifyNext

(* A walk misses no handler that was registered when it began and is still *)
(* registered when it ends (InvokeHandlers, Register, Close).              *)
THEOREM EveryHandlerCalledHolds == NotifySpec => []EveryHandlerCalled
<1>1. ListInv => EveryHandlerCalled
  BY DEF ListInv, OwedIsAhead, EveryHandlerCalled
<1>2. NotifyIInv => WalkTypes
  BY DEF NotifyIInv
<1>. QED BY <1>1, <1>2, NotifyInitInv, NotifyNextInv, ListInitInv, ListNextInv, PTL DEF NotifySpec
=============================================================================
