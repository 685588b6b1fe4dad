------------------------------ MODULE KeyedMutex ------------------------------
(***************************************************************************)
(* What a lock per key promises its callers: a key has at most one holder, *)
(* and a caller holds at most one key of the manager at a time.            *)
(***************************************************************************)
CONSTANTS Proc, Key

VARIABLE holders   \* Key -> the set of callers between Lock and unlock

Free(p) == \A k \in Key : p \notin holders[k]

Init == holders = [k \in Key |-> {}]

Acquire(p, k) ==
    /\ Free(p)
    /\ holders[k] = {}
    /\ holders' = [holders EXCEPT ![k] = {p}]

Release(p, k) ==
    /\ holders[k] = {p}
    /\ holders' = [holders EXCEPT ![k] = {}]

Next == \E p \in Proc, k \in Key : Acquire(p, k) \/ Release(p, k)

Spec == Init /\ [][Next]_holders
=============================================================================
