----------------------- MODULE SessionAdmissionProofs -----------------------
(* Proofs about SessionAdmission for every limit and any number of         *)
(* sessions, admissions, sweeps and removals.                              *)
EXTENDS SessionAdmission, FiniteSetTheorems, SequenceTheorems, TLAPS

(* A key is in the map once.                                               *)
Distinct == \A i, j \in 1..Len(order) : order[i] = order[j] => i = j

(* Sweepers and removers only sweep, delete and count; an admitter beyond  *)
(* the gate holds it, and asks for a session.                              *)
Roles ==
    \A w \in Worker :
        /\ w \notin Admitter => pc[w] \in {"idle", "sweep", "delete", "uncount"}
        /\ w \in Admitter /\ pc[w] # "idle" => key[w] \in Key
        /\ w \in Admitter => (gate = w <=> pc[w] \notin {"idle", "gate"})
        /\ pc[w] \in {"delete", "uncount"} =>
              resume[w] \in (IF w \in Admitter THEN {"sweep", "evict"} ELSE {"sweep", "idle"})

(* p is inside the loop of evictLeastRecentlyActive: before it has found a *)
(* session or after it has deleted one, or with the one it found in hand.  *)
Searching(p) == pc[p] = "evict" \/ (pc[p] = "uncount" /\ resume[p] = "evict")

Holding(p) == pc[p] = "evictLoad" \/ (pc[p] = "delete" /\ resume[p] = "evict")

(* The attempts are those of the holder of the gate, from its eviction on. *)
AttemptsOfHolder ==
    /\ attempts # 0 => \E p \in Admitter :
          gate = p /\ (Searching(p) \/ Holding(p) \/ pc[p] \in {"store", "count"})
    /\ \A p \in Admitter : gate = p /\ (Searching(p) \/ Holding(p)) => attempts <= MaxSessions + 1

(* The count is behind the map by no more than the sessions counted out    *)
(* twice, so an admission that goes on to store has room for its session;  *)
(* and every attempt of an eviction has made room for one session more.    *)
Allowed == MaxSessions + misses

Room ==
    /\ Cardinality(active) <= Allowed
    /\ \A p \in Admitter : gate = p =>
          /\ pc[p] = "store" => Cardinality(active) < Allowed
          /\ Searching(p) => Cardinality(active) + attempts <= Allowed
          /\ Holding(p) =>
                Cardinality(active \ {target[p]}) + attempts <= Allowed /\ attempts >= 1

IInv == TypeOK /\ Distinct /\ Roles /\ CountDrift /\ AttemptsOfHolder /\ Room

-----------------------------------------------------------------------------
(* The map and the count *)

LEMMA RemoveAtSeq ==
    ASSUME NEW S, NEW s \in Seq(S), NEW i \in 1..Len(s)
    PROVE  /\ RemoveAt(s, i) \in Seq(S)
           /\ Len(RemoveAt(s, i)) = Len(s) - 1
           /\ \A j \in 1..(Len(s) - 1) : RemoveAt(s, i)[j] = IF j < i THEN s[j] ELSE s[j + 1]
<1>. DEFINE a == SubSeq(s, 1, i - 1)
            b == SubSeq(s, i + 1, Len(s))
<1>0. Len(s) \in Nat
  OBVIOUS
<1>1. /\ a \in Seq(S) /\ Len(a) = i - 1
      /\ \A j \in 1..(i - 1) : a[j] = s[j]
  BY <1>0, SubSeqProperties
<1>2. /\ b \in Seq(S) /\ Len(b) = Len(s) - i
      /\ \A j \in 1..(Len(s) - i) : b[j] = s[i + j]
  BY <1>0, SubSeqProperties
<1>3. RemoveAt(s, i) = a \o b
  BY DEF RemoveAt
<1>. HIDE DEF a, b
<1>4. /\ a \o b \in Seq(S)
      /\ Len(a \o b) = Len(a) + Len(b)
      /\ \A j \in 1..(Len(a) + Len(b)) : (a \o b)[j] = IF j <= Len(a) THEN a[j] ELSE b[j - Len(a)]
  BY <1>1, <1>2, ConcatProperties
<1>. QED BY <1>0, <1>1, <1>2, <1>3, <1>4

LEMMA ActiveType ==
    ASSUME TypeOK
    PROVE  /\ active \subseteq Key /\ IsFiniteSet(active) /\ Cardinality(active) \in Nat
           /\ order = <<>> => active = {}
           /\ order # <<>> => Head(order) \in active
<1>1. active \subseteq Key
  BY DEF TypeOK, active
<1>2. order # <<>> => Head(order) \in active
  BY DEF TypeOK, active
<1>. QED BY <1>1, <1>2, AdmissionAssumption, FS_Subset, FS_CardinalityType DEF active

LEMMA AllowedType ==
    ASSUME TypeOK
    PROVE  Allowed \in Nat /\ Allowed >= MaxSessions /\ misses \in Nat
BY AdmissionAssumption DEF TypeOK, Allowed

(* A session is taken out: the others keep their order.                    *)
LEMMA DropActive ==
    ASSUME TypeOK, Distinct, NEW k, Drop(k)
    PROVE  /\ order' \in Seq(Key) /\ expired' \in 0..Len(order')
           /\ Distinct'
           /\ k \in active /\ active' = active \ {k}
<1>1. PICK i \in 1..Len(order) :
          /\ order[i] = k
          /\ order' = RemoveAt(order, i)
          /\ expired' = IF i <= expired THEN expired - 1 ELSE expired
  BY DEF Drop
<1>2. /\ order \in Seq(Key) /\ Len(order) \in Nat /\ expired \in 0..Len(order)
  BY DEF TypeOK
<1>3. /\ order' \in Seq(Key)
      /\ Len(order') = Len(order) - 1
      /\ \A j \in 1..(Len(order) - 1) : order'[j] = IF j < i THEN order[j] ELSE order[j + 1]
  BY <1>1, <1>2, RemoveAtSeq
<1>4. expired' \in 0..Len(order')
  BY <1>1, <1>2, <1>3
<1>5. Distinct'
  BY <1>2, <1>3 DEF Distinct
<1>6. ASSUME NEW x \in active' PROVE x \in active \ {k}
  <2>1. PICK j \in 1..(Len(order) - 1) : order'[j] = x
    BY <1>3 DEF active
  <2>2. CASE j < i
    <3>1. j \in 1..Len(order) /\ x = order[j] /\ j # i
      BY <1>2, <1>3, <2>1, <2>2
    <3>. QED BY <1>1, <3>1 DEF Distinct, active
  <2>3. CASE j >= i
    <3>1. j + 1 \in 1..Len(order) /\ x = order[j + 1] /\ j + 1 # i
      BY <1>2, <1>3, <2>1, <2>3
    <3>. QED BY <1>1, <3>1 DEF Distinct, active
  <2>. QED BY <2>1, <2>2, <2>3
<1>7. ASSUME NEW x \in active \ {k} PROVE x \in active'
  <2>1. PICK j \in 1..Len(order) : order[j] = x /\ j # i
    BY <1>1 DEF active
  <2>2. CASE j < i
    BY <1>2, <1>3, <2>1, <2>2 DEF active
  <2>3. CASE j > i
    <3>1. j - 1 \in 1..Len(order') /\ order'[j - 1] = x
      BY <1>2, <1>3, <2>1, <2>3
    <3>. QED BY <3>1 DEF active
  <2>. QED BY <2>1, <2>2, <2>3
<1>. QED BY <1>1, <1>3, <1>4, <1>5, <1>6, <1>7 DEF active

(* A session that is not in the map goes to the end of the order.          *)
LEMMA AppendActive ==
    ASSUME TypeOK, Distinct, NEW k \in Key, k \notin active, order' = Append(order, k)
    PROVE  /\ order' \in Seq(Key) /\ Len(order') = Len(order) + 1
           /\ Distinct'
           /\ active' = active \cup {k}
<1>2. order \in Seq(Key) /\ Len(order) \in Nat
  BY DEF TypeOK
<1>3. /\ order' \in Seq(Key) /\ Len(order') = Len(order) + 1
      /\ \A j \in 1..Len(order) : order'[j] = order[j]
      /\ order'[Len(order) + 1] = k
  BY <1>2
<1>4. Distinct'
  BY <1>2, <1>3 DEF Distinct, active
<1>5. active' = active \cup {k}
  BY <1>2, <1>3 DEF active
<1>. QED BY <1>3, <1>4, <1>5

(* A session is used: nothing but the order changes.                       *)
LEMMA TouchActive ==
    ASSUME TypeOK, Distinct, NEW k, Touch(k)
    PROVE  /\ order' \in Seq(Key) /\ expired' \in 0..Len(order')
           /\ Distinct'
           /\ active' = active
<1>1. PICK i \in 1..Len(order) :
          /\ order[i] = k
          /\ order' = Append(RemoveAt(order, i), k)
          /\ expired' = IF i <= expired THEN expired - 1 ELSE expired
  BY DEF Touch
<1>2. /\ order \in Seq(Key) /\ Len(order) \in Nat /\ expired \in 0..Len(order) /\ k \in Key
  BY <1>1 DEF TypeOK
<1>3. /\ RemoveAt(order, i) \in Seq(Key)
      /\ Len(RemoveAt(order, i)) = Len(order) - 1
      /\ \A j \in 1..(Len(order) - 1) : RemoveAt(order, i)[j] = IF j < i THEN order[j] ELSE order[j + 1]
  BY <1>2, RemoveAtSeq
<1>4. /\ order' \in Seq(Key)
      /\ Len(order') = Len(order)
      /\ \A j \in 1..(Len(order) - 1) : order'[j] = IF j < i THEN order[j] ELSE order[j + 1]
      /\ order'[Len(order)] = k
  BY <1>1, <1>2, <1>3
<1>5. expired' \in 0..Len(order')
  BY <1>1, <1>2, <1>4
<1>6. Distinct'
  <2>. SUFFICES ASSUME NEW g \in 1..Len(order), NEW h \in 1..Len(order), order'[g] = order'[h]
                PROVE  g = h
    BY <1>4 DEF Distinct
  <2>1. \A j \in 1..Len(order) : j < Len(order) => order'[j] # k
    BY <1>1, <1>2, <1>4 DEF Distinct
  <2>2. CASE g = Len(order) \/ h = Len(order)
    BY <1>2, <1>4, <2>1, <2>2
  <2>3. CASE g < Len(order) /\ h < Len(order)
    BY <1>2, <1>4, <2>3 DEF Distinct
  <2>. QED BY <1>2, <2>2, <2>3
<1>7. active' \subseteq active
  BY <1>1, <1>2, <1>4 DEF active
<1>8. ASSUME NEW x \in active PROVE x \in active'
  <2>1. PICK j \in 1..Len(order) : order[j] = x
    BY DEF active
  <2>2. CASE j < i
    BY <1>2, <1>4, <2>1, <2>2 DEF active
  <2>3. CASE j = i
    BY <1>1, <1>2, <1>4, <2>1, <2>3 DEF active
  <2>4. CASE j > i
    <3>1. j - 1 \in 1..Len(order') /\ order'[j - 1] = x
      BY <1>2, <1>4, <2>1, <2>4
    <3>. QED BY <3>1 DEF active
  <2>. QED BY <2>1, <2>2, <2>3, <2>4
<1>. QED BY <1>4, <1>5, <1>6, <1>7, <1>8

(* How a step of one worker changes the number of workers at l.            *)
LEMMA CountStep ==
    ASSUME TypeOK, NEW w \in Worker, NEW m, Goto(w, m), NEW l
    PROVE  /\ Counting(l) \in Nat
           /\ pc[w] = l /\ m # l => Counting(l)' = Counting(l) - 1
           /\ pc[w] # l /\ m = l => Counting(l)' = Counting(l) + 1
           /\ (pc[w] = l <=> m = l) => Counting(l)' = Counting(l)
<1>. DEFINE at == {x \in Worker : pc[x] = l}
            then == {x \in Worker : pc'[x] = l}
<1>1. IsFiniteSet(at) /\ Cardinality(at) \in Nat
  BY AdmissionAssumption, FS_Subset, FS_CardinalityType
<1>2. Counting(l) = Cardinality(at) /\ Counting(l)' = Cardinality(then)
  BY DEF Counting
<1>3. pc' = [pc EXCEPT ![w] = m] /\ pc \in [Worker -> PC]
  BY DEF Goto, TypeOK
<1>4. CASE pc[w] = l /\ m # l
  <2>1. then = at \ {w} /\ w \in at
    BY <1>3, <1>4
  <2>. QED BY <1>1, <1>2, <1>4, <2>1, FS_RemoveElement
<1>5. CASE pc[w] # l /\ m = l
  <2>1. then = at \cup {w} /\ w \notin at
    BY <1>3, <1>5
  <2>. QED BY <1>1, <1>2, <1>5, <2>1, FS_AddElement
<1>6. CASE pc[w] = l <=> m = l
  <2>1. then = at
    BY <1>3, <1>6
  <2>. QED BY <1>1, <1>2, <1>6, <2>1
<1>. QED BY <1>1, <1>2, <1>4, <1>5, <1>6

(* Nobody else is between the store and the count of an admission.         *)
LEMMA CountCovers ==
    ASSUME IInv, NEW p \in Admitter, gate = p, pc[p] # "count"
    PROVE  Cardinality(active) <= activeCount + misses
<1>1. {w \in Worker : pc[w] = "count"} = {}
  BY DEF IInv, Roles, Worker
<1>2. Counting("count") = 0
  BY <1>1, FS_EmptySet DEF Counting
<1>3. Counting("uncount") \in Nat
  BY AdmissionAssumption, FS_Subset, FS_CardinalityType DEF Counting
<1>4. activeCount \in Int /\ misses \in Nat /\ Cardinality(active) \in Nat
  BY ActiveType DEF IInv, TypeOK
<1>. QED BY <1>2, <1>3, <1>4 DEF IInv, CountDrift

-----------------------------------------------------------------------------
(* Steps *)

LEMMA InitInv == Init => IInv
<1>. SUFFICES ASSUME Init PROVE IInv
  OBVIOUS
<1>. USE AdmissionAssumption DEF Init
<1>1. TypeOK
  BY DEF TypeOK, PC, Worker
<1>2. active = {} /\ Cardinality(active) = 0
  <2>1. Len(order) = 0 /\ 1..0 = {}
    OBVIOUS
  <2>2. active = {}
    BY <2>1 DEF active
  <2>. QED BY <2>2, FS_EmptySet
<1>3. {w \in Worker : pc[w] = "count"} = {} /\ {w \in Worker : pc[w] = "uncount"} = {}
  OBVIOUS
<1>4. CountDrift
  <2>1. Counting("count") = 0 /\ Counting("uncount") = 0
    BY <1>3, FS_EmptySet DEF Counting
  <2>. QED BY <1>2, <2>1 DEF CountDrift
<1>5. Distinct
  BY DEF Distinct
<1>6. Roles
  BY DEF Roles, Worker
<1>7. AttemptsOfHolder /\ Room
  BY <1>2 DEF AttemptsOfHolder, Room, Allowed
<1>. QED BY <1>1, <1>4, <1>5, <1>6, <1>7 DEF IInv

(* A worker moves on, and neither the map nor the count changes.           *)
LEMMA DriftKept ==
    ASSUME IInv, NEW w \in Worker, NEW m, Goto(w, m),
           pc[w] \notin {"count", "uncount"}, m \notin {"count", "uncount"},
           active' = active, activeCount' = activeCount, misses' = misses
    PROVE  CountDrift'
<1>1. Counting("count")' = Counting("count") /\ Counting("uncount")' = Counting("uncount")
  BY CountStep DEF IInv
<1>. QED BY <1>1 DEF IInv, CountDrift

(* Whoever does not hold the gate can only make room.                      *)
LEMMA RoomKept ==
    ASSUME IInv, active' \subseteq active, misses' \in Nat, misses' >= misses,
           gate' = gate, attempts' = attempts,
           \A p \in Admitter : gate = p =>
               pc'[p] = pc[p] /\ target'[p] = target[p] /\ resume'[p] = resume[p]
    PROVE  AttemptsOfHolder' /\ Room'
<1>1. AttemptsOfHolder'
  BY DEF IInv, AttemptsOfHolder, Searching, Holding
<1>2. /\ Cardinality(active) \in Nat /\ Cardinality(active') \in Nat
      /\ Cardinality(active') <= Cardinality(active)
  BY ActiveType, FS_Subset, FS_CardinalityType DEF IInv
<1>3. ASSUME NEW k
      PROVE  /\ Cardinality(active \ {k}) \in Nat /\ Cardinality(active' \ {k}) \in Nat
             /\ Cardinality(active' \ {k}) <= Cardinality(active \ {k})
  <2>1. IsFiniteSet(active \ {k}) /\ active' \ {k} \subseteq active \ {k}
    BY ActiveType, FS_Subset DEF IInv
  <2>. QED BY <2>1, FS_Subset, FS_CardinalityType
<1>4. Allowed \in Nat /\ Allowed' \in Nat /\ Allowed' >= Allowed /\ attempts \in Nat
  <2>1. MaxSessions \in Nat /\ misses \in Nat
    BY AdmissionAssumption DEF IInv, TypeOK
  <2>2. attempts \in Nat
    BY <2>1 DEF IInv, TypeOK
  <2>3. misses' \in Nat /\ misses' >= misses
    OBVIOUS
  <2>4. \A a, b, c \in Nat : a + b \in Nat /\ (c >= b => a + c >= a + b)
    OBVIOUS
  <2>5. Allowed = MaxSessions + misses /\ Allowed' = MaxSessions + misses'
    BY DEF Allowed
  <2>. QED BY <2>1, <2>2, <2>3, <2>4, <2>5
<1>5. Room'
  <2>. SUFFICES        /\ Cardinality(active') <= Allowed'
                       /\ \A p \in Admitter : gate = p =>
                             /\ pc'[p] = "store" => Cardinality(active') < Allowed'
                             /\ Searching(p)' => Cardinality(active') + attempts <= Allowed'
                             /\ Holding(p)' =>
                                   /\ Cardinality(active' \ {target'[p]}) + attempts <= Allowed'
                                   /\ attempts >= 1
    BY DEF Room
  <2>1. Cardinality(active') <= Allowed'
    BY <1>2, <1>4 DEF IInv, Room
  <2>2. ASSUME NEW p \in Admitter, gate = p
        PROVE  /\ pc'[p] = "store" => Cardinality(active') < Allowed'
               /\ Searching(p)' => Cardinality(active') + attempts <= Allowed'
               /\ Holding(p)' =>
                     /\ Cardinality(active' \ {target'[p]}) + attempts <= Allowed'
                     /\ attempts >= 1
    <3>1. (Searching(p)' <=> Searching(p)) /\ (Holding(p)' <=> Holding(p)) /\ target'[p] = target[p]
      BY <2>2 DEF Searching, Holding
    <3>2. /\ pc[p] = "store" => Cardinality(active) < Allowed
          /\ Searching(p) => Cardinality(active) + attempts <= Allowed
          /\ Holding(p) =>
                Cardinality(active \ {target[p]}) + attempts <= Allowed /\ attempts >= 1
      BY <2>2 DEF IInv, Room
    <3>3. /\ Cardinality(active \ {target[p]}) \in Nat /\ Cardinality(active' \ {target[p]}) \in Nat
          /\ Cardinality(active' \ {target[p]}) <= Cardinality(active \ {target[p]})
      BY <1>3
    <3>4. pc'[p] = pc[p]
      BY <2>2
    <3>5. pc'[p] = "store" => Cardinality(active') < Allowed'
      BY <1>2, <1>4, <3>2, <3>4
    <3>6. Searching(p)' => Cardinality(active') + attempts <= Allowed'
      BY <1>2, <1>4, <3>1, <3>2
    <3>7. Holding(p)' => Cardinality(active' \ {target'[p]}) + attempts <= Allowed' /\ attempts >= 1
      BY <1>4, <3>1, <3>2, <3>3
    <3>. QED BY <3>5, <3>6, <3>7
  <2>. QED BY <2>1, <2>2
<1>. QED BY <1>1, <1>5

(* Before its eviction the holder of the gate has made no attempt.         *)
LEMMA NoAttempts ==
    ASSUME IInv, NEW p \in Admitter, gate = p,
           ~Searching(p), ~Holding(p), pc[p] \notin {"store", "count"}
    PROVE  attempts = 0
BY DEF IInv, AttemptsOfHolder

LEMMA TimePassesInv == ASSUME IInv, TimePasses PROVE IInv'
<1>1. TypeOK'
  BY DEF TimePasses, IInv, TypeOK
<1>2. active' = active /\ Distinct'
  BY DEF TimePasses, IInv, active, Distinct
<1>3. Roles' /\ CountDrift'
  BY <1>2 DEF TimePasses, IInv, Roles, CountDrift, Counting
<1>4. AttemptsOfHolder' /\ Room'
  BY <1>2, RoomKept DEF TimePasses, IInv, TypeOK
<1>. QED BY <1>1, <1>2, <1>3, <1>4 DEF IInv

LEMMA FastPathInv == ASSUME IInv, NEW p \in Admitter, NEW k \in Key, FastPath(p, k) PROVE IInv'
<1>1. /\ order' \in Seq(Key) /\ expired' \in 0..Len(order')
      /\ Distinct'
      /\ active' = active
  BY TouchActive DEF FastPath, IInv
<1>2. TypeOK'
  BY <1>1 DEF FastPath, IInv, TypeOK
<1>3. Roles' /\ CountDrift'
  BY <1>1 DEF FastPath, IInv, Roles, CountDrift, Counting
<1>4. AttemptsOfHolder' /\ Room'
  BY <1>1, RoomKept DEF FastPath, IInv, TypeOK
<1>. QED BY <1>1, <1>2, <1>3, <1>4 DEF IInv

LEMMA SlowPathInv == ASSUME IInv, NEW p \in Admitter, NEW k \in Key, SlowPath(p, k) PROVE IInv'
<1>0. p \in Worker
  BY DEF Worker
<1>1. active' = active /\ Distinct'
  BY DEF SlowPath, IInv, active, Distinct
<1>2. TypeOK'
  BY <1>0 DEF SlowPath, Goto, IInv, TypeOK, PC
<1>3. Roles'
  BY <1>0 DEF SlowPath, Goto, IInv, TypeOK, Roles
<1>4. CountDrift'
  BY <1>0, <1>1, DriftKept DEF SlowPath
<1>5. gate # p
  BY <1>0 DEF SlowPath, IInv, Roles
<1>6. AttemptsOfHolder' /\ Room'
  BY <1>0, <1>1, <1>5, RoomKept DEF SlowPath, Goto, IInv, TypeOK, Worker
<1>. QED BY <1>1, <1>2, <1>3, <1>4, <1>6 DEF IInv

LEMMA EnterGateInv == ASSUME IInv, NEW p \in Admitter, EnterGate(p) PROVE IInv'
<1>0. p \in Worker
  BY DEF Worker
<1>1. active' = active /\ Distinct'
  BY DEF EnterGate, IInv, active, Distinct
<1>2. TypeOK'
  BY <1>0 DEF EnterGate, Goto, IInv, TypeOK, PC
<1>3. Roles'
  BY <1>0, AdmissionAssumption DEF EnterGate, Goto, IInv, TypeOK, Roles
<1>4. CountDrift'
  BY <1>0, <1>1, DriftKept DEF EnterGate
<1>5. attempts = 0 /\ attempts' = 0
  BY AdmissionAssumption DEF EnterGate, IInv, AttemptsOfHolder
<1>6. gate' = p /\ pc'[p] = "recheck"
  BY <1>0 DEF EnterGate, Goto, IInv, TypeOK
<1>7. AttemptsOfHolder'
  BY <1>5, <1>6, AdmissionAssumption DEF AttemptsOfHolder
<1>8. Room'
  BY <1>1, <1>6 DEF EnterGate, IInv, Room, Allowed, Searching, Holding
<1>. QED BY <1>1, <1>2, <1>3, <1>4, <1>7, <1>8 DEF IInv

(* An admission ends without having stored anything.                       *)
LEMMA ReturnInv ==
    ASSUME IInv, NEW p \in Admitter, gate = p, Return(p),
           ~Searching(p), ~Holding(p), pc[p] \notin {"store", "count", "uncount"},
           order' \in Seq(Key), expired' \in 0..Len(order'), Distinct', active' = active,
           UNCHANGED <<activeCount, todo, target, resume, attempts, misses>>
    PROVE  IInv'
<1>0. p \in Worker
  BY DEF Worker
<1>2. TypeOK'
  BY <1>0 DEF Return, Goto, IInv, TypeOK, PC
<1>3. Roles'
  BY <1>0, AdmissionAssumption DEF Return, Goto, IInv, TypeOK, Roles
<1>4. CountDrift'
  BY <1>0, DriftKept DEF Return
<1>5. attempts' = 0
  BY NoAttempts
<1>6. gate' \notin Admitter
  BY AdmissionAssumption DEF Return
<1>7. AttemptsOfHolder' /\ Room'
  BY <1>5, <1>6 DEF IInv, AttemptsOfHolder, Room, Allowed
<1>. QED BY <1>2, <1>3, <1>4, <1>7 DEF IInv

LEMMA SecondLookInv == ASSUME IInv, NEW p \in Admitter, SecondLook(p) PROVE IInv'
<1>0. p \in Worker /\ pc[p] = "recheck" /\ gate = p
  BY DEF SecondLook, Worker, IInv, Roles
<1>1. ~Searching(p) /\ ~Holding(p)
  BY <1>0 DEF Searching, Holding
<1>2. CASE key[p] \in active
  <2>1. Touch(key[p]) /\ Return(p)
    BY <1>2 DEF SecondLook
  <2>2. /\ order' \in Seq(Key) /\ expired' \in 0..Len(order')
        /\ Distinct' /\ active' = active
    BY <2>1, TouchActive DEF IInv
  <2>. QED BY <1>0, <1>1, <2>1, <2>2, ReturnInv DEF SecondLook
<1>3. CASE key[p] \notin active
  <2>0. Goto(p, "load") /\ UNCHANGED <<order, expired, gate, key>>
    BY <1>3 DEF SecondLook
  <2>1. active' = active /\ Distinct'
    BY <2>0 DEF IInv, active, Distinct
  <2>2. TypeOK'
    BY <1>0, <2>0 DEF SecondLook, Goto, IInv, TypeOK, PC
  <2>3. Roles'
    BY <1>0, <2>0 DEF SecondLook, Goto, IInv, TypeOK, Roles
  <2>4. CountDrift'
    BY <1>0, <2>0, <2>1, DriftKept DEF SecondLook
  <2>5. attempts' = 0 /\ gate' = p /\ pc'[p] = "load"
    BY <1>0, <1>1, <2>0, NoAttempts DEF SecondLook, Goto, IInv, TypeOK
  <2>6. AttemptsOfHolder' /\ Room'
    BY <2>1, <2>5, AdmissionAssumption DEF SecondLook, IInv, AttemptsOfHolder, Room, Allowed, Searching, Holding
  <2>. QED BY <2>1, <2>2, <2>3, <2>4, <2>6 DEF IInv
<1>. QED BY <1>2, <1>3

LEMMA LoadFailsInv == ASSUME IInv, NEW p \in Admitter, LoadFails(p) PROVE IInv'
<1>0. p \in Worker /\ pc[p] = "load" /\ gate = p
  BY DEF LoadFails, Worker, IInv, Roles
<1>1. ~Searching(p) /\ ~Holding(p)
  BY <1>0 DEF Searching, Holding
<1>2. /\ order' \in Seq(Key) /\ expired' \in 0..Len(order')
      /\ Distinct' /\ active' = active
  BY DEF LoadFails, IInv, TypeOK, Distinct, active
<1>. QED BY <1>0, <1>1, <1>2, ReturnInv DEF LoadFails

(* With the count below the limit there is room for one session more.      *)
LEMMA BelowLimit ==
    ASSUME IInv, NEW p \in Admitter, gate = p, pc[p] # "count", activeCount < MaxSessions
    PROVE  Cardinality(active) < Allowed
<1>1. Cardinality(active) \in Nat /\ activeCount \in Int /\ misses \in Nat /\ MaxSessions \in Nat
  BY ActiveType, AdmissionAssumption DEF IInv, TypeOK
<1>. QED BY <1>1, CountCovers DEF Allowed

(* The holder of the gate goes on to m, with the map as it is.             *)
LEMMA HolderStep ==
    ASSUME IInv, NEW p \in Admitter, gate = p, pc[p] \notin {"count", "uncount"},
           NEW m \in PC \ {"idle", "gate", "count", "uncount"}, Goto(p, m),
           todo' \in [Worker -> SUBSET Key],
           target' \in [Worker -> Key \cup {NoKey}],
           resume' \in [Worker -> {"idle", "sweep", "evict"}],
           \A w \in Worker : w # p => resume'[w] = resume[w],
           m = "delete" => resume'[p] \in {"sweep", "evict"},
           attempts' \in 0..MaxSessions + 2,
           UNCHANGED <<order, expired, activeCount, gate, key, misses>>
    PROVE  /\ TypeOK' /\ Distinct' /\ Roles' /\ CountDrift'
           /\ active' = active /\ gate' = p /\ pc'[p] = m
<1>0. p \in Worker
  BY DEF Worker
<1>1. active' = active /\ Distinct'
  BY DEF IInv, active, Distinct
<1>2. TypeOK'
  BY <1>0 DEF Goto, IInv, TypeOK
<1>3. Roles'
  BY <1>0, AdmissionAssumption DEF Goto, IInv, TypeOK, Roles, PC
<1>4. CountDrift'
  BY <1>0, <1>1, DriftKept
<1>5. pc'[p] = m
  BY <1>0 DEF Goto, IInv, TypeOK
<1>. QED BY <1>1, <1>2, <1>3, <1>4, <1>5

LEMMA CheckCapacityInv == ASSUME IInv, NEW p \in Admitter, CheckCapacity(p) PROVE IInv'
<1>0. p \in Worker /\ pc[p] = "load" /\ gate = p
  BY DEF CheckCapacity, Worker, IInv, Roles
<1>1. attempts = 0 /\ attempts' = 0
  BY <1>0, NoAttempts DEF Searching, Holding, CheckCapacity
<1>2. PICK m \in {"sweep", "store"} :
        Goto(p, m) /\ (m = "store" => activeCount < MaxSessions)
  BY AdmissionAssumption DEF CheckCapacity, IInv, TypeOK
<1>3. todo' \in [Worker -> SUBSET Key]
  BY <1>0 DEF CheckCapacity, IInv, TypeOK
<1>4. /\ TypeOK' /\ Distinct' /\ Roles' /\ CountDrift'
      /\ active' = active /\ gate' = p /\ pc'[p] = m
  BY <1>0, <1>1, <1>2, <1>3, HolderStep, AdmissionAssumption DEF CheckCapacity, IInv, TypeOK, PC
<1>5. m = "store" => Cardinality(active) < Allowed
  BY <1>0, <1>2, BelowLimit
<1>6. AttemptsOfHolder' /\ Room'
  BY <1>1, <1>4, <1>5, AdmissionAssumption
     DEF CheckCapacity, IInv, AttemptsOfHolder, Room, Allowed, Searching, Holding
<1>. QED BY <1>4, <1>6 DEF IInv

LEMMA CheckAgainInv == ASSUME IInv, NEW p \in Admitter, CheckAgain(p) PROVE IInv'
<1>0. p \in Worker /\ pc[p] = "swept" /\ gate = p
  BY DEF CheckAgain, Worker, IInv, Roles
<1>1. attempts = 0 /\ attempts' = 0
  BY <1>0, NoAttempts DEF Searching, Holding, CheckAgain
<1>2. PICK m \in {"evict", "store"} :
        Goto(p, m) /\ (m = "store" => activeCount < MaxSessions)
  BY AdmissionAssumption DEF CheckAgain, IInv, TypeOK
<1>4. /\ TypeOK' /\ Distinct' /\ Roles' /\ CountDrift'
      /\ active' = active /\ gate' = p /\ pc'[p] = m
  BY <1>0, <1>1, <1>2, HolderStep, AdmissionAssumption DEF CheckAgain, IInv, TypeOK, PC
<1>5. m = "store" => Cardinality(active) < Allowed
  BY <1>0, <1>2, BelowLimit
<1>6. Cardinality(active) \in Nat /\ MaxSessions \in Nat
  BY ActiveType, AdmissionAssumption DEF IInv
<1>7. AttemptsOfHolder' /\ Room'
  BY <1>1, <1>2, <1>4, <1>5, <1>6
     DEF CheckAgain, IInv, AttemptsOfHolder, Room, Allowed, Searching, Holding
<1>. QED BY <1>4, <1>7 DEF IInv

LEMMA EvictInv == ASSUME IInv, NEW p \in Admitter, Evict(p) PROVE IInv'
<1>0. p \in Worker /\ pc[p] = "evict" /\ gate = p
  BY DEF Evict, Worker, IInv, Roles
<1>1. attempts \in 0..MaxSessions + 1 /\ attempts' = attempts + 1 /\ MaxSessions \in Nat \ {0}
  BY <1>0, AdmissionAssumption DEF Evict, IInv, AttemptsOfHolder, Searching, TypeOK
<1>2. Cardinality(active) + attempts <= Allowed
  BY <1>0 DEF IInv, Room, Searching
<1>3. Cardinality(active) \in Nat /\ IsFiniteSet(active)
  BY ActiveType DEF IInv
<1>4. CASE activeCount < MaxSessions \/ attempts > MaxSessions \/ order = <<>>
  <2>1. Goto(p, "store") /\ UNCHANGED target
    BY <1>4 DEF Evict
  <2>2. /\ TypeOK' /\ Distinct' /\ Roles' /\ CountDrift'
        /\ active' = active /\ gate' = p /\ pc'[p] = "store"
    BY <1>0, <1>1, <2>1, HolderStep DEF Evict, IInv, TypeOK, PC
  <2>3. Cardinality(active) < Allowed
    <3>1. CASE activeCount < MaxSessions
      BY <1>0, <3>1, BelowLimit
    <3>2. CASE attempts > MaxSessions
      BY <1>1, <1>2, <1>3, <3>2, AllowedType DEF IInv
    <3>3. CASE order = <<>>
      BY <1>1, <3>3, ActiveType, AllowedType, FS_EmptySet DEF IInv
    <3>. QED BY <1>4, <3>1, <3>2, <3>3
  <2>4. AttemptsOfHolder' /\ Room'
    BY <2>2, <2>3 DEF Evict, IInv, AttemptsOfHolder, Room, Allowed, Searching, Holding
  <2>. QED BY <2>2, <2>4 DEF IInv
<1>5. CASE ~(activeCount < MaxSessions \/ attempts > MaxSessions \/ order = <<>>)
  <2>1. Goto(p, "evictLoad") /\ target' = [target EXCEPT ![p] = Head(order)]
    BY <1>5 DEF Evict
  <2>2. Head(order) \in active /\ Head(order) \in Key
    BY <1>5, ActiveType DEF IInv
  <2>3. target' \in [Worker -> Key \cup {NoKey}] /\ target'[p] = Head(order)
    BY <1>0, <2>1, <2>2 DEF IInv, TypeOK
  <2>4. /\ TypeOK' /\ Distinct' /\ Roles' /\ CountDrift'
        /\ active' = active /\ gate' = p /\ pc'[p] = "evictLoad"
    BY <1>0, <1>1, <2>1, <2>3, HolderStep DEF Evict, IInv, TypeOK, PC
  <2>5. Cardinality(active \ {Head(order)}) = Cardinality(active) - 1
    BY <1>3, <2>2, FS_RemoveElement
  <2>6. Cardinality(active \ {Head(order)}) + attempts' <= Allowed
    BY <1>1, <1>2, <1>3, <2>5
  <2>7. attempts' >= 1 /\ attempts' <= MaxSessions + 1
    BY <1>1, <1>5
  <2>8. AttemptsOfHolder' /\ Room'
    BY <2>3, <2>4, <2>6, <2>7 DEF Evict, IInv, AttemptsOfHolder, Room, Allowed, Searching, Holding
  <2>. QED BY <2>4, <2>8 DEF IInv
<1>. QED BY <1>4, <1>5

LEMMA EvictLoadInv == ASSUME IInv, NEW p \in Admitter, EvictLoad(p) PROVE IInv'
<1>0. p \in Worker /\ pc[p] = "evictLoad" /\ gate = p
  BY DEF EvictLoad, Worker, IInv, Roles
<1>1. attempts \in 0..MaxSessions + 1 /\ attempts' = attempts /\ MaxSessions \in Nat \ {0}
  BY <1>0, AdmissionAssumption DEF EvictLoad, IInv, AttemptsOfHolder, Holding, TypeOK
<1>2. Cardinality(active \ {target[p]}) + attempts <= Allowed /\ attempts >= 1
  BY <1>0 DEF IInv, Room, Holding
<1>3. Cardinality(active) \in Nat
  BY ActiveType DEF IInv
<1>4. CASE target[p] \in active
  <2>1. TakeOut(p, target[p], "evict")
    BY <1>4 DEF EvictLoad
  <2>2. /\ target' \in [Worker -> Key \cup {NoKey}] /\ target'[p] = target[p]
        /\ resume' \in [Worker -> {"idle", "sweep", "evict"}] /\ resume'[p] = "evict"
        /\ \A w \in Worker : w # p => resume'[w] = resume[w]
        /\ Goto(p, "delete")
    BY <1>0, <2>1 DEF TakeOut, IInv, TypeOK
  <2>3. /\ TypeOK' /\ Distinct' /\ Roles' /\ CountDrift'
        /\ active' = active /\ gate' = p /\ pc'[p] = "delete"
    BY <1>0, <1>1, <2>2, HolderStep DEF EvictLoad, IInv, TypeOK, PC
  <2>4. AttemptsOfHolder' /\ Room'
    BY <1>1, <1>2, <2>2, <2>3 DEF EvictLoad, IInv, AttemptsOfHolder, Room, Allowed, Searching, Holding
  <2>. QED BY <2>3, <2>4 DEF IInv
<1>5. CASE target[p] \notin active
  <2>1. Goto(p, "store") /\ UNCHANGED <<target, resume>>
    BY <1>5 DEF EvictLoad
  <2>2. /\ TypeOK' /\ Distinct' /\ Roles' /\ CountDrift'
        /\ active' = active /\ gate' = p /\ pc'[p] = "store"
    BY <1>0, <1>1, <2>1, HolderStep DEF EvictLoad, IInv, TypeOK, PC
  <2>3. active \ {target[p]} = active
    BY <1>5
  <2>4. Cardinality(active) < Allowed
    BY <1>1, <1>2, <1>3, <2>3, AllowedType DEF IInv
  <2>5. AttemptsOfHolder' /\ Room'
    BY <2>2, <2>4 DEF EvictLoad, IInv, AttemptsOfHolder, Room, Allowed, Searching, Holding
  <2>. QED BY <2>2, <2>5 DEF IInv
<1>. QED BY <1>4, <1>5

LEMMA StoreInv == ASSUME IInv, NEW p \in Admitter, Store(p) PROVE IInv'
<1>0. p \in Worker /\ pc[p] = "store" /\ gate = p /\ key[p] \in Key
  BY DEF Store, Worker, IInv, Roles
<1>1. /\ order' \in Seq(Key) /\ Len(order') = Len(order) + 1
      /\ Distinct' /\ active' = active \cup {key[p]}
  BY <1>0, AppendActive DEF Store, IInv
<1>2. Cardinality(active') = Cardinality(active) + 1 /\ Cardinality(active) \in Nat
  BY <1>1, ActiveType, FS_AddElement DEF Store, IInv
<1>3. TypeOK'
  <2>1. expired' \in 0..Len(order')
    BY <1>1 DEF Store, IInv, TypeOK
  <2>. QED BY <1>0, <1>1, <2>1 DEF Store, Goto, IInv, TypeOK, PC
<1>4. Roles'
  BY <1>0 DEF Store, Goto, IInv, TypeOK, Roles
<1>5. CountDrift'
  <2>1. /\ Counting("count")' = Counting("count") + 1 /\ Counting("count") \in Nat
        /\ Counting("uncount")' = Counting("uncount") /\ Counting("uncount") \in Nat
    BY <1>0, CountStep DEF Store, IInv
  <2>. QED BY <1>2, <2>1 DEF Store, IInv, TypeOK, CountDrift
<1>6. gate' = p /\ pc'[p] = "count"
  BY <1>0 DEF Store, Goto, IInv, TypeOK
<1>7. Cardinality(active) < Allowed
  BY <1>0 DEF IInv, Room
<1>8. AttemptsOfHolder'
  BY <1>0, <1>6 DEF AttemptsOfHolder, Searching, Holding
<1>9. Room'
  BY <1>2, <1>6, <1>7, AllowedType DEF IInv, Store, Room, Allowed, Searching, Holding
<1>. QED BY <1>1, <1>3, <1>4, <1>5, <1>8, <1>9 DEF IInv

LEMMA CountInv == ASSUME IInv, NEW p \in Admitter, Count(p) PROVE IInv'
<1>0. p \in Worker /\ pc[p] = "count" /\ gate = p
  BY DEF Count, Worker, IInv, Roles
<1>1. active' = active /\ Distinct'
  BY DEF Count, IInv, active, Distinct
<1>2. TypeOK'
  BY <1>0, AdmissionAssumption DEF Count, Return, Goto, IInv, TypeOK, PC
<1>3. Roles'
  BY <1>0, AdmissionAssumption DEF Count, Return, Goto, IInv, TypeOK, Roles
<1>4. CountDrift'
  <2>1. /\ Counting("count")' = Counting("count") - 1 /\ Counting("count") \in Nat
        /\ Counting("uncount")' = Counting("uncount") /\ Counting("uncount") \in Nat
    BY <1>0, CountStep DEF Count, Return, IInv
  <2>2. Cardinality(active) \in Nat
    BY ActiveType DEF IInv
  <2>. QED BY <1>1, <2>1, <2>2 DEF Count, IInv, TypeOK, CountDrift
<1>5. gate' \notin Admitter /\ attempts' = 0
  BY AdmissionAssumption DEF Count, Return
<1>6. AttemptsOfHolder' /\ Room'
  BY <1>1, <1>5 DEF Count, IInv, AttemptsOfHolder, Room, Allowed
<1>. QED BY <1>1, <1>2, <1>3, <1>4, <1>6 DEF IInv

(* A sweep or a removal from outside goes on, with the map as it is.       *)
LEMMA OutsiderStep ==
    ASSUME IInv, NEW w \in Worker, w \notin Admitter, pc[w] # "uncount",
           NEW m \in {"idle", "sweep", "delete"}, Goto(w, m),
           todo' \in [Worker -> SUBSET Key],
           target' \in [Worker -> Key \cup {NoKey}],
           resume' \in [Worker -> {"idle", "sweep", "evict"}],
           \A v \in Worker : v # w => resume'[v] = resume[v] /\ target'[v] = target[v],
           m = "delete" => resume'[w] \in {"sweep", "idle"},
           UNCHANGED <<order, expired, activeCount, gate, key, attempts, misses>>
    PROVE  IInv'
<1>1. active' = active /\ Distinct'
  BY DEF IInv, active, Distinct
<1>2. TypeOK'
  BY DEF Goto, IInv, TypeOK, PC
<1>3. Roles'
  BY DEF Goto, IInv, TypeOK, Roles
<1>4. pc[w] # "count"
  BY DEF IInv, Roles
<1>5. CountDrift'
  BY <1>1, <1>4, DriftKept
<1>6. \A p \in Admitter : pc'[p] = pc[p] /\ target'[p] = target[p] /\ resume'[p] = resume[p]
  BY DEF Goto, IInv, TypeOK, Worker
<1>7. AttemptsOfHolder' /\ Room'
  BY <1>1, <1>6, RoomKept DEF IInv, TypeOK
<1>. QED BY <1>1, <1>2, <1>3, <1>5, <1>7 DEF IInv

LEMMA SweepStartInv == ASSUME IInv, NEW s \in Sweeper, SweepStart(s) PROVE IInv'
<1>0. s \in Worker /\ s \notin Admitter
  BY AdmissionAssumption DEF Worker
<1>1. todo' \in [Worker -> SUBSET Key]
  BY <1>0 DEF SweepStart, IInv, TypeOK
<1>. QED BY <1>0, <1>1, OutsiderStep DEF SweepStart, IInv, TypeOK

LEMMA RemoveActiveInv == ASSUME IInv, NEW r \in Remover, NEW k \in Key, RemoveActive(r, k) PROVE IInv'
<1>0. r \in Worker /\ r \notin Admitter
  BY AdmissionAssumption DEF Worker
<1>1. /\ target' \in [Worker -> Key \cup {NoKey}]
      /\ resume' \in [Worker -> {"idle", "sweep", "evict"}] /\ resume'[r] = "idle"
      /\ \A v \in Worker : v # r => resume'[v] = resume[v] /\ target'[v] = target[v]
      /\ Goto(r, "delete")
  BY <1>0 DEF RemoveActive, TakeOut, IInv, TypeOK
<1>. QED BY <1>0, <1>1, OutsiderStep DEF RemoveActive, IInv, TypeOK

LEMMA SweepVisitInv == ASSUME IInv, NEW w \in Worker, NEW k \in Key, SweepVisit(w, k) PROVE IInv'
<1>0. pc[w] = "sweep" /\ todo' \in [Worker -> SUBSET Key]
  BY DEF SweepVisit, IInv, TypeOK
<1>1. CASE k \in Expired
  <2>1. /\ target' \in [Worker -> Key \cup {NoKey}]
        /\ resume' \in [Worker -> {"idle", "sweep", "evict"}] /\ resume'[w] = "sweep"
        /\ \A v \in Worker : v # w => resume'[v] = resume[v] /\ target'[v] = target[v]
        /\ Goto(w, "delete")
    BY <1>1 DEF SweepVisit, TakeOut, IInv, TypeOK
  <2>2. CASE w \notin Admitter
    BY <1>0, <2>1, <2>2, OutsiderStep DEF SweepVisit
  <2>3. CASE w \in Admitter
    <3>0. gate = w /\ attempts = 0
      BY <1>0, <2>3, NoAttempts DEF IInv, Roles, Searching, Holding
    <3>1. /\ TypeOK' /\ Distinct' /\ Roles' /\ CountDrift'
          /\ active' = active /\ gate' = w /\ pc'[w] = "delete"
      BY <1>0, <2>1, <2>3, <3>0, HolderStep DEF SweepVisit, IInv, TypeOK, PC
    <3>2. AttemptsOfHolder' /\ Room'
      BY <2>1, <3>0, <3>1, AdmissionAssumption
         DEF SweepVisit, IInv, AttemptsOfHolder, Room, Allowed, Searching, Holding
    <3>. QED BY <3>1, <3>2 DEF IInv
  <2>. QED BY <2>2, <2>3
<1>2. CASE k \notin Expired
  <2>0. UNCHANGED <<order, expired, activeCount, gate, pc, key, target, resume, attempts, misses>>
    BY <1>2 DEF SweepVisit
  <2>1. active' = active /\ Distinct'
    BY <2>0 DEF IInv, active, Distinct
  <2>2. TypeOK'
    BY <1>0, <2>0 DEF IInv, TypeOK
  <2>3. Roles' /\ CountDrift'
    BY <2>0, <2>1 DEF IInv, Roles, CountDrift, Counting
  <2>4. AttemptsOfHolder' /\ Room'
    BY <2>0, <2>1, RoomKept DEF IInv, TypeOK
  <2>. QED BY <2>1, <2>2, <2>3, <2>4 DEF IInv
<1>. QED BY <1>1, <1>2

LEMMA SweepEndInv == ASSUME IInv, NEW w \in Worker, SweepEnd(w) PROVE IInv'
<1>0. pc[w] = "sweep" /\ UNCHANGED <<key, todo, target, resume, attempts>>
  BY DEF SweepEnd, locals
<1>1. CASE w \notin Admitter
  BY <1>0, <1>1, OutsiderStep DEF SweepEnd, IInv, TypeOK
<1>2. CASE w \in Admitter
  <2>0. gate = w /\ attempts = 0
    BY <1>0, <1>2, NoAttempts DEF IInv, Roles, Searching, Holding
  <2>1. /\ TypeOK' /\ Distinct' /\ Roles' /\ CountDrift'
        /\ active' = active /\ gate' = w /\ pc'[w] = "swept"
    BY <1>0, <1>2, <2>0, HolderStep DEF SweepEnd, IInv, TypeOK, PC
  <2>2. AttemptsOfHolder' /\ Room'
    BY <1>0, <2>0, <2>1, AdmissionAssumption
       DEF SweepEnd, IInv, AttemptsOfHolder, Room, Allowed, Searching, Holding
  <2>. QED BY <2>1, <2>2 DEF IInv
<1>. QED BY <1>1, <1>2

(* A session that another worker has deleted meanwhile is a miss; the      *)
(* session is counted out in either case.                                  *)
LEMMA DeleteInv == ASSUME IInv, NEW w \in Worker, Delete(w) PROVE IInv'
<1>0. /\ pc[w] = "delete" /\ Goto(w, "uncount")
      /\ UNCHANGED <<activeCount, gate, key, todo, target, resume, attempts>>
  BY DEF Delete, locals
<1>1. /\ order' \in Seq(Key) /\ expired' \in 0..Len(order') /\ Distinct'
      /\ misses' \in Nat /\ active' \subseteq active
      /\ \/ /\ target[w] \in active /\ active' = active \ {target[w]} /\ misses' = misses
         \/ /\ target[w] \notin active /\ active' = active /\ misses' = misses + 1
  <2>1. CASE target[w] \in active
    BY <2>1, DropActive DEF Delete, IInv, TypeOK
  <2>2. CASE target[w] \notin active
    <3>1. misses' = misses + 1 /\ UNCHANGED <<order, expired>>
      BY <2>2 DEF Delete
    <3>. QED BY <2>2, <3>1 DEF IInv, TypeOK, Distinct, active
  <2>. QED BY <2>1, <2>2
<1>2. TypeOK'
  BY <1>0, <1>1 DEF Goto, IInv, TypeOK, PC
<1>3. Roles'
  BY <1>0 DEF Goto, IInv, TypeOK, Roles
<1>4. CountDrift'
  <2>1. /\ Counting("count")' = Counting("count") /\ Counting("count") \in Nat
        /\ Counting("uncount")' = Counting("uncount") + 1 /\ Counting("uncount") \in Nat
    BY <1>0, CountStep DEF IInv
  <2>2. /\ Cardinality(active) \in Nat
        /\ target[w] \in active => Cardinality(active \ {target[w]}) = Cardinality(active) - 1
    BY ActiveType, FS_RemoveElement DEF IInv
  <2>3. activeCount' = activeCount /\ activeCount \in Int /\ misses \in Nat
    BY <1>0 DEF IInv, TypeOK
  <2>4. activeCount + Counting("count") - Counting("uncount") + misses = Cardinality(active)
    BY DEF IInv, CountDrift
  <2>5. CASE target[w] \in active
    <3>1. Cardinality(active') = Cardinality(active) - 1 /\ misses' = misses
      BY <1>1, <2>2, <2>5
    <3>. QED BY <2>1, <2>2, <2>3, <2>4, <3>1 DEF CountDrift
  <2>6. CASE target[w] \notin active
    BY <1>1, <2>1, <2>2, <2>3, <2>4, <2>6 DEF CountDrift
  <2>. QED BY <2>5, <2>6
<1>5. pc'[w] = "uncount" /\ \A v \in Worker : v # w => pc'[v] = pc[v]
  BY <1>0 DEF Goto, IInv, TypeOK
<1>6. AttemptsOfHolder' /\ Room'
  <2>1. CASE w \notin Admitter \/ gate # w
    <3>1. \A p \in Admitter : gate = p =>
              pc'[p] = pc[p] /\ target'[p] = target[p] /\ resume'[p] = resume[p]
      BY <1>0, <1>5, <2>1 DEF Worker
    <3>2. misses' >= misses
      BY <1>1 DEF IInv, TypeOK
    <3>. QED BY <1>0, <1>1, <3>1, <3>2, RoomKept
  <2>2. CASE w \in Admitter /\ gate = w
    <3>1. AttemptsOfHolder'
      BY <1>0, <1>5, <2>2 DEF IInv, AttemptsOfHolder, Searching, Holding
    <3>2. CASE target[w] \notin active
      <4>1. active' = active /\ Allowed' = Allowed + 1
        <5>1. active' = active /\ misses' = misses + 1
          BY <1>1, <3>2
        <5>. QED BY <5>1, AllowedType, AdmissionAssumption DEF IInv, Allowed
      <4>2. Cardinality(active) \in Nat /\ attempts \in Nat /\ Cardinality(active) <= Allowed
        BY ActiveType DEF IInv, TypeOK, Room
      <4>3. resume[w] = "evict" => Cardinality(active \ {target[w]}) + attempts <= Allowed
        BY <1>0, <2>2 DEF IInv, Room, Holding
      <4>4. active \ {target[w]} = active
        BY <3>2
      <4>5. resume[w] = "evict" => Cardinality(active') + attempts <= Allowed'
        BY <4>1, <4>2, <4>3, <4>4, AllowedType DEF IInv
      <4>6. Cardinality(active') <= Allowed'
        BY <4>1, <4>2, AllowedType DEF IInv
      <4>7. Room'
        BY <1>0, <1>5, <2>2, <4>5, <4>6 DEF Room, Searching, Holding
      <4>. QED BY <3>1, <4>7
    <3>3. CASE target[w] \in active
      <4>1. active' = active \ {target[w]} /\ misses' = misses
        BY <1>1, <3>3
      <4>2. Cardinality(active') <= Cardinality(active) /\ Cardinality(active) \in Nat
            /\ Cardinality(active') \in Nat
        BY <1>1, ActiveType, FS_Subset, FS_CardinalityType DEF IInv
      <4>3. Cardinality(active') <= Allowed
        BY <4>2, AllowedType DEF IInv, Room
      <4>4. resume[w] = "evict" => Cardinality(active') + attempts <= Allowed
        BY <1>0, <2>2, <4>1 DEF IInv, Room, Holding
      <4>5. Room'
        BY <1>0, <1>5, <2>2, <4>1, <4>3, <4>4 DEF Room, Allowed, Searching, Holding
      <4>. QED BY <3>1, <4>5
    <3>. QED BY <3>2, <3>3
  <2>. QED BY <2>1, <2>2
<1>. QED BY <1>1, <1>2, <1>3, <1>4, <1>6 DEF IInv

LEMMA UncountInv == ASSUME IInv, NEW w \in Worker, Uncount(w) PROVE IInv'
<1>0. pc[w] = "uncount" /\ Goto(w, resume[w])
  BY DEF Uncount
<1>1. active' = active /\ Distinct'
  BY DEF Uncount, IInv, active, Distinct
<1>2. resume[w] \in IF w \in Admitter THEN {"sweep", "evict"} ELSE {"sweep", "idle"}
  BY <1>0 DEF IInv, Roles
<1>3. TypeOK'
  BY <1>2 DEF Uncount, Goto, IInv, TypeOK, PC
<1>4. Roles'
  BY <1>0, <1>2 DEF Uncount, Goto, IInv, TypeOK, Roles
<1>5. CountDrift'
  <2>1. /\ Counting("count")' = Counting("count") /\ Counting("count") \in Nat
        /\ Counting("uncount")' = Counting("uncount") - 1 /\ Counting("uncount") \in Nat
    BY <1>0, <1>2, CountStep DEF IInv
  <2>2. Cardinality(active) \in Nat
    BY ActiveType DEF IInv
  <2>3. activeCount' = activeCount - 1 /\ activeCount \in Int /\ misses' = misses /\ misses \in Nat
    BY DEF Uncount, IInv, TypeOK
  <2>4. activeCount + Counting("count") - Counting("uncount") + misses = Cardinality(active)
    BY DEF IInv, CountDrift
  <2>. QED BY <1>1, <2>1, <2>2, <2>3, <2>4 DEF CountDrift
<1>6. CASE w \notin Admitter \/ gate # w
  <2>1. \A p \in Admitter : gate = p =>
            pc'[p] = pc[p] /\ target'[p] = target[p] /\ resume'[p] = resume[p]
    BY <1>0, <1>6 DEF Uncount, Goto, IInv, TypeOK, Worker
  <2>2. AttemptsOfHolder' /\ Room'
    BY <1>1, <2>1, RoomKept DEF Uncount, IInv, TypeOK
  <2>. QED BY <1>1, <1>3, <1>4, <1>5, <2>2 DEF IInv
<1>7. CASE w \in Admitter /\ gate = w
  <2>1. gate' = w /\ pc'[w] = resume[w] /\ attempts' = attempts /\ misses' = misses
    BY <1>0, <1>7 DEF Uncount, Goto, IInv, TypeOK
  <2>2. resume[w] = "sweep" => attempts = 0
    BY <1>0, <1>7, NoAttempts DEF Searching, Holding
  <2>3. /\ Searching(w)' <=> resume[w] = "evict"
        /\ ~Holding(w)'
        /\ resume[w] = "evict" => Searching(w)
    BY <1>0, <1>2, <1>7, <2>1 DEF Searching, Holding
  <2>4. AttemptsOfHolder'
    BY <1>2, <1>7, <2>1, <2>2, <2>3, AdmissionAssumption DEF IInv, AttemptsOfHolder
  <2>5. Room'
    BY <1>1, <1>2, <1>7, <2>1, <2>3 DEF IInv, Room, Allowed
  <2>. QED BY <1>1, <1>3, <1>4, <1>5, <2>4, <2>5 DEF IInv
<1>. QED BY <1>6, <1>7

(* The invariant is inductive.                                             *)
LEMMA NextInv == IInv /\ [Next]_vars => IInv'
<1>. SUFFICES ASSUME IInv, [Next]_vars PROVE IInv'
  OBVIOUS
<1>1. CASE TimePasses
  BY <1>1, TimePassesInv
<1>2. ASSUME NEW p \in Admitter, GetOrCreateById(p) PROVE IInv'
  BY <1>2, FastPathInv, SlowPathInv, EnterGateInv, SecondLookInv, LoadFailsInv, CheckCapacityInv,
     CheckAgainInv, EvictInv, EvictLoadInv, StoreInv, CountInv DEF GetOrCreateById
<1>3. ASSUME NEW s \in Sweeper, SweepStart(s) PROVE IInv'
  BY <1>3, SweepStartInv
<1>4. ASSUME NEW w \in Worker, Sweep(w) \/ Delete(w) \/ Uncount(w) PROVE IInv'
  BY <1>4, SweepVisitInv, SweepEndInv, DeleteInv, UncountInv DEF Sweep
<1>5. ASSUME NEW r \in Remover, NEW k \in Key, RemoveActive(r, k) PROVE IInv'
  BY <1>5, RemoveActiveInv
<1>6. CASE UNCHANGED vars
  <2>1. UNCHANGED <<order, expired, activeCount, gate, pc, key, todo, target, resume, attempts, misses>>
    BY <1>6 DEF vars
  <2>2. active' = active /\ TypeOK' /\ Distinct'
    BY <2>1 DEF IInv, TypeOK, active, Distinct
  <2>3. Roles' /\ CountDrift'
    BY <2>1, <2>2 DEF IInv, Roles, CountDrift, Counting
  <2>4. AttemptsOfHolder' /\ Room'
    BY <2>1, <2>2, RoomKept DEF IInv, TypeOK
  <2>. QED BY <2>2, <2>3, <2>4 DEF IInv
<1>. QED BY <1>1, <1>2, <1>3, <1>4, <1>5, <1>6 DEF Next

LEMMA Inductive == Spec => []IInv
BY InitInv, NextInv, PTL DEF Spec

-----------------------------------------------------------------------------
(* The count and the map differ by the steps that are still to be taken    *)
(* and the sessions counted out twice, on every path of session.go.        *)
THEOREM CountDriftHolds == Spec => []CountDrift
<1>1. IInv => CountDrift
  BY DEF IInv
<1>. QED BY <1>1, Inductive, PTL

(* GetOrCreateById goes beyond the limit by no more than the sessions that *)
(* were counted out twice, for every limit, although it ignores the        *)
(* refusal of ensureCapacityForAdmission.                                  *)
THEOREM LimitUpToMissesHolds == Spec => []LimitUpToMisses
<1>1. IInv => LimitUpToMisses
  BY DEF IInv, Room, Allowed, LimitUpToMisses
<1>. QED BY <1>1, Inductive, PTL

(* The variables keep their types, the attempts of an eviction their bound.*)
THEOREM AdmissionTypes == Spec => []TypeOK
<1>1. IInv => TypeOK
  BY DEF IInv
<1>. QED BY <1>1, Inductive, PTL
=============================================================================
