------------------------- MODULE PaymentsRateProofs -------------------------
(* Proofs about Payments for any number of cards, requests and callers,    *)
(* and about RateWindow for any finite set of messages, limit and delay.   *)
EXTENDS Payments, RateWindow, FiniteSetTheorems, SequenceTheorems, TLAPS

-----------------------------------------------------------------------------
(* Payments *)

Place == {"idle", "approval", "approved", "failed", "done", "panicked", "paid", "header"}

Types ==
    /\ vault \subseteq Handle /\ revoked \subseteq Handle
    /\ place \in [PaymentUser -> Place]
    /\ handle \in [PaymentUser -> Handle \cup {NoHandle}]
    /\ given \in [Trip -> {0, 1}] /\ paid \in [Trip -> {0, 1}]

(* A fill holds a card and no payment; what was revoked of a card stays    *)
(* cleared, because a card is issued only while nothing of it was cleared. *)
CardsStayCleared ==
    /\ filled = {}
    /\ \A u \in Filler : handle[u] \notin Trip
    /\ revoked \cap Card \subseteq cleared

(* A secret in the vault was not handed out yet and belongs to a payment   *)
(* that was made; a trip that has paid is past its approval.               *)
PaidInOrder ==
    \A h \in Trip :
        /\ h \in vault => given[h] = 0
        /\ h \in vault \/ given[h] = 1 => paid[h] = 1
        /\ paid[h] = 1 => place[h] \notin {"idle", "approval", "approved"}

IInv == Types /\ CardsStayCleared /\ PaidInOrder

LEMMA InitInv == PaymentInit => IInv
<1>. SUFFICES ASSUME PaymentInit PROVE IInv
  OBVIOUS
<1>. USE PaymentAssumption DEF PaymentInit, Place, Handle, PaymentUser
<1>1. Types
  BY DEF Types
<1>2. CardsStayCleared
  BY DEF CardsStayCleared
<1>3. PaidInOrder
  <2>. SUFFICES ASSUME NEW h \in Trip
                PROVE  h \notin vault /\ given[h] # 1 /\ paid[h] # 1
    BY DEF PaidInOrder
  <2>. QED OBVIOUS
<1>. QED BY <1>1, <1>2, <1>3 DEF IInv

(* A user moves on and nothing else happens.                               *)
LEMMA StepInv ==
    ASSUME IInv, NEW u \in PaymentUser, NEW l \in Place,
           place' = [place EXCEPT ![u] = l],
           u \in Trip /\ paid[u] = 1 => l \notin {"idle", "approval", "approved"},
           vault' = vault, cleared' = cleared, handle' = handle, revoked' = revoked,
           filled' = filled, given' = given, paid' = paid
    PROVE  IInv'
BY DEF IInv, Types, CardsStayCleared, PaidInOrder, PaymentUser, Place

(* The vault is asked for a secret, by a fill or for an authorization.     *)
LEMMA TryRetrieveInv ==
    ASSUME IInv, NEW u \in PaymentUser, NEW h \in Handle, NEW next \in Place,
           TryRetrieve(u, h, next),
           revoked' = revoked, filled' = filled, paid' = paid,
           u \in Filler => h \in Card,
           u \in Trip => next = "header"
    PROVE  IInv'
<1>. USE PaymentAssumption DEF IInv, Handle, PaymentUser, Place
<1>1. PICK l \in {"panicked", "failed", next} : place' = [place EXCEPT ![u] = l]
  BY DEF TryRetrieve, Retrieved, Step
<1>2. /\ place' \in [PaymentUser -> Place]
      /\ \A w \in Trip : place'[w] \in {"idle", "approval", "approved"} => place'[w] = place[w]
  BY <1>1 DEF Types
<1>3. cleared \subseteq cleared' /\ vault' \subseteq vault
  BY DEF TryRetrieve, Retrieved
<1>4. handle' = handle \/ handle' = [handle EXCEPT ![u] = h]
  BY DEF TryRetrieve, Retrieved
<1>5. handle' \in [PaymentUser -> Handle \cup {NoHandle}] /\ \A w \in Filler : handle'[w] \notin Trip
  BY <1>4 DEF Types, CardsStayCleared
<1>6. given' = given \/ (h \in Trip \cap vault /\ h \notin vault' /\ given' = [given EXCEPT ![h] = @ + 1])
  BY DEF TryRetrieve, Retrieved, Once
<1>7. /\ given' \in [Trip -> {0, 1}]
      /\ \A w \in Trip : w \in vault' => given'[w] = given[w]
      /\ \A w \in Trip : given'[w] = 1 => given[w] = 1 \/ w \in vault
  <2>1. CASE given' = given
    BY <2>1 DEF Types
  <2>2. CASE h \in Trip \cap vault /\ h \notin vault' /\ given' = [given EXCEPT ![h] = @ + 1]
    BY <2>2 DEF Types, PaidInOrder
  <2>. QED BY <1>6, <2>1, <2>2
<1>8. Types'
  BY <1>2, <1>3, <1>5, <1>7 DEF Types
<1>9. CardsStayCleared'
  BY <1>3, <1>5 DEF CardsStayCleared
<1>10. PaidInOrder'
  <2>. SUFFICES ASSUME NEW w \in Trip
                PROVE  /\ w \in vault' => given'[w] = 0
                       /\ w \in vault' \/ given'[w] = 1 => paid'[w] = 1
                       /\ paid'[w] = 1 => place'[w] \notin {"idle", "approval", "approved"}
    BY DEF PaidInOrder
  <2>. QED BY <1>2, <1>3, <1>7 DEF PaidInOrder
<1>. QED BY <1>8, <1>9, <1>10

LEMMA NextInv == IInv /\ [PaymentNext]_paymentVars => IInv'
<1>. SUFFICES ASSUME IInv, [PaymentNext]_paymentVars
              PROVE  IInv'
  OBVIOUS
<1>. USE PaymentAssumption DEF Handle, PaymentUser, Place
<1>1. ASSUME NEW h \in Handle, Expire(h)
      PROVE  IInv'
  BY <1>1 DEF IInv, Expire, Types, CardsStayCleared, PaidInOrder, traces
<1>2. ASSUME NEW h \in Handle, IssueVirtualCard(h)
      PROVE  IInv'
  BY <1>2 DEF IInv, IssueVirtualCard, Stored, Types, CardsStayCleared, PaidInOrder, traces
<1>3. ASSUME NEW h \in Handle, Revoke(h)
      PROVE  IInv'
  BY <1>3 DEF IInv, Revoke, Types, CardsStayCleared, PaidInOrder
<1>4. ASSUME NEW u \in Filler, Resolve(u)
      PROVE  IInv'
  <2>1. handle[u] \notin revoked \ cleared
    BY DEF IInv, Types, CardsStayCleared
  <2>2. UNCHANGED filled
    BY <1>4, <2>1 DEF Resolve
  <2>3. PICK l \in {"failed", "done"} : place' = [place EXCEPT ![u] = l]
    BY <1>4 DEF Resolve, Step
  <2>. QED BY <1>4, <2>2, <2>3, StepInv DEF Resolve
<1>5. ASSUME NEW u \in Filler, NEW h \in Card, Fill(u, h)
      PROVE  IInv'
  <2>1. TryRetrieve(u, h, "approval") /\ revoked' = revoked /\ filled' = filled /\ paid' = paid
    BY <1>5 DEF Fill
  <2>2. u \in PaymentUser /\ h \in Handle /\ u \notin Trip
    OBVIOUS
  <2>. QED BY <2>1, <2>2, TryRetrieveInv, Zenon
<1>6. ASSUME NEW u \in Filler \cup Trip, NEW granted \in BOOLEAN, Approval(u, granted)
      PROVE  IInv'
  <2>1. PICK l \in {"approved", "failed"} : place' = [place EXCEPT ![u] = l]
    BY <1>6 DEF Approval, Step
  <2>2. u \in Trip => paid[u] # 1
    BY <1>6 DEF Approval, IInv, PaidInOrder
  <2>. QED BY <1>6, <2>1, <2>2, StepInv DEF Approval, traces
<1>7. ASSUME NEW u \in Trip, PaymentRequired(u)
      PROVE  IInv'
  <2>1. place' = [place EXCEPT ![u] = "approval"] /\ paid[u] # 1
    BY <1>7 DEF PaymentRequired, Step, IInv, PaidInOrder
  <2>. QED BY <1>7, <2>1, StepInv DEF PaymentRequired, traces
<1>8. ASSUME NEW u \in Trip, TripContextEnds(u)
      PROVE  IInv'
  BY <1>8 DEF TripContextEnds, traces, IInv, Types, CardsStayCleared, PaidInOrder
<1>9. ASSUME NEW u \in Trip, ProviderFails(u)
      PROVE  IInv'
  BY <1>9, StepInv DEF ProviderFails, Step, traces
<1>10. ASSUME NEW u \in Trip, NEW scoped \in BOOLEAN, ExecuteMachinePayment(u, scoped)
       PROVE  IInv'
  <2>1. paid[u] = 0 /\ given[u] = 0 /\ u \notin vault
    BY <1>10 DEF ExecuteMachinePayment, IInv, Types, PaidInOrder
  <2>2. vault' \subseteq vault \cup {u} /\ cleared \ {u} \subseteq cleared'
    BY <1>10 DEF ExecuteMachinePayment, Stored
  <2>3. paid' = [paid EXCEPT ![u] = 1] /\ place' = [place EXCEPT ![u] = "paid"]
    BY <1>10, <2>1 DEF ExecuteMachinePayment, Step, IInv, Types
  <2>4. UNCHANGED <<handle, revoked, filled, given>>
    BY <1>10 DEF ExecuteMachinePayment
  <2>5. Types' /\ CardsStayCleared'
    BY <2>2, <2>3, <2>4 DEF IInv, Types, CardsStayCleared
  <2>6. PaidInOrder'
    BY <2>1, <2>2, <2>3, <2>4 DEF IInv, Types, PaidInOrder
  <2>. QED BY <2>5, <2>6 DEF IInv
<1>11. ASSUME NEW u \in Trip \cup Taker, Retry(u)
       PROVE  IInv'
  <2>1. PICK l \in {"failed", "done"} : place' = [place EXCEPT ![u] = l]
    BY <1>11 DEF Retry, Step
  <2>. QED BY <1>11, <2>1, StepInv DEF Retry, traces
<1>12. ASSUME NEW u \in Trip \cup Taker, NEW h \in Trip, RetrieveAuthorization(u, h)
       PROVE  IInv'
  <2>1. CASE u \in ended
    BY <1>12, <2>1, StepInv DEF RetrieveAuthorization, Step
  <2>2. CASE u \notin ended
    <3>1. TryRetrieve(u, h, "header") /\ revoked' = revoked /\ filled' = filled /\ paid' = paid
      BY <1>12, <2>2 DEF RetrieveAuthorization
    <3>2. u \in PaymentUser /\ h \in Handle /\ u \notin Filler
      OBVIOUS
    <3>. QED BY <3>1, <3>2, TryRetrieveInv, Zenon
  <2>. QED BY <2>1, <2>2
<1>13. CASE UNCHANGED paymentVars
  BY <1>13 DEF paymentVars, IInv, Types, CardsStayCleared, PaidInOrder
<1>. QED BY <1>1, <1>2, <1>3, <1>4, <1>5, <1>6, <1>7, <1>8, <1>9, <1>10, <1>11, <1>12, <1>13
         DEF PaymentNext

LEMMA Inductive == PaymentSpec => []IInv
BY InitInv, NextInv, PTL DEF PaymentSpec

(* No revoked card is filled in, whenever the revocation meets the approval *)
(* (ResolveSecretFieldForApprovedBoundary, Revoke).                        *)
THEOREM RevokedIsNotFilledHolds == PaymentSpec => []RevokedIsNotFilled
<1>1. IInv => RevokedIsNotFilled
  BY DEF IInv, CardsStayCleared, RevokedIsNotFilled
<1>. QED BY <1>1, Inductive, PTL

(* Every request pays at most once, and the authorization it pays for      *)
(* leaves the vault at most once (RoundTrip, TryRetrieve).                 *)
THEOREM PaidAndGivenOnceHolds == PaymentSpec => []PaidAndGivenOnce
<1>1. IInv => PaidAndGivenOnce
  BY DEF IInv, Types, PaidAndGivenOnce
<1>. QED BY <1>1, Inductive, PTL
-----------------------------------------------------------------------------
(* RateWindow                                                              *)
(*                                                                         *)
(* The bound holds for the moment because the messages that passed lately  *)
(* have entries of their own, MaxPerMinute in a window at most, in the     *)
(* window under the key or in one that was deleted while in use.           *)

RatePlace == {"new", "count", "clean", "delete", "done"}

RateTypes ==
    /\ clock \in 1..MaxTime /\ drops \in Nat
    /\ mapped \in RateMsg \cup {NoWindow}
    /\ entries \in [RateMsg -> Seq(Nat)]
    /\ at \in [RateMsg -> RatePlace]
    /\ window \in [RateMsg -> RateMsg \cup {NoWindow}]
    /\ stamp \in [RateMsg -> Nat] /\ since \in [RateMsg -> Nat] /\ passed \in [RateMsg -> Nat]

(* A message passes at most Delay after its time stamp.                    *)
Stamps ==
    \A m \in RateMsg :
        /\ stamp[m] <= clock
        /\ at[m] = "count" =>
              window[m] \in RateMsg /\ since[m] = stamp[m] /\ clock <= stamp[m] + Delay
        /\ at[m] \in {"new", "count"} => passed[m] = NoTime
        /\ passed[m] # NoTime =>
              passed[m] <= clock /\ passed[m] <= stamp[m] + Delay /\ window[m] \in RateMsg

ShortWindows == \A w \in RateMsg : Len(entries[w]) <= MaxPerMinute

Recent == {m \in RateMsg : passed[m] <= clock /\ clock <= passed[m] + (Minute - Delay)}

(* idx gives each message of R an entry of its own in its window.          *)
Placement(idx, e, R) ==
    /\ \A m \in R : idx[m] \in 1..Len(e[window[m]]) /\ e[window[m]][idx[m]] = stamp[m]
    /\ \A m, n \in R : window[m] = window[n] /\ idx[m] = idx[n] => m = n

(* No entry of a message that passed lately was evicted.                   *)
Placed == \E idx \in [RateMsg -> Int] : Placement(idx, entries, Recent)

(* A window in which a message was counted lately, or is about to be, is   *)
(* the one under the key or one of those that were deleted in use.         *)
Covers(D) ==
    /\ IsFiniteSet(D) /\ Cardinality(D) <= drops
    /\ \A m \in RateMsg : at[m] = "count" \/ m \in Recent => window[m] \in D \cup {mapped}

Covered == \E D \in SUBSET RateMsg : Covers(D)

RateIInv == RateTypes /\ Stamps /\ ShortWindows /\ Placed /\ Covered /\ RateBound

(* A set of naturals has a least element: the well-foundedness of the      *)
(* library, without its induction.                                         *)
LEMMA LeastIndex ==
    ASSUME NEW T \in SUBSET Nat, T # {}
    PROVE  \E x \in T : \A y \in T : x <= y
<1>1. PICK x \in T : \A y \in T : ~(<<y, x>> \in OpToRel(<, Nat))
  BY WFMin, NatLessThanWellFounded, Zenon
<1>2. \A y \in T : ~(y < x)
  BY <1>1 DEF OpToRel
<1>. QED BY <1>2

(* The loop drops a prefix of old entries and keeps the rest as it is.     *)
LEMMA EvictDropsOld ==
    ASSUME NEW s \in Seq(Nat), NEW now \in Nat
    PROVE  \E k \in 0..Len(s) :
              /\ Evict(s, now) \in Seq(Nat) /\ Len(Evict(s, now)) = Len(s) - k
              /\ \A i \in 1..Len(s) - k : Evict(s, now)[i] = s[i + k]
              /\ \A j \in 1..k : IsBefore(s[j], now, Minute)
<1>. DEFINE first == {i \in 1..Len(s) : /\ \A j \in 1..i : j < i => IsBefore(s[j], now, Minute)
                                        /\ ~IsBefore(s[i], now, Minute)}
            Fresh == {i \in 1..Len(s) : ~IsBefore(s[i], now, Minute)}
<1>1. Evict(s, now) = IF first = {} THEN <<>> ELSE SubSeq(s, CHOOSE i \in first : TRUE, Len(s))
  <2>1. first = {i \in {i \in 1..Len(s) : \A j \in 1..i : j < i => IsBefore(s[j], now, Minute)} :
                    ~IsBefore(s[i], now, Minute)}
    OBVIOUS
  <2>. HIDE DEF first
  <2>. QED BY <2>1 DEF Evict
<1>2. CASE Fresh = {}
  <2>1. first = {}
    BY <1>2
  <2>2. \A j \in 1..Len(s) : IsBefore(s[j], now, Minute)
    BY <1>2
  <2>3. Evict(s, now) = <<>>
    BY <1>1, <2>1
  <2>. HIDE DEF first, Fresh
  <2>. QED BY <2>2, <2>3
<1>3. CASE Fresh # {}
  <2>0. Fresh \in SUBSET Nat
    OBVIOUS
  <2>1. PICK a \in Fresh : \A b \in Fresh : a <= b
    <3>. HIDE DEF Fresh
    <3>. QED BY <1>3, <2>0, LeastIndex
  <2>2. a \in first
    BY <2>1
  <2>3. PICK c \in first : c = CHOOSE i \in first : TRUE
    BY <2>2
  <2>4. Evict(s, now) = SubSeq(s, c, Len(s))
    BY <1>1, <2>2, <2>3
  <2>5. c \in 1..Len(s) /\ \A j \in 1..c : j < c => IsBefore(s[j], now, Minute)
    OBVIOUS
  <2>. HIDE DEF first, Fresh
  <2>6. /\ SubSeq(s, c, Len(s)) \in Seq(Nat)
        /\ Len(SubSeq(s, c, Len(s))) = Len(s) - c + 1
        /\ \A i \in 1..Len(s) - c + 1 : SubSeq(s, c, Len(s))[i] = s[c + i - 1]
    BY <2>5, SubSeqProperties, SMTT(30)
  <2>7. PICK k \in 0..Len(s) : k = c - 1
    BY <2>5
  <2>8. Evict(s, now) \in Seq(Nat) /\ Len(Evict(s, now)) = Len(s) - k
    BY <2>4, <2>5, <2>6, <2>7
  <2>9. \A i \in 1..Len(s) - k : Evict(s, now)[i] = s[i + k]
    BY <2>4, <2>5, <2>6, <2>7
  <2>10. \A j \in 1..k : IsBefore(s[j], now, Minute)
    BY <2>5, <2>7
  <2>. QED BY <2>8, <2>9, <2>10
<1>. QED BY <1>2, <1>3

LEMMA RecentFacts ==
    ASSUME RateTypes, Stamps, NEW m \in Recent
    PROVE  /\ m \in RateMsg /\ window[m] \in RateMsg /\ at[m] \notin {"new", "count"}
           /\ clock <= stamp[m] + Minute
<1>1. m \in RateMsg /\ passed[m] <= clock /\ clock <= passed[m] + (Minute - Delay)
  BY DEF Recent
<1>2. passed[m] # NoTime
  BY <1>1, RateAssumption DEF RateTypes, NoTime
<1>. QED BY <1>1, <1>2, RateAssumption DEF RateTypes, Stamps

LEMMA RateInitInv == RateInit => RateIInv
<1>. SUFFICES ASSUME RateInit PROVE RateIInv
  OBVIOUS
<1>. USE RateAssumption
<1>1. RateTypes
  BY EmptySeq DEF RateInit, RateTypes, RatePlace, NoTime
<1>2. Stamps
  BY DEF RateInit, Stamps
<1>3. ShortWindows
  BY DEF RateInit, ShortWindows
<1>4. Recent = {}
  BY <1>1, <1>2, RecentFacts DEF RateInit
<1>5. Placed
  <2>1. [m \in RateMsg |-> 0] \in [RateMsg -> Int]
    OBVIOUS
  <2>. QED BY <1>4, <2>1 DEF Placed, Placement
<1>6. Covered
  <2>1. Covers({})
    BY <1>4, FS_EmptySet DEF Covers, RateInit
  <2>. QED BY <2>1 DEF Covered
<1>7. RateBound
  <2>. SUFFICES ASSUME NEW t \in 1..clock
                PROVE  Cardinality({m \in RateMsg : passed[m] <= t /\ t <= passed[m] + (Minute - Delay)})
                           <= MaxPerMinute * (1 + drops)
    BY DEF RateBound
  <2>1. \A m \in RateMsg : ~(passed[m] <= t)
    BY DEF RateInit, NoTime
  <2>. DEFINE P == {m \in RateMsg : passed[m] <= t /\ t <= passed[m] + (Minute - Delay)}
  <2>2. P = {}
    BY <2>1
  <2>. HIDE DEF P
  <2>3. Cardinality(P) = 0 /\ MaxPerMinute * (1 + drops) \in Nat
    BY <2>2, FS_EmptySet DEF RateInit
  <2>4. Cardinality(P) <= MaxPerMinute * (1 + drops)
    BY <2>3
  <2>. QED BY <2>4 DEF P
<1>. QED BY <1>1, <1>2, <1>3, <1>5, <1>6, <1>7 DEF RateIInv

(* Each window has room for MaxPerMinute messages.                         *)
LEMMA RoomInWindows ==
    ASSUME NEW R, NEW W, IsFiniteSet(W), NEW f \in [R -> W \X (1..MaxPerMinute)],
           \A m, n \in R : f[m] = f[n] => m = n
    PROVE  /\ IsFiniteSet(R) /\ Cardinality(R) <= Cardinality(W) * MaxPerMinute
<1>. USE RateAssumption
<1>1. IsFiniteSet(1..MaxPerMinute) /\ Cardinality(1..MaxPerMinute) = MaxPerMinute
  <2>1. MaxPerMinute \in Int /\ MaxPerMinute >= 1 /\ 1 \in Int
    OBVIOUS
  <2>2. ~(1 > MaxPerMinute) /\ MaxPerMinute - 1 + 1 = MaxPerMinute
    BY <2>1
  <2>. QED BY ONLY <2>1, <2>2, FS_Interval
<1>2. /\ IsFiniteSet(W \X (1..MaxPerMinute))
      /\ Cardinality(W \X (1..MaxPerMinute)) = Cardinality(W) * MaxPerMinute
  BY <1>1, FS_Product
<1>3. f \in Injection(R, W \X (1..MaxPerMinute))
  BY DEF Injection, IsInjective
<1>. QED BY <1>2, <1>3, FS_Injection

(* Eviction keeps what passed lately, since no time stamp is ahead of the  *)
(* clock.                                                                  *)
LEMMA EvictPlaces ==
    ASSUME RateIInv, NEW w \in RateMsg, NEW now \in Nat, now <= clock,
           NEW e, e = [entries EXCEPT ![w] = Evict(entries[w], now)]
    PROVE  /\ e \in [RateMsg -> Seq(Nat)]
           /\ Len(e[w]) <= Len(entries[w])
           /\ \E idx \in [RateMsg -> Int] : Placement(idx, e, Recent)
<1>. USE RateAssumption DEF RateIInv
<1>1. entries[w] \in Seq(Nat)
  BY DEF RateTypes
<1>2. PICK k \in 0..Len(entries[w]) :
              /\ Evict(entries[w], now) \in Seq(Nat)
              /\ Len(Evict(entries[w], now)) = Len(entries[w]) - k
              /\ \A i \in 1..Len(entries[w]) - k : Evict(entries[w], now)[i] = entries[w][i + k]
              /\ \A j \in 1..k : IsBefore(entries[w][j], now, Minute)
  BY <1>1, EvictDropsOld
<1>3. e \in [RateMsg -> Seq(Nat)] /\ e[w] = Evict(entries[w], now)
  BY <1>2 DEF RateTypes
<1>4. \A v \in RateMsg \ {w} : e[v] = entries[v]
  BY DEF RateTypes
<1>5. PICK idx \in [RateMsg -> Int] : Placement(idx, entries, Recent)
  BY DEF Placed
<1>6. PICK jdx \in [RateMsg -> Int] : \A m \in RateMsg : jdx[m] = IF window[m] = w THEN idx[m] - k ELSE idx[m]
  <2>1. [m \in RateMsg |-> IF window[m] = w THEN idx[m] - k ELSE idx[m]] \in [RateMsg -> Int]
    OBVIOUS
  <2>. QED BY <2>1
<1>7. ASSUME NEW m \in Recent
      PROVE  jdx[m] \in 1..Len(e[window[m]]) /\ e[window[m]][jdx[m]] = stamp[m]
  <2>0. /\ m \in RateMsg /\ window[m] \in RateMsg /\ stamp[m] \in Nat
        /\ clock <= stamp[m] + Minute
    BY RecentFacts DEF RateTypes
  <2>1. idx[m] \in 1..Len(entries[window[m]]) /\ entries[window[m]][idx[m]] = stamp[m]
    BY <1>5 DEF Placement
  <2>2. CASE window[m] # w
    BY <1>4, <1>6, <2>0, <2>1, <2>2
  <2>3. CASE window[m] = w
    <3>1. ~IsBefore(stamp[m], now, Minute)
      <4>1. clock \in Nat /\ Minute \in Nat
        BY DEF RateTypes
      <4>. QED BY <2>0, <4>1 DEF IsBefore
    <3>2. idx[m] \notin 1..k
      BY <1>2, <2>1, <2>3, <3>1
    <3>3. jdx[m] = idx[m] - k
      BY <1>6, <2>0, <2>3
    <3>4. Len(entries[w]) \in Nat
      BY <1>1
    <3>5. idx[m] \in 1..Len(entries[w])
      BY <2>1, <2>3
    <3>6. jdx[m] \in 1..Len(entries[w]) - k /\ jdx[m] + k = idx[m]
      BY <1>2, <3>2, <3>3, <3>4, <3>5, SMTT(30)
    <3>7. e[w][jdx[m]] = entries[w][jdx[m] + k]
      BY <1>2, <1>3, <3>6
    <3>. QED BY <1>2, <1>3, <2>1, <2>3, <3>6, <3>7
  <2>. QED BY <2>2, <2>3
<1>8. ASSUME NEW m \in Recent, NEW n \in Recent, window[m] = window[n], jdx[m] = jdx[n]
      PROVE  m = n
  <2>1. m \in RateMsg /\ n \in RateMsg
    BY DEF Recent
  <2>2. idx[m] = idx[n]
    <3>1. k \in Int /\ idx[m] \in Int /\ idx[n] \in Int
      BY <1>1, <2>1
    <3>. QED BY <1>6, <1>8, <2>1, <3>1
  <2>. QED BY <1>5, <1>8, <2>2 DEF Placement
<1>9. Len(e[w]) <= Len(entries[w])
  BY <1>1, <1>2, <1>3
<1>10. Placement(jdx, e, Recent)
  BY <1>7, <1>8 DEF Placement
<1>. QED BY <1>3, <1>9, <1>10

(* Steps that let no message through.                                      *)
LEMMA BoundStays ==
    ASSUME RateTypes, RateBound, clock' = clock, passed' = passed, drops' \in {drops, drops + 1}
    PROVE  RateBound'
<1>. USE RateAssumption
<1>. SUFFICES ASSUME NEW t \in 1..clock
              PROVE  Cardinality({m \in RateMsg : passed[m] <= t /\ t <= passed[m] + (Minute - Delay)})
                         <= MaxPerMinute * (1 + drops')
  BY DEF RateBound
<1>. DEFINE P == {m \in RateMsg : passed[m] <= t /\ t <= passed[m] + (Minute - Delay)}
<1>1. Cardinality(P) <= MaxPerMinute * (1 + drops)
  BY DEF RateBound
<1>2. P \subseteq RateMsg
  OBVIOUS
<1>. HIDE DEF P
<1>3. Cardinality(P) \in Nat
  BY <1>2, FS_Subset, FS_CardinalityType
<1>4. drops \in Nat /\ MaxPerMinute \in Nat
  BY DEF RateTypes
<1>5. MaxPerMinute * (1 + (drops + 1)) = MaxPerMinute * (1 + drops) + MaxPerMinute
  BY <1>4
<1>6. MaxPerMinute * (1 + drops) \in Nat
  BY <1>4
<1>7. Cardinality(P) <= MaxPerMinute * (1 + drops')
  BY <1>1, <1>3, <1>4, <1>5, <1>6
<1>. QED BY <1>7 DEF P

LEMMA TickInv ==
    ASSUME RateIInv, Tick
    PROVE  RateIInv'
<1>. USE RateAssumption DEF RateIInv
<1>1. /\ clock' = clock + 1 /\ clock < MaxTime
      /\ UNCHANGED <<mapped, entries, at, window, stamp, since, passed, drops>>
      /\ \A m \in RateMsg : at[m] \notin {"new", "done"} => clock < since[m] + Delay
  BY DEF Tick, Underway
<1>2. RateTypes'
  BY <1>1 DEF RateTypes
<1>3. Stamps'
  <2>. SUFFICES ASSUME NEW m \in RateMsg
                PROVE  /\ stamp[m] <= clock'
                       /\ at[m] = "count" =>
                             window[m] \in RateMsg /\ since[m] = stamp[m] /\ clock' <= stamp[m] + Delay
                       /\ at[m] \in {"new", "count"} => passed[m] = NoTime
                       /\ passed[m] # NoTime =>
                             passed[m] <= clock' /\ passed[m] <= stamp[m] + Delay /\ window[m] \in RateMsg
    BY <1>1 DEF Stamps
  <2>1. stamp[m] \in Nat /\ passed[m] \in Nat /\ clock \in Nat /\ Delay \in Nat
    BY DEF RateTypes
  <2>. QED BY <1>1, <2>1 DEF Stamps
<1>4. Recent' \subseteq Recent
  <2>. SUFFICES ASSUME NEW m \in RateMsg, passed[m] <= clock + 1, clock + 1 <= passed[m] + (Minute - Delay)
                PROVE  passed[m] <= clock /\ clock <= passed[m] + (Minute - Delay)
    BY <1>1 DEF Recent
  <2>1. passed[m] \in Nat /\ clock \in Nat /\ Minute - Delay \in Nat
    BY DEF RateTypes
  <2>2. passed[m] # NoTime
    BY <1>1, <2>1 DEF NoTime
  <2>. QED BY <2>1, <2>2 DEF Stamps
<1>5. ShortWindows'
  BY <1>1 DEF ShortWindows
<1>6. Placed'
  <2>1. PICK idx \in [RateMsg -> Int] : Placement(idx, entries, Recent)
    BY DEF Placed
  <2>2. Placement(idx, entries, Recent)'
    BY <1>1, <1>4, <2>1 DEF Placement
  <2>. QED BY <2>2 DEF Placed
<1>7. Covered'
  <2>1. PICK D \in SUBSET RateMsg : Covers(D)
    BY DEF Covered
  <2>2. Covers(D)'
    BY <1>1, <1>4, <2>1 DEF Covers
  <2>. QED BY <2>2 DEF Covered
<1>8. RateBound'
  <2>. SUFFICES ASSUME NEW t \in 1..clock + 1
                PROVE  Cardinality({m \in RateMsg : passed[m] <= t /\ t <= passed[m] + (Minute - Delay)})
                           <= MaxPerMinute * (1 + drops)
    BY <1>1 DEF RateBound
  <2>0. clock \in Nat /\ clock \in 1..clock /\ t \in Nat
    BY DEF RateTypes
  <2>1. CASE t # clock + 1
    BY <2>0, <2>1 DEF RateBound
  <2>2. CASE t = clock + 1
    <3>. DEFINE P == {m \in RateMsg : passed[m] <= t /\ t <= passed[m] + (Minute - Delay)}
    <3>1. P = Recent'
      BY <1>1, <2>2 DEF Recent
    <3>2. Recent \subseteq RateMsg
      BY DEF Recent
    <3>. HIDE DEF P
    <3>3. P \subseteq Recent
      BY <1>4, <3>1
    <3>4. IsFiniteSet(Recent)
      BY <3>2, FS_Subset
    <3>5. Cardinality(P) \in Nat /\ Cardinality(Recent) \in Nat /\ Cardinality(P) <= Cardinality(Recent)
      BY <3>3, <3>4, FS_Subset, FS_CardinalityType
    <3>6. Cardinality(Recent) <= MaxPerMinute * (1 + drops)
      BY <2>0 DEF RateBound, Recent
    <3>7. MaxPerMinute * (1 + drops) \in Nat
      BY DEF RateTypes
    <3>8. Cardinality(P) <= MaxPerMinute * (1 + drops)
      BY <3>5, <3>6, <3>7
    <3>. QED BY <3>8 DEF P
  <2>. QED BY <2>1, <2>2
<1>. QED BY <1>2, <1>3, <1>5, <1>6, <1>7, <1>8

(* A message that begins, of this sender or of another one.                *)
LEMMA BeginInv ==
    ASSUME RateIInv, NEW m \in RateMsg, LoadOrStore(m) \/ OtherCounted(m)
    PROVE  RateIInv'
<1>. USE RateAssumption DEF RateIInv, MoveTo
<1>0. /\ at[m] = "new"
      /\ stamp' = [stamp EXCEPT ![m] = clock] /\ since' = [since EXCEPT ![m] = clock]
      /\ UNCHANGED <<clock, entries, passed, drops>>
  BY DEF LoadOrStore, OtherCounted
<1>1. /\ \/ at' = [at EXCEPT ![m] = "clean"] /\ UNCHANGED <<mapped, window>>
         \/ /\ at' = [at EXCEPT ![m] = "count"] /\ mapped' \in RateMsg /\ mapped \in {mapped', NoWindow}
            /\ window' = [window EXCEPT ![m] = mapped']
  BY DEF LoadOrStore, OtherCounted, RateTypes
<1>2. RateTypes'
  <2>1. stamp' \in [RateMsg -> Nat] /\ since' \in [RateMsg -> Nat]
    BY <1>0 DEF RateTypes
  <2>2. /\ at' \in [RateMsg -> RatePlace] /\ window' \in [RateMsg -> RateMsg \cup {NoWindow}]
        /\ mapped' \in RateMsg \cup {NoWindow}
    <3>1. "clean" \in RatePlace /\ "count" \in RatePlace
      BY DEF RatePlace
    <3>2. PICK l \in {"clean", "count"} : at' = [at EXCEPT ![m] = l]
      BY <1>1
    <3>3. at' \in [RateMsg -> RatePlace]
      BY <3>1, <3>2 DEF RateTypes
    <3>4. window' \in [RateMsg -> RateMsg \cup {NoWindow}] /\ mapped' \in RateMsg \cup {NoWindow}
      BY <1>1 DEF RateTypes
    <3>. QED BY <3>3, <3>4
  <2>. QED BY <1>0, <2>1, <2>2 DEF RateTypes
<1>3. passed[m] = NoTime /\ m \notin Recent
  BY <1>0, RecentFacts DEF Stamps
<1>4. /\ \A n \in RateMsg \ {m} : /\ at'[n] = at[n] /\ window'[n] = window[n]
                                    /\ stamp'[n] = stamp[n] /\ since'[n] = since[n]
      /\ stamp'[m] = clock /\ since'[m] = clock
      /\ at'[m] \in {"clean", "count"} /\ (at'[m] = "count" => window'[m] \in RateMsg /\ window'[m] = mapped')
  BY <1>0, <1>1 DEF RateTypes
<1>5. Stamps'
  <2>1. clock \in Nat /\ Delay \in Nat /\ clock <= clock + Delay
    BY DEF RateTypes
  <2>. QED BY <1>0, <1>3, <1>4, <2>1 DEF Stamps
<1>6. Recent' = Recent
  BY <1>0 DEF Recent
<1>7. ShortWindows'
  BY <1>0 DEF ShortWindows
<1>8. \A n \in Recent : n \in RateMsg \ {m}
  BY <1>3 DEF Recent
<1>9. Placed'
  <2>1. PICK idx \in [RateMsg -> Int] : Placement(idx, entries, Recent)
    BY DEF Placed
  <2>2. Placement(idx, entries, Recent)'
    BY <1>0, <1>4, <1>6, <1>8, <2>1 DEF Placement
  <2>. QED BY <2>2 DEF Placed
<1>10. Covered'
  <2>1. PICK D \in SUBSET RateMsg : Covers(D)
    BY DEF Covered
  <2>2. mapped' = mapped \/ mapped = NoWindow
    BY <1>1
  <2>3. ASSUME NEW n \in RateMsg, at'[n] = "count" \/ n \in Recent
        PROVE  window'[n] \in D \cup {mapped'}
    <3>1. CASE n = m
      BY <1>3, <1>4, <2>3, <3>1
    <3>2. CASE n # m
      <4>1. window[n] \in D \cup {mapped} /\ window'[n] = window[n]
        BY <1>4, <2>1, <2>3, <3>2 DEF Covers
      <4>2. window[n] # NoWindow
        BY <1>4, <2>3, <3>2, RecentFacts DEF Stamps
      <4>. QED BY <2>2, <4>1, <4>2
    <3>. QED BY <3>1, <3>2
  <2>4. Covers(D)'
    BY <1>0, <1>6, <2>1, <2>3 DEF Covers
  <2>. QED BY <2>4 DEF Covered
<1>11. RateBound'
  BY <1>0, BoundStays
<1>. QED BY <1>2, <1>5, <1>7, <1>9, <1>10, <1>11

(* A message leaves the window as an eviction leaves it, and moves on      *)
(* without passing.                                                        *)
LEMMA EvictInv ==
    ASSUME RateIInv, NEW m \in RateMsg, at[m] # "new", NEW w \in RateMsg,
           entries' = [entries EXCEPT ![w] = Evict(entries[w], stamp[m])],
           NEW l \in {"delete", "done"}, MoveTo(m, l),
           UNCHANGED <<clock, mapped, window, stamp, passed, drops>>
    PROVE  RateIInv'
<1>. USE RateAssumption DEF RateIInv
<1>1. at' = [at EXCEPT ![m] = l] /\ since' = [since EXCEPT ![m] = clock]
  BY DEF MoveTo
<1>2. stamp[m] \in Nat /\ stamp[m] <= clock /\ clock \in Nat
  BY DEF RateTypes, Stamps
<1>3. /\ entries' \in [RateMsg -> Seq(Nat)]
      /\ Len(entries'[w]) <= Len(entries[w])
      /\ \E idx \in [RateMsg -> Int] : Placement(idx, entries', Recent)
  BY <1>2, EvictPlaces
<1>4. RateTypes'
  <2>1. at' \in [RateMsg -> RatePlace] /\ since' \in [RateMsg -> Nat]
    BY <1>1, <1>2 DEF RateTypes, RatePlace
  <2>. QED BY <1>3, <2>1 DEF RateTypes
<1>5. /\ \A n \in RateMsg \ {m} : at'[n] = at[n] /\ since'[n] = since[n]
      /\ at'[m] \in {"delete", "done"}
  BY <1>1 DEF RateTypes
<1>6. Stamps'
  BY <1>5 DEF Stamps
<1>7. Recent' = Recent
  BY DEF Recent
<1>8. ShortWindows'
  <2>1. \A v \in RateMsg \ {w} : entries'[v] = entries[v]
    BY DEF RateTypes
  <2>2. \A v \in RateMsg : Len(entries[v]) \in Nat /\ Len(entries'[v]) \in Nat
    <3>1. \A v \in RateMsg : entries[v] \in Seq(Nat) /\ entries'[v] \in Seq(Nat)
      BY <1>3 DEF RateTypes
    <3>. QED BY <3>1, LenProperties
  <2>. QED BY <1>3, <2>1, <2>2 DEF ShortWindows
<1>9. Placed'
  <2>1. PICK idx \in [RateMsg -> Int] : Placement(idx, entries', Recent)
    BY <1>3
  <2>2. Placement(idx, entries, Recent)'
    BY <1>7, <2>1 DEF Placement
  <2>. QED BY <2>2 DEF Placed
<1>10. Covered'
  <2>1. PICK D \in SUBSET RateMsg : Covers(D)
    BY DEF Covered
  <2>2. Covers(D)'
    BY <1>5, <1>7, <2>1 DEF Covers
  <2>. QED BY <2>2 DEF Covered
<1>11. RateBound'
  BY BoundStays
<1>. QED BY <1>4, <1>6, <1>8, <1>9, <1>10, <1>11

(* A message that is counted and let through.                              *)
LEMMA PassInv ==
    ASSUME RateIInv, NEW m \in RateMsg, at[m] = "count",
           NEW w, w = window[m], NEW kept, kept = Evict(entries[w], stamp[m]),
           Len(kept) < MaxPerMinute,
           entries' = [entries EXCEPT ![w] = Append(kept, stamp[m])],
           passed' = [passed EXCEPT ![m] = clock],
           NEW l \in {"clean", "done"}, MoveTo(m, l),
           UNCHANGED <<clock, mapped, window, stamp, drops>>
    PROVE  RateIInv'
<1>. USE RateAssumption DEF RateIInv
<1>0. /\ w \in RateMsg /\ stamp[m] \in Nat /\ clock \in Nat
      /\ stamp[m] <= clock /\ clock <= stamp[m] + Delay /\ passed[m] = NoTime
  BY DEF RateTypes, Stamps
<1>1. at' = [at EXCEPT ![m] = l] /\ since' = [since EXCEPT ![m] = clock]
  BY DEF MoveTo
<1>2. PICK e \in [RateMsg -> Seq(Nat)] : e = [entries EXCEPT ![w] = kept]
  BY <1>0, EvictPlaces
<1>3. PICK idx \in [RateMsg -> Int] : Placement(idx, e, Recent)
  BY <1>0, <1>2, EvictPlaces
<1>4. e[w] = kept /\ kept \in Seq(Nat) /\ \A v \in RateMsg \ {w} : entries'[v] = entries[v] /\ e[v] = entries[v]
  BY <1>0, <1>2 DEF RateTypes
<1>5. /\ entries'[w] = Append(kept, stamp[m]) /\ Append(kept, stamp[m]) \in Seq(Nat)
      /\ Len(kept) \in Nat /\ Len(entries'[w]) = Len(kept) + 1
      /\ \A i \in 1..Len(kept) : entries'[w][i] = kept[i]
      /\ entries'[w][Len(kept) + 1] = stamp[m]
  <2>1. entries'[w] = Append(kept, stamp[m])
    BY <1>0 DEF RateTypes
  <2>2. PICK x \in Nat : x = stamp[m]
    BY <1>0
  <2>3. /\ Append(kept, x) \in Seq(Nat) /\ Len(Append(kept, x)) = Len(kept) + 1
        /\ \A i \in 1..Len(kept) : Append(kept, x)[i] = kept[i]
        /\ Append(kept, x)[Len(kept) + 1] = x
    BY <1>4, AppendProperties
  <2>4. Len(kept) \in Nat
    BY <1>4, LenProperties
  <2>. QED BY <2>1, <2>2, <2>3, <2>4
<1>6. RateTypes'
  <2>1. at' \in [RateMsg -> RatePlace] /\ since' \in [RateMsg -> Nat] /\ passed' \in [RateMsg -> Nat]
    BY <1>0, <1>1 DEF RateTypes, RatePlace
  <2>2. entries' \in [RateMsg -> Seq(Nat)]
    BY <1>5 DEF RateTypes
  <2>. QED BY <2>1, <2>2 DEF RateTypes
<1>7. /\ \A n \in RateMsg \ {m} : at'[n] = at[n] /\ since'[n] = since[n] /\ passed'[n] = passed[n]
      /\ at'[m] \in {"clean", "done"} /\ passed'[m] = clock
  BY <1>1 DEF RateTypes
<1>8. Stamps'
  <2>. SUFFICES ASSUME NEW n \in RateMsg
                PROVE  /\ stamp[n] <= clock
                       /\ at'[n] = "count" =>
                             window[n] \in RateMsg /\ since'[n] = stamp[n] /\ clock <= stamp[n] + Delay
                       /\ at'[n] \in {"new", "count"} => passed'[n] = NoTime
                       /\ passed'[n] # NoTime =>
                             passed'[n] <= clock /\ passed'[n] <= stamp[n] + Delay /\ window[n] \in RateMsg
    BY DEF Stamps, NoTime
  <2>1. CASE n = m
    BY <1>0, <1>7, <2>1
  <2>2. CASE n # m
    BY <1>7, <2>2 DEF Stamps
  <2>. QED BY <2>1, <2>2
<1>9. m \notin Recent /\ Recent' = Recent \cup {m} /\ Recent \subseteq RateMsg
  <2>1. m \notin Recent
    BY RecentFacts
  <2>2. clock <= clock + (Minute - Delay) /\ clock <= clock
    BY <1>0
  <2>3. ASSUME NEW n \in RateMsg PROVE n \in Recent' <=> n \in Recent \cup {m}
    <3>1. CASE n = m
      BY <1>7, <2>2, <3>1 DEF Recent
    <3>2. CASE n # m
      BY <1>7, <3>2 DEF Recent
    <3>. QED BY <3>1, <3>2
  <2>4. Recent' \subseteq RateMsg /\ Recent \subseteq RateMsg
    BY DEF Recent
  <2>. QED BY <2>1, <2>3, <2>4
<1>10. ShortWindows'
  <2>1. Len(kept) + 1 <= MaxPerMinute
    BY <1>5
  <2>. QED BY <1>4, <1>5, <2>1 DEF ShortWindows
<1>11. PICK jdx \in [RateMsg -> Int] :
          jdx[m] = Len(kept) + 1 /\ \A n \in RateMsg \ {m} : jdx[n] = idx[n]
  <2>1. [idx EXCEPT ![m] = Len(kept) + 1] \in [RateMsg -> Int]
    BY <1>5
  <2>. QED BY <2>1
<1>12. ASSUME NEW n \in Recent'
       PROVE  jdx[n] \in 1..Len(entries'[window[n]]) /\ entries'[window[n]][jdx[n]] = stamp[n]
  <2>1. CASE n = m
    BY <1>5, <1>11, <2>1
  <2>2. CASE n # m
    <3>0. n \in Recent /\ n \in RateMsg /\ window[n] \in RateMsg /\ jdx[n] = idx[n]
      BY <1>9, <1>11, <1>12, <2>2, RecentFacts
    <3>1. idx[n] \in 1..Len(e[window[n]]) /\ e[window[n]][idx[n]] = stamp[n]
      BY <1>3, <3>0 DEF Placement
    <3>2. CASE window[n] = w
      <4>1. idx[n] \in 1..Len(kept) /\ kept[idx[n]] = stamp[n]
        BY <1>4, <3>1, <3>2
      <4>2. idx[n] \in 1..Len(kept) + 1
        BY <1>5, <4>1
      <4>. QED BY <1>5, <3>0, <3>2, <4>1, <4>2
    <3>3. CASE window[n] # w
      BY <1>4, <3>0, <3>1, <3>3
    <3>. QED BY <3>2, <3>3
  <2>. QED BY <2>1, <2>2
<1>13. ASSUME NEW n \in Recent', NEW o \in Recent', window[n] = window[o], jdx[n] = jdx[o]
       PROVE  n = o
  <2>1. ASSUME NEW q \in Recent, window[q] = w
        PROVE  jdx[q] # Len(kept) + 1
    <3>1. q \in RateMsg \ {m} /\ idx[q] \in 1..Len(kept)
      BY <1>3, <1>4, <1>9, <2>1 DEF Placement
    <3>. QED BY <1>5, <1>11, <3>1
  <2>2. CASE n = m \/ o = m
    BY <1>9, <1>11, <1>13, <2>1, <2>2
  <2>3. CASE n # m /\ o # m
    <3>1. n \in Recent /\ o \in Recent /\ n \in RateMsg \ {m} /\ o \in RateMsg \ {m}
      BY <1>9, <1>13, <2>3
    <3>2. idx[n] = idx[o]
      BY <1>11, <1>13, <3>1
    <3>. QED BY <1>3, <1>13, <3>1, <3>2 DEF Placement
  <2>. QED BY <2>2, <2>3
<1>14. Placed'
  <2>1. Placement(jdx, entries, Recent)'
    BY <1>12, <1>13 DEF Placement
  <2>. QED BY <2>1 DEF Placed
<1>15. PICK D \in SUBSET RateMsg : Covers(D)
  BY DEF Covered
<1>16. \A n \in RateMsg : at'[n] = "count" \/ n \in Recent' => window[n] \in D \cup {mapped}
  BY <1>7, <1>9, <1>15 DEF Covers
<1>17. Covered'
  <2>1. Covers(D)'
    BY <1>15, <1>16 DEF Covers
  <2>. QED BY <2>1 DEF Covered
<1>18. Cardinality(Recent') <= MaxPerMinute * (1 + drops)
  <2>1. /\ IsFiniteSet(D \cup {mapped}) /\ Cardinality(D \cup {mapped}) \in Nat
        /\ Cardinality(D \cup {mapped}) <= 1 + drops /\ drops \in Nat
    <3>1. IsFiniteSet(D) /\ Cardinality(D) \in Nat /\ Cardinality(D) <= drops
      BY <1>15, FS_CardinalityType DEF Covers
    <3>2. /\ IsFiniteSet(D \cup {mapped})
          /\ Cardinality(D \cup {mapped}) = IF mapped \in D THEN Cardinality(D) ELSE Cardinality(D) + 1
      BY <3>1, FS_AddElement
    <3>. QED BY <3>1, <3>2 DEF RateTypes
  <2>2. \A n \in Recent' : window[n] \in D \cup {mapped} /\ jdx[n] \in 1..MaxPerMinute
    <3>1. ASSUME NEW n \in Recent' PROVE jdx[n] \in 1..MaxPerMinute
      <4>1. n \in RateMsg /\ window[n] \in RateMsg
        BY <1>0, <1>9, RecentFacts
      <4>2. Len(entries'[window[n]]) <= MaxPerMinute /\ entries'[window[n]] \in Seq(Nat)
        BY <1>6, <1>10, <4>1 DEF ShortWindows, RateTypes
      <4>3. Len(entries'[window[n]]) \in Nat
        BY <4>2, LenProperties
      <4>4. PICK k \in Nat : k = Len(entries'[window[n]])
        BY <4>3
      <4>5. jdx[n] \in 1..k /\ k <= MaxPerMinute
        BY <1>12, <4>2, <4>4
      <4>. QED BY <4>5
    <3>2. Recent' \subseteq RateMsg
      BY <1>9
    <3>. QED BY <1>16, <3>1, <3>2
  <2>3. /\ IsFiniteSet(Recent')
        /\ Cardinality(Recent') <= Cardinality(D \cup {mapped}) * MaxPerMinute
    <3>1. PICK R, W : R = Recent' /\ W = D \cup {mapped}
      OBVIOUS
    <3>2. IsFiniteSet(W) /\ \A n \in R : window[n] \in W /\ jdx[n] \in 1..MaxPerMinute
      BY <2>1, <2>2, <3>1
    <3>3. \A n, o \in R : window[n] = window[o] /\ jdx[n] = jdx[o] => n = o
      BY <1>13, <3>1
    <3>. DEFINE g == [n \in R |-> <<window[n], jdx[n]>>]
    <3>4. g \in [R -> W \X (1..MaxPerMinute)]
      BY <3>2
    <3>5. \A n, o \in R : g[n] = g[o] => n = o
      BY <3>3
    <3>. HIDE DEF g
    <3>6. IsFiniteSet(R) /\ Cardinality(R) <= Cardinality(W) * MaxPerMinute
      BY <3>2, <3>4, <3>5, RoomInWindows
    <3>. QED BY <3>1, <3>6
  <2>4. Cardinality(Recent') \in Nat /\ MaxPerMinute \in Nat
    BY <2>3, FS_CardinalityType
  <2>5. \A c \in Nat : c <= 1 + drops => c * MaxPerMinute <= MaxPerMinute * (1 + drops)
    BY <2>1, <2>4
  <2>6. /\ Cardinality(D \cup {mapped}) * MaxPerMinute \in Nat
        /\ MaxPerMinute * (1 + drops) \in Nat
    BY <2>1, <2>4
  <2>. QED BY <2>1, <2>3, <2>4, <2>5, <2>6
<1>19. RateBound'
  <2>. SUFFICES ASSUME NEW t \in 1..clock
                PROVE  Cardinality({n \in RateMsg : passed'[n] <= t /\ t <= passed'[n] + (Minute - Delay)})
                           <= MaxPerMinute * (1 + drops)
    BY DEF RateBound
  <2>1. CASE t = clock
    <3>1. {n \in RateMsg : passed'[n] <= t /\ t <= passed'[n] + (Minute - Delay)} = Recent'
      BY <2>1 DEF Recent
    <3>. QED BY <1>18, <3>1
  <2>2. CASE t # clock
    <3>1. t \in Nat /\ t < clock /\ ~(passed'[m] <= t) /\ ~(passed[m] <= t)
      <4>1. clock <= MaxTime /\ MaxTime \in Nat /\ passed[m] = MaxTime + 1
        BY <1>0 DEF NoTime, RateTypes
      <4>2. t \in Nat /\ t < clock
        BY <1>0, <2>2
      <4>. QED BY <1>0, <1>7, <4>1, <4>2
    <3>2. {n \in RateMsg : passed'[n] <= t /\ t <= passed'[n] + (Minute - Delay)}
            = {n \in RateMsg : passed[n] <= t /\ t <= passed[n] + (Minute - Delay)}
      BY <1>7, <3>1
    <3>. QED BY <3>2 DEF RateBound
  <2>. QED BY <2>1, <2>2
<1>. QED BY <1>6, <1>8, <1>10, <1>14, <1>17, <1>19

(* The clean-up deletes the window under the key, in use or not.           *)
LEMMA DeletesInv ==
    ASSUME RateIInv, NEW m \in RateMsg, CleanupDeletes(m)
    PROVE  RateIInv'
<1>. USE RateAssumption DEF RateIInv
<1>1. /\ at[m] = "delete" /\ at' = [at EXCEPT ![m] = "done"] /\ since' = [since EXCEPT ![m] = clock]
      /\ drops' = IF mapped # NoWindow /\ InUse(mapped) THEN drops + 1 ELSE drops
      /\ mapped' = NoWindow
      /\ UNCHANGED <<clock, entries, window, stamp, passed>>
  BY DEF CleanupDeletes, MoveTo
<1>2. RateTypes'
  <2>1. at' \in [RateMsg -> RatePlace] /\ since' \in [RateMsg -> Nat]
    BY <1>1 DEF RateTypes, RatePlace
  <2>2. drops' \in Nat
    BY <1>1 DEF RateTypes
  <2>. QED BY <1>1, <2>1, <2>2 DEF RateTypes
<1>3. /\ \A n \in RateMsg \ {m} : at'[n] = at[n] /\ since'[n] = since[n]
      /\ at'[m] = "done"
  BY <1>1 DEF RateTypes
<1>4. Stamps'
  BY <1>1, <1>3 DEF Stamps
<1>5. Recent' = Recent
  BY <1>1 DEF Recent
<1>6. ShortWindows'
  BY <1>1 DEF ShortWindows
<1>7. PICK idx \in [RateMsg -> Int] : Placement(idx, entries, Recent)
  BY DEF Placed
<1>8. Placed'
  <2>1. Placement(idx, entries, Recent)'
    BY <1>1, <1>5, <1>7 DEF Placement
  <2>. QED BY <2>1 DEF Placed
<1>9. PICK D \in SUBSET RateMsg : Covers(D)
  BY DEF Covered
<1>10. IsFiniteSet(D) /\ Cardinality(D) \in Nat /\ Cardinality(D) <= drops /\ drops \in Nat
  BY <1>9, FS_CardinalityType DEF Covers, RateTypes
<1>11. ASSUME NEW n \in RateMsg, at'[n] = "count" \/ n \in Recent
       PROVE  (at[n] = "count" \/ n \in Recent) /\ window[n] \in D \cup {mapped} /\ window[n] \in RateMsg
  <2>1. at[n] = "count" \/ n \in Recent
    BY <1>3, <1>11
  <2>. QED BY <1>9, <2>1, RecentFacts DEF Covers, Stamps
<1>12. CASE mapped # NoWindow /\ InUse(mapped)
  <2>1. /\ IsFiniteSet(D \cup {mapped})
        /\ Cardinality(D \cup {mapped}) = IF mapped \in D THEN Cardinality(D) ELSE Cardinality(D) + 1
    BY <1>10, FS_AddElement
  <2>2. Cardinality(D \cup {mapped}) <= drops' /\ D \cup {mapped} \in SUBSET RateMsg
    BY <1>1, <1>10, <1>12, <2>1 DEF RateTypes
  <2>3. PICK E \in SUBSET RateMsg : E = D \cup {mapped}
    BY <2>2
  <2>4. Covered'
    <3>1. \A n \in RateMsg : at'[n] = "count" \/ n \in Recent' => window'[n] \in E
      BY <1>1, <1>5, <1>11, <2>3
    <3>2. IsFiniteSet(E) /\ Cardinality(E) <= drops'
      BY <2>1, <2>2, <2>3
    <3>3. Covers(E)'
      BY <3>1, <3>2 DEF Covers
    <3>. QED BY <3>3 DEF Covered
  <2>5. RateBound'
    BY <1>1, BoundStays
  <2>. QED BY <1>2, <1>4, <1>6, <1>8, <2>4, <2>5
<1>13. CASE mapped = NoWindow \/ ~InUse(mapped)
  <2>1. ASSUME NEW n \in RateMsg, at[n] = "count" \/ n \in Recent, window[n] \in RateMsg
        PROVE  window[n] # mapped
    <3>1. CASE mapped = NoWindow
      BY <2>1, <3>1
    <3>2. CASE ~InUse(mapped)
      <4>1. entries[mapped] = <<>> /\ ~\E q \in RateMsg : at[q] = "count" /\ window[q] = mapped
        BY <3>2 DEF InUse
      <4>2. n \in Recent => 1..Len(entries[window[n]]) # {}
        BY <1>7 DEF Placement
      <4>3. Len(<<>>) = 0 /\ 1..0 = {}
        OBVIOUS
      <4>. QED BY <2>1, <4>1, <4>2, <4>3
    <3>. QED BY <1>13, <3>1, <3>2
  <2>2. Covers(D)'
    <3>1. drops' = drops
      BY <1>1, <1>13
    <3>2. \A n \in RateMsg : at'[n] = "count" \/ n \in Recent' => window'[n] \in D
      BY <1>1, <1>5, <1>11, <2>1
    <3>. QED BY <1>10, <3>1, <3>2 DEF Covers
  <2>3. Covered'
    BY <2>2 DEF Covered
  <2>4. RateBound'
    BY <1>1, BoundStays
  <2>. QED BY <1>2, <1>4, <1>6, <1>8, <2>3, <2>4
<1>. QED BY <1>12, <1>13

LEMMA RateNextInv == RateIInv /\ [RateNext]_rateVars => RateIInv'
<1>. SUFFICES ASSUME RateIInv, [RateNext]_rateVars
              PROVE  RateIInv'
  OBVIOUS
<1>. USE RateAssumption
<1>1. ASSUME NEW m \in RateMsg, NEW cleans \in BOOLEAN, CountMessage(m, cleans)
      PROVE  RateIInv'
  <2>0. at[m] = "count" /\ UNCHANGED <<clock, mapped, window, stamp, drops>>
    BY <1>1 DEF CountMessage
  <2>1. PICK w \in RateMsg : w = window[m]
    BY <2>0 DEF RateIInv, Stamps
  <2>2. PICK kept : kept = Evict(entries[w], stamp[m])
    OBVIOUS
  <2>3. CASE Len(kept) >= MaxPerMinute
    <3>1. entries' = [entries EXCEPT ![w] = kept] /\ MoveTo(m, "done") /\ passed' = passed
      BY <1>1, <2>1, <2>2, <2>3 DEF CountMessage
    <3>. QED BY <2>0, <2>2, <3>1, EvictInv
  <2>4. CASE ~(Len(kept) >= MaxPerMinute)
    <3>1. /\ entries' = [entries EXCEPT ![w] = Append(kept, stamp[m])]
          /\ passed' = [passed EXCEPT ![m] = clock]
          /\ MoveTo(m, IF cleans THEN "clean" ELSE "done")
      BY <1>1, <2>1, <2>2, <2>4 DEF CountMessage
    <3>2. PICK l \in {"clean", "done"} : MoveTo(m, l)
      BY <3>1
    <3>3. Len(kept) < MaxPerMinute
      <4>1. entries[w] \in Seq(Nat) /\ stamp[m] \in Nat /\ stamp[m] <= clock
        BY DEF RateIInv, RateTypes, Stamps
      <4>2. kept \in Seq(Nat)
        BY <2>2, <4>1, EvictDropsOld
      <4>3. Len(kept) \in Nat
        BY <4>2, LenProperties
      <4>. QED BY <2>4, <4>3
    <3>. QED BY <2>0, <2>1, <2>2, <3>1, <3>2, <3>3, PassInv
  <2>. QED BY <2>3, <2>4
<1>2. ASSUME NEW m \in RateMsg, CleanupDecides(m)
      PROVE  RateIInv'
  <2>0. at[m] = "clean" /\ UNCHANGED <<clock, mapped, window, stamp, passed, drops>>
    BY <1>2 DEF CleanupDecides
  <2>1. CASE mapped = NoWindow
    <3>1. at' = [at EXCEPT ![m] = "done"] /\ since' = [since EXCEPT ![m] = clock] /\ entries' = entries
      BY <1>2, <2>1 DEF CleanupDecides, MoveTo
    <3>2. /\ \A n \in RateMsg \ {m} : at'[n] = at[n] /\ since'[n] = since[n]
          /\ at'[m] = "done"
      BY <3>1 DEF RateIInv, RateTypes
    <3>3. RateTypes'
      <4>1. at' \in [RateMsg -> RatePlace] /\ since' \in [RateMsg -> Nat]
        BY <3>1 DEF RateIInv, RateTypes, RatePlace
      <4>. QED BY <2>0, <3>1, <4>1 DEF RateIInv, RateTypes
    <3>4. Recent' = Recent
      BY <2>0 DEF Recent
    <3>5. Stamps' /\ ShortWindows'
      BY <2>0, <3>1, <3>2 DEF RateIInv, Stamps, ShortWindows
    <3>6. Placed'
      BY <2>0, <3>1, <3>4 DEF RateIInv, Placed, Placement
    <3>7. Covered'
      <4>1. PICK D \in SUBSET RateMsg : Covers(D)
        BY DEF RateIInv, Covered
      <4>2. Covers(D)'
        BY <2>0, <3>2, <3>4, <4>1 DEF Covers
      <4>. QED BY <4>2 DEF Covered
    <3>8. RateBound'
      BY <2>0, BoundStays DEF RateIInv
    <3>. QED BY <3>3, <3>5, <3>6, <3>7, <3>8 DEF RateIInv
  <2>2. CASE mapped # NoWindow
    <3>0. PICK w \in RateMsg : w = mapped
      BY <2>2 DEF RateIInv, RateTypes
    <3>1. entries' = [entries EXCEPT ![w] = Evict(entries[w], stamp[m])]
      BY <1>2, <2>2, <3>0 DEF CleanupDecides
    <3>2. PICK l \in {"delete", "done"} : MoveTo(m, l)
      BY <1>2, <2>2 DEF CleanupDecides
    <3>. QED BY <2>0, <3>1, <3>2, EvictInv
  <2>. QED BY <2>1, <2>2
<1>3. CASE UNCHANGED rateVars
  <2>. USE <1>3 DEF rateVars
  <2>1. RateTypes' /\ Stamps' /\ ShortWindows'
    BY DEF RateIInv, RateTypes, Stamps, ShortWindows
  <2>2. Recent' = Recent
    BY DEF Recent
  <2>3. Placed'
    BY <2>2 DEF RateIInv, Placed, Placement
  <2>4. Covered'
    BY <2>2 DEF RateIInv, Covered, Covers
  <2>5. RateBound'
    BY BoundStays DEF RateIInv
  <2>. QED BY <2>1, <2>3, <2>4, <2>5 DEF RateIInv
<1>. QED BY <1>1, <1>2, <1>3, TickInv, BeginInv, DeletesInv DEF RateNext

(* No more than MaxPerMinute messages of a sender pass within a minute     *)
(* less Delay, once more for each window deleted while in use              *)
(* (RateLimitMiddleware.InvokeAsync, cleanupStaleWindows).                 *)
THEOREM RateBoundHolds == RateSpec => []RateBound
<1>1. RateIInv => RateBound
  BY DEF RateIInv
<1>. QED BY <1>1, RateInitInv, RateNextInv, PTL DEF RateSpec
=============================================================================
