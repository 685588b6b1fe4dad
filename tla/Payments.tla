------------------------------ MODULE Payments ------------------------------
(***************************************************************************)
(* openclaw/payments: the secret vault (vault.go), the approval a payment  *)
(* or a browser fill waits for (payment.go, policy.go), and the round      *)
(* trip that pays for a 402 answer and sends its request once more         *)
(* (round_tripper.go).  The vault hands out a pointer to the secret it     *)
(* keeps: what Revoke or the expiry clears in the vault is cleared for     *)
(* those who hold the pointer as well.                                     *)
(*                                                                         *)
(* The provider and the approval service are external: they answer, refuse *)
(* or fail.                                                                *)
(***************************************************************************)
EXTENDS Naturals

CONSTANTS
    Card,       \* handles of issued virtual cards
    Filler,     \* goroutines that fill a browser field from a card
    Trip,       \* HTTP requests; a payment has the name of its request
    Taker,      \* other callers of RetrieveMachineAuthorizationOnce
    NoHandle

Handle == Card \cup Trip

PaymentUser == Filler \cup Trip \cup Taker

ASSUME PaymentAssumption ==
    /\ Card \cap Trip = {}
    /\ NoHandle \notin Handle
    /\ Filler \cap Trip = {} /\ Taker \cap (Filler \cup Trip) = {}

VARIABLES
    vault,      \* handles with an entry
    expired,    \* handles past their ExpiresAtUtc
    cleared,    \* handles whose secret was cleared
    place,         \* where a user is
    handle,     \* the handle it works with
    ended,      \* trips whose context has ended
    revoked,    \* history: handles that Revoke found in the vault
    filled,     \* history: what was filled in although it had been revoked
    given,      \* history: how often the secret of a payment was handed out
    paid        \* history: how often the provider executed the payment of a trip

paymentVars == <<vault, expired, cleared, place, handle, ended, revoked, filled, given, paid>>

PaymentInit ==
    /\ vault = {} /\ expired = {} /\ cleared = {}
    /\ place = [u \in PaymentUser |-> "idle"]
    /\ handle = [u \in PaymentUser |-> NoHandle]
    /\ ended = {}
    /\ revoked = {} /\ filled = {}
    /\ given = [h \in Trip |-> 0] /\ paid = [h \in Trip |-> 0]

Step(u, l) == place' = [place EXCEPT ![u] = l]

traces == <<revoked, filled, given, paid>>
-----------------------------------------------------------------------------
(* The vault *)

\* The time of an entry runs out.
Expire(h) ==
    /\ h \in vault \ expired
    /\ expired' = expired \cup {h}
    /\ UNCHANGED <<vault, cleared, place, handle, ended, traces>>

\* Store, after cleanupExpired: the expired entries go and their secrets are
\* cleared; the new secret has its time before it.
Stored(h) ==
    /\ vault' = (vault \ expired) \cup {h}
    /\ cleared' = (cleared \cup (vault \cap expired)) \ {h}
    /\ expired' = (expired \ vault) \ {h}

\* IssueVirtualCard: once per handle, after the approval.
IssueVirtualCard(h) ==
    /\ h \in Card \ (vault \cup expired \cup cleared)
    /\ Stored(h)
    /\ UNCHANGED <<place, handle, ended, traces>>

\* Mutated form: the entry is dropped and its secret left as it is.
RevokeForgets(h) ==
    /\ h \in vault
    /\ vault' = vault \ {h}
    /\ revoked' = revoked \cup {h}
    /\ UNCHANGED <<expired, cleared, place, handle, ended, filled, given, paid>>

\* Revoke clears the secret and keeps the entry.
Revoke(h) ==
    /\ h \in vault
    /\ cleared' = cleared \cup {h}
    /\ revoked' = revoked \cup {h}
    /\ UNCHANGED <<vault, expired, place, handle, ended, filled, given, paid>>

Once(h) == h \in Trip

Retrieved(u, h, next) ==
    /\ Step(u, next) /\ handle' = [handle EXCEPT ![u] = h]
    /\ given' = IF Once(h) THEN [given EXCEPT ![h] = @ + 1] ELSE given
    /\ UNCHANGED <<expired, cleared>>

\* Mutated form: the secret of a payment stays in the vault.
TryRetrieveKeeps(u, h, next) ==
    \/ h \notin vault /\ Step(u, "panicked") /\ UNCHANGED <<vault, expired, cleared, handle, given>>
    \/ /\ h \in vault \cap expired
       /\ vault' = vault \ {h}
       /\ cleared' = cleared \cup {h}
       /\ Step(u, "failed")
       /\ UNCHANGED <<expired, handle, given>>
    \/ h \in vault \ expired /\ UNCHANGED vault /\ Retrieved(u, h, next)

\* TryRetrieve: without an entry it clears the secret of a nil entry.
TryRetrieve(u, h, next) ==
    \/ h \notin vault /\ Step(u, "panicked") /\ UNCHANGED <<vault, expired, cleared, handle, given>>
    \/ /\ h \in vault \cap expired
       /\ vault' = vault \ {h}
       /\ cleared' = cleared \cup {h}
       /\ Step(u, "failed")
       /\ UNCHANGED <<expired, handle, given>>
    \/ /\ h \in vault \ expired
       /\ vault' = IF Once(h) THEN vault \ {h} ELSE vault
       /\ Retrieved(u, h, next)
-----------------------------------------------------------------------------
(* ResolveSecretFieldForApprovedBoundary *)

Fill(u, h) ==
    /\ place[u] = "idle"
    /\ TryRetrieve(u, h, "approval")
    /\ UNCHANGED <<ended, revoked, filled, paid>>

\* requireApprovalOrPolicyAllow: allowed at once or approved, or an error.
Approval(u, granted) ==
    /\ place[u] = "approval"
    /\ Step(u, IF granted THEN "approved" ELSE "failed")
    /\ UNCHANGED <<vault, expired, cleared, handle, ended, traces>>

\* secret.Resolve
Resolve(u) ==
    /\ u \in Filler
    /\ place[u] = "approved"
    /\ Step(u, IF handle[u] \in cleared THEN "failed" ELSE "done")
    /\ filled' = IF handle[u] \in revoked \ cleared THEN filled \cup {handle[u]} ELSE filled
    /\ UNCHANGED <<vault, expired, cleared, handle, ended, revoked, given, paid>>
-----------------------------------------------------------------------------
(* RoundTrip *)

TripContextEnds(u) ==
    /\ u \notin ended
    /\ ended' = ended \cup {u}
    /\ UNCHANGED <<vault, expired, cleared, place, handle, traces>>

\* The answer is a 402 with a challenge; every other answer is returned.
PaymentRequired(u) ==
    /\ place[u] = "idle"
    /\ Step(u, "approval")
    /\ UNCHANGED <<vault, expired, cleared, handle, ended, traces>>

\* The provider executes the payment and may give a secret with it.  Store
\* fails once the context has ended, and its error is dropped.
ExecuteMachinePayment(u, scoped) ==
    /\ u \in Trip
    /\ place[u] = "approved"
    /\ paid' = [paid EXCEPT ![u] = @ + 1]
    /\ IF scoped /\ u \notin ended THEN Stored(u) ELSE UNCHANGED <<vault, expired, cleared>>
    /\ Step(u, "paid")
    /\ UNCHANGED <<handle, ended, revoked, filled, given>>

ProviderFails(u) ==
    /\ u \in Trip
    /\ place[u] = "approved"
    /\ Step(u, "failed")
    /\ UNCHANGED <<vault, expired, cleared, handle, ended, traces>>

\* RetrieveMachineAuthorizationOnce, by the trip or by another caller.
RetrieveAuthorization(u, h) ==
    /\ IF u \in Trip THEN place[u] = "paid" /\ h = u ELSE place[u] = "idle"
    /\ IF u \in ended
       THEN Step(u, "failed") /\ UNCHANGED <<vault, expired, cleared, handle, given>>
       ELSE TryRetrieve(u, h, "header")
    /\ UNCHANGED <<ended, revoked, filled, paid>>

\* The request is sent once more with the header, if that is still there, and
\* whatever comes back is returned.
Retry(u) ==
    /\ place[u] = "header"
    /\ Step(u, IF handle[u] \in cleared THEN "failed" ELSE "done")
    /\ UNCHANGED <<vault, expired, cleared, handle, ended, traces>>

PaymentNext ==
    \/ \E h \in Handle : Expire(h) \/ IssueVirtualCard(h) \/ Revoke(h)
    \/ \E u \in Filler : Resolve(u) \/ \E h \in Card : Fill(u, h)
    \/ \E u \in Filler \cup Trip, granted \in BOOLEAN : Approval(u, granted)
    \/ \E u \in Trip :
          \/ PaymentRequired(u) \/ TripContextEnds(u) \/ ProviderFails(u)
          \/ \E scoped \in BOOLEAN : ExecuteMachinePayment(u, scoped)
    \/ \E u \in Trip \cup Taker : Retry(u) \/ \E h \in Trip : RetrieveAuthorization(u, h)

PaymentSpec == PaymentInit /\ [][PaymentNext]_paymentVars
-----------------------------------------------------------------------------
\* A card that was revoked is not filled in, not even by a call that had
\* retrieved it before and was waiting for its approval.
RevokedIsNotFilled == filled = {}

\* The authorization of a payment is handed out once, to the trip or to one
\* other caller, and no trip pays twice.
PaidAndGivenOnce == \A h \in Trip : given[h] <= 1 /\ paid[h] <= 1
=============================================================================
