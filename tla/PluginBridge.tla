---------------------------- MODULE PluginBridge ----------------------------
(***************************************************************************)
(* openclaw/agent/plugins.go, type BridgeTransportBase.  Callers enter a   *)
(* channel of capacity one into the pending map under a new id, write a    *)
(* line to the plugin and wait (SendAndWait) or return (SendRequest).  The *)
(* read loop takes the channel of an answered id out of the map and sends  *)
(* the answer.  Close, and the end of the read loop, take out what they    *)
(* find and send an error.                                                 *)
(*                                                                         *)
(* bufio.Writer is shared without a lock: while two callers write, lines   *)
(* of both may be lost.  Ids count up and are not used twice.              *)
(***************************************************************************)
EXTENDS Naturals, FiniteSets

CONSTANT BridgeCaller   \* goroutines, one request each

Taker == {"reader", "closer"}   \* who takes channels out of the map

VARIABLES
    request,   \* where each caller is, or how its call ended
    slots,     \* b.pending: the callers whose channel is in the map
    reply,     \* what the channel of each caller holds
    wire,      \* requests the plugin has received and not answered
    taken,     \* the channel each taker has taken and not sent to
    taker,     \* "off", "reading" (the reader only), "cancelling", "done"
    toVisit,   \* entries that the Range of cancelPendingRequests has still to visit
    released   \* history: who was waiting when Close was called

bridgeVars == <<request, slots, reply, wire, taken, taker, toVisit, released>>

CallEnd == {"answered", "cancelled", "timedOut", "failed", "sent"}

BridgeInit ==
    /\ request = [c \in BridgeCaller |-> "idle"]
    /\ slots = {}
    /\ reply = [c \in BridgeCaller |-> "empty"]
    /\ wire = {}
    /\ taken = [t \in Taker |-> {}]
    /\ taker = [reader |-> "reading", closer |-> "off"]
    /\ toVisit = [t \in Taker |-> {}]
    /\ released = {}
-----------------------------------------------------------------------------
(* SendAndWait and SendRequest *)

Register(c) ==
    /\ request[c] = "idle"
    /\ request' = [request EXCEPT ![c] = "writing"]
    /\ slots' = slots \cup {c}
    /\ UNCHANGED <<reply, wire, taken, taker, toVisit, released>>

\* Write and Flush: the plugin gets the line; lines of callers that write at
\* the same time may be lost.  SendAndWait waits, SendRequest is over.
WriteRequest(c) ==
    /\ request[c] = "writing"
    /\ \/ wire' = wire \cup {c}
       \/ /\ \E d \in BridgeCaller \ {c} : request[d] = "writing"
          /\ UNCHANGED wire
    /\ \/ request' = [request EXCEPT ![c] = "waiting"] /\ UNCHANGED slots
       \/ request' = [request EXCEPT ![c] = "sent"] /\ slots' = slots \ {c}
    /\ UNCHANGED <<reply, taken, taker, toVisit, released>>

\* The deferred Delete.
EndCall(c, how) ==
    /\ request' = [request EXCEPT ![c] = how]
    /\ slots' = slots \ {c}
    /\ UNCHANGED <<wire, taken, taker, toVisit, released>>

WriteError(c) ==
    /\ request[c] = "writing"
    /\ EndCall(c, "failed")
    /\ UNCHANGED reply

\* <-done, also when the timer has fired at the same time.
TakeReply(c) ==
    /\ request[c] = "waiting"
    /\ reply[c] # "empty"
    /\ reply' = [reply EXCEPT ![c] = "empty"]
    /\ EndCall(c, IF reply[c] = "answer" THEN "answered" ELSE "cancelled")

\* The timer fires or the context ends, and nothing has come.
WaitTimesOut(c) ==
    /\ request[c] = "waiting"
    /\ reply[c] = "empty"
    /\ EndCall(c, "timedOut")
    /\ UNCHANGED reply
-----------------------------------------------------------------------------
(* readLoop and cancelPendingRequests *)

\* Mutated form: the answer leaves the entry in the map.
AnswerWithoutTaking(c) ==
    /\ taker["reader"] = "reading"
    /\ taken["reader"] = {}
    /\ c \in wire
    /\ wire' = wire \ {c}
    /\ taken' = [taken EXCEPT !["reader"] = slots \cap {c}]
    /\ UNCHANGED <<request, slots, reply, taker, toVisit, released>>

\* processLine: an answer whose caller has gone is dropped.
Answer(c) ==
    /\ taker["reader"] = "reading"
    /\ taken["reader"] = {}
    /\ c \in wire
    /\ wire' = wire \ {c}
    /\ taken' = [taken EXCEPT !["reader"] = slots \cap {c}]
    /\ slots' = slots \ {c}
    /\ UNCHANGED <<request, reply, taker, toVisit, released>>

\* The select that sends to the channel, or drops the value when it is full.
Send(t) ==
    /\ taken[t] # {}
    /\ reply' = [c \in BridgeCaller |->
                    IF c \in taken[t] /\ reply[c] = "empty"
                    THEN IF taker[t] = "reading" THEN "answer" ELSE "error"
                    ELSE reply[c]]
    /\ taken' = [taken EXCEPT ![t] = {}]
    /\ UNCHANGED <<request, slots, wire, taker, toVisit, released>>

StartCancelling(t) ==
    /\ taker' = [taker EXCEPT ![t] = "cancelling"]
    /\ toVisit' = [toVisit EXCEPT ![t] = slots]

\* The plugin closes its output, or the loop finds the transport disposed.
ReaderEnds ==
    /\ taker["reader"] = "reading"
    /\ taken["reader"] = {}
    /\ StartCancelling("reader")
    /\ UNCHANGED <<request, slots, reply, wire, taken, released>>

CloseBridge ==
    /\ taker["closer"] = "off"
    /\ StartCancelling("closer")
    /\ released' = {c \in BridgeCaller : request[c] = "waiting"}
    /\ UNCHANGED <<request, slots, reply, wire, taken>>

\* CompareAndDelete of an entry; Range visits those it must and may meet others.
CancelOne(t, c) ==
    /\ taker[t] = "cancelling"
    /\ taken[t] = {}
    /\ c \in slots
    /\ slots' = slots \ {c}
    /\ taken' = [taken EXCEPT ![t] = {c}]
    /\ UNCHANGED <<request, reply, wire, taker, toVisit, released>>

\* Mutated form: the pass stops at the first entry.
CancelEndsEarly(t) ==
    /\ taker[t] = "cancelling"
    /\ taken[t] = {}
    /\ Cardinality(toVisit[t] \cap slots) <= 1
    /\ taker' = [taker EXCEPT ![t] = "done"]
    /\ toVisit' = [toVisit EXCEPT ![t] = {}]
    /\ UNCHANGED <<request, slots, reply, wire, taken, released>>

CancelEnds(t) ==
    /\ taker[t] = "cancelling"
    /\ taken[t] = {}
    /\ toVisit[t] \cap slots = {}
    /\ taker' = [taker EXCEPT ![t] = "done"]
    /\ toVisit' = [toVisit EXCEPT ![t] = {}]
    /\ UNCHANGED <<request, slots, reply, wire, taken, released>>

CancelStep(t) == (\E c \in BridgeCaller : CancelOne(t, c)) \/ CancelEnds(t)

BridgeNext ==
    \/ \E c \in BridgeCaller :
          \/ Register(c) \/ WriteRequest(c) \/ WriteError(c) \/ TakeReply(c) \/ WaitTimesOut(c)
          \/ Answer(c)
    \/ \E t \in Taker : Send(t) \/ CancelStep(t)
    \/ ReaderEnds
    \/ CloseBridge

BridgeSpec == BridgeInit /\ [][BridgeNext]_bridgeVars

\* Goroutines that can go on do.  Nothing makes the plugin answer, and the
\* timer of a minute is not counted on.
BridgeFairness ==
    /\ \A t \in Taker : WF_bridgeVars(Send(t)) /\ WF_bridgeVars(CancelStep(t))
    /\ \A c \in BridgeCaller : WF_bridgeVars(TakeReply(c))
-----------------------------------------------------------------------------
BridgeTypeOK ==
    /\ request \in [BridgeCaller -> CallEnd \cup {"idle", "writing", "waiting"}]
    /\ slots \subseteq BridgeCaller
    /\ reply \in [BridgeCaller -> {"empty", "answer", "error"}]
    /\ wire \subseteq BridgeCaller
    /\ taken \in [Taker -> SUBSET BridgeCaller]
    /\ taker \in [Taker -> {"off", "reading", "cancelling", "done"}]
    /\ toVisit \in [Taker -> SUBSET BridgeCaller]
    /\ released \subseteq BridgeCaller

\* The map holds an entry only for a call under way: nothing is left behind by
\* a timeout, a failed write or a late answer (the deferred Delete).
PendingAreCalling == \A c \in slots : request[c] \in {"writing", "waiting"}

\* Of the read loop and the two passes that cancel, one takes a caller's
\* channel, and finds it empty: the default branches of the sends never drop
\* an answer (LoadAndDelete, CompareAndDelete).
OneReply ==
    /\ taken["reader"] \cap taken["closer"] = {}
    /\ \A t \in Taker : \A c \in taken[t] : c \notin slots /\ reply[c] = "empty"

\* Whoever waits when the bridge is closed is told, without the timeout of a
\* minute.
CloseReleases == \A c \in BridgeCaller : c \in released ~> request[c] \in CallEnd
=============================================================================
