----------------------------- MODULE LiveClient -----------------------------
(***************************************************************************)
(* openclaw/client/live.go, type OpenClawLiveClient: the connection of a   *)
(* live session, the goroutine that receives from it, and the goroutines   *)
(* that connect, send and disconnect.  websocket.go is the same client     *)
(* with other messages.                                                    *)
(*                                                                         *)
(* A send writes in a goroutine of its own, so that it can return when its *)
(* context ends; the write goes on.  The callbacks of the receive loop may *)
(* call the client as well, and the loop makes one more, OnError, before   *)
(* it ends.  The library allows one writer at a time (external); closing a *)
(* connection ends what reads from it.                                     *)
(***************************************************************************)
EXTENDS Naturals

CONSTANTS
    Client,    \* goroutines that use the client
    Conn,      \* connections; each is dialled once
    Calling,   \* those whose callbacks call the client
    NoConn, NoUser

ASSUME LiveAssumption ==
    /\ Client \cap Conn = {} /\ Calling \subseteq Conn
    /\ NoConn \notin Conn /\ NoUser \notin Client \cup Conn

User == Client \cup Calling   \* a connection stands for its callbacks

VARIABLES
    ws,          \* c.ws
    sendMu,      \* who holds it
    call,        \* per user: "connect", "disconnect", "send", or "none"
    where,       \* per user: how far the call is
    mine,        \* per user: the connection it works on
    writing,     \* per user: the connection its write goroutine writes to
    dialled, open,  \* connections that were made, and that are not closed
    rx,          \* per connection: its receive loop, "last" in its final OnError
    crossed      \* history: a Connect has begun while another was under way

liveVars == <<ws, sendMu, call, where, mine, writing, dialled, open, rx, crossed>>

LiveInit ==
    /\ ws = NoConn /\ sendMu = NoUser
    /\ call = [u \in User |-> "none"]
    /\ where = [u \in User |-> "idle"]
    /\ mine = [u \in User |-> NoConn]
    /\ writing = [u \in User |-> NoConn]
    /\ dialled = {} /\ open = {}
    /\ rx = [c \in Conn |-> "off"]
    /\ crossed = FALSE

GoTo(u, l) == where' = [where EXCEPT ![u] = l]

Return(u) ==
    /\ GoTo(u, "idle")
    /\ call' = [call EXCEPT ![u] = "none"]
    /\ mine' = [mine EXCEPT ![u] = NoConn]

\* A goroutine, or a callback, calls the client.
StartCall(u, op) ==
    /\ call[u] = "none"
    /\ u \in Conn => rx[u] \in {"callback", "last"}
    /\ op = "send" => writing[u] = NoConn   \* bound: one write goroutine per user
    /\ call' = [call EXCEPT ![u] = op]
    /\ GoTo(u, "start")
    /\ crossed' = (crossed \/ (op = "connect" /\ \E v \in User : call[v] = "connect"))
    /\ UNCHANGED <<ws, sendMu, mine, writing, dialled, open, rx>>
-----------------------------------------------------------------------------
(* Disconnect, also at the beginning of Connect *)

\* Where Disconnect returns to.
Disconnected(u) ==
    IF call[u] = "connect"
    THEN /\ GoTo(u, "dial")
         /\ mine' = [mine EXCEPT ![u] = NoConn]
         /\ UNCHANGED call
    ELSE Return(u)

\* Mutated form: Connect leaves the old connection alone.
TakeConnKept(u) ==
    /\ call[u] \in {"connect", "disconnect"} /\ where[u] = "start"
    /\ sendMu = NoUser
    /\ ws' = IF call[u] = "connect" THEN ws ELSE NoConn
    /\ IF ws = NoConn \/ call[u] = "connect"
       THEN Disconnected(u) /\ UNCHANGED sendMu
       ELSE /\ sendMu' = u
            /\ mine' = [mine EXCEPT ![u] = ws]
            /\ GoTo(u, "close")
            /\ UNCHANGED call
    /\ UNCHANGED <<writing, dialled, open, rx, crossed>>

TakeConn(u) ==
    /\ call[u] \in {"connect", "disconnect"} /\ where[u] = "start"
    /\ sendMu = NoUser
    /\ ws' = NoConn
    /\ IF ws = NoConn
       THEN Disconnected(u) /\ UNCHANGED sendMu
       ELSE /\ sendMu' = u
            /\ mine' = [mine EXCEPT ![u] = ws]
            /\ GoTo(u, "close")
            /\ UNCHANGED call
    /\ UNCHANGED <<writing, dialled, open, rx, crossed>>

\* Mutated form: the connection is left to the server to close.
CloseConnPolitely(u) ==
    /\ where[u] = "close"
    /\ GoTo(u, "wait")
    /\ UNCHANGED <<ws, sendMu, call, mine, writing, dialled, open, rx, crossed>>

\* WriteControl and Close.
CloseConn(u) ==
    /\ where[u] = "close"
    /\ open' = open \ {mine[u]}
    /\ GoTo(u, "wait")
    /\ UNCHANGED <<ws, sendMu, call, mine, writing, dialled, rx, crossed>>

AfterWait(u) ==
    /\ sendMu' = NoUser
    /\ Disconnected(u)
    /\ UNCHANGED <<ws, writing, dialled, open, rx, crossed>>

\* rxDone is closed.
WaitEnds(u) == where[u] = "wait" /\ rx[mine[u]] = "done" /\ AfterWait(u)

\* The context ends; Close and the last CloseSession wait without one.
WaitCut(u) == where[u] = "wait" /\ AfterWait(u)
-----------------------------------------------------------------------------
(* The rest of Connect *)

\* The dial and the open request; when one of them fails nothing is left.
Dial(u, c) ==
    /\ where[u] = "dial"
    /\ c \notin dialled
    /\ dialled' = dialled \cup {c} /\ open' = open \cup {c}
    /\ mine' = [mine EXCEPT ![u] = c]
    /\ GoTo(u, "install")
    /\ UNCHANGED <<ws, sendMu, call, writing, rx, crossed>>

DialFails(u) ==
    /\ where[u] = "dial"
    /\ Return(u)
    /\ UNCHANGED <<ws, sendMu, writing, dialled, open, rx, crossed>>

Install(u) ==
    /\ where[u] = "install"
    /\ ws' = mine[u]
    /\ rx' = [rx EXCEPT ![mine[u]] = "read"]
    /\ Return(u)
    /\ UNCHANGED <<sendMu, writing, dialled, open, crossed>>
-----------------------------------------------------------------------------
(* sendEnvelope *)

StartWrite(u) ==
    /\ call[u] = "send" /\ where[u] = "start"
    /\ sendMu = NoUser
    /\ IF ws = NoConn
       THEN Return(u) /\ UNCHANGED <<sendMu, writing>>
       ELSE /\ sendMu' = u
            /\ writing' = [writing EXCEPT ![u] = ws]
            /\ GoTo(u, "write")
            /\ UNCHANGED <<call, mine>>
    /\ UNCHANGED <<ws, dialled, open, rx, crossed>>

\* WriteMessage returns, to the send that waits for it or to nobody.
WriteEnds(u) ==
    /\ writing[u] # NoConn
    /\ writing' = [writing EXCEPT ![u] = NoConn]
    /\ IF where[u] = "write"
       THEN Return(u) /\ sendMu' = NoUser
       ELSE UNCHANGED <<sendMu, call, where, mine>>
    /\ UNCHANGED <<ws, dialled, open, rx, crossed>>

\* The context of the send ends first.
SendCut(u) ==
    /\ where[u] = "write"
    /\ sendMu' = NoUser
    /\ Return(u)
    /\ UNCHANGED <<ws, writing, dialled, open, rx, crossed>>
-----------------------------------------------------------------------------
(* receiveLoop *)

Receiver(c, from, to) ==
    /\ rx[c] = from
    /\ rx' = [rx EXCEPT ![c] = to]
    /\ UNCHANGED <<ws, sendMu, call, where, mine, writing, dialled, open, crossed>>

Receive(c) == c \in open /\ Receiver(c, "read", "callback")

CallbackReturns(c) ==
    /\ c \in Calling => call[c] = "none"
    /\ Receiver(c, "callback", "read") \/ Receiver(c, "last", "done")

\* A read fails: OnError is told, unless it is a normal closure or there is no
\* such callback, and the loop ends.
ReadFails(c) == Receiver(c, "read", "last") \/ Receiver(c, "read", "done")

\* The server, or the read limit; the connection is left as it is.
ServerEnds(c) == c \in open /\ ReadFails(c)

\* The connection was closed by this side, in a Disconnect that now waits for
\* the loop with sendMu held.
ReadsClosed(c) == c \notin open /\ ReadFails(c)

LiveStep(u) ==
    \/ TakeConn(u) \/ CloseConn(u) \/ WaitEnds(u)
    \/ (\E c \in Conn : Dial(u, c)) \/ DialFails(u) \/ Install(u)
    \/ StartWrite(u) \/ WriteEnds(u)

LiveNext ==
    \/ \E u \in User :
          \/ \E op \in {"connect", "disconnect", "send"} : StartCall(u, op)
          \/ LiveStep(u)
          \/ WaitCut(u) \/ SendCut(u)
    \/ \E c \in Conn : Receive(c) \/ CallbackReturns(c) \/ ServerEnds(c) \/ ReadsClosed(c)

LiveSpec == LiveInit /\ [][LiveNext]_liveVars

\* Goroutines go on and callbacks return.  No context has to end.
LiveFairness ==
    /\ \A u \in User : WF_liveVars(LiveStep(u))
    /\ \A c \in Conn : WF_liveVars(CallbackReturns(c) \/ ReadsClosed(c))
-----------------------------------------------------------------------------
\* No connection is forgotten while it is open, unless two Connects crossed:
\* it is the client's, or somebody is about to close or to install it.
NoConnForgotten ==
    ~crossed =>
        \A c \in open : c = ws \/ \E u \in User : mine[u] = c /\ where[u] \in {"close", "install"}

\* A Disconnect returns without the help of its context, unless the callback
\* it waits for, the OnError of its own close included, is in a call of the
\* client that waits for sendMu, which Disconnect holds, or is that very
\* Disconnect.
DisconnectsReturn ==
    \A u \in User :
        where[u] = "wait" ~>
            where[u] # "wait" \/ mine[u] = u \/ (mine[u] \in Calling /\ where[mine[u]] = "start")
=============================================================================
