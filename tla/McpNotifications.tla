-------------------------- MODULE McpNotifications --------------------------
(***************************************************************************)
(* mcp/core/shared_notification_handler.go: the handlers registered for    *)
(* one notification method, as a doubly linked list with the newest one in *)
(* front.  InvokeHandlers walks the list and gives the lock back around    *)
(* each handler; Close unlinks a temporary registration, keeps its own     *)
(* pointers for the walks that stand on it, and waits for the calls under  *)
(* way, unless it is made by the handler itself.                           *)
(***************************************************************************)
EXTENDS Naturals, FiniteSets

CONSTANTS
    Reg,         \* registrations, each made once
    Permanent,   \* those of RegisterRange
    Invoker,     \* goroutines that invoke the handlers of a notification
    NoReg

ASSUME RegAssumption ==
    /\ Permanent \subseteq Reg /\ IsFiniteSet(Reg) /\ IsFiniteSet(Invoker)
    /\ NoReg \notin Reg

VARIABLES
    head,       \* handlers[method]
    next, prev, \* the links of a registration
    made,       \* registrations that were made
    disposed,   \* disposeCalled
    refs,       \* refCount: 1 for itself and 1 for each call under way
    doneChan,   \* registrations whose channel is closed
    closing,    \* registrations whose Close waits, called from outside
    quiet,      \* history: those whose Close has returned after waiting
    walk,       \* of an invoker: "idle", "visit", "run" or "advance"
    on,         \* the registration it stands on
    owed        \* history: the registrations it found and has not called yet

notifyVars == <<head, next, prev, made, disposed, refs, doneChan, closing, quiet, walk, on, owed>>

links == <<head, next, prev>>

NotifyInit ==
    /\ head = NoReg
    /\ next = [r \in Reg |-> NoReg] /\ prev = [r \in Reg |-> NoReg]
    /\ made = {} /\ disposed = {} /\ doneChan = {} /\ closing = {} /\ quiet = {}
    /\ refs = [r \in Reg |-> 1]
    /\ walk = [i \in Invoker |-> "idle"]
    /\ on = [i \in Invoker |-> NoReg]
    /\ owed = [i \in Invoker |-> {}]

\* Register puts the new registration in front.
RegisterHandler(r) ==
    /\ r \notin made
    /\ made' = made \cup {r}
    /\ next' = [next EXCEPT ![r] = head]
    /\ prev' = IF head = NoReg THEN prev ELSE [prev EXCEPT ![head] = r]
    /\ head' = r
    /\ UNCHANGED <<disposed, refs, doneChan, closing, quiet, walk, on, owed>>
-----------------------------------------------------------------------------
(* Close *)

\* Mutated form: the links of the registration itself are cleared as well.
UnlinkClears(r) ==
    /\ head' = IF head = r THEN next[r] ELSE head
    /\ next' = [q \in Reg |-> IF q = r THEN NoReg ELSE IF q = prev[r] THEN next[r] ELSE next[q]]
    /\ prev' = [q \in Reg |-> IF q = r THEN NoReg ELSE IF q = next[r] THEN prev[r] ELSE prev[q]]

Unlink(r) ==
    /\ head' = IF head = r THEN next[r] ELSE head
    /\ next' = [q \in Reg |-> IF q = prev[r] THEN next[r] ELSE next[q]]
    /\ prev' = [q \in Reg |-> IF q = next[r] THEN prev[r] ELSE prev[q]]

\* Under both locks: the first call unlinks the registration and gives its own
\* reference back.
Dispose(r) ==
    IF r \in disposed
    THEN UNCHANGED <<links, disposed, refs, doneChan>>
    ELSE /\ disposed' = disposed \cup {r}
         /\ Unlink(r)
         /\ refs' = [refs EXCEPT ![r] = @ - 1]
         /\ doneChan' = IF refs'[r] = 0 THEN doneChan \cup {r} ELSE doneChan

\* A goroutine closes a registration from outside and goes on to wait.
CloseOutside(r) ==
    /\ r \in made \ (Permanent \cup closing \cup quiet)
    /\ Dispose(r)
    /\ closing' = closing \cup {r}
    /\ UNCHANGED <<made, quiet, walk, on, owed>>

\* Mutated form: the wait is for nothing.
CloseReturnsAtOnce(r) ==
    /\ r \in closing
    /\ closing' = closing \ {r}
    /\ quiet' = quiet \cup {r}
    /\ UNCHANGED <<links, made, disposed, refs, doneChan, walk, on, owed>>

CloseReturns(r) ==
    /\ r \in closing \cap doneChan
    /\ closing' = closing \ {r}
    /\ quiet' = quiet \cup {r}
    /\ UNCHANGED <<links, made, disposed, refs, doneChan, walk, on, owed>>

\* The context of Close ends first.
CloseCancelled(r) ==
    /\ r \in closing
    /\ closing' = closing \ {r}
    /\ UNCHANGED <<links, made, disposed, refs, doneChan, quiet, walk, on, owed>>

\* The handler closes its own registration and does not wait
\* (isInvokingAncestor).
CloseInside(i) ==
    /\ walk[i] = "run"
    /\ on[i] \notin Permanent
    /\ Dispose(on[i])
    /\ UNCHANGED <<made, closing, quiet, walk, on, owed>>
-----------------------------------------------------------------------------
(* InvokeHandlers *)

Walk(i, l) == walk' = [walk EXCEPT ![i] = l]

BeginWalk(i) ==
    /\ walk[i] = "idle"
    /\ head # NoReg
    /\ Walk(i, "visit")
    /\ on' = [on EXCEPT ![i] = head]
    /\ owed' = [owed EXCEPT ![i] = made \ disposed]
    /\ UNCHANGED <<links, made, disposed, refs, doneChan, closing, quiet>>

\* invoke: a disposed registration is passed over, a temporary one counted.
Visit(i) ==
    LET r == on[i] IN
    /\ walk[i] = "visit"
    /\ owed' = [owed EXCEPT ![i] = @ \ {r}]
    /\ IF r \in disposed
       THEN Walk(i, "advance") /\ UNCHANGED refs
       ELSE /\ Walk(i, "run")
            /\ refs' = IF r \in Permanent THEN refs ELSE [refs EXCEPT ![r] = @ + 1]
    /\ UNCHANGED <<links, made, disposed, doneChan, closing, quiet, on>>

HandlerReturns(i) ==
    LET r == on[i] IN
    /\ walk[i] = "run"
    /\ Walk(i, "advance")
    /\ refs' = IF r \in Permanent THEN refs ELSE [refs EXCEPT ![r] = @ - 1]
    /\ doneChan' = IF refs'[r] = 0 THEN doneChan \cup {r} ELSE doneChan
    /\ UNCHANGED <<links, made, disposed, closing, quiet, on, owed>>

Advance(i) ==
    /\ walk[i] = "advance"
    /\ on' = [on EXCEPT ![i] = next[@]]
    /\ Walk(i, IF next[on[i]] = NoReg THEN "idle" ELSE "visit")
    /\ UNCHANGED <<links, made, disposed, refs, doneChan, closing, quiet, owed>>

WalkStep(i) == Visit(i) \/ HandlerReturns(i) \/ Advance(i)

NotifyNext ==
    \/ \E r \in Reg : RegisterHandler(r) \/ CloseOutside(r) \/ CloseReturns(r) \/ CloseCancelled(r)
    \/ \E i \in Invoker : BeginWalk(i) \/ CloseInside(i) \/ WalkStep(i)

\* Handlers return, and goroutines that can go on do so.
NotifyFairness ==
    /\ \A i \in Invoker : WF_notifyVars(WalkStep(i))
    /\ \A r \in Reg : WF_notifyVars(CloseReturns(r))

NotifySpec == NotifyInit /\ [][NotifyNext]_notifyVars /\ NotifyFairness
-----------------------------------------------------------------------------
NotifyTypeOK ==
    /\ head \in Reg \cup {NoReg}
    /\ next \in [Reg -> Reg \cup {NoReg}] /\ prev \in [Reg -> Reg \cup {NoReg}]
    /\ made \subseteq Reg /\ disposed \subseteq Reg \ Permanent /\ doneChan \subseteq disposed
    /\ closing \subseteq disposed /\ quiet \subseteq doneChan
    /\ refs \in [Reg -> 0..1 + Cardinality(Invoker)]
    /\ walk \in [Invoker -> {"idle", "visit", "run", "advance"}]
    /\ on \in [Invoker -> Reg \cup {NoReg}]
    /\ owed \in [Invoker -> SUBSET Reg]

\* Once Close has waited for a registration, its handler does not run and is
\* not called again, whichever walks were under way.
QuietAfterClose == \A i \in Invoker : walk[i] = "run" => on[i] \notin quiet

\* A walk calls every handler that was registered when it began and is not
\* closed meanwhile, although others, and the one it stands on, are unlinked
\* on the way.
EveryHandlerCalled == \A i \in Invoker : walk[i] = "idle" => owed[i] \subseteq disposed

=============================================================================
