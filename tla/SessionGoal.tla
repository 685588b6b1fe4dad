----------------------------- MODULE SessionGoal -----------------------------
(***************************************************************************)
(* The goal of one session: InMemoryGoalService (openclaw/core/goal.go),   *)
(* the check at the end of a turn that decides whether the agent goes on   *)
(* by itself (openclaw/agent/goal.go, EvaluateGoalContinuation), the /goal *)
(* and /new commands (openclaw/core/pipeline.go) and the goal tools.       *)
(*                                                                         *)
(* The service maps the session to a goal object and each of its methods   *)
(* loads the object and works under the object's mutex; the check is a     *)
(* sequence of such calls, so the goal may change, or be another one,      *)
(* between any two of them.  Loading and locking are one step except where *)
(* the history can tell them apart: UpdateStatus and ClearGoal.            *)
(***************************************************************************)
EXTENDS Integers, FiniteSetsExt

CONSTANTS
    Turn,         \* goroutines that run a turn of the session
    Commander,    \* goroutines that process commands of the user
    Model,        \* goroutines that call UpdateModelStatus
    Goal,         \* goal objects, each used once
    Budget,       \* token budgets asked for; 0 is none
    Hash,         \* hashes of a normalised response; Blank for an empty one
    Limit,        \* continuations before the goal is paused (10)
    Repeats,      \* equal hashes in a row before it is blocked (3)
    MaxCount,     \* bound: no check starts once a goal has that many continuations
    MaxBegins,    \* bound: calls of BeginTurn per goal
    MaxTokens,    \* bound: tokens of the session
    NoGoal, Blank

ASSUME GoalAssumption ==
    /\ IsFiniteSet(Goal) /\ IsFiniteSet(Turn)
    /\ Budget \subseteq Nat
    /\ {Limit, Repeats, MaxCount, MaxBegins, MaxTokens} \subseteq Nat
    /\ NoGoal \notin Goal
    /\ Blank \in Hash

Proc == Turn \cup Commander \cup Model

Status == {"Active", "Paused", "Blocked", "BudgetLimited", "Complete"}

VARIABLES
    current,    \* the entry of the session in the map
    goal,       \* the objects; status "none" before creation
    held,       \* the object whose mutex an UpdateModelStatus has taken
    total,      \* session.GetTotalTokens
    pc,
    ref,        \* the object a goroutine works on
    want,       \* the status it passes to UpdateStatus
    recorded,   \* the history file: the last status written for a goal, or "lost"
                \* once a record of it could not be written
    prompts,    \* history: continuation prompts given for a goal
    begins      \* history: calls of BeginTurn on a goal

vars == <<current, goal, held, total, pc, ref, want, recorded, prompts, begins>>

Locked == {held[m] : m \in Model} \ {NoGoal}

IsPursuable(s) == s = "Active"

IsTerminal(s) == s = "Complete"

\* isValidTransition
IsValidTransition(s, t) == s = t \/ s = "Active" \/ (t = "Active" /\ s # "Complete")

\* As written: the comparison holds while the budget is not used up.
IsBudgetExceeded(g) == goal[g].budget > 0 /\ goal[g].budget >= goal[g].used

Unborn == [status |-> "none", budget |-> 0, start |-> 0, used |-> 0,
           count |-> 0, last |-> Blank, same |-> 0]

Init ==
    /\ current = NoGoal
    /\ goal = [g \in Goal |-> Unborn]
    /\ held = [m \in Model |-> NoGoal]
    /\ total = 0
    /\ pc = [p \in Proc |-> "idle"]
    /\ ref = [p \in Proc |-> NoGoal]
    /\ want = [p \in Proc |-> "none"]
    /\ recorded = [g \in Goal |-> "none"]
    /\ prompts = [g \in Goal |-> 0]
    /\ begins = [g \in Goal |-> 0]

Goto(p, l) == pc' = [pc EXCEPT ![p] = l]

\* The call ends, and with it what the goroutine remembers.
Done(p) ==
    /\ Goto(p, "idle")
    /\ ref' = [ref EXCEPT ![p] = NoGoal]
    /\ want' = [want EXCEPT ![p] = "none"]

\* UpdateStatus returns, and with it an UpdateModelStatus that called it.
Release(p) == held' = [m \in Model |-> IF m = p THEN NoGoal ELSE held[m]]

\* Go on to UpdateStatus(s).
Ask(p, s) ==
    /\ Goto(p, "load")
    /\ want' = [want EXCEPT ![p] = s]
    /\ ref' = [ref EXCEPT ![p] = NoGoal]

\* RecordGoalHistory: the append to the file may fail.
WriteHistory(g, s) ==
    recorded' \in {[recorded EXCEPT ![g] = IF @ = "lost" THEN @ ELSE r] : r \in {s, "lost"}}

book == <<recorded, prompts, begins>>
-----------------------------------------------------------------------------
(* The service *)

\* CreateGoal, by /goal start or by the model's create_goal; LoadOrStore lets
\* one of several callers win.
CreateGoal(p, b) ==
    /\ pc[p] = "idle"
    /\ current = NoGoal
    /\ \E g \in Goal :
          /\ goal[g].status = "none"
          /\ current' = g
          /\ goal' = [goal EXCEPT ![g] = [Unborn EXCEPT !.status = "Active", !.budget = b, !.start = total]]
    /\ UNCHANGED <<held, total, pc, ref, want, book>>

\* UpdateStatus loads the goal ...
LoadGoal(p) ==
    /\ pc[p] = "load"
    /\ IF current = NoGoal
       THEN Done(p) /\ Release(p)
       ELSE Goto(p, "apply") /\ ref' = [ref EXCEPT ![p] = current] /\ UNCHANGED <<want, held>>
    /\ UNCHANGED <<current, goal, total, book>>

\* Mutated form: any status may follow any other.
UpdateStatusUnchecked(p) ==
    LET g == ref[p] IN
    /\ pc[p] = "apply"
    /\ g \notin Locked
    /\ goal' = [goal EXCEPT ![g].status = want[p]]
    /\ IF want[p] \in {"Complete", "Blocked", "BudgetLimited"}
       THEN WriteHistory(g, want[p])
       ELSE UNCHANGED recorded
    /\ Done(p) /\ Release(p)
    /\ UNCHANGED <<current, total, prompts, begins>>

\* ... and changes it under its mutex, if the transition is legal.
UpdateStatus(p) ==
    LET g == ref[p] IN
    /\ pc[p] = "apply"
    /\ g \notin Locked
    /\ IF IsTerminal(goal[g].status) \/ ~IsValidTransition(goal[g].status, want[p])
       THEN UNCHANGED <<goal, recorded>>
       ELSE /\ goal' = [goal EXCEPT ![g].status = want[p]]
            /\ IF want[p] \in {"Complete", "Blocked", "BudgetLimited"}
               THEN WriteHistory(g, want[p])
               ELSE UNCHANGED recorded
    /\ Done(p) /\ Release(p)
    /\ UNCHANGED <<current, total, prompts, begins>>

\* ClearGoal takes the goal out of the map ...  Of an object outside the map
\* only the status is read again, so the model forgets the rest.
ClearGoal(c) ==
    /\ pc[c] \in {"idle", "clear"}
    /\ IF current = NoGoal
       THEN pc[c] = "clear" /\ Done(c) /\ UNCHANGED goal
       ELSE /\ goal' = [goal EXCEPT ![current] = [Unborn EXCEPT !.status = goal[current].status]]
            /\ Goto(c, "record")
            /\ ref' = [ref EXCEPT ![c] = current]
            /\ UNCHANGED want
    /\ current' = NoGoal
    /\ UNCHANGED <<held, total, book>>

\* Mutated form: only a goal that is still pursued is recorded.
RecordClearedActive(c) ==
    LET g == ref[c] IN
    /\ pc[c] = "record"
    /\ g \notin Locked
    /\ IF IsPursuable(goal[g].status) THEN WriteHistory(g, goal[g].status) ELSE UNCHANGED recorded
    /\ Done(c)
    /\ UNCHANGED <<current, goal, held, total, prompts, begins>>

\* ... and records it, unless that was done when it was completed.
RecordCleared(c) ==
    LET g == ref[c] IN
    /\ pc[c] = "record"
    /\ g \notin Locked
    /\ IF IsTerminal(goal[g].status) THEN UNCHANGED recorded ELSE WriteHistory(g, goal[g].status)
    /\ Done(c)
    /\ UNCHANGED <<current, goal, held, total, prompts, begins>>

BeginTurn(p) ==
    /\ pc[p] = "idle"
    /\ current \in Goal \ Locked
    /\ begins[current] < MaxBegins
    /\ goal' = [goal EXCEPT ![current].count = 0]
    /\ begins' = [begins EXCEPT ![current] = @ + 1]
    /\ UNCHANGED <<current, held, total, pc, ref, want, recorded, prompts>>

\* UpdateModelStatus holds the mutex when it calls UpdateStatus, which locks
\* that of the goal it finds: the same one, and neither call returns, unless
\* the goal has been cleared in between.  (What it refuses is not a step.)
UpdateModelStatus(m, s) ==
    /\ pc[m] = "idle"
    /\ current \in Goal \ Locked
    /\ s = "Complete" \/ (s = "Blocked" /\ goal[current].same >= Repeats)
    /\ held' = [held EXCEPT ![m] = current]
    /\ Ask(m, s)
    /\ UNCHANGED <<current, goal, total, book>>
-----------------------------------------------------------------------------
(* EvaluateGoalContinuation *)

\* The model answers: tokens are spent.
Spend(t) ==
    /\ pc[t] = "idle"
    /\ total < MaxTokens
    /\ total' = total + 1
    /\ UNCHANGED <<current, goal, held, pc, ref, want, book>>

\* UpdateTokenUsage: called before the check and once more in it.
UpdateTokenUsage(t) ==
    /\ pc[t] \in {"idle", "usage"}
    /\ pc[t] = "idle" /\ current # NoGoal => goal[current].count < MaxCount
    /\ IF current = NoGoal
       THEN UNCHANGED goal
       ELSE /\ current \notin Locked
            /\ goal' = [goal EXCEPT ![current].used = Max({0, total - goal[current].start})]
    /\ Goto(t, IF pc[t] = "idle" THEN "look" ELSE "relook")
    /\ UNCHANGED <<current, held, total, ref, want, book>>

Look(t, interactive) ==
    /\ pc[t] = "look"
    /\ Goto(t, IF current # NoGoal /\ IsPursuable(goal[current].status) /\ interactive
               THEN "usage" ELSE "idle")
    /\ UNCHANGED <<current, goal, held, total, ref, want, book>>

CheckBudget(t) ==
    /\ pc[t] = "relook"
    /\ IF current = NoGoal \/ ~IsPursuable(goal[current].status) THEN Done(t)
       ELSE IF IsBudgetExceeded(current) THEN Ask(t, "BudgetLimited")
       ELSE Goto(t, "count") /\ UNCHANGED <<ref, want>>
    /\ UNCHANGED <<current, goal, held, total, book>>

\* Mutated form: the limit is compared with the count before the increment.
CountOffByOne(t) ==
    /\ pc[t] = "count"
    /\ current \in Goal \ Locked
    /\ goal' = [goal EXCEPT ![current].count = @ + 1]
    /\ IF goal[current].count > Limit
       THEN Ask(t, "Paused")
       ELSE Goto(t, "hash") /\ ref' = [ref EXCEPT ![t] = current] /\ UNCHANGED want
    /\ UNCHANGED <<current, held, total, book>>

\* IncrementContinuationCount; without a goal it returns 0 and the check ends.
Count(t) ==
    /\ pc[t] = "count"
    /\ IF current = NoGoal
       THEN Done(t) /\ UNCHANGED goal
       ELSE /\ current \notin Locked
            /\ goal' = [goal EXCEPT ![current].count = @ + 1]
            /\ IF goal[current].count + 1 > Limit
               THEN Ask(t, "Paused")
               ELSE Goto(t, "hash") /\ ref' = [ref EXCEPT ![t] = current] /\ UNCHANGED want
    /\ UNCHANGED <<current, held, total, book>>

\* RecordTurnHash on the goal of the moment.
Observed(g, h) ==
    IF h = Blank THEN [g EXCEPT !.last = Blank, !.same = 0]
    ELSE IF h = g.last THEN [g EXCEPT !.same = @ + 1]
    ELSE [g EXCEPT !.last = h, !.same = 1]

\* The response is compared with the earlier ones; the third equal one blocks
\* the goal.  Otherwise the agent goes on, for the continuation it was counted
\* for, unless this was the last iteration.
RecordTurnHash(t, h, iterationsLeft) ==
    /\ pc[t] = "hash"
    /\ current \notin Locked
    /\ goal' = IF current = NoGoal THEN goal ELSE [goal EXCEPT ![current] = Observed(@, h)]
    /\ IF current # NoGoal /\ h # Blank /\ h = goal[current].last /\ goal[current].same + 1 >= Repeats
       THEN Ask(t, "Blocked") /\ UNCHANGED prompts
       ELSE /\ prompts' = IF iterationsLeft THEN [prompts EXCEPT ![ref[t]] = @ + 1] ELSE prompts
            /\ Done(t)
    /\ UNCHANGED <<current, held, total, recorded, begins>>

\* The model's update_goal tool.
UpdateGoalTool(t, s) ==
    /\ pc[t] = "idle"
    /\ current # NoGoal
    /\ IsPursuable(goal[current].status)
    /\ Ask(t, s)
    /\ UNCHANGED <<current, goal, held, total, book>>
-----------------------------------------------------------------------------
(* Commands of the user *)

\* /goal pause, resume, complete and block.
GoalCommand(c, s) ==
    /\ pc[c] = "idle"
    /\ current # NoGoal
    /\ s = "Active" => goal[current].status \notin {"Active", "Complete"}
    /\ Ask(c, s)
    /\ UNCHANGED <<current, goal, held, total, book>>

\* /new resets the tokens of the session and then clears the goal.
NewSession(c) ==
    /\ pc[c] = "idle"
    /\ total' = 0
    /\ Goto(c, "clear")
    /\ UNCHANGED <<current, goal, held, ref, want, book>>

Evaluate(t) ==
    \/ UpdateTokenUsage(t)
    \/ \E interactive \in BOOLEAN : Look(t, interactive)
    \/ CheckBudget(t)
    \/ Count(t)
    \/ \E h \in Hash, iterationsLeft \in BOOLEAN : RecordTurnHash(t, h, iterationsLeft)

Next ==
    \/ \E p \in Proc : LoadGoal(p) \/ UpdateStatus(p)
    \/ \E p \in Turn \cup Commander : BeginTurn(p) \/ \E b \in Budget : CreateGoal(p, b)
    \/ \E t \in Turn :
          \/ Spend(t) \/ Evaluate(t)
          \/ \E s \in {"Complete", "Blocked"} : UpdateGoalTool(t, s)
    \/ \E c \in Commander :
          \/ ClearGoal(c) \/ RecordCleared(c) \/ NewSession(c)
          \/ \E s \in {"Paused", "Active", "Complete", "Blocked"} : GoalCommand(c, s)
    \/ \E m \in Model, s \in {"Complete", "Blocked"} : UpdateModelStatus(m, s)

Spec == Init /\ [][Next]_vars
-----------------------------------------------------------------------------
TypeOK ==
    /\ current \in Goal \cup {NoGoal}
    /\ goal \in [Goal -> [status : Status \cup {"none"}, budget : Budget \cup {0}, start : Nat,
                          used : Nat, count : Nat, last : Hash, same : Nat]]
    /\ held \in [Model -> Goal \cup {NoGoal}]
    /\ total \in 0..MaxTokens
    /\ pc \in [Proc -> {"idle", "look", "usage", "relook", "count", "hash", "load", "apply",
                        "clear", "record"}]
    /\ ref \in [Proc -> Goal \cup {NoGoal}]
    /\ want \in [Proc -> Status \cup {"none"}]
    /\ recorded \in [Goal -> Status \cup {"none", "lost"}]
    /\ prompts \in [Goal -> Nat]
    /\ begins \in [Goal -> Nat]

\* The agent goes on by itself at most Limit times per goal and per BeginTurn,
\* whatever turns, tools and commands run at the same time (the counter of
\* IncrementContinuationCount).
ContinuationsBounded == \A g \in Goal : prompts[g] <= Limit * (1 + begins[g])

\* A completed goal keeps that status, even for a command that was under way
\* when it was completed (the check of UpdateStatus).
CompleteIsFinal ==
    [][\A g \in Goal : IsTerminal(goal[g].status) => goal'[g].status = goal[g].status]_vars

\* No goal leaves without a record: the last record of a completed goal says
\* so, and one that was cleared has a record, unless the file could not be
\* written (UpdateStatus and ClearGoal, in whatever order they get to it).
HistoryKept ==
    \A g \in Goal :
        /\ IsTerminal(goal[g].status) => recorded[g] \in {"Complete", "lost"}
        /\ (/\ goal[g].status # "none"
            /\ g # current
            /\ \A c \in Commander : ~(pc[c] = "record" /\ ref[c] = g)) => recorded[g] # "none"
=============================================================================
