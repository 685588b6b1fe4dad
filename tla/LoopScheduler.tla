--------------------------- MODULE LoopScheduler ---------------------------
(***************************************************************************)
(* openclaw/core/loops.go and the ticker of main.go: the prompt a session  *)
(* repeats.  One goroutine, every second, collects the entries that are    *)
(* due and then sends a task to the queue for each of them; commands,      *)
(* tools and answers of the model schedule and cancel loops meanwhile.     *)
(***************************************************************************)
EXTENDS Naturals, FiniteSets

CONSTANTS
    Loop,            \* entries of one session, each scheduled once
    MaxOccurrence    \* bound: how often an entry comes due

ASSUME LoopAssumption == IsFiniteSet(Loop) /\ MaxOccurrence \in Nat

VARIABLES
    scheduled,   \* entries that are or were in the map
    entry,       \* the entry that is in it, as a set of at most one
    due,         \* entries whose nextOccurrence has come
    phase,       \* of the ticker: "wait", "collect" or "send"
    toVisit,     \* entries GetDueEntries has still to look at
    collected,   \* the due entries it has found and not sent yet
    occurred,    \* history: how often an entry came due
    sent,        \* history: how often a task was sent for it
    late         \* history: how often after it had left the map

loopVars == <<scheduled, entry, due, phase, toVisit, collected, occurred, sent, late>>

LoopInit ==
    /\ scheduled = {} /\ entry = {} /\ due = {}
    /\ phase = "wait" /\ toVisit = {} /\ collected = {}
    /\ occurred = [l \in Loop |-> 0]
    /\ sent = [l \in Loop |-> 0]
    /\ late = [l \in Loop |-> 0]

\* ScheduleLoop replaces the entry of the session.
ScheduleLoop(l) ==
    /\ l \notin scheduled
    /\ scheduled' = scheduled \cup {l}
    /\ entry' = {l}
    /\ UNCHANGED <<due, phase, toVisit, collected, occurred, sent, late>>

\* CancelLoop, by a command or by SignalComplete.
CancelLoop(l) ==
    /\ l \in entry
    /\ entry' = entry \ {l}
    /\ UNCHANGED <<scheduled, due, phase, toVisit, collected, occurred, sent, late>>

\* The time of the next occurrence comes.
Occur(l) ==
    /\ l \in scheduled \ due
    /\ occurred[l] < MaxOccurrence
    /\ occurred' = [occurred EXCEPT ![l] = @ + 1]
    /\ due' = due \cup {l}
    /\ UNCHANGED <<scheduled, entry, phase, toVisit, collected, sent, late>>

\* Execute: GetDueEntries ranges over the map; what is stored meanwhile may be
\* seen or not.
BeginExecute ==
    /\ phase = "wait"
    /\ phase' = "collect"
    /\ \E seen \in SUBSET Loop : entry \subseteq seen /\ toVisit' = seen
    /\ UNCHANGED <<scheduled, entry, due, collected, occurred, sent, late>>

\* Mutated form: the next occurrence is computed from the one that has come.
IsDueStays(l) ==
    /\ l \in toVisit
    /\ toVisit' = toVisit \ {l}
    /\ collected' = IF l \in entry \cap due THEN collected \cup {l} ELSE collected
    /\ UNCHANGED due
    /\ UNCHANGED <<scheduled, entry, phase, occurred, sent, late>>

\* IsDue, for an entry that is in the map when it is visited, sets its next
\* occurrence.
IsDue(l) ==
    /\ l \in toVisit
    /\ toVisit' = toVisit \ {l}
    /\ collected' = IF l \in entry \cap due THEN collected \cup {l} ELSE collected
    /\ due' = IF l \in entry THEN due \ {l} ELSE due
    /\ UNCHANGED <<scheduled, entry, phase, occurred, sent, late>>

BeginSending ==
    /\ phase = "collect"
    /\ toVisit = {}
    /\ phase' = "send"
    /\ UNCHANGED <<scheduled, entry, due, toVisit, collected, occurred, sent, late>>

\* EnqueueContext: the queue takes the task, or the occurrence is lost.
Enqueue(l, taken) ==
    /\ phase = "send"
    /\ l \in collected
    /\ collected' = collected \ {l}
    /\ sent' = IF taken THEN [sent EXCEPT ![l] = @ + 1] ELSE sent
    /\ late' = IF taken /\ l \notin entry THEN [late EXCEPT ![l] = @ + 1] ELSE late
    /\ UNCHANGED <<scheduled, entry, due, phase, toVisit, occurred>>

\* Every entry was sent, or the context has ended and the rest is dropped.
EndExecute ==
    /\ phase = "send"
    /\ phase' = "wait"
    /\ collected' = {}
    /\ UNCHANGED <<scheduled, entry, due, toVisit, occurred, sent, late>>

LoopNext ==
    \/ \E l \in Loop :
          \/ ScheduleLoop(l) \/ CancelLoop(l) \/ Occur(l) \/ IsDue(l)
          \/ \E taken \in BOOLEAN : Enqueue(l, taken)
    \/ BeginExecute \/ BeginSending \/ EndExecute

LoopSpec == LoopInit /\ [][LoopNext]_loopVars
-----------------------------------------------------------------------------
\* No occurrence is sent twice (IsDue takes it under the mutex of the entry),
\* and an entry that was cancelled or replaced is sent at most once more, by
\* a run of the ticker that was under way.
LoopSentOnce == \A l \in Loop : sent[l] <= occurred[l] /\ late[l] <= 1
=============================================================================
