---------------------------- MODULE CronScheduler ----------------------------
(***************************************************************************)
(* openclaw/core/pipeline.go, type CronScheduler: ticks and the startup    *)
(* dispatch send due jobs into the inbound channel of the pipeline, each   *)
(* guarded by a marker in runningJobs; consumers of the channel run them.  *)
(* The accesses to runningJobs (a sync.Map) are separate steps.            *)
(*                                                                         *)
(* Which jobs are due is left open (the cron expressions).  A marker is    *)
(* fresh or older than maxRunningDuration.                                 *)
(***************************************************************************)
EXTENDS Naturals, Sequences, FiniteSets

CONSTANTS
    Job,          \* configured jobs
    NameOf,       \* the marker of a job: its name, or Unnamed
    Name,
    Unnamed,      \* the marker of every job without a name
    Ticker,       \* goroutines that call RunTick
    Starter,      \* goroutines that call RunStartupJobs
    Consumer,     \* goroutines that run what the channel delivers
    Capacity,     \* of the inbound channel
    Completing,   \* whether consumers call MarkJobCompleted
    NoJob

ASSUME CronAssumption ==
    /\ NameOf \in [Job -> Name]
    /\ Capacity \in Nat \ {0}
    /\ Completing \in BOOLEAN
    /\ NoJob \notin Job

Runner == Ticker \cup Starter

VARIABLES
    marker,      \* runningJobs: "none", "fresh" or "stale"
    inbound,     \* the channel
    working,     \* the job a consumer runs
    pc,
    todo,        \* due jobs a runner has still to look at
    job,         \* the one it is at
    stale,       \* the marker a clean-up has found too old
    overdue      \* history: names whose marker has ever grown too old

vars == <<marker, inbound, working, pc, todo, job, stale, overdue>>

Goto(r, l) == pc' = [pc EXCEPT ![r] = l]

Sending(n) == {r \in Runner : pc[r] \in {"send", "sent"} /\ NameOf[job[r]] = n}

Init ==
    /\ marker = [n \in Name |-> "none"]
    /\ inbound = <<>>
    /\ working = [c \in Consumer |-> NoJob]
    /\ pc = [r \in Runner |-> IF r \in Starter THEN "boot" ELSE "idle"]
    /\ todo = [r \in Runner |-> {}]
    /\ job = [r \in Runner |-> NoJob]
    /\ stale = [r \in Runner |-> {}]
    /\ overdue = {}

\* maxRunningDuration passes since the marker was set.
Age(n) ==
    /\ marker[n] = "fresh"
    /\ marker' = [marker EXCEPT ![n] = "stale"]
    /\ overdue' = overdue \cup {n}
    /\ UNCHANGED <<inbound, working, pc, todo, job, stale>>
-----------------------------------------------------------------------------
StartTick(r, due) ==
    /\ pc[r] = "idle"
    /\ todo' = [todo EXCEPT ![r] = due]
    /\ stale' = [stale EXCEPT ![r] = {n \in Name : marker[n] = "stale"}]
    /\ Goto(r, "cleanup")
    /\ UNCHANGED <<marker, inbound, working, job, overdue>>

\* Mutated form: nothing is cleaned up.
CleanupNothing(r) ==
    /\ pc[r] = "cleanup"
    /\ stale' = [stale EXCEPT ![r] = {}]
    /\ Goto(r, "next")
    /\ UNCHANGED <<marker, inbound, working, todo, job, overdue>>

\* cleanupStaleRunningJobs deletes what it found too old.
Cleanup(r) ==
    /\ pc[r] = "cleanup"
    /\ marker' = [n \in Name |-> IF n \in stale[r] THEN "none" ELSE marker[n]]
    /\ stale' = [stale EXCEPT ![r] = {}]
    /\ Goto(r, "next")
    /\ UNCHANGED <<inbound, working, todo, job, overdue>>

StartBoot(r, due) ==
    /\ pc[r] = "boot"
    /\ todo' = [todo EXCEPT ![r] = due]
    /\ Goto(r, "next")
    /\ UNCHANGED <<marker, inbound, working, job, stale, overdue>>

\* Both return when there is no job left; RunStartupJobs also when its context
\* is done, which it looks at before every job.
Finish(r) ==
    /\ pc[r] = "next"
    /\ todo[r] = {} \/ r \in Starter
    /\ todo' = [todo EXCEPT ![r] = {}]
    /\ Goto(r, "idle")
    /\ UNCHANGED <<marker, inbound, working, job, stale, overdue>>
-----------------------------------------------------------------------------
(* enqueueJobIfNotRunning *)

\* logOverlap, and on to the next job.
Skip(r) ==
    /\ Goto(r, "next")
    /\ job' = [job EXCEPT ![r] = NoJob]

LookUp(r, j) ==
    /\ pc[r] = "next"
    /\ j \in todo[r]
    /\ todo' = [todo EXCEPT ![r] = @ \ {j}]
    /\ IF marker[NameOf[j]] = "fresh"
       THEN Skip(r)
       ELSE /\ Goto(r, IF marker[NameOf[j]] = "stale" THEN "drop" ELSE "claim")
            /\ job' = [job EXCEPT ![r] = j]
    /\ UNCHANGED <<marker, inbound, working, stale, overdue>>

DropStale(r) ==
    /\ pc[r] = "drop"
    /\ marker' = [marker EXCEPT ![NameOf[job[r]]] = "none"]
    /\ Goto(r, "claim")
    /\ UNCHANGED <<inbound, working, todo, job, stale, overdue>>

\* Mutated form: the marker is stored, whoever stored one before.
ClaimAnyway(r) ==
    /\ pc[r] = "claim"
    /\ marker' = [marker EXCEPT ![NameOf[job[r]]] = "fresh"]
    /\ Goto(r, "send")
    /\ UNCHANGED <<inbound, working, todo, job, stale, overdue>>

\* LoadOrStore
Claim(r) ==
    /\ pc[r] = "claim"
    /\ IF marker[NameOf[job[r]]] # "none"
       THEN Skip(r) /\ UNCHANGED marker
       ELSE /\ marker' = [marker EXCEPT ![NameOf[job[r]]] = "fresh"]
            /\ Goto(r, "send")
            /\ UNCHANGED job
    /\ UNCHANGED <<inbound, working, todo, stale, overdue>>

\* enqueueJob: the channel takes the message ...
Send(r) ==
    /\ pc[r] = "send"
    /\ Len(inbound) < Capacity
    /\ inbound' = Append(inbound, job[r])
    /\ Goto(r, "sent")
    /\ UNCHANGED <<marker, working, todo, job, stale, overdue>>

\* ... or the dispatch fails or the context ends first.  The marker stays;
\* RunTick returns the error and RunStartupJobs goes on.
SendFails(r) ==
    /\ pc[r] = "send"
    /\ todo' = [todo EXCEPT ![r] = IF r \in Ticker THEN {} ELSE @]
    /\ Goto(r, IF r \in Ticker THEN "idle" ELSE "next")
    /\ job' = [job EXCEPT ![r] = NoJob]
    /\ UNCHANGED <<marker, inbound, working, stale, overdue>>

\* err == nil: the marker is deleted.
Sent(r) ==
    /\ pc[r] = "sent"
    /\ marker' = [marker EXCEPT ![NameOf[job[r]]] = "none"]
    /\ Goto(r, "next")
    /\ job' = [job EXCEPT ![r] = NoJob]
    /\ UNCHANGED <<inbound, working, todo, stale, overdue>>
-----------------------------------------------------------------------------
(* The consumers of the inbound channel are not part of the scheduler.     *)

Consume(c) ==
    /\ working[c] = NoJob
    /\ inbound # <<>>
    /\ working' = [working EXCEPT ![c] = Head(inbound)]
    /\ inbound' = Tail(inbound)
    /\ UNCHANGED <<marker, pc, todo, job, stale, overdue>>

\* The job ends, and MarkJobCompleted, if it is called, deletes the marker of
\* its name; it returns at once for a blank name.
Complete(c) ==
    /\ working[c] # NoJob
    /\ working' = [working EXCEPT ![c] = NoJob]
    /\ marker' = IF Completing /\ NameOf[working[c]] # Unnamed
               THEN [marker EXCEPT ![NameOf[working[c]]] = "none"]
               ELSE marker
    /\ UNCHANGED <<inbound, pc, todo, job, stale, overdue>>

RunJobs(r) ==
    \/ Cleanup(r) \/ Finish(r)
    \/ \E j \in Job : LookUp(r, j)
    \/ DropStale(r) \/ Claim(r) \/ Send(r) \/ SendFails(r) \/ Sent(r)

Next ==
    \/ \E n \in Name : Age(n)
    \/ \E r \in Ticker, due \in SUBSET Job : StartTick(r, due)
    \/ \E r \in Starter, due \in SUBSET Job : StartBoot(r, due)
    \/ \E r \in Runner : RunJobs(r)
    \/ \E c \in Consumer : Consume(c) \/ Complete(c)

Spec == Init /\ [][Next]_vars

\* Ticks keep coming, a runner inside one runs on, consumers take the next
\* message and finish it, and the hours of a marker pass.
Fairness ==
    /\ \A n \in Name : WF_vars(Age(n))
    /\ \A r \in Ticker : WF_vars(\E due \in SUBSET Job : StartTick(r, due))
    /\ \A r \in Runner : WF_vars(RunJobs(r))
    /\ \A c \in Consumer : WF_vars(Consume(c)) /\ WF_vars(Complete(c))

FairSpec == Spec /\ Fairness
-----------------------------------------------------------------------------
TypeOK ==
    /\ marker \in [Name -> {"none", "fresh", "stale"}]
    /\ inbound \in Seq(Job) /\ Len(inbound) <= Capacity
    /\ working \in [Consumer -> Job \cup {NoJob}]
    /\ pc \in [Runner -> {"boot", "idle", "cleanup", "next", "drop", "claim", "send", "sent"}]
    /\ todo \in [Runner -> SUBSET Job]
    /\ job \in [Runner -> Job \cup {NoJob}]
    /\ stale \in [Runner -> SUBSET Name]
    /\ overdue \subseteq Name

\* Two runners never dispatch the same job at once, as long as no marker of it
\* has outlived maxRunningDuration: the deletion of an old marker may hit the
\* one another runner has just set (enqueueJobIfNotRunning).
ExclusiveDispatch ==
    \A n \in Name \ overdue : \A r, q \in Sending(n) : r = q

\* No marker blocks its job for ever: one that was left by a failed dispatch
\* is dropped when it is too old.
MarkersClear == \A n \in Name : marker[n] # "none" ~> marker[n] = "none"
=============================================================================
