----------------------------- MODULE AgentTurn -----------------------------
(***************************************************************************)
(* openclaw/agent/agent_runtime.go and runtime.go: the turns of one        *)
(* session, RunTurn ("plain") and RunStreaming ("stream"), with the        *)
(* history, the checkpoint after each batch of tools, and the file the     *)
(* session is saved in.  Turns of a session follow one another.  The       *)
(* process may die at any step and start again from the file.              *)
(*                                                                         *)
(* What the model, the tools, the budgets and the file answer is any of    *)
(* the answers the code tells apart.                                       *)
(***************************************************************************)
EXTENDS Naturals, Sequences, SequencesExt, FiniteSets

CONSTANTS
    MaxIterations,      \* a.maxIterations
    MaxHistory,         \* a.maxHistoryTurns
    CompactThreshold,   \* a.compactionThreshold
    KeepRecent,         \* a.compactionKeepRecent
    EnableCompaction,   \* a.enableCompaction
    MaxRetries,         \* maxRetries of PersistToolBatchCheckpoint
    MaxTurns            \* bound: turns begun, and so the batches run

ASSUME LimitsAssumption ==
    /\ MaxIterations \in Nat \ {0} /\ MaxHistory \in Nat \ {0}
    /\ MaxRetries \in Nat \ {0} /\ MaxTurns \in Nat
    /\ CompactThreshold \in Nat /\ KeepRecent \in Nat \ {0}
    /\ EnableCompaction \in BOOLEAN

VARIABLES
    history,     \* session.History: the kind of each entry, with the batch it tells of
    checkpoint,  \* session.ExecutionCheckpoint
    file,        \* the session as it was last saved
    pc,          \* where the turn is; "idle" between turns, "dead" after a crash,
                 \* "panicked" after one that the turn itself caused
    kind,        \* "plain" or "stream"
    iteration,
    attempt,     \* attempts to save made for the present batch
    saveFailed,  \* the last of them failed
    ctxDone,     \* the context of the turn has ended
    turns,       \* turns begun
    batches,     \* batches of tools run so far
    unsaved,     \* history: batches of this turn that no save has recorded
    abandoned    \* history: the batch whose save a context cut short

turnVars == <<kind, iteration, attempt, saveFailed, ctxDone, unsaved>>

vars == <<history, checkpoint, file, pc, turnVars, turns, batches, abandoned>>

MaxBatches == MaxTurns * MaxIterations

Entry == [kind : {"user", "final", "goal", "summary"}, batch : {0}]
           \cup [kind : {"tools"}, batch : 1..MaxBatches]

Checkpoint == [state : {"none", "ready", "completed", "failed"}, persisted : BOOLEAN,
               count : 0..MaxHistory, batch : 0..MaxBatches]

NoCheckpoint == [state |-> "none", persisted |-> FALSE, count |-> 0, batch |-> 0]

Said(k) == [kind |-> k, batch |-> 0]

Init ==
    /\ history = <<>>
    /\ checkpoint = NoCheckpoint
    /\ file = [history |-> <<>>, checkpoint |-> NoCheckpoint]
    /\ pc = "idle"
    /\ kind = "plain" /\ iteration = 0 /\ attempt = 0 /\ saveFailed = FALSE
    /\ ctxDone = FALSE /\ unsaved = 0
    /\ turns = 0 /\ batches = 0 /\ abandoned = 0

\* TrimHistory drops the oldest entries.
TrimHistory(h) ==
    IF Len(h) <= MaxHistory THEN h ELSE SubSeq(h, Len(h) - MaxHistory + 1, Len(h))

\* Mutated form: the last entry is not looked at.
ResumableByCount(h, c) ==
    /\ c.state = "ready" /\ c.persisted
    /\ Len(h) = c.count

\* ManagerTryGetResumableCheckpoint.
Resumable(h, c) ==
    /\ c.state = "ready" /\ c.persisted
    /\ Len(h) = c.count
    /\ h # <<>> => Last(h).kind = "tools"

\* ManagerMarkCheckpointCompleted.
Mark(c, s) == IF c.state = "ready" THEN [c EXCEPT !.state = s] ELSE c

\* CompactHistory: an attempt at a summary of all but the recent entries, or
\* the entries cut to the limit when there is too little to summarise, when
\* the model fails and when it has nothing to say.
Compacted(h) ==
    LET keep == IF KeepRecent < Len(h) - 2 THEN KeepRecent ELSE Len(h) - 2 IN
    IF EnableCompaction /\ Len(h) > CompactThreshold /\ Len(h) - keep >= 4
    THEN {TrimHistory(h), <<Said("summary")>> \o SubSeq(h, Len(h) - keep + 1, Len(h))}
    ELSE {TrimHistory(h)}
-----------------------------------------------------------------------------
\* The turn is over, and its local variables with it.
Leave(where) ==
    /\ pc' = where
    /\ kind' = "plain" /\ iteration' = 0 /\ attempt' = 0 /\ saveFailed' = FALSE
    /\ ctxDone' = FALSE /\ unsaved' = 0

End ==
    /\ Leave("idle")
    /\ UNCHANGED <<file, turns, batches, abandoned>>

\* A turn begins.  A session that stopped after a batch of tools is resumed
\* from there and the message is only a note of this turn; otherwise the
\* message is recorded and the history shortened.
BeginTurn(k) ==
    /\ pc = "idle"
    /\ turns < MaxTurns
    /\ turns' = turns + 1
    /\ kind' = k
    /\ IF Resumable(history, checkpoint)
       THEN UNCHANGED history
       ELSE history' \in Compacted(Append(history, Said("user")))
    /\ pc' = "top"
    /\ UNCHANGED <<checkpoint, file, iteration, attempt, saveFailed, ctxDone, unsaved, batches,
                   abandoned>>

\* The context ends while the history is compacted or memories are recalled:
\* the message stays in the history, which was not shortened in the first case.
BeginCut ==
    /\ pc = "idle"
    /\ turns < MaxTurns
    /\ turns' = turns + 1
    /\ ~Resumable(history, checkpoint)
    /\ \/ history' \in Compacted(Append(history, Said("user")))
       \/ /\ Cardinality(Compacted(Append(history, Said("user")))) > 1
          /\ history' = Append(history, Said("user"))
    /\ UNCHANGED <<checkpoint, file, pc, turnVars, batches, abandoned>>

ContextEnds ==
    /\ pc \in {"top", "save"}
    /\ ~ctxDone
    /\ ctxDone' = TRUE
    /\ UNCHANGED <<history, checkpoint, file, pc, kind, iteration, attempt, saveFailed, turns,
                   batches, unsaved, abandoned>>

\* The top of the loop, while iterations are left: the context has ended, or a
\* budget is used up (here or, after the model has answered, once more), or the
\* model fails for good.  The history keeps what it has.
StopAtTop ==
    /\ pc = "top"
    /\ iteration < MaxIterations
    /\ End
    /\ UNCHANGED <<history, checkpoint>>

\* The call to the model ends with the error of a context, the turn's own or
\* that of its timeout.  RunTurn returns it; RunStreaming reads the error from
\* a result that is nil.
ModelCut ==
    /\ pc = "top"
    /\ iteration < MaxIterations
    /\ Leave(IF kind = "plain" THEN "idle" ELSE "panicked")
    /\ UNCHANGED <<history, checkpoint, file, turns, batches, abandoned>>

\* The model answers without tools and no goal wants more.
FinalAnswer ==
    /\ pc = "top"
    /\ iteration < MaxIterations
    /\ history' = Append(history, Said("final"))
    /\ checkpoint' = Mark(checkpoint, "completed")
    /\ End

\* A goal sends the loop round once more.
GoalContinues ==
    /\ pc = "top"
    /\ iteration < MaxIterations
    /\ history' = Append(history, Said("goal"))
    /\ iteration' = iteration + 1
    /\ UNCHANGED <<checkpoint, file, pc, kind, attempt, saveFailed, ctxDone, turns, batches,
                   unsaved, abandoned>>

\* The model asks for tools and all of them give a result, be it a refusal:
\* the batch is recorded, the history shortened and a checkpoint made of it.
ToolsDone ==
    /\ pc = "top"
    /\ iteration < MaxIterations
    /\ batches' = batches + 1
    /\ unsaved' = unsaved + 1
    /\ history' = TrimHistory(Append(history, [kind |-> "tools", batch |-> batches']))
    /\ checkpoint' = [state |-> "ready", persisted |-> TRUE, count |-> Len(history'),
                      batch |-> batches']
    /\ attempt' = 1
    /\ saveFailed' = FALSE
    /\ pc' = "save"
    /\ UNCHANGED <<file, kind, iteration, ctxDone, turns, abandoned>>

\* One of the tools ends with an error instead (its context, or a service it
\* is authorised by).  RunTurn and a parallel batch of RunStreaming return;
\* elsewhere RunStreaming uses the missing result.
ToolsFailed ==
    /\ pc = "top"
    /\ iteration < MaxIterations
    /\ batches' = batches + 1
    /\ \/ Leave("idle")
       \/ kind = "stream" /\ Leave("panicked")
    /\ UNCHANGED <<history, checkpoint, file, turns, abandoned>>
-----------------------------------------------------------------------------
\* The batch is dealt with and the loop goes round.
NextRound ==
    /\ pc' = "top"
    /\ iteration' = iteration + 1
    /\ attempt' = 0 /\ saveFailed' = FALSE
    /\ UNCHANGED <<kind, ctxDone, unsaved>>

\* PersistToolBatchCheckpoint saves the session MaxRetries times, whether it
\* succeeds or not; each attempt marks the checkpoint as persisted first.
SaveSucceeds ==
    /\ pc = "save"
    /\ attempt <= MaxRetries
    /\ checkpoint' = [checkpoint EXCEPT !.persisted = TRUE]
    /\ file' = [history |-> history, checkpoint |-> checkpoint']
    /\ attempt' = attempt + 1
    /\ saveFailed' = FALSE
    /\ unsaved' = 0
    /\ UNCHANGED <<history, pc, kind, iteration, ctxDone, turns, batches, abandoned>>

\* Mutated form: a failed attempt leaves the mark.
SaveFailsMarked ==
    /\ pc = "save"
    /\ attempt <= MaxRetries
    /\ attempt' = attempt + 1
    /\ saveFailed' = TRUE
    /\ UNCHANGED <<history, checkpoint, file, pc, kind, iteration, ctxDone, turns, batches,
                   unsaved, abandoned>>

\* Mutated form: the last failure starts the attempts over.
SaveFailsStartsOver ==
    /\ pc = "save"
    /\ attempt <= MaxRetries
    /\ checkpoint' = [checkpoint EXCEPT !.persisted = FALSE]
    /\ attempt' = IF attempt = MaxRetries THEN 1 ELSE attempt + 1
    /\ saveFailed' = TRUE
    /\ UNCHANGED <<history, file, pc, kind, iteration, ctxDone, unsaved, turns, batches,
                   abandoned>>

\* recordRetry and recordFinalFailure take the mark back.  The end of the
\* context during the wait is ignored.
SaveFails ==
    /\ pc = "save"
    /\ attempt <= MaxRetries
    /\ checkpoint' = [checkpoint EXCEPT !.persisted = FALSE]
    /\ attempt' = attempt + 1
    /\ saveFailed' = TRUE
    /\ UNCHANGED <<history, file, pc, kind, iteration, ctxDone, turns, batches, unsaved,
                   abandoned>>

\* The save ends with the error of the context: the mark stays.  RunTurn
\* returns; RunStreaming ignores every error of the save.
SaveCut ==
    /\ pc = "save"
    /\ attempt <= MaxRetries
    /\ ctxDone
    /\ checkpoint' = [checkpoint EXCEPT !.persisted = TRUE]
    /\ abandoned' = checkpoint.batch
    /\ IF kind = "plain" THEN Leave("idle") ELSE NextRound
    /\ UNCHANGED <<history, file, turns, batches>>

\* Mutated form: RunTurn goes on after a failure too.
SaveDoneGoesOn ==
    /\ pc = "save"
    /\ attempt > MaxRetries
    /\ NextRound
    /\ UNCHANGED <<history, checkpoint, file, turns, batches, abandoned>>

\* The last attempt decides.
SaveDone ==
    /\ pc = "save"
    /\ attempt > MaxRetries
    /\ IF kind = "plain" /\ saveFailed THEN Leave("idle") ELSE NextRound
    /\ UNCHANGED <<history, checkpoint, file, turns, batches, abandoned>>

\* The iterations are used up.  RunTurn closes the checkpoint, RunStreaming
\* just ends.
LimitReached ==
    /\ pc = "top"
    /\ iteration = MaxIterations
    /\ checkpoint' = IF kind = "plain" THEN Mark(checkpoint, "failed") ELSE checkpoint
    /\ End
    /\ UNCHANGED history
-----------------------------------------------------------------------------
\* Between turns the session manager may save the session, or drop it and load
\* it again.
Persist ==
    /\ pc = "idle"
    /\ file' = [history |-> history, checkpoint |-> checkpoint]
    /\ UNCHANGED <<history, checkpoint, pc, turnVars, turns, batches, abandoned>>

Crash ==
    /\ pc \notin {"dead", "panicked"}
    /\ Leave("dead")
    /\ UNCHANGED <<history, checkpoint, file, turns, batches, abandoned>>

Restart ==
    /\ pc \in {"dead", "panicked"}
    /\ pc' = "idle"
    /\ history' = file.history
    /\ checkpoint' = file.checkpoint
    /\ UNCHANGED <<file, turnVars, turns, batches, abandoned>>

Turn ==
    \/ StopAtTop \/ ModelCut \/ FinalAnswer \/ GoalContinues \/ ToolsDone \/ ToolsFailed
    \/ SaveSucceeds \/ SaveFails \/ SaveCut \/ SaveDone
    \/ LimitReached

Next ==
    \/ \E k \in {"plain", "stream"} : BeginTurn(k)
    \/ BeginCut
    \/ ContextEnds
    \/ Turn
    \/ Persist
    \/ Crash
    \/ Restart

Spec == Init /\ [][Next]_vars

\* The model and the tools answer or time out, and the loop goes on.
Fairness == WF_vars(Turn)

FairSpec == Spec /\ Fairness
-----------------------------------------------------------------------------
TypeOK ==
    /\ history \in Seq(Entry)
    /\ checkpoint \in Checkpoint
    /\ file \in [history : Seq(Entry), checkpoint : Checkpoint]
    /\ pc \in {"idle", "top", "save", "dead", "panicked"}
    /\ kind \in {"plain", "stream"}
    /\ iteration \in 0..MaxIterations
    /\ attempt \in 0..MaxRetries + 1
    /\ saveFailed \in BOOLEAN /\ ctxDone \in BOOLEAN
    /\ turns \in 0..MaxTurns
    /\ batches \in 0..MaxBatches
    /\ unsaved \in 0..MaxIterations
    /\ abandoned \in 0..MaxBatches

\* A session is resumed only from the batch its checkpoint was made of, in
\* memory and from the file, although the history is trimmed, compacted and
\* continued by other turns in between: the instruction to the model says that
\* the results of that batch are the last thing in the conversation
\* (ManagerTryGetResumableCheckpoint, ManagerBuildCheckpointResumeInstruction).
ResumesLastBatch ==
    \A s \in {[history |-> history, checkpoint |-> checkpoint], file} :
        Resumable(s.history, s.checkpoint) =>
            s.history # <<>> /\ Last(s.history).batch = s.checkpoint.batch

\* A crash of the process repeats at most one batch of tools of a plain turn:
\* RunTurn does not run the next batch while the last one is not in the file.
OneBatchAtRisk == kind = "plain" => unsaved <= 1

\* A checkpoint that says it was persisted is in the file, or a later one is,
\* unless a context cut its save short (PersistedAtUtc,
\* PersistToolBatchCheckpoint).
PersistedMeansSaved ==
    pc \in {"idle", "top"} /\ checkpoint.persisted =>
        file.checkpoint.batch >= checkpoint.batch \/ abandoned = checkpoint.batch

\* Every turn ends: goals, tools and failing saves all use up the iterations.
TurnsEnd == pc \in {"top", "save"} ~> pc \notin {"top", "save"}

\* A failure of the model or of a tool is an event of the stream
\* ("provider_failure", "tool_execution_failure"), not the end of the process.
FailuresReported == pc # "panicked"
=============================================================================
