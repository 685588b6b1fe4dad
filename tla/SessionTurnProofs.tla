------------------------- MODULE SessionTurnProofs -------------------------
(* Proofs about the turns of a session and what ends and begins them:      *)
(* AgentTurn for any limits and any number of turns, AbortRegistry for any *)
(* number of turns and aborters, and LoopScheduler for any number of loops *)
(* and occurrences.                                                        *)
EXTENDS AgentTurn, AbortRegistry, LoopScheduler, TLAPS

-----------------------------------------------------------------------------
(* AbortRegistry *)

(* The registered turn is running or has ended; a cancel function that was *)
(* read is that of such a turn too, and never that of an undisturbed       *)
(* running turn; an undisturbed turn that runs is the only one, and it is  *)
(* the one registered.                                                     *)
Registry ==
    /\ registered # NoTurn => stage[registered] \in {"running", "ended"}
    /\ \A t \in AbortTurn : stage[t] = "made" => t \in live
    /\ \A t \in Running : t \notin disturbed => t = registered /\ Running = {t}
    /\ \A u \in AbortUser : taken[u] \in Running => taken[u] \in disturbed
    /\ \A u \in AbortUser : taken[u] # NoTurn => stage[taken[u]] \in {"running", "ended"}

AbortIInv == AbortTypeOK /\ Registry /\ AbortReaches /\ UndisturbedRuns

LEMMA AbortInitInv == AbortInit => AbortIInv
BY AbortAssumption
DEF AbortInit, AbortIInv, AbortTypeOK, Registry, AbortReaches, UndisturbedRuns, Running

LEMMA AbortNextInv == AbortIInv /\ [AbortNext]_abortVars => AbortIInv'
<1>. SUFFICES ASSUME AbortIInv, [AbortNext]_abortVars
              PROVE  AbortIInv'
  OBVIOUS
<1>. USE AbortAssumption DEF AbortIInv, Running, AbortUser
<1>1. ASSUME NEW t \in AbortTurn, MakeContext(t)
      PROVE  AbortIInv'
  <2>1. AbortTypeOK'
    BY <1>1 DEF MakeContext, AbortTypeOK
  <2>2. \A s \in AbortTurn : s # t => stage'[s] = stage[s]
    BY <1>1 DEF MakeContext, AbortTypeOK
  <2>3. stage'[t] = "made"
    BY <1>1 DEF MakeContext, AbortTypeOK
  <2>4. Running' = Running
    BY <1>1, <2>2, <2>3 DEF MakeContext
  <2>5. Registry'
    BY <1>1, <2>1, <2>2, <2>3, <2>4 DEF MakeContext, Registry, AbortTypeOK
  <2>6. AbortReaches' /\ UndisturbedRuns'
    BY <1>1, <2>2, <2>3, <2>4 DEF MakeContext, AbortReaches, UndisturbedRuns, AbortTypeOK
  <2>. QED BY <2>1, <2>5, <2>6
<1>2. ASSUME NEW t \in AbortTurn, RegisterTurn(t)
      PROVE  AbortIInv'
  <2>1. AbortTypeOK'
    BY <1>2 DEF RegisterTurn, AbortTypeOK
  <2>2. \A s \in AbortTurn : s # t => stage'[s] = stage[s]
    BY <1>2 DEF RegisterTurn, AbortTypeOK
  <2>3. stage'[t] = "running" /\ registered' = t /\ t # NoTurn
    BY <1>2 DEF RegisterTurn, AbortTypeOK
  <2>4. Running' = Running \cup {t} /\ t \notin Running
    BY <1>2, <2>2, <2>3 DEF RegisterTurn
  <2>5. t # registered /\ t \in live
    BY <1>2 DEF RegisterTurn, Registry
  <2>6. Registry'
    BY <1>2, <2>1, <2>2, <2>3, <2>4, <2>5 DEF RegisterTurn, Registry, AbortTypeOK
  <2>7. AbortReaches'
    BY <1>2, <2>2, <2>3, <2>5 DEF RegisterTurn, AbortReaches, AbortTypeOK
  <2>8. UndisturbedRuns'
    BY <1>2, <2>3, <2>4, <2>5 DEF RegisterTurn, UndisturbedRuns, AbortTypeOK
  <2>. QED BY <2>1, <2>6, <2>7, <2>8
<1>3. ASSUME NEW t \in AbortTurn, Unregister(t)
      PROVE  AbortIInv'
  <2>1. AbortTypeOK'
    BY <1>3 DEF Unregister, AbortTypeOK
  <2>2. \A s \in AbortTurn : s # t => stage'[s] = stage[s]
    BY <1>3 DEF Unregister, AbortTypeOK
  <2>3. stage'[t] = "ended" /\ registered' = NoTurn /\ taken'[t] = registered
    BY <1>3 DEF Unregister, AbortTypeOK
  <2>4. \A u \in AbortUser : u # t => taken'[u] = taken[u]
    BY <1>3 DEF Unregister, AbortTypeOK
  <2>5. Running' = Running \ {t} /\ t \in Running
    BY <1>3, <2>2, <2>3 DEF Unregister
  <2>6. Registry'
    <3>1. \A s \in Running' : s \in disturbed
      BY <1>3, <2>5 DEF Registry
    <3>. QED BY <1>3, <2>1, <2>2, <2>3, <2>4, <2>5, <3>1
             DEF Unregister, Registry, AbortTypeOK
  <2>7. AbortReaches'
    BY <1>3, <2>2, <2>3, <2>4 DEF Unregister, AbortReaches, AbortTypeOK
  <2>8. UndisturbedRuns'
    BY <1>3, <2>5 DEF Unregister, UndisturbedRuns
  <2>. QED BY <2>1, <2>6, <2>7, <2>8
<1>4. ASSUME NEW a \in Aborter, TryAbort(a)
      PROVE  AbortIInv'
  <2>1. AbortTypeOK'
    BY <1>4 DEF TryAbort, AbortTypeOK
  <2>2. taken'[a] = registered /\ \A u \in AbortUser : u # a => taken'[u] = taken[u]
    BY <1>4 DEF TryAbort, AbortTypeOK
  <2>3. Registry'
    BY <1>4, <2>1, <2>2 DEF TryAbort, Registry, AbortTypeOK
  <2>4. AbortReaches' /\ UndisturbedRuns'
    BY <1>4, <2>2 DEF TryAbort, AbortReaches, UndisturbedRuns
  <2>. QED BY <2>1, <2>3, <2>4
<1>5. ASSUME NEW u \in AbortUser, CancelTaken(u)
      PROVE  AbortIInv'
  <2>1. AbortTypeOK'
    BY <1>5 DEF CancelTaken, AbortTypeOK
  <2>2. taken'[u] = NoTurn /\ \A v \in AbortUser : v # u => taken'[v] = taken[v]
    BY <1>5 DEF CancelTaken, AbortTypeOK
  <2>3. stage[taken[u]] \in {"running", "ended"}
    BY <1>5 DEF CancelTaken, Registry
  <2>4. Registry'
    BY <1>5, <2>1, <2>2, <2>3 DEF CancelTaken, Registry, AbortTypeOK
  <2>5. AbortReaches'
    BY <1>5, <2>2 DEF CancelTaken, AbortReaches
  <2>6. UndisturbedRuns'
    BY <1>5 DEF CancelTaken, UndisturbedRuns, Registry
  <2>. QED BY <2>1, <2>4, <2>5, <2>6
<1>6. CASE UNCHANGED abortVars
  BY <1>6 DEF abortVars, AbortTypeOK, Registry, AbortReaches, UndisturbedRuns
<1>. QED BY <1>1, <1>2, <1>3, <1>4, <1>5, <1>6 DEF AbortNext

LEMMA AbortInductive == AbortSpec => []AbortIInv
BY AbortInitInv, AbortNextInv, PTL DEF AbortSpec

(* Whoever is at work under a live context can still be stopped.           *)
THEOREM AbortReachesHolds == AbortSpec => []AbortReaches
<1>1. AbortIInv => AbortReaches
  BY DEF AbortIInv
<1>. QED BY <1>1, AbortInductive, PTL

(* A turn that nobody aborted and that met no other keeps its context,     *)
(* whatever cancel functions are still on their way (SessionAbortRegistry).*)
THEOREM UndisturbedRunsHolds == AbortSpec => []UndisturbedRuns
<1>1. AbortIInv => UndisturbedRuns
  BY DEF AbortIInv
<1>. QED BY <1>1, AbortInductive, PTL
-----------------------------------------------------------------------------
(* LoopScheduler *)

LoopTypes ==
    /\ scheduled \subseteq Loop /\ entry \subseteq scheduled /\ due \subseteq Loop
    /\ toVisit \subseteq Loop /\ collected \subseteq Loop
    /\ occurred \in [Loop -> Nat] /\ sent \in [Loop -> Nat] /\ late \in [Loop -> Nat]

(* An occurrence is waiting, collected or sent, one of the three; an entry *)
(* that has left the map is not collected any more, so that what was       *)
(* collected before is all that can come late.                             *)
OccurrenceInOnePlace ==
    \A l \in Loop :
        /\ sent[l] + (IF l \in collected THEN 1 ELSE 0) + (IF l \in due THEN 1 ELSE 0) <= occurred[l]
        /\ late[l] + (IF l \in collected THEN 1 ELSE 0) <= 1
        /\ l \in entry \/ l \notin scheduled => late[l] = 0
        /\ l \in collected => l \in scheduled

LoopIInv == LoopTypes /\ OccurrenceInOnePlace

LEMMA LoopInitInv == LoopInit => LoopIInv
BY DEF LoopInit, LoopIInv, LoopTypes, OccurrenceInOnePlace

LEMMA LoopNextInv == LoopIInv /\ [LoopNext]_loopVars => LoopIInv'
<1>. SUFFICES ASSUME LoopIInv, [LoopNext]_loopVars
              PROVE  LoopIInv'
  OBVIOUS
<1>. USE DEF LoopIInv
<1>1. ASSUME NEW l \in Loop, ScheduleLoop(l) \/ CancelLoop(l)
      PROVE  LoopIInv'
  BY <1>1 DEF ScheduleLoop, CancelLoop, LoopTypes, OccurrenceInOnePlace
<1>2. ASSUME NEW l \in Loop, Occur(l)
      PROVE  LoopIInv'
  <2>1. LoopTypes'
    BY <1>2 DEF Occur, LoopTypes
  <2>2. OccurrenceInOnePlace'
    BY <1>2 DEF Occur, LoopTypes, OccurrenceInOnePlace
  <2>. QED BY <2>1, <2>2
<1>3. ASSUME NEW l \in Loop, IsDue(l)
      PROVE  LoopIInv'
  <2>1. LoopTypes'
    BY <1>3 DEF IsDue, LoopTypes
  <2>2. OccurrenceInOnePlace'
    BY <1>3 DEF IsDue, LoopTypes, OccurrenceInOnePlace
  <2>. QED BY <2>1, <2>2
<1>4. ASSUME NEW l \in Loop, NEW accepted \in BOOLEAN, Enqueue(l, accepted)
      PROVE  LoopIInv'
  <2>1. LoopTypes'
    BY <1>4 DEF Enqueue, LoopTypes
  <2>2. OccurrenceInOnePlace'
    BY <1>4 DEF Enqueue, LoopTypes, OccurrenceInOnePlace
  <2>. QED BY <2>1, <2>2
<1>5. CASE BeginExecute \/ BeginSending \/ EndExecute
  BY <1>5 DEF BeginExecute, BeginSending, EndExecute, LoopTypes, OccurrenceInOnePlace
<1>6. CASE UNCHANGED loopVars
  BY <1>6 DEF loopVars, LoopTypes, OccurrenceInOnePlace
<1>. QED BY <1>1, <1>2, <1>3, <1>4, <1>5, <1>6 DEF LoopNext

(* No occurrence of a loop is sent twice, and one at most after the loop   *)
(* was cancelled or replaced (IsDue, Execute).                             *)
THEOREM LoopSentOnceHolds == LoopSpec => []LoopSentOnce
<1>1. LoopIInv => LoopSentOnce
  BY DEF LoopIInv, LoopTypes, OccurrenceInOnePlace, LoopSentOnce
<1>. QED BY <1>1, LoopInitInv, LoopNextInv, PTL DEF LoopSpec
-----------------------------------------------------------------------------
(* AgentTurn *)

Record == [kind : {"user", "final", "goal", "summary", "tools"}, batch : Nat]

CheckpointRecord == [state : {"none", "ready", "completed", "failed"}, persisted : BOOLEAN, count : Nat, batch : Nat]

TurnTypes ==
    /\ history \in Seq(Record) /\ checkpoint \in CheckpointRecord
    /\ file \in [history : Seq(Record), checkpoint : CheckpointRecord]
    /\ pc \in {"idle", "top", "save", "dead", "panicked"}
    /\ kind \in {"plain", "stream"}
    /\ attempt \in Nat /\ saveFailed \in BOOLEAN
    /\ batches \in Nat /\ unsaved \in Nat

(* Outside a turn nothing is unsaved; a plain turn is at the top of its    *)
(* loop with everything saved; between the attempts to save, the last one  *)
(* tells whether the batch is in the file.                                 *)
SavedSoFar ==
    /\ pc \in {"idle", "dead", "panicked"} => unsaved = 0
    /\ kind = "plain" /\ pc = "top" => unsaved = 0
    /\ kind = "plain" => unsaved <= 1
    /\ pc = "save" => attempt >= 1
    /\ pc = "save" /\ attempt > 1 /\ ~saveFailed => unsaved = 0

(* Between the attempts to save, a checkpoint marked as persisted is in    *)
(* the file.                                                               *)
MarkedMeansSaved ==
    pc = "save" /\ attempt > 1 /\ checkpoint.persisted => file.checkpoint.batch >= checkpoint.batch

(* The history of a checkpoint that is ready ends with its batch, or with  *)
(* something that is no batch.                                             *)
Fits(h, c) ==
    c.state = "ready" => h # <<>> /\ (Last(h).kind = "tools" => Last(h).batch = c.batch)

TurnIInv ==
    /\ TurnTypes /\ SavedSoFar /\ MarkedMeansSaved /\ PersistedMeansSaved
    /\ Fits(history, checkpoint) /\ Fits(file.history, file.checkpoint)

-----------------------------------------------------------------------------
LEMMA AppendLast ==
    ASSUME NEW h \in Seq(Record), NEW e \in Record
    PROVE  Append(h, e) \in Seq(Record) /\ Append(h, e) # <<>> /\ Last(Append(h, e)) = e
BY DEF Last

LEMMA TrimLast ==
    ASSUME NEW h \in Seq(Record), h # <<>>
    PROVE  TrimHistory(h) \in Seq(Record) /\ TrimHistory(h) # <<>> /\ Last(TrimHistory(h)) = Last(h)
<1>1. CASE Len(h) <= MaxHistory
  BY <1>1 DEF TrimHistory
<1>2. CASE Len(h) > MaxHistory
  <2>. DEFINE m == Len(h) - MaxHistory + 1
              g == SubSeq(h, m, Len(h))
  <2>1. m \in 1..Len(h) /\ Len(h) \in Nat /\ MaxHistory \in Nat \ {0}
    BY <1>2, LimitsAssumption
  <2>2. TrimHistory(h) = g
    BY <1>2, LimitsAssumption DEF TrimHistory
  <2>3. g \in Seq(Record) /\ Len(g) = MaxHistory /\ g[MaxHistory] = h[Len(h)]
    BY <2>1
  <2>. HIDE DEF g
  <2>4. g # <<>> /\ Len(g) = MaxHistory
    BY <2>1, <2>3
  <2>. QED BY <2>1, <2>2, <2>3, <2>4 DEF Last
<1>. QED BY <1>1, <1>2, LimitsAssumption

LEMMA CompactLast ==
    ASSUME NEW h \in Seq(Record), h # <<>>, NEW g \in Compacted(h)
    PROVE  g \in Seq(Record) /\ g # <<>> /\ Last(g) = Last(h)
<1>. DEFINE keep == IF KeepRecent < Len(h) - 2 THEN KeepRecent ELSE Len(h) - 2
            recent == SubSeq(h, Len(h) - keep + 1, Len(h))
<1>1. CASE g = TrimHistory(h)
  BY <1>1, TrimLast
<1>2. CASE g # TrimHistory(h)
  <2>1. g = <<Said("summary")>> \o recent /\ Len(h) - keep >= 4
    BY <1>2 DEF Compacted
  <2>2. keep = KeepRecent /\ keep \in Nat \ {0} /\ keep < Len(h) /\ Len(h) \in Nat
    BY <2>1, LimitsAssumption
  <2>. HIDE DEF keep
  <2>3. recent \in Seq(Record) /\ Len(recent) = keep /\ recent[keep] = h[Len(h)]
    BY <2>2
  <2>. HIDE DEF recent
  <2>4. Said("summary") \in Record
    BY DEF Said, Record
  <2>5. <<Said("summary")>> \in Seq(Record) /\ Len(<<Said("summary")>>) = 1
    BY <2>4
  <2>6. g \in Seq(Record) /\ Len(g) = 1 + keep /\ g[1 + keep] = recent[keep]
    BY <2>1, <2>2, <2>3, <2>5
  <2>. QED BY <2>2, <2>3, <2>6 DEF Last
<1>. QED BY <1>1, <1>2
LEMMA TurnInitInv == Init => TurnIInv
<1>. SUFFICES ASSUME Init PROVE TurnIInv
  OBVIOUS
<1>. USE DEF Init
<1>1. NoCheckpoint \in CheckpointRecord /\ NoCheckpoint.persisted = FALSE /\ NoCheckpoint.state = "none"
  BY DEF NoCheckpoint, CheckpointRecord
<1>2. TurnTypes
  <2>1. <<>> \in Seq(Record)
    OBVIOUS
  <2>. QED BY <1>1, <2>1 DEF TurnTypes
<1>3. SavedSoFar
  BY DEF SavedSoFar
<1>. QED BY <1>1, <1>2, <1>3 DEF TurnIInv, MarkedMeansSaved, PersistedMeansSaved, Fits

(* What a step may do to the history and the checkpoint in memory: leave   *)
(* the batch, close the checkpoint, or add an entry that is no batch.      *)
LEMMA KeepsFit ==
    ASSUME NEW h \in Seq(Record), NEW c \in CheckpointRecord, Fits(h, c),
           NEW g \in Seq(Record), NEW d \in CheckpointRecord,
           g = h \/ (g # <<>> /\ Last(g).kind # "tools"),
           d.batch = c.batch, d.state = "ready" => c.state = "ready"
    PROVE  Fits(g, d)
BY DEF Fits

LEMMA MarkType ==
    ASSUME NEW c \in CheckpointRecord, NEW s \in {"completed", "failed"}
    PROVE  /\ Mark(c, s) \in CheckpointRecord /\ Mark(c, s).batch = c.batch
           /\ Mark(c, s).persisted = c.persisted /\ (Mark(c, s).state = "ready" => c.state = "ready")
BY DEF Mark, CheckpointRecord

LEMMA TurnNextInv == TurnIInv /\ [Next]_vars => TurnIInv'
<1>. SUFFICES ASSUME TurnIInv, [Next]_vars
              PROVE  TurnIInv'
  OBVIOUS
<1>. USE LimitsAssumption
<1>0. /\ TurnTypes /\ SavedSoFar /\ MarkedMeansSaved /\ PersistedMeansSaved
      /\ Fits(history, checkpoint) /\ Fits(file.history, file.checkpoint)
  BY DEF TurnIInv
<1>a. \A k \in {"user", "final", "goal"} : Said(k) \in Record /\ Said(k).kind # "tools"
  BY DEF Said, Record
\* A message or an answer is added, and the history shortened or not.
<1>b. ASSUME NEW k \in {"user", "final", "goal"}
      PROVE  LET h == Append(history, Said(k)) IN
             \A g \in {h} \cup Compacted(h) : g \in Seq(Record) /\ g # <<>> /\ Last(g).kind # "tools"
  <2>. DEFINE h == Append(history, Said(k))
  <2>1. h \in Seq(Record) /\ h # <<>> /\ Last(h).kind # "tools"
    BY <1>0, <1>a, <1>b, AppendLast DEF TurnTypes
  <2>. HIDE DEF h
  <2>2. \A g \in Compacted(h) : g \in Seq(Record) /\ g # <<>> /\ Last(g) = Last(h)
    BY <2>1, CompactLast
  <2>3. \A g \in {h} \cup Compacted(h) : g \in Seq(Record) /\ g # <<>> /\ Last(g).kind # "tools"
    BY <2>1, <2>2
  <2>. QED BY <2>3 DEF h
<1>1. ASSUME NEW k \in {"plain", "stream"}, BeginTurn(k)
      PROVE  TurnIInv'
  <2>1. history' = history \/ (history' \in Seq(Record) /\ history' # <<>> /\ Last(history').kind # "tools")
    BY <1>1, <1>b DEF BeginTurn
  <2>2. TurnTypes'
    BY <1>0, <1>1, <2>1 DEF BeginTurn, TurnTypes
  <2>3. Fits(history', checkpoint') /\ Fits(file.history', file.checkpoint')
    BY <1>0, <1>1, <2>1, <2>2, KeepsFit DEF BeginTurn, TurnTypes
  <2>4. SavedSoFar' /\ MarkedMeansSaved' /\ PersistedMeansSaved'
    BY <1>0, <1>1 DEF BeginTurn, SavedSoFar, MarkedMeansSaved, PersistedMeansSaved, TurnTypes
  <2>. QED BY <2>2, <2>3, <2>4 DEF TurnIInv
<1>2. CASE BeginCut
  <2>1. history' \in Seq(Record) /\ history' # <<>> /\ Last(history').kind # "tools"
    BY <1>2, <1>b DEF BeginCut
  <2>2. TurnTypes'
    BY <1>0, <1>2, <2>1 DEF BeginCut, turnVars, TurnTypes
  <2>3. Fits(history', checkpoint') /\ Fits(file.history', file.checkpoint')
    BY <1>0, <1>2, <2>1, <2>2, KeepsFit DEF BeginCut, TurnTypes
  <2>4. SavedSoFar' /\ MarkedMeansSaved' /\ PersistedMeansSaved'
    BY <1>0, <1>2 DEF BeginCut, turnVars, SavedSoFar, MarkedMeansSaved, PersistedMeansSaved, TurnTypes
  <2>. QED BY <2>2, <2>3, <2>4 DEF TurnIInv
<1>3. CASE ContextEnds
  BY <1>0, <1>3 DEF ContextEnds, TurnIInv, TurnTypes, SavedSoFar, MarkedMeansSaved, PersistedMeansSaved, Fits
\* A turn ends with what the history and the checkpoint have.
<1>4. ASSUME pc = "top" \/ (pc \notin {"dead", "panicked"} /\ pc' = "dead"),
             pc' \in {"idle", "panicked", "dead"},
             Leave(pc'), UNCHANGED <<history, checkpoint, file, abandoned>>, batches' \in Nat
      PROVE  TurnIInv'
  <2>1. TurnTypes'
    BY <1>0, <1>4 DEF Leave, TurnTypes
  <2>2. SavedSoFar' /\ MarkedMeansSaved'
    BY <1>0, <1>4 DEF Leave, SavedSoFar, MarkedMeansSaved, TurnTypes
  <2>3. PersistedMeansSaved'
    BY <1>0, <1>4 DEF Leave, PersistedMeansSaved
  <2>. QED BY <1>0, <1>4, <2>1, <2>2, <2>3 DEF TurnIInv
<1>5. CASE StopAtTop \/ ModelCut \/ ToolsFailed \/ Crash
  <2>1. Leave(pc')
    <3>1. ASSUME NEW w, Leave(w)
          PROVE  Leave(pc')
      BY <3>1 DEF Leave
    <3>2. CASE StopAtTop \/ Crash
      BY <3>1, <3>2 DEF StopAtTop, Crash, End
    <3>3. CASE ModelCut
      BY <3>1, <3>3 DEF ModelCut
    <3>4. CASE ToolsFailed
      BY <3>1, <3>4 DEF ToolsFailed
    <3>. QED BY <1>5, <3>2, <3>3, <3>4
  <2>2. batches' \in Nat
    BY <1>0, <1>5 DEF StopAtTop, ModelCut, ToolsFailed, Crash, End, TurnTypes
  <2>3. /\ pc = "top" \/ (pc \notin {"dead", "panicked"} /\ pc' = "dead")
        /\ pc' \in {"idle", "panicked", "dead"}
        /\ UNCHANGED <<history, checkpoint, file, abandoned>>
    <3>1. CASE StopAtTop \/ Crash
      BY <3>1 DEF StopAtTop, Crash, End, Leave
    <3>2. CASE ModelCut
      BY <3>2 DEF ModelCut, Leave
    <3>3. CASE ToolsFailed
      BY <3>3 DEF ToolsFailed, Leave
    <3>. QED BY <1>5, <3>1, <3>2, <3>3
  <2>. QED BY <1>4, <2>1, <2>2, <2>3
<1>6. CASE FinalAnswer \/ LimitReached
  <2>1. history' = history \/ (history' \in Seq(Record) /\ history' # <<>> /\ Last(history').kind # "tools")
    BY <1>6, <1>b DEF FinalAnswer, LimitReached
  <2>2. /\ checkpoint' \in CheckpointRecord /\ checkpoint'.batch = checkpoint.batch
        /\ checkpoint'.persisted = checkpoint.persisted
        /\ checkpoint'.state = "ready" => checkpoint.state = "ready"
    BY <1>0, <1>6, MarkType DEF FinalAnswer, LimitReached, TurnTypes
  <2>3. pc = "top" /\ Leave("idle") /\ UNCHANGED <<file, batches, abandoned>>
    BY <1>6 DEF FinalAnswer, LimitReached, End
  <2>4. TurnTypes'
    BY <1>0, <2>1, <2>2, <2>3 DEF Leave, TurnTypes
  <2>5. Fits(history', checkpoint') /\ Fits(file.history', file.checkpoint')
    BY <1>0, <2>1, <2>2, <2>3, <2>4, KeepsFit DEF TurnTypes
  <2>6. SavedSoFar' /\ MarkedMeansSaved' /\ PersistedMeansSaved'
    BY <1>0, <2>2, <2>3 DEF Leave, SavedSoFar, MarkedMeansSaved, PersistedMeansSaved, TurnTypes
  <2>. QED BY <2>4, <2>5, <2>6 DEF TurnIInv
<1>7. CASE GoalContinues
  <2>1. history' \in Seq(Record) /\ history' # <<>> /\ Last(history').kind # "tools"
    BY <1>7, <1>b DEF GoalContinues
  <2>2. TurnTypes'
    BY <1>0, <1>7, <2>1 DEF GoalContinues, TurnTypes
  <2>3. Fits(history', checkpoint') /\ Fits(file.history', file.checkpoint')
    BY <1>0, <1>7, <2>1, <2>2, KeepsFit DEF GoalContinues, TurnTypes
  <2>4. SavedSoFar' /\ MarkedMeansSaved' /\ PersistedMeansSaved'
    BY <1>0, <1>7 DEF GoalContinues, SavedSoFar, MarkedMeansSaved, PersistedMeansSaved, TurnTypes
  <2>. QED BY <2>2, <2>3, <2>4 DEF TurnIInv
<1>8. CASE ToolsDone
  <2>. DEFINE e == [kind |-> "tools", batch |-> batches + 1]
  <2>1. e \in Record
    BY <1>0 DEF TurnTypes, Record
  <2>2. history' = TrimHistory(Append(history, e))
    BY <1>8 DEF ToolsDone
  <2>3. Append(history, e) \in Seq(Record) /\ Append(history, e) # <<>> /\ Last(Append(history, e)) = e
    BY <1>0, <2>1, AppendLast DEF TurnTypes
  <2>4. history' \in Seq(Record) /\ history' # <<>> /\ Last(history') = e
    BY <2>2, <2>3, TrimLast
  <2>5. checkpoint' = [state |-> "ready", persisted |-> TRUE, count |-> Len(history'), batch |-> batches + 1]
    BY <1>8 DEF ToolsDone
  <2>6. checkpoint' \in CheckpointRecord /\ checkpoint'.batch = batches + 1
    BY <1>0, <2>4, <2>5 DEF CheckpointRecord, TurnTypes
  <2>7. TurnTypes'
    <3>1. /\ pc' = "save" /\ attempt' = 1 /\ saveFailed' = FALSE /\ kind' = kind /\ file' = file
          /\ batches' = batches + 1 /\ unsaved' = unsaved + 1
      BY <1>8 DEF ToolsDone
    <3>2. attempt' \in Nat /\ batches' \in Nat /\ unsaved' \in Nat
      BY <1>0, <3>1 DEF TurnTypes
    <3>. QED BY <1>0, <2>4, <2>6, <3>1, <3>2, Zenon DEF TurnTypes
  <2>8. Fits(history', checkpoint')
    BY <2>4, <2>6 DEF Fits
  <2>9. SavedSoFar' /\ MarkedMeansSaved' /\ PersistedMeansSaved'
    BY <1>0, <1>8 DEF ToolsDone, SavedSoFar, MarkedMeansSaved, PersistedMeansSaved, TurnTypes
  <2>10. Fits(file.history', file.checkpoint')
    BY <1>0, <1>8 DEF ToolsDone
  <2>. QED BY <2>7, <2>8, <2>9, <2>10 DEF TurnIInv
\* The mark of the checkpoint changes and nothing else of it.
<1>c. ASSUME NEW b \in BOOLEAN, checkpoint' = [checkpoint EXCEPT !.persisted = b]
      PROVE  /\ checkpoint' \in CheckpointRecord /\ checkpoint'.batch = checkpoint.batch
             /\ checkpoint'.persisted = b /\ checkpoint'.state = checkpoint.state
  BY <1>0, <1>c DEF TurnTypes, CheckpointRecord
<1>9. CASE SaveSucceeds
  <2>1. /\ checkpoint' \in CheckpointRecord /\ checkpoint'.batch = checkpoint.batch /\ checkpoint'.state = checkpoint.state
    BY <1>9, <1>c DEF SaveSucceeds
  <2>2. file'.history = history /\ file'.checkpoint = checkpoint' /\ history' = history
    BY <1>9 DEF SaveSucceeds
  <2>3. TurnTypes'
    <3>1. file' \in [history : Seq(Record), checkpoint : CheckpointRecord]
      BY <1>0, <1>9, <2>1 DEF SaveSucceeds, TurnTypes
    <3>2. /\ pc' = pc /\ attempt' = attempt + 1 /\ saveFailed' = FALSE /\ kind' = kind
          /\ batches' = batches /\ unsaved' = 0
      BY <1>9 DEF SaveSucceeds
    <3>3. attempt' \in Nat /\ unsaved' \in Nat
      BY <1>0, <3>2 DEF TurnTypes
    <3>. QED BY <1>0, <2>1, <2>2, <3>1, <3>2, <3>3, Zenon DEF TurnTypes
  <2>4. Fits(history', checkpoint') /\ Fits(file.history', file.checkpoint')
    BY <1>0, <2>1, <2>2, <2>3, KeepsFit DEF TurnTypes
  <2>5. checkpoint'.batch \in Nat
    BY <2>1 DEF CheckpointRecord
  <2>6. SavedSoFar' /\ MarkedMeansSaved' /\ PersistedMeansSaved'
    <3>1. pc = "save" /\ pc' = "save" /\ attempt' = attempt + 1 /\ unsaved' = 0
      BY <1>9 DEF SaveSucceeds
    <3>2. SavedSoFar'
      BY <1>0, <3>1 DEF SavedSoFar, TurnTypes
    <3>3. MarkedMeansSaved' /\ PersistedMeansSaved'
      BY <2>2, <2>5, <3>1 DEF MarkedMeansSaved, PersistedMeansSaved
    <3>. QED BY <3>2, <3>3
  <2>. QED BY <2>3, <2>4, <2>6 DEF TurnIInv
<1>10. CASE SaveFails
  <2>1. /\ checkpoint' \in CheckpointRecord /\ checkpoint'.batch = checkpoint.batch
        /\ checkpoint'.persisted = FALSE /\ checkpoint'.state = checkpoint.state
    BY <1>10, <1>c DEF SaveFails
  <2>2. TurnTypes'
    BY <1>0, <1>10, <2>1 DEF SaveFails, TurnTypes
  <2>3. Fits(history', checkpoint') /\ Fits(file.history', file.checkpoint')
    BY <1>0, <1>10, <2>1, <2>2, KeepsFit DEF SaveFails, TurnTypes
  <2>4. SavedSoFar' /\ MarkedMeansSaved' /\ PersistedMeansSaved'
    BY <1>0, <1>10, <2>1 DEF SaveFails, SavedSoFar, MarkedMeansSaved, PersistedMeansSaved, TurnTypes
  <2>. QED BY <2>2, <2>3, <2>4 DEF TurnIInv
\* After the attempts to save: the turn is over, or its loop goes round.
<1>d. ASSUME pc = "save", Leave("idle") \/ NextRound,
             NextRound => kind = "stream" \/ unsaved = 0
      PROVE  /\ pc' \in {"idle", "top"} /\ kind' \in {"plain", "stream"}
             /\ attempt' = 0 /\ saveFailed' = FALSE /\ unsaved' \in Nat
             /\ SavedSoFar' /\ MarkedMeansSaved'
  <2>1. CASE Leave("idle")
    BY <2>1 DEF Leave, SavedSoFar, MarkedMeansSaved
  <2>2. CASE NextRound
    BY <1>0, <1>d, <2>2 DEF NextRound, SavedSoFar, MarkedMeansSaved, TurnTypes
  <2>. QED BY <1>d, <2>1, <2>2
<1>11. CASE SaveCut
  <2>0. /\ pc' \in {"idle", "top"} /\ kind' \in {"plain", "stream"}
        /\ attempt' = 0 /\ saveFailed' = FALSE /\ unsaved' \in Nat
        /\ SavedSoFar' /\ MarkedMeansSaved'
    <3>1. pc = "save" /\ (Leave("idle") \/ (NextRound /\ kind = "stream"))
      BY <1>0, <1>11 DEF SaveCut, TurnTypes
    <3>2. CASE Leave("idle")
      <4>1. ~NextRound
        BY <3>2 DEF Leave, NextRound
      <4>. QED BY <1>d, <3>1, <4>1
    <3>3. CASE NextRound /\ kind = "stream"
      BY <1>d, <3>1, <3>3
    <3>. QED BY <3>1, <3>2, <3>3
  <2>1. /\ checkpoint' \in CheckpointRecord /\ checkpoint'.batch = checkpoint.batch /\ checkpoint'.state = checkpoint.state
    BY <1>11, <1>c DEF SaveCut
  <2>2. TurnTypes'
    BY <1>0, <1>11, <2>0, <2>1 DEF SaveCut, TurnTypes
  <2>3. Fits(history', checkpoint') /\ Fits(file.history', file.checkpoint')
    BY <1>0, <1>11, <2>1, <2>2, KeepsFit DEF SaveCut, TurnTypes
  <2>4. PersistedMeansSaved'
    BY <1>11, <2>1 DEF SaveCut, PersistedMeansSaved
  <2>. QED BY <2>0, <2>2, <2>3, <2>4 DEF TurnIInv
<1>12. CASE SaveDone
  <2>0. /\ pc' \in {"idle", "top"} /\ kind' \in {"plain", "stream"}
        /\ attempt' = 0 /\ saveFailed' = FALSE /\ unsaved' \in Nat
        /\ SavedSoFar' /\ MarkedMeansSaved'
    <3>1. pc = "save" /\ attempt > 1
      BY <1>0, <1>12 DEF SaveDone, TurnTypes
    <3>2. CASE kind = "plain" /\ saveFailed
      <4>1. Leave("idle")
        BY <1>12, <3>2 DEF SaveDone
      <4>2. ~NextRound
        BY <4>1 DEF Leave, NextRound
      <4>. QED BY <1>d, <3>1, <4>1, <4>2
    <3>3. CASE ~(kind = "plain" /\ saveFailed)
      <4>1. NextRound
        BY <1>12, <3>3 DEF SaveDone
      <4>2. kind = "stream" \/ unsaved = 0
        BY <1>0, <3>1, <3>3 DEF SavedSoFar, TurnTypes
      <4>. QED BY <1>d, <3>1, <4>1, <4>2
    <3>. QED BY <3>2, <3>3
  <2>1. TurnTypes'
    BY <1>0, <1>12, <2>0 DEF SaveDone, TurnTypes
  <2>3. PersistedMeansSaved'
    BY <1>0, <1>12 DEF SaveDone, MarkedMeansSaved, PersistedMeansSaved, TurnTypes
  <2>. QED BY <1>0, <1>12, <2>0, <2>1, <2>3 DEF SaveDone, TurnIInv
<1>13. CASE Persist
  <2>1. file'.history = history /\ file'.checkpoint = checkpoint
    BY <1>13 DEF Persist
  <2>2. TurnTypes'
    BY <1>0, <1>13 DEF Persist, turnVars, TurnTypes
  <2>3. checkpoint.batch \in Nat
    BY <1>0 DEF TurnTypes, CheckpointRecord
  <2>4. SavedSoFar' /\ MarkedMeansSaved' /\ PersistedMeansSaved'
    BY <1>0, <1>13, <2>1, <2>3 DEF Persist, turnVars, SavedSoFar, MarkedMeansSaved, PersistedMeansSaved
  <2>. QED BY <1>0, <1>13, <2>1, <2>2, <2>4 DEF Persist, TurnIInv
<1>14. CASE Restart
  <2>1. TurnTypes'
    BY <1>0, <1>14 DEF Restart, turnVars, TurnTypes
  <2>2. file.checkpoint.batch \in Nat
    BY <1>0 DEF TurnTypes, CheckpointRecord
  <2>3. SavedSoFar' /\ MarkedMeansSaved' /\ PersistedMeansSaved'
    BY <1>0, <1>14, <2>2 DEF Restart, turnVars, SavedSoFar, MarkedMeansSaved, PersistedMeansSaved
  <2>. QED BY <1>0, <1>14, <2>1, <2>3 DEF Restart, TurnIInv
<1>15. CASE UNCHANGED vars
  BY <1>0, <1>15 DEF vars, turnVars, TurnIInv, TurnTypes, SavedSoFar, MarkedMeansSaved, PersistedMeansSaved, Fits
<1>. QED BY <1>1, <1>2, <1>3, <1>5, <1>6, <1>7, <1>8, <1>9, <1>10, <1>11, <1>12, <1>13, <1>14, <1>15
         DEF Next, Turn

LEMMA TurnInductive == Spec => []TurnIInv
BY TurnInitInv, TurnNextInv, PTL DEF Spec

(* A session is resumed from the batch its checkpoint was made of          *)
(* (ManagerTryGetResumableCheckpoint).                                     *)
THEOREM ResumesLastBatchHolds == Spec => []ResumesLastBatch
<1>1. TurnIInv => ResumesLastBatch
  BY DEF TurnIInv, Fits, ResumesLastBatch, Resumable
<1>. QED BY <1>1, TurnInductive, PTL

(* A crash repeats one batch of a plain turn at most (RunTurn,             *)
(* PersistToolBatchCheckpoint).                                            *)
THEOREM OneBatchAtRiskHolds == Spec => []OneBatchAtRisk
<1>1. TurnIInv => OneBatchAtRisk
  BY DEF TurnIInv, SavedSoFar, OneBatchAtRisk
<1>. QED BY <1>1, TurnInductive, PTL

(* A checkpoint marked as persisted is in the file, or a context cut its   *)
(* save short (PersistToolBatchCheckpoint).                                *)
THEOREM PersistedMeansSavedHolds == Spec => []PersistedMeansSaved
<1>1. TurnIInv => PersistedMeansSaved
  BY DEF TurnIInv
<1>. QED BY <1>1, TurnInductive, PTL
=============================================================================
