---------------------------- MODULE ToolsProofs ----------------------------
(* Proofs about ToolApproval for any number of requests and deciders, lists*)
(* of pending requests included, about ToolBatch for batches of any size   *)
(* and any tools, and about PluginBridge for any number of callers.        *)
EXTENDS ToolApproval, ToolBatch, PluginBridge, FiniteSetTheorems, TLAPS

-----------------------------------------------------------------------------
(* ToolApproval *)

(* The decision v of some decider is the recorded one.                     *)
Recorded(r, v) == \E d \in Decider : recorded[r] = {<<d, v>>}

(* Before the Once has run nothing is recorded or sent; what is in the     *)
(* channel, or on its way back to the turn, is the recorded decision; a    *)
(* timeout has claimed the Once for itself.                                *)
OnceGuards ==
    \A r \in Request :
        /\ r \notin once => recorded[r] = {} /\ channel[r] = "empty"
        /\ channel[r] # "empty" => Recorded(r, channel[r])
        /\ wait[r] \in Verdict => Recorded(r, wait[r])
        /\ wait[r] = "TimedOut" => r \in once
        /\ recorded[r] = {} \/ \E v \in Verdict : Recorded(r, v)

ApprovalIInv == TypeOK /\ OnceGuards /\ OutcomeIsTheDecision

LEMMA ApprovalInitInv == Init => ApprovalIInv
BY DEF Init, ApprovalIInv, TypeOK, OnceGuards, OutcomeIsTheDecision, Result, Verdict

(* Steps that neither decide nor hand a decision over.                     *)
LEMMA QuietInv ==
    ASSUME ApprovalIInv, TypeOK', UNCHANGED <<once, channel, recorded>>,
           \A r \in Request : wait'[r] = wait[r] \/ wait'[r] \notin Verdict \cup {"Approved", "Denied", "TimedOut"}
    PROVE  ApprovalIInv'
BY DEF ApprovalIInv, OnceGuards, OutcomeIsTheDecision, Recorded

(* A decision: recorded and sent together, and only by the first.          *)
LEMMA SetDecisionInv ==
    ASSUME ApprovalIInv, NEW d \in Decider, NEW v \in Verdict, SetDecision(d, v)
    PROVE  ApprovalIInv'
<1>1. PICK r \in Request : r = looked[d]
  BY DEF ApprovalIInv, TypeOK, SetDecision
<1>2. TypeOK'
  BY <1>1 DEF ApprovalIInv, TypeOK, SetDecision
<1>3. CASE r \in once
  BY <1>1, <1>2, <1>3, QuietInv DEF SetDecision
<1>4. CASE r \notin once
  <2>1. /\ once' = once \cup {r}
        /\ wait' = wait
        /\ channel' = [channel EXCEPT ![r] = v]
        /\ recorded' = [recorded EXCEPT ![r] = @ \cup {<<d, v>>}]
    BY <1>1, <1>4 DEF SetDecision
  <2>2. recorded[r] = {} /\ wait[r] \notin Verdict \cup {"Approved", "Denied", "TimedOut"}
    BY <1>4 DEF ApprovalIInv, OnceGuards, OutcomeIsTheDecision, Recorded
  <2>3. recorded'[r] = {<<d, v>>} /\ channel'[r] = v
    BY <2>1, <2>2 DEF ApprovalIInv, TypeOK
  <2>4. \A q \in Request : q # r => recorded'[q] = recorded[q] /\ channel'[q] = channel[q]
    BY <2>1 DEF ApprovalIInv, TypeOK
  <2>5. OnceGuards'
    <3>. SUFFICES ASSUME NEW q \in Request
                  PROVE  /\ q \notin once' => recorded'[q] = {} /\ channel'[q] = "empty"
                         /\ channel'[q] # "empty" => Recorded(q, channel[q])'
                         /\ wait'[q] \in Verdict => Recorded(q, wait[q])'
                         /\ wait'[q] = "TimedOut" => q \in once'
                         /\ recorded'[q] = {} \/ \E u \in Verdict : Recorded(q, u)'
      BY DEF OnceGuards
    <3>1. CASE q = r
      BY <3>1, <2>1, <2>2, <2>3 DEF Recorded
    <3>2. CASE q # r
      BY <3>2, <2>1, <2>4 DEF ApprovalIInv, OnceGuards, Recorded
    <3>. QED BY <3>1, <3>2
  <2>6. OutcomeIsTheDecision'
    BY <2>1, <2>2, <2>4 DEF ApprovalIInv, OutcomeIsTheDecision
  <2>. QED BY <1>2, <2>5, <2>6 DEF ApprovalIInv
<1>. QED BY <1>3, <1>4

(* The timeout either claims the Once, so that no decision can follow, or  *)
(* goes on to read the one that came first.                                *)
LEMMA CloseRequestInv ==
    ASSUME ApprovalIInv, NEW r \in Request, CloseRequest(r)
    PROVE  ApprovalIInv'
<1>1. TypeOK'
  BY DEF ApprovalIInv, TypeOK, CloseRequest, Result
<1>2. \A q \in Request : q # r => wait'[q] = wait[q]
  BY DEF ApprovalIInv, TypeOK, CloseRequest
<1>3. wait'[r] = IF r \in once THEN "late" ELSE "TimedOut"
  BY DEF ApprovalIInv, TypeOK, CloseRequest
<1>4. OnceGuards' /\ OutcomeIsTheDecision'
  BY <1>2, <1>3 DEF ApprovalIInv, OnceGuards, OutcomeIsTheDecision, Recorded, CloseRequest, Verdict
<1>. QED BY <1>1, <1>4 DEF ApprovalIInv

(* What the waiter receives is what was recorded.                          *)
LEMMA ReceiveInv ==
    ASSUME ApprovalIInv, NEW r \in Request, Receive(r) \/ Finish(r)
    PROVE  ApprovalIInv'
<1>1. TypeOK'
  BY DEF ApprovalIInv, TypeOK, Receive, Finish, Result, Outcome, Verdict
<1>2. \A q \in Request : q # r => wait'[q] = wait[q] /\ channel'[q] = channel[q]
  BY DEF ApprovalIInv, TypeOK, Receive, Finish
<1>3. recorded' = recorded /\ once' = once
  BY DEF Receive, Finish
<1>4. CASE Receive(r)
  <2>1. /\ wait'[r] = channel[r] /\ channel'[r] = "empty"
        /\ channel[r] \in Verdict
    BY <1>4 DEF ApprovalIInv, TypeOK, Receive
  <2>2. OnceGuards'
    BY <1>2, <1>3, <2>1 DEF ApprovalIInv, OnceGuards, Recorded, Verdict
  <2>3. OutcomeIsTheDecision'
    BY <1>2, <1>3, <2>1 DEF ApprovalIInv, OutcomeIsTheDecision, Verdict
  <2>. QED BY <1>1, <2>2, <2>3 DEF ApprovalIInv
<1>5. CASE Finish(r)
  <2>1. /\ wait[r] \in Verdict /\ wait'[r] = Outcome(wait[r]) /\ channel'[r] = channel[r]
        /\ Recorded(r, wait[r])
    BY <1>5 DEF ApprovalIInv, TypeOK, OnceGuards, Finish
  <2>2. OnceGuards'
    BY <1>2, <1>3, <2>1 DEF ApprovalIInv, OnceGuards, Recorded, Verdict, Outcome
  <2>3. OutcomeIsTheDecision'
    <3>. SUFFICES ASSUME NEW q \in Request
                  PROVE  /\ wait'[q] \in {"Approved", "Denied"} =>
                              \E d \in Decider, v \in Verdict :
                                  recorded'[q] = {<<d, v>>} /\ wait'[q] = Outcome(v)
                         /\ wait'[q] = "TimedOut" => recorded'[q] = {}
      BY DEF OutcomeIsTheDecision
    <3>1. CASE q = r
      BY <3>1, <1>3, <2>1 DEF Recorded, Outcome, Verdict
    <3>2. CASE q # r
      BY <3>2, <1>2, <1>3 DEF ApprovalIInv, OutcomeIsTheDecision
    <3>. QED BY <3>1, <3>2
  <2>. QED BY <1>1, <2>2, <2>3 DEF ApprovalIInv
<1>. QED BY <1>4, <1>5

(* A list may take a decision out of a channel; it changes no outcome.     *)
LEMMA ListPendingInv ==
    ASSUME ApprovalIInv, ListPending
    PROVE  ApprovalIInv'
<1>1. TypeOK'
  BY DEF ApprovalIInv, TypeOK, ListPending
<1>2. \A q \in Request : channel'[q] = "empty" \/ channel'[q] = channel[q]
  BY DEF ApprovalIInv, TypeOK, ListPending
<1>. QED BY <1>1, <1>2 DEF ListPending, ApprovalIInv, OnceGuards, OutcomeIsTheDecision, Recorded

(* The invariant is inductive.                                             *)
LEMMA ApprovalNextInv == ApprovalIInv /\ [Next]_vars => ApprovalIInv'
<1>. SUFFICES ASSUME ApprovalIInv, [Next]_vars PROVE ApprovalIInv'
  OBVIOUS
<1>1. ASSUME NEW r \in Request, Create(r) \/ Expire(r) \/ StartWait(r) \/ CancelWait(r) \/ TimeOut(r)
      PROVE  ApprovalIInv'
  <2>1. TypeOK'
    BY <1>1 DEF ApprovalIInv, TypeOK, Create, Expire, StartWait, CancelWait, TimeOut, Result
  <2>2. UNCHANGED <<once, channel, recorded>>
    BY <1>1 DEF Create, Expire, StartWait, CancelWait, TimeOut
  <2>3. \A q \in Request : wait'[q] = wait[q] \/ wait'[q] \notin Verdict \cup {"Approved", "Denied", "TimedOut"}
    BY <1>1 DEF ApprovalIInv, TypeOK, Create, Expire, StartWait, CancelWait, TimeOut, Verdict
  <2>. QED BY <2>1, <2>2, <2>3, QuietInv
<1>2. ASSUME NEW r \in Request, Receive(r) \/ Finish(r) PROVE ApprovalIInv'
  BY <1>2, ReceiveInv
<1>3. ASSUME NEW r \in Request, CloseRequest(r) PROVE ApprovalIInv'
  BY <1>3, CloseRequestInv
<1>4. ASSUME NEW d \in Decider, NEW r \in Request, FindRequest(d, r) PROVE ApprovalIInv'
  <2>1. TypeOK'
    BY <1>4 DEF ApprovalIInv, TypeOK, FindRequest
  <2>. QED BY <1>4, <2>1, QuietInv DEF FindRequest
<1>5. ASSUME NEW d \in Decider, NEW v \in Verdict, SetDecision(d, v) PROVE ApprovalIInv'
  BY <1>5, SetDecisionInv
<1>6. CASE ListPending
  BY <1>6, ListPendingInv
<1>7. CASE UNCHANGED vars
  <2>1. TypeOK'
    BY <1>7 DEF vars, ApprovalIInv, TypeOK
  <2>. QED BY <1>7, <2>1, QuietInv DEF vars
<1>. QED BY <1>1, <1>2, <1>3, <1>4, <1>5, <1>6, <1>7 DEF Next

LEMMA ApprovalInductive == Spec => []ApprovalIInv
BY ApprovalInitInv, ApprovalNextInv, PTL DEF Spec

-----------------------------------------------------------------------------
(* A tool call is approved, denied or timed out as the one recorded        *)
(* decision, or its absence, says.                                         *)
THEOREM OutcomeIsTheDecisionHolds == Spec => []OutcomeIsTheDecision
<1>1. ApprovalIInv => OutcomeIsTheDecision
  BY DEF ApprovalIInv
<1>. QED BY <1>1, ApprovalInductive, PTL

(* TrySetDecision answers Recorded once per request.                       *)
THEOREM OneDecisionHolds == Spec => []OneDecision
<1>1. ApprovalIInv => OneDecision
  <2>. SUFFICES ASSUME ApprovalIInv, NEW r \in Request PROVE Cardinality(recorded[r]) <= 1
    BY DEF OneDecision
  <2>1. CASE recorded[r] = {}
    <3>1. Cardinality(recorded[r]) = 0
      BY <2>1, FS_EmptySet
    <3>. QED BY <3>1
  <2>2. CASE \E v \in Verdict : Recorded(r, v)
    <3>1. PICK x : recorded[r] = {x}
      BY <2>2 DEF Recorded
    <3>2. Cardinality(recorded[r]) = 1
      BY <3>1, FS_Singleton
    <3>. QED BY <3>2
  <2>. QED BY <2>1, <2>2 DEF ApprovalIInv, OnceGuards
<1>. QED BY <1>1, ApprovalInductive, PTL

-----------------------------------------------------------------------------
(* ToolBatch *)

(* One call after the other: a call that has begun follows results.  In    *)
(* parallel: an error has ended the context of the siblings.  A batch that *)
(* is over holds no call between its first check and its result.           *)
InOrder ==
    /\ ~parallel => \A c, d \in Call : d < c /\ stage[c] # "waiting" => stage[d] \in HasResult
    /\ parallel /\ callCtx = "live" => \A c \in Call : stage[c] # "error"

BatchIInv == ToolTypeOK /\ InOrder /\ NothingRunsOn

LEMMA CallNumbers == ASSUME ToolTypeOK PROVE Call \subseteq Nat
BY ToolBatchAssumption DEF ToolTypeOK, Call

LEMMA BatchInit == ToolInit => BatchIInv
<1>. SUFFICES ASSUME ToolInit PROVE BatchIInv
  OBVIOUS
<1>1. PICK n \in 0..MaxCalls : calls \in [1..n -> ToolKinds]
  BY DEF ToolInit
<1>2. Call = 1..n
  BY <1>1 DEF Call
<1>3. ToolTypeOK
  BY <1>1, <1>2 DEF ToolInit, ToolTypeOK, Call, HasResult
<1>. QED BY <1>3 DEF ToolInit, BatchIInv, InOrder, NothingRunsOn

(* A call moves from s to l, whatever the batch does around it.            *)
LEMMA MoveInv ==
    ASSUME BatchIInv, NEW c \in Call, NEW l \in HasResult \cup {"checks", "asked", "running", "error"},
           stage' = [stage EXCEPT ![c] = l],
           calls' = calls, parallel' = parallel, reviewer' = reviewer, batch' = batch,
           callCtx' \in {"live", "cancelled", "expired"},
           callCtx' = "live" => callCtx = "live" /\ (parallel => l # "error"),
           l \notin HasResult \cup {"error"} => batch = "running",
           stage[c] = "waiting" /\ ~parallel => \A d \in Call : d < c => stage[d] \in HasResult,
           stage[c] \notin HasResult \cup {"error"}
    PROVE  BatchIInv'
<1>. USE DEF BatchIInv
<1>1. Call' = Call /\ Call \subseteq Nat
  BY CallNumbers DEF Call
<1>2. \A d \in Call : stage'[d] = IF d = c THEN l ELSE stage[d]
  BY DEF ToolTypeOK
<1>3. ToolTypeOK'
  BY <1>1 DEF ToolTypeOK, HasResult
<1>4. InOrder'
  BY <1>1, <1>2 DEF InOrder, HasResult
<1>5. NothingRunsOn'
  BY <1>1, <1>2 DEF NothingRunsOn, HasResult
<1>. QED BY <1>3, <1>4, <1>5

LEMMA BatchNext == BatchIInv /\ [ToolNext]_toolVars => BatchIInv'
<1>. SUFFICES ASSUME BatchIInv, [ToolNext]_toolVars
              PROVE  BatchIInv'
  OBVIOUS
<1>. USE DEF Move, HasResult
<1>. ToolTypeOK /\ InOrder /\ NothingRunsOn
  BY DEF BatchIInv
<1>0. callCtx \in {"live", "cancelled", "expired"}
  BY DEF ToolTypeOK
<1>1. ASSUME NEW c \in Call, Begin(c)
      PROVE  BatchIInv'
  <2>1. ~parallel => \A d \in Call : d < c => stage[d] \in HasResult
    BY <1>1, CallNumbers, ToolBatchAssumption DEF Begin, ToolTypeOK, Call
  <2>2. callCtx' = callCtx
    BY <1>1 DEF Begin
  <2>. QED BY <1>0, <1>1, <2>1, <2>2, MoveInv DEF Begin
<1>2. ASSUME NEW c \in Call, Skip(c)
      PROVE  BatchIInv'
  BY <1>0, <1>2, MoveInv DEF Skip
<1>3. ASSUME NEW c \in Call, Block(c)
      PROVE  BatchIInv'
  BY <1>0, <1>3, MoveInv DEF Block
<1>4. ASSUME NEW c \in Call, stage[c] \in {"checks", "running"}, CallErrs(c)
      PROVE  BatchIInv'
  BY <1>0, <1>4, MoveInv DEF CallErrs
<1>5. ASSUME NEW c \in Call, PassChecks(c)
      PROVE  BatchIInv'
  <2>1. PICK l \in {"asked", "blocked", "running"} : stage' = [stage EXCEPT ![c] = l]
    BY <1>5 DEF PassChecks
  <2>2. batch = "running"
    BY <1>5 DEF PassChecks, NothingRunsOn
  <2>. QED BY <1>0, <1>5, <2>1, <2>2, MoveInv DEF PassChecks
<1>6. ASSUME NEW c \in Call, Approve(c)
      PROVE  BatchIInv'
  <2>1. batch = "running"
    BY <1>6 DEF Approve, NothingRunsOn
  <2>. QED BY <1>0, <1>6, <2>1, MoveInv DEF Approve
<1>7. ASSUME NEW c \in Call, Refuse(c)
      PROVE  BatchIInv'
  BY <1>0, <1>7, MoveInv DEF Refuse
<1>8. ASSUME NEW c \in Call, RunTool(c)
      PROVE  BatchIInv'
  BY <1>0, <1>8, MoveInv DEF RunTool
<1>9. CASE Collect
  <2>1. ToolTypeOK' /\ InOrder'
    BY <1>9 DEF Collect, BatchIInv, ToolTypeOK, InOrder, Call
  <2>2. NothingRunsOn'
    <3>1. \A c \in Call : stage[c] \in HasResult \cup {"error", "waiting"}
      BY <1>9, CallNumbers, ToolBatchAssumption DEF Collect, ToolTypeOK, InOrder
    <3>. QED BY <1>9, <3>1 DEF Collect, NothingRunsOn, Call
  <2>. QED BY <2>1, <2>2 DEF BatchIInv
<1>10. CASE BatchCtxEnds
  BY <1>10 DEF BatchCtxEnds, BatchIInv, ToolTypeOK, InOrder, NothingRunsOn, Call
<1>11. CASE UNCHANGED toolVars
  BY <1>11 DEF toolVars, BatchIInv, ToolTypeOK, InOrder, NothingRunsOn, Call
<1>. QED BY <1>1, <1>2, <1>3, <1>4, <1>5, <1>6, <1>7, <1>8, <1>9, <1>10, <1>11
         DEF ToolNext, CallStep, ServiceFails, RunCut

LEMMA BatchInductive == ToolSpec => []BatchIInv
BY BatchInit, BatchNext, PTL DEF ToolSpec

(* No tool runs on once the batch was reported (ExecuteToolCallsParallel,  *)
(* ExecuteToolCallsSequential).                                            *)
THEOREM NothingRunsOnHolds == ToolSpec => []NothingRunsOn
<1>1. BatchIInv => NothingRunsOn
  BY DEF BatchIInv
<1>. QED BY <1>1, BatchInductive, PTL

(* After the first error no further call begins: the cancelled context in  *)
(* the parallel form, the return in the sequential one.                    *)
THEOREM StopsAtErrorHolds == ToolSpec => StopsAtError
<1>. DEFINE Stops == \A c \in Call :
        stage[c] = "waiting" /\ (\E d \in Call : stage[d] = "error")
            => stage'[c] \in {"waiting", "error"}
<1>1. BatchIInv /\ [ToolNext]_toolVars => [Stops]_toolVars
  <2>. SUFFICES ASSUME BatchIInv, ToolNext, NEW c \in Call, stage[c] = "waiting",
                       NEW d \in Call, stage[d] = "error"
                PROVE  stage'[c] \in {"waiting", "error"}
    BY DEF toolVars
  <2>. USE DEF Move, HasResult
  <2>0. ToolTypeOK /\ InOrder /\ c \in Nat /\ d \in Nat /\ c # d
    BY CallNumbers DEF BatchIInv
  <2>1. ~Begin(c)
    <3>1. CASE parallel
      BY <2>0, <3>1 DEF Begin, InOrder
    <3>2. CASE ~parallel
      <4>1. c < d => stage[c] \in HasResult
        BY <2>0, <3>2 DEF InOrder
      <4>2. d < c => d \in 1..c - 1
        BY <2>0, ToolBatchAssumption DEF ToolTypeOK, Call
      <4>. QED BY <2>0, <3>2, <4>1, <4>2 DEF Begin
    <3>. QED BY <3>1, <3>2
  <2>2. ASSUME NEW b \in Call, CallStep(b)
        PROVE  stage'[c] \in {"waiting", "error"}
    <3>1. CASE b = c
      BY <2>0, <2>1, <2>2, <3>1
      DEF CallStep, Skip, Block, ServiceFails, PassChecks, Approve, Refuse, RunTool, RunCut, ToolTypeOK
    <3>2. CASE b # c
      <4>1. PICK l : stage' = [stage EXCEPT ![b] = l]
        BY <2>2 DEF CallStep, Begin, Skip, Block, ServiceFails, CallErrs, PassChecks, Approve,
                    Refuse, RunTool, RunCut
      <4>. QED BY <2>0, <3>2, <4>1 DEF ToolTypeOK
    <3>. QED BY <3>1, <3>2
  <2>3. CASE Collect \/ BatchCtxEnds
    BY <2>3 DEF Collect, BatchCtxEnds
  <2>. QED BY <2>2, <2>3 DEF ToolNext
<1>. QED BY <1>1, BatchInductive, PTL DEF ToolSpec, StopsAtError
-----------------------------------------------------------------------------
(* PluginBridge *)

(* A caller's channel is in one place: not made yet, in the map, taken and *)
(* empty, or sent to.                                                      *)
ChannelInOnePlace ==
    \A c \in BridgeCaller :
        /\ request[c] = "idle" => c \notin slots /\ reply[c] = "empty"
                                 /\ \A t \in Taker : c \notin taken[t]
        /\ c \in slots => reply[c] = "empty"

BridgeIInv == BridgeTypeOK /\ PendingAreCalling /\ OneReply /\ ChannelInOnePlace

LEMMA BridgeInitInv == BridgeInit => BridgeIInv
BY DEF BridgeInit, BridgeIInv, BridgeTypeOK, PendingAreCalling, OneReply, ChannelInOnePlace,
       Taker, CallEnd

LEMMA BridgeNextInv == BridgeIInv /\ [BridgeNext]_bridgeVars => BridgeIInv'
<1>. SUFFICES ASSUME BridgeIInv, [BridgeNext]_bridgeVars
              PROVE  BridgeIInv'
  OBVIOUS
<1>. USE DEF BridgeIInv, Taker, CallEnd
<1>1. ASSUME NEW c \in BridgeCaller, Register(c)
      PROVE  BridgeIInv'
  BY <1>1 DEF Register, BridgeTypeOK, PendingAreCalling, OneReply, ChannelInOnePlace
<1>2. ASSUME NEW c \in BridgeCaller, WriteRequest(c)
      PROVE  BridgeIInv'
  <2>1. BridgeTypeOK'
    BY <1>2 DEF WriteRequest, BridgeTypeOK
  <2>2. PendingAreCalling' /\ OneReply' /\ ChannelInOnePlace'
    BY <1>2 DEF WriteRequest, BridgeTypeOK, PendingAreCalling, OneReply, ChannelInOnePlace
  <2>. QED BY <2>1, <2>2
<1>3. ASSUME NEW c \in BridgeCaller, WriteError(c) \/ TakeReply(c) \/ WaitTimesOut(c)
      PROVE  BridgeIInv'
  <2>1. PICK how \in CallEnd : EndCall(c, how)
    BY <1>3 DEF WriteError, TakeReply, WaitTimesOut
  <2>2. request[c] # "idle" /\ (reply' = reply \/ (reply[c] # "empty" /\ reply' = [reply EXCEPT ![c] = "empty"]))
    BY <1>3 DEF WriteError, TakeReply, WaitTimesOut
  <2>3. BridgeTypeOK'
    BY <2>1, <2>2 DEF EndCall, BridgeTypeOK
  <2>4. PendingAreCalling' /\ OneReply' /\ ChannelInOnePlace'
    BY <2>1, <2>2 DEF EndCall, BridgeTypeOK, PendingAreCalling, OneReply, ChannelInOnePlace
  <2>. QED BY <2>3, <2>4
<1>4. ASSUME NEW c \in BridgeCaller, Answer(c)
      PROVE  BridgeIInv'
  <2>1. BridgeTypeOK'
    BY <1>4 DEF Answer, BridgeTypeOK
  <2>2. PendingAreCalling' /\ OneReply' /\ ChannelInOnePlace'
    BY <1>4 DEF Answer, BridgeTypeOK, PendingAreCalling, OneReply, ChannelInOnePlace
  <2>. QED BY <2>1, <2>2
<1>5. ASSUME NEW t \in Taker, Send(t)
      PROVE  BridgeIInv'
  <2>1. BridgeTypeOK'
    BY <1>5 DEF Send, BridgeTypeOK
  <2>2. PendingAreCalling' /\ OneReply' /\ ChannelInOnePlace'
    BY <1>5 DEF Send, BridgeTypeOK, PendingAreCalling, OneReply, ChannelInOnePlace
  <2>. QED BY <2>1, <2>2
<1>6. ASSUME NEW t \in Taker, NEW c \in BridgeCaller, CancelOne(t, c)
      PROVE  BridgeIInv'
  <2>1. BridgeTypeOK'
    BY <1>6 DEF CancelOne, BridgeTypeOK
  <2>2. PendingAreCalling' /\ OneReply' /\ ChannelInOnePlace'
    BY <1>6 DEF CancelOne, BridgeTypeOK, PendingAreCalling, OneReply, ChannelInOnePlace
  <2>. QED BY <2>1, <2>2
<1>7. ASSUME NEW t \in Taker, CancelEnds(t)
      PROVE  BridgeIInv'
  BY <1>7 DEF CancelEnds, BridgeTypeOK, PendingAreCalling, OneReply, ChannelInOnePlace
<1>8. CASE ReaderEnds \/ CloseBridge
  BY <1>8 DEF ReaderEnds, CloseBridge, StartCancelling, BridgeTypeOK, PendingAreCalling, OneReply,
              ChannelInOnePlace
<1>9. CASE UNCHANGED bridgeVars
  BY <1>9 DEF bridgeVars, BridgeTypeOK, PendingAreCalling, OneReply, ChannelInOnePlace
<1>. QED BY <1>1, <1>2, <1>3, <1>4, <1>5, <1>6, <1>7, <1>8, <1>9 DEF BridgeNext, CancelStep

LEMMA BridgeInductive == BridgeSpec => []BridgeIInv
BY BridgeInitInv, BridgeNextInv, PTL DEF BridgeSpec

(* One of the read loop and the passes that cancel sends to a caller, and  *)
(* what it sends is never dropped (processLine, cancelPendingRequests).    *)
THEOREM OneReplyHolds == BridgeSpec => []OneReply
<1>1. BridgeIInv => OneReply
  BY DEF BridgeIInv
<1>. QED BY <1>1, BridgeInductive, PTL

(* The pending map holds calls under way and nothing else (SendAndWait).   *)
THEOREM PendingAreCallingHolds == BridgeSpec => []PendingAreCalling
<1>1. BridgeIInv => PendingAreCalling
  BY DEF BridgeIInv
<1>. QED BY <1>1, BridgeInductive, PTL
=============================================================================
