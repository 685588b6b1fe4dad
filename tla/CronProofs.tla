---------------------------- MODULE CronProofs ----------------------------
(* Proofs about CronScheduler for any jobs, runners and consumers, and     *)
(* about LiveClient for any number of goroutines and connections.          *)
EXTENDS CronScheduler, LiveClient, TLAPS

-----------------------------------------------------------------------------
(* CronScheduler *)

AtJob == {"drop", "claim", "send", "sent"}

LEMMA CronInitType == Init => TypeOK
BY CronAssumption DEF Init, TypeOK

(* A runner that has looked a job up is at a job.                          *)
JobAtHand == \A r \in Runner : pc[r] \in AtJob => job[r] \in Job

(* A marker of a name that was never overdue is fresh while somebody       *)
(* sends for it, and only who has sent deletes it.                         *)
MarkerGuards ==
    \A n \in Name \ overdue :
        /\ marker[n] # "stale"
        /\ \A r \in Runner : n \notin stale[r]
        /\ \A r \in Runner : pc[r] = "drop" => NameOf[job[r]] # n
        /\ \A r \in Sending(n) : marker[n] = "fresh"

CronIInv == TypeOK /\ JobAtHand /\ MarkerGuards /\ ExclusiveDispatch

LEMMA CronInitInv == Init => CronIInv
<1>. SUFFICES ASSUME Init PROVE CronIInv
  OBVIOUS
<1>1. \A r \in Runner : pc[r] \notin AtJob
  BY DEF Init, AtJob
<1>. QED BY <1>1, CronInitType DEF Init, CronIInv, JobAtHand, MarkerGuards, ExclusiveDispatch, Sending, AtJob

(* A runner moves on to l, which is not to send; the marker it deletes, if *)
(* any, is overdue or nobody else sends for it.                            *)
MovesOn(r, l) ==
    /\ pc' = [pc EXCEPT ![r] = l] /\ l \notin {"send", "sent"}
    /\ \A q \in Runner : q # r => job'[q] = job[q]
    /\ l \in AtJob => job'[r] \in Job
    /\ l = "drop" => NameOf[job'[r]] \in overdue
    /\ \A n \in Name \ overdue :
          \/ marker'[n] = marker[n]
          \/ (\A q \in Runner : q # r => q \notin Sending(n)) /\ marker'[n] = "none"
    /\ \A n \in Name \ overdue : \A q \in Runner : n \notin stale'[q]
    /\ overdue' = overdue

LEMMA CronMoveInv ==
    ASSUME CronIInv, TypeOK', NEW r \in Runner, NEW l, MovesOn(r, l)
    PROVE  CronIInv'
<1>. USE DEF CronIInv, MovesOn
<1>1. \A q \in Runner : pc'[q] = IF q = r THEN l ELSE pc[q]
  BY DEF TypeOK
<1>2. JobAtHand'
  BY <1>1 DEF JobAtHand
<1>3. \A n \in Name : Sending(n)' = Sending(n) \ {r}
  BY <1>1 DEF Sending
<1>4. ExclusiveDispatch'
  BY <1>3 DEF ExclusiveDispatch
<1>5. MarkerGuards'
  BY <1>1, <1>3 DEF MarkerGuards, Sending
<1>. QED BY <1>2, <1>4, <1>5
LEMMA CronTypeNext == TypeOK /\ JobAtHand /\ [Next]_vars => TypeOK'
<1>. SUFFICES ASSUME TypeOK, JobAtHand, [Next]_vars
              PROVE  TypeOK'
  OBVIOUS
<1>. USE CronAssumption DEF TypeOK, Goto, Runner, AtJob
<1>1. ASSUME NEW n \in Name, Age(n)
      PROVE  TypeOK'
  BY <1>1 DEF Age
<1>2. ASSUME NEW r \in Runner, NEW due \in SUBSET Job, StartTick(r, due) \/ StartBoot(r, due)
      PROVE  TypeOK'
  BY <1>2 DEF StartTick, StartBoot
<1>3. ASSUME NEW r \in Runner, Cleanup(r) \/ Finish(r)
      PROVE  TypeOK'
  BY <1>3 DEF Cleanup, Finish
<1>4. ASSUME NEW r \in Runner, NEW j \in Job, LookUp(r, j)
      PROVE  TypeOK'
  BY <1>4 DEF LookUp, Skip
<1>5. ASSUME NEW r \in Runner, DropStale(r) \/ Claim(r) \/ Sent(r)
      PROVE  TypeOK'
  BY <1>5 DEF DropStale, Claim, Skip, Sent
<1>6. ASSUME NEW r \in Runner, Send(r)
      PROVE  TypeOK'
  <2>1. job[r] \in Job
    BY <1>6 DEF Send, JobAtHand
  <2>. QED BY <1>6, <2>1 DEF Send
<1>7. ASSUME NEW r \in Runner, SendFails(r)
      PROVE  TypeOK'
  BY <1>7 DEF SendFails
<1>8. ASSUME NEW c \in Consumer, Consume(c)
      PROVE  TypeOK'
  <2>1. Head(inbound) \in Job /\ Tail(inbound) \in Seq(Job) /\ Len(Tail(inbound)) <= Capacity
    BY <1>8 DEF Consume
  <2>. QED BY <1>8, <2>1 DEF Consume
<1>9. ASSUME NEW c \in Consumer, Complete(c)
      PROVE  TypeOK'
  BY <1>9 DEF Complete
<1>10. CASE UNCHANGED vars
  BY <1>10 DEF vars
<1>. QED BY <1>1, <1>2, <1>3, <1>4, <1>5, <1>6, <1>7, <1>8, <1>9, <1>10 DEF Next, RunJobs

LEMMA CronNextInv ==
    ASSUME Completing = FALSE
    PROVE  CronIInv /\ [Next]_vars => CronIInv'
<1>. SUFFICES ASSUME CronIInv, [Next]_vars
              PROVE  CronIInv'
  OBVIOUS
<1>0. TypeOK' /\ TypeOK
  BY CronTypeNext DEF CronIInv
<1>. USE <1>0, CronAssumption DEF Goto, Runner, AtJob
<1>. MarkerGuards /\ JobAtHand /\ ExclusiveDispatch
  BY DEF CronIInv
<1>1. ASSUME NEW n \in Name, Age(n)
      PROVE  CronIInv'
  <2>1. \A m \in Name : Sending(m)' = Sending(m)
    BY <1>1 DEF Age, Sending
  <2>2. JobAtHand' /\ ExclusiveDispatch'
    BY <1>1, <2>1 DEF Age, JobAtHand, ExclusiveDispatch
  <2>3. MarkerGuards'
    BY <1>1, <2>1 DEF Age, MarkerGuards, TypeOK
  <2>. QED BY <2>2, <2>3 DEF CronIInv
<1>2. ASSUME NEW r \in Runner, NEW due \in SUBSET Job, StartTick(r, due)
      PROVE  CronIInv'
  <2>1. \A n \in Name \ overdue : \A q \in Runner : n \notin stale'[q]
    BY <1>2 DEF StartTick, MarkerGuards, TypeOK
  <2>9. MovesOn(r, "cleanup")
    BY <1>2, <2>1 DEF StartTick, MovesOn
  <2>. QED BY <2>9, CronMoveInv
<1>3. ASSUME NEW r \in Runner, NEW due \in SUBSET Job, StartBoot(r, due)
      PROVE  CronIInv'
  <2>1. \A n \in Name \ overdue : \A q \in Runner : n \notin stale'[q]
    BY <1>3 DEF StartBoot, MarkerGuards
  <2>9. MovesOn(r, "next")
    BY <1>3, <2>1 DEF StartBoot, MovesOn
  <2>. QED BY <2>9, CronMoveInv
<1>4. ASSUME NEW r \in Runner, Cleanup(r)
      PROVE  CronIInv'
  <2>1. \A n \in Name \ overdue : (\A q \in Runner : n \notin stale'[q]) /\ marker'[n] = marker[n]
    BY <1>4 DEF Cleanup, MarkerGuards, TypeOK
  <2>9. MovesOn(r, "next")
    BY <1>4, <2>1 DEF Cleanup, MovesOn
  <2>. QED BY <2>9, CronMoveInv
<1>5. ASSUME NEW r \in Runner, Finish(r)
      PROVE  CronIInv'
  <2>1. \A n \in Name \ overdue : \A q \in Runner : n \notin stale'[q]
    BY <1>5 DEF Finish, MarkerGuards
  <2>9. MovesOn(r, "idle")
    BY <1>5, <2>1 DEF Finish, MovesOn
  <2>. QED BY <2>9, CronMoveInv
<1>6. ASSUME NEW r \in Runner, NEW j \in Job, LookUp(r, j)
      PROVE  CronIInv'
  <2>1. \A n \in Name \ overdue : \A q \in Runner : n \notin stale'[q]
    BY <1>6 DEF LookUp, MarkerGuards
  <2>2. \A q \in Runner : q # r => job'[q] = job[q]
    BY <1>6 DEF LookUp, Skip, TypeOK
  <2>3. CASE marker[NameOf[j]] = "fresh"
    <3>1. MovesOn(r, "next")
      BY <1>6, <2>1, <2>2, <2>3 DEF LookUp, Skip, MovesOn
    <3>. QED BY <3>1, CronMoveInv
  <2>4. CASE marker[NameOf[j]] = "stale"
    <3>1. job'[r] = j /\ NameOf[j] \in overdue
      BY <1>6, <2>4 DEF LookUp, TypeOK, MarkerGuards
    <3>2. MovesOn(r, "drop")
      BY <1>6, <2>1, <2>2, <2>4, <3>1 DEF LookUp, MovesOn
    <3>. QED BY <3>2, CronMoveInv
  <2>5. CASE marker[NameOf[j]] = "none"
    <3>1. job'[r] = j
      BY <1>6, <2>5 DEF LookUp, TypeOK
    <3>2. MovesOn(r, "claim")
      BY <1>6, <2>1, <2>2, <2>5, <3>1 DEF LookUp, MovesOn
    <3>. QED BY <3>2, CronMoveInv
  <2>. QED BY <2>3, <2>4, <2>5 DEF TypeOK
<1>7. ASSUME NEW r \in Runner, DropStale(r)
      PROVE  CronIInv'
  <2>1. \A n \in Name \ overdue : (\A q \in Runner : n \notin stale'[q]) /\ marker'[n] = marker[n]
    BY <1>7 DEF DropStale, MarkerGuards, TypeOK
  <2>2. job[r] \in Job
    BY <1>7 DEF DropStale, JobAtHand
  <2>9. MovesOn(r, "claim")
    BY <1>7, <2>1, <2>2 DEF DropStale, MovesOn
  <2>. QED BY <2>9, CronMoveInv
<1>8. ASSUME NEW r \in Runner, Claim(r)
      PROVE  CronIInv'
  <2>0. job[r] \in Job
    BY <1>8 DEF Claim, JobAtHand
  <2>1. CASE marker[NameOf[job[r]]] # "none"
    <3>1. \A n \in Name \ overdue : \A q \in Runner : n \notin stale'[q]
      BY <1>8 DEF Claim, MarkerGuards
    <3>2. \A q \in Runner : q # r => job'[q] = job[q]
      BY <1>8 DEF Claim, Skip, TypeOK
    <3>3. MovesOn(r, "next")
      BY <1>8, <2>1, <3>1, <3>2 DEF Claim, Skip, MovesOn
    <3>. QED BY <3>3, CronMoveInv
  <2>2. CASE marker[NameOf[job[r]]] = "none"
    <3>. DEFINE m == NameOf[job[r]]
    <3>0. m \in Name
      BY <2>0
    <3>1. \A q \in Runner : pc'[q] = IF q = r THEN "send" ELSE pc[q]
      BY <1>8, <2>2 DEF Claim, TypeOK
    <3>2. \A n \in Name : Sending(n)' = IF n = m THEN Sending(n) \cup {r} ELSE Sending(n)
      BY <1>8, <2>2, <3>1 DEF Claim, Sending
    <3>3. m \notin overdue => Sending(m) = {}
      BY <2>2, <3>0 DEF MarkerGuards
    <3>4. marker' = [marker EXCEPT ![m] = "fresh"]
      BY <1>8, <2>2 DEF Claim
    <3>5. UNCHANGED <<job, stale, overdue>>
      BY <1>8, <2>2 DEF Claim
    <3>. HIDE DEF m
    <3>6. ExclusiveDispatch'
      BY <3>2, <3>3, <3>5 DEF ExclusiveDispatch
    <3>7. JobAtHand'
      BY <2>0, <3>1, <3>5 DEF JobAtHand
    <3>8. MarkerGuards'
      BY <3>0, <3>1, <3>2, <3>3, <3>4, <3>5 DEF MarkerGuards, TypeOK
    <3>. QED BY <3>6, <3>7, <3>8 DEF CronIInv
  <2>. QED BY <2>1, <2>2
<1>9. ASSUME NEW r \in Runner, Send(r)
      PROVE  CronIInv'
  <2>1. \A q \in Runner : pc'[q] = IF q = r THEN "sent" ELSE pc[q]
    BY <1>9 DEF Send, TypeOK
  <2>2. \A n \in Name : Sending(n)' = Sending(n)
    BY <1>9, <2>1 DEF Send, Sending
  <2>3. UNCHANGED <<job, marker, stale, overdue>> /\ pc[r] = "send"
    BY <1>9 DEF Send
  <2>4. ExclusiveDispatch' /\ JobAtHand'
    BY <2>1, <2>2, <2>3 DEF ExclusiveDispatch, JobAtHand
  <2>5. MarkerGuards'
    BY <2>1, <2>2, <2>3 DEF MarkerGuards
  <2>. QED BY <2>4, <2>5 DEF CronIInv
<1>10. ASSUME NEW r \in Runner, SendFails(r)
       PROVE  CronIInv'
  <2>1. \A n \in Name \ overdue : \A q \in Runner : n \notin stale'[q]
    BY <1>10 DEF SendFails, MarkerGuards
  <2>2. \A q \in Runner : q # r => job'[q] = job[q]
    BY <1>10 DEF SendFails, TypeOK
  <2>9. MovesOn(r, IF r \in Ticker THEN "idle" ELSE "next")
    BY <1>10, <2>1, <2>2 DEF SendFails, MovesOn
  <2>. QED BY <2>9, CronMoveInv
<1>11. ASSUME NEW r \in Runner, Sent(r)
       PROVE  CronIInv'
  <2>1. \A n \in Name \ overdue : \A q \in Runner : n \notin stale'[q]
    BY <1>11 DEF Sent, MarkerGuards
  <2>2. \A q \in Runner : q # r => job'[q] = job[q]
    BY <1>11 DEF Sent, TypeOK
  <2>3. ASSUME NEW n \in Name \ overdue, marker'[n] # marker[n]
        PROVE  (\A q \in Runner : q # r => q \notin Sending(n)) /\ marker'[n] = "none"
    <3>1. n = NameOf[job[r]] /\ marker'[n] = "none"
      BY <1>11, <2>3 DEF Sent, TypeOK
    <3>2. r \in Sending(n)
      BY <1>11, <3>1 DEF Sent, Sending
    <3>. QED BY <3>1, <3>2 DEF ExclusiveDispatch
  <2>9. MovesOn(r, "next")
    BY <1>11, <2>1, <2>2, <2>3 DEF Sent, MovesOn
  <2>. QED BY <2>9, CronMoveInv
<1>12. ASSUME NEW c \in Consumer, Consume(c) \/ Complete(c)
       PROVE  CronIInv'
  BY <1>12 DEF Consume, Complete, CronIInv, JobAtHand, MarkerGuards, ExclusiveDispatch, Sending
<1>13. CASE UNCHANGED vars
  BY <1>13 DEF vars, CronIInv, JobAtHand, MarkerGuards, ExclusiveDispatch, Sending
<1>. QED BY <1>1, <1>2, <1>3, <1>4, <1>5, <1>6, <1>7, <1>8, <1>9, <1>10, <1>11, <1>12, <1>13
         DEF Next, RunJobs

(* Two runners never dispatch one job at once unless a marker of it has    *)
(* outlived its time, when consumers do not call MarkJobCompleted, and     *)
(* none in the repository does (enqueueJobIfNotRunning).                   *)
THEOREM ExclusiveDispatchHolds ==
    ASSUME Completing = FALSE
    PROVE  Spec => []ExclusiveDispatch
<1>1. CronIInv => ExclusiveDispatch
  BY DEF CronIInv
<1>2. CronIInv /\ [Next]_vars => CronIInv'
  BY CronNextInv
<1>. QED BY <1>1, <1>2, CronInitInv, PTL DEF Spec
-----------------------------------------------------------------------------
(* LiveClient *)

LiveTypes ==
    /\ ws \in Conn \cup {NoConn}
    /\ call \in [User -> {"none", "connect", "disconnect", "send"}]
    /\ where \in [User -> {"idle", "start", "close", "wait", "dial", "install", "write"}]
    /\ mine \in [User -> Conn \cup {NoConn}]
    /\ dialled \subseteq Conn /\ open \subseteq dialled /\ crossed \in BOOLEAN
    /\ \A u \in User : call[u] = "none" <=> where[u] = "idle"
    /\ \A u \in User : where[u] \in {"dial", "install"} => call[u] = "connect"
    /\ \A u \in User : where[u] \in {"close", "wait"} => call[u] \in {"connect", "disconnect"}
    /\ \A u \in User : where[u] = "write" => call[u] = "send"

(* As long as no two Connects crossed, one is under way at most, and the   *)
(* client has no connection from the Disconnect it begins with to its end. *)
OneConnect ==
    ~crossed =>
        /\ \A u, v \in User : call[u] = "connect" /\ call[v] = "connect" => u = v
        /\ \A u \in User : call[u] = "connect" /\ where[u] # "start" => ws = NoConn

LiveIInv == LiveTypes /\ OneConnect /\ NoConnForgotten

LEMMA LiveInitInv == LiveInit => LiveIInv
BY DEF LiveInit, LiveIInv, LiveTypes, OneConnect, NoConnForgotten

LEMMA LiveNextInv == LiveIInv /\ [LiveNext]_liveVars => LiveIInv'
<1>. SUFFICES ASSUME LiveIInv, [LiveNext]_liveVars
              PROVE  LiveIInv'
  OBVIOUS
<1>. USE LiveAssumption DEF LiveIInv, GoTo
<1>1. ASSUME NEW u \in User, NEW op \in {"connect", "disconnect", "send"}, StartCall(u, op)
      PROVE  LiveIInv'
  <2>1. LiveTypes'
    BY <1>1 DEF StartCall, LiveTypes
  <2>2. OneConnect'
    BY <1>1 DEF StartCall, LiveTypes, OneConnect
  <2>3. /\ ~crossed' => ~crossed
        /\ \A v \in User : where[v] \in {"close", "install"} => where'[v] = where[v]
    BY <1>1 DEF StartCall, LiveTypes
  <2>4. NoConnForgotten'
    BY <1>1, <2>3 DEF StartCall, LiveTypes, NoConnForgotten
  <2>. QED BY <2>1, <2>2, <2>4
<1>2. ASSUME NEW u \in User, TakeConn(u)
      PROVE  LiveIInv'
  <2>1. LiveTypes'
    BY <1>2 DEF TakeConn, Disconnected, Return, LiveTypes
  <2>2. OneConnect'
    BY <1>2 DEF TakeConn, Disconnected, Return, LiveTypes, OneConnect
  <2>3. NoConnForgotten'
    BY <1>2 DEF TakeConn, Disconnected, Return, LiveTypes, NoConnForgotten
  <2>. QED BY <2>1, <2>2, <2>3
<1>3. ASSUME NEW u \in User, CloseConn(u)
      PROVE  LiveIInv'
  <2>1. LiveTypes'
    BY <1>3 DEF CloseConn, LiveTypes
  <2>2. OneConnect'
    BY <1>3 DEF CloseConn, LiveTypes, OneConnect
  <2>3. NoConnForgotten'
    BY <1>3 DEF CloseConn, LiveTypes, NoConnForgotten
  <2>. QED BY <2>1, <2>2, <2>3
<1>4. ASSUME NEW u \in User, where[u] = "wait", AfterWait(u)
      PROVE  LiveIInv'
  <2>1. LiveTypes'
    BY <1>4 DEF AfterWait, Disconnected, Return, LiveTypes
  <2>2. OneConnect'
    BY <1>4 DEF AfterWait, Disconnected, Return, LiveTypes, OneConnect
  <2>3. NoConnForgotten'
    BY <1>4 DEF AfterWait, Disconnected, Return, LiveTypes, NoConnForgotten
  <2>. QED BY <2>1, <2>2, <2>3
<1>5. ASSUME NEW u \in User, NEW c \in Conn, Dial(u, c)
      PROVE  LiveIInv'
  <2>1. LiveTypes'
    BY <1>5 DEF Dial, LiveTypes
  <2>2. OneConnect'
    BY <1>5 DEF Dial, LiveTypes, OneConnect
  <2>3. NoConnForgotten'
    BY <1>5 DEF Dial, LiveTypes, NoConnForgotten
  <2>. QED BY <2>1, <2>2, <2>3
<1>6. ASSUME NEW u \in User, DialFails(u)
      PROVE  LiveIInv'
  <2>1. LiveTypes'
    BY <1>6 DEF DialFails, Return, LiveTypes
  <2>2. OneConnect'
    BY <1>6 DEF DialFails, Return, LiveTypes, OneConnect
  <2>3. NoConnForgotten'
    BY <1>6 DEF DialFails, Return, LiveTypes, NoConnForgotten
  <2>. QED BY <2>1, <2>2, <2>3
<1>7. ASSUME NEW u \in User, Install(u)
      PROVE  LiveIInv'
  <2>1. LiveTypes'
    BY <1>7 DEF Install, Return, LiveTypes
  <2>2. ~crossed => ws = NoConn
    BY <1>7 DEF Install, LiveTypes, OneConnect
  <2>3. OneConnect'
    BY <1>7 DEF Install, Return, LiveTypes, OneConnect
  <2>4. NoConnForgotten'
    <3>. SUFFICES ASSUME ~crossed, NEW c \in open, c # mine[u]
                  PROVE  \E v \in User : mine'[v] = c /\ where'[v] \in {"close", "install"}
      BY <1>7 DEF Install, NoConnForgotten
    <3>1. c # NoConn
      BY DEF LiveTypes
    <3>2. PICK v \in User : mine[v] = c /\ where[v] \in {"close", "install"}
      BY <2>2, <3>1 DEF NoConnForgotten
    <3>. QED BY <1>7, <3>2 DEF Install, Return, LiveTypes
  <2>. QED BY <2>1, <2>3, <2>4
<1>8. ASSUME NEW u \in User, StartWrite(u)
      PROVE  LiveIInv'
  <2>1. LiveTypes'
    BY <1>8 DEF StartWrite, Return, LiveTypes
  <2>2. OneConnect'
    BY <1>8 DEF StartWrite, Return, LiveTypes, OneConnect
  <2>3. NoConnForgotten'
    BY <1>8 DEF StartWrite, Return, LiveTypes, NoConnForgotten
  <2>. QED BY <2>1, <2>2, <2>3
<1>9. ASSUME NEW u \in User, WriteEnds(u) \/ SendCut(u)
      PROVE  LiveIInv'
  <2>1. LiveTypes'
    BY <1>9 DEF WriteEnds, SendCut, Return, LiveTypes
  <2>2. OneConnect'
    BY <1>9 DEF WriteEnds, SendCut, Return, LiveTypes, OneConnect
  <2>3. NoConnForgotten'
    BY <1>9 DEF WriteEnds, SendCut, Return, LiveTypes, NoConnForgotten
  <2>. QED BY <2>1, <2>2, <2>3
<1>10. ASSUME NEW c \in Conn, Receive(c) \/ CallbackReturns(c) \/ ServerEnds(c) \/ ReadsClosed(c)
       PROVE  LiveIInv'
  BY <1>10 DEF Receive, ReadFails, CallbackReturns, ServerEnds, ReadsClosed, Receiver, LiveTypes,
               OneConnect, NoConnForgotten
<1>11. CASE UNCHANGED liveVars
  BY <1>11 DEF liveVars, LiveTypes, OneConnect, NoConnForgotten
<1>. QED BY <1>1, <1>2, <1>3, <1>4, <1>5, <1>6, <1>7, <1>8, <1>9, <1>10, <1>11
         DEF LiveNext, LiveStep, WaitEnds, WaitCut

(* No open connection is forgotten, unless two Connects crossed (Connect,  *)
(* Disconnect).                                                            *)
THEOREM NoConnForgottenHolds == LiveSpec => []NoConnForgotten
<1>1. LiveIInv => NoConnForgotten
  BY DEF LiveIInv
<1>. QED BY <1>1, LiveInitInv, LiveNextInv, PTL DEF LiveSpec
=============================================================================
