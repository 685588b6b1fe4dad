-------------------------- MODULE RecordsProofs --------------------------
(* Proofs about SessionGoal for every set of turns, users and goals, and    *)
(* about SessionFile for every set of savers.                               *)
EXTENDS SessionGoal, SessionFile, FiniteSetTheorems, TLAPS

\* Who is about to change or to record a goal points to one that exists, and
\* UpdateStatus is only ever asked for a status.
Refs ==
    /\ \A p \in Proc : pc[p] \in {"apply", "record"} => ref[p] \in Goal /\ goal[ref[p]].status # "none"
    /\ \A p \in Proc : pc[p] \in {"load", "apply"} => want[p] \in Status
    /\ \A p \in Proc : pc[p] = "record" => p \in Commander
    /\ \A p \in Proc : pc[p] = "hash" => ref[p] \in Goal
    /\ current \in Goal => goal[current].status # "none"

Inv == TypeOK /\ Refs /\ HistoryKept

\* A goal object.
Object == [status : Status \cup {"none"}, budget : Budget \cup {0}, start : Nat,
           used : Nat, count : Nat, last : Hash, same : Nat]

\* max(0, x) is a natural number.
LEMMA MaxZero ==
  ASSUME NEW x \in Int
  PROVE  Max({0, x}) \in Nat
<1>1. \E m \in {0, x} : \A n \in {0, x} : n <= m
  OBVIOUS
<1>2. Max({0, x}) \in {0, x} /\ \A n \in {0, x} : n <= Max({0, x})
  BY <1>1 DEF Max
<1> QED
  BY <1>2

\* RecordTurnHash leaves a goal object a goal object, and its status alone.
LEMMA ObservedObject ==
  ASSUME NEW g \in Object, NEW h \in Hash
  PROVE  Observed(g, h) \in Object /\ Observed(g, h).status = g.status
<1>1. CASE h = Blank
  <2>1. Observed(g, h) = [g EXCEPT !.last = Blank, !.same = 0]
    BY <1>1 DEF Observed
  <2>2. Blank \in Hash /\ 0 \in Nat
    BY GoalAssumption
  <2> QED
    BY <2>1, <2>2 DEF Object
<1>2. CASE h # Blank /\ h = g.last
  BY <1>2 DEF Observed, Object
<1>3. CASE h # Blank /\ h # g.last
  BY <1>3 DEF Observed, Object
<1> QED
  BY <1>1, <1>2, <1>3

\* So does what ClearGoal keeps of it.
LEMMA ForgottenObject ==
  ASSUME NEW g \in Object
  PROVE  /\ [Unborn EXCEPT !.status = g.status] \in Object
         /\ [Unborn EXCEPT !.status = g.status].status = g.status
  BY GoalAssumption DEF Unborn, Object

\* The objects before and after a step that replaces one of them.
LEMMA ReplaceObject ==
  ASSUME TypeOK, NEW g \in Goal, NEW o \in Object, goal' = [goal EXCEPT ![g] = o]
  PROVE  /\ goal' \in [Goal -> Object]
         /\ goal'[g] = o
         /\ \A f \in Goal : f # g => goal'[f] = goal[f]
  BY DEF TypeOK, Object

LEMMA InitInv == Init => Inv
  BY GoalAssumption DEF Init, Inv, TypeOK, Refs, HistoryKept, Unborn, Status, Proc, IsTerminal

\* Every step keeps the invariant.
LEMMA NextInv == Inv /\ [Next]_vars => Inv'
<1> SUFFICES ASSUME Inv, [Next]_vars PROVE Inv'
  OBVIOUS
<1> USE GoalAssumption
<1>1. ASSUME NEW p \in Proc, LoadGoal(p) PROVE Inv'
  <2>1. TypeOK'
    <3>1. held' \in [Model -> Goal \cup {NoGoal}]
      BY <1>1 DEF Inv, TypeOK, Release, LoadGoal
    <3>2. UNCHANGED <<current, goal, total, recorded, prompts, begins>>
      BY <1>1 DEF LoadGoal, book
    <3> QED BY <1>1, <3>1, <3>2 DEF Inv, TypeOK, Goto, Done, LoadGoal
  <2>2. Refs'
    BY <1>1, <2>1 DEF Inv, TypeOK, Proc, Status, Goto, Done, Ask, book, Release, LoadGoal, Refs
  <2>3. HistoryKept'
    BY <1>1 DEF Inv, TypeOK, Proc, Status, Goto, Done, Ask, book, Release, LoadGoal, Refs, HistoryKept, IsTerminal
  <2> QED BY <2>1, <2>2, <2>3 DEF Inv
<1>2. ASSUME NEW p \in Proc, UpdateStatus(p) PROVE Inv'
  <2>1. TypeOK'
    <3>1. ref[p] \in Goal /\ want[p] \in Status /\ goal[ref[p]] \in Object
      BY <1>2 DEF Inv, TypeOK, Refs, UpdateStatus, Proc, Object
    <3>2. [goal[ref[p]] EXCEPT !.status = want[p]] \in Object
      BY <3>1 DEF Object
    <3>3. goal' = goal \/ goal' = [goal EXCEPT ![ref[p]] = [goal[ref[p]] EXCEPT !.status = want[p]]]
      BY <1>2 DEF UpdateStatus
    <3>4. goal' \in [Goal -> Object]
      BY <3>1, <3>2, <3>3, ReplaceObject DEF Inv, TypeOK, Object
    <3>5. recorded' \in [Goal -> Status \cup {"none", "lost"}]
      BY <1>2, <3>1 DEF UpdateStatus, WriteHistory, Inv, TypeOK
    <3>6. /\ pc' = [pc EXCEPT ![p] = "idle"] /\ ref' = [ref EXCEPT ![p] = NoGoal]
          /\ want' = [want EXCEPT ![p] = "none"]
          /\ UNCHANGED <<current, total, prompts, begins>>
      BY <1>2 DEF UpdateStatus, Done, Goto
    <3>7. held' \in [Model -> Goal \cup {NoGoal}]
      BY <1>2 DEF UpdateStatus, Release, Inv, TypeOK
    <3> QED
      BY <3>4, <3>5, <3>6, <3>7 DEF Inv, TypeOK, Object, Proc
  <2>2. Refs'
    <3> DEFINE g == ref[p]
    <3>1. g \in Goal /\ goal[g].status # "none" /\ want[p] \in Status
      BY <1>2 DEF Inv, Refs, UpdateStatus, Proc
    <3>2. \A f \in Goal : goal[f].status # "none" => goal'[f].status # "none"
      <4>1. goal' = goal \/ goal' = [goal EXCEPT ![g] = [goal[g] EXCEPT !.status = want[p]]]
        BY <1>2 DEF UpdateStatus
      <4>2. [goal[g] EXCEPT !.status = want[p]] \in Object /\ [goal[g] EXCEPT !.status = want[p]].status = want[p]
        BY <3>1 DEF Inv, TypeOK, Object
      <4>3. want[p] # "none"
        BY <3>1 DEF Status
      <4> QED
        BY <3>1, <4>1, <4>2, <4>3, ReplaceObject DEF Inv
    <3> QED
      BY <1>2, <2>1, <3>2 DEF Inv, TypeOK, Refs, UpdateStatus, Done, Goto, Proc
  <2>3. HistoryKept'
    <3> DEFINE g == ref[p]
    <3>1. g \in Goal /\ goal[g].status # "none" /\ want[p] \in Status /\ goal[g] \in Object
      BY <1>2 DEF Inv, TypeOK, Refs, UpdateStatus, Proc, Object
    <3>2. current' = current /\ \A c \in Commander : pc[c] = "record" => pc'[c] = "record" /\ ref'[c] = ref[c]
      BY <1>2 DEF UpdateStatus, Done, Goto, Inv, TypeOK, Proc
    <3>3. \A f \in Goal : f # g => goal'[f] = goal[f] /\ recorded'[f] = recorded[f]
      BY <1>2, <3>1 DEF UpdateStatus, WriteHistory, Inv, TypeOK
    <3>4. recorded[g] # "none" => recorded'[g] # "none"
      BY <1>2, <3>1 DEF UpdateStatus, WriteHistory, Inv, TypeOK, Status
    <3>5. IsTerminal(goal'[g].status) => recorded'[g] \in {"Complete", "lost"}
      <4>1. CASE goal' = goal /\ recorded' = recorded
        BY <3>1, <4>1 DEF Inv, HistoryKept
      <4>2. CASE ~(goal' = goal /\ recorded' = recorded)
        <5>1. goal' = [goal EXCEPT ![g] = [goal[g] EXCEPT !.status = want[p]]]
          BY <1>2, <4>2 DEF UpdateStatus
        <5>2. goal'[g].status = want[p]
          BY <3>1, <5>1 DEF Inv, TypeOK, Object
        <5>3. want[p] = "Complete" => WriteHistory(g, "Complete")
          BY <1>2, <4>2 DEF UpdateStatus
        <5> QED BY <3>1, <5>2, <5>3 DEF IsTerminal, WriteHistory, Inv, TypeOK
      <4> QED BY <4>1, <4>2
    <3> QED BY <3>1, <3>2, <3>3, <3>4, <3>5 DEF Inv, HistoryKept
  <2> QED BY <2>1, <2>2, <2>3 DEF Inv
<1>3. ASSUME NEW p \in Turn \cup Commander, BeginTurn(p) PROVE Inv'
  <2>1. TypeOK'
    <3>1. current \in Goal /\ goal[current] \in Object /\ begins[current] + 1 \in Nat
      BY <1>3 DEF BeginTurn, Inv, TypeOK, Object
    <3>2. [goal[current] EXCEPT !.count = 0] \in Object
      BY <3>1 DEF Object
    <3>3. goal' \in [Goal -> Object]
      BY <1>3, <3>1, <3>2, ReplaceObject DEF BeginTurn, Inv
    <3>4. begins' \in [Goal -> Nat]
      BY <1>3, <3>1 DEF BeginTurn, Inv, TypeOK
    <3> QED BY <1>3, <3>3, <3>4 DEF BeginTurn, Inv, TypeOK, Object
  <2>2. Refs'
    BY <1>3, <2>1 DEF Inv, TypeOK, Proc, Status, Goto, Done, Ask, book, BeginTurn, Refs
  <2>3. HistoryKept'
    BY <1>3 DEF Inv, TypeOK, Proc, Status, Goto, Done, Ask, book, BeginTurn, Refs, HistoryKept, IsTerminal
  <2> QED BY <2>1, <2>2, <2>3 DEF Inv
<1>4. ASSUME NEW p \in Turn \cup Commander, NEW b \in Budget, CreateGoal(p, b) PROVE Inv'
  <2>1. TypeOK'
    <3>1. PICK g \in Goal : goal' = [goal EXCEPT ![g] =
                 [Unborn EXCEPT !.status = "Active", !.budget = b, !.start = total]] /\ current' = g
      BY <1>4 DEF CreateGoal
    <3>2. [Unborn EXCEPT !.status = "Active", !.budget = b, !.start = total] \in Object
      <4>1. total \in Nat /\ b \in Nat /\ Blank \in Hash /\ "Active" \in Status
        BY DEF Inv, TypeOK, Status
      <4> QED
        BY <4>1 DEF Unborn, Object
    <3>3. goal' \in [Goal -> Object]
      BY <3>1, <3>2, ReplaceObject DEF Inv
    <3> QED
      BY <1>4, <3>1, <3>3 DEF CreateGoal, Object, Inv, TypeOK, book
  <2>2. Refs'
    BY <1>4, <2>1 DEF Inv, TypeOK, Proc, Status, Goto, Done, Ask, book, CreateGoal, Unborn, Refs
  <2>3. HistoryKept'
    BY <1>4 DEF Inv, TypeOK, Proc, Status, Goto, Done, Ask, book, CreateGoal, Unborn, Refs, HistoryKept, IsTerminal
  <2> QED BY <2>1, <2>2, <2>3 DEF Inv
<1>5. ASSUME NEW p \in Turn, Spend(p) PROVE Inv'
  <2>1. TypeOK'
    BY <1>5 DEF Inv, TypeOK, Proc, Status, Goto, Done, Ask, book, Spend, Refs
  <2>2. Refs'
    BY <1>5, <2>1 DEF Inv, TypeOK, Proc, Status, Goto, Done, Ask, book, Spend, Refs
  <2>3. HistoryKept'
    BY <1>5 DEF Inv, TypeOK, Proc, Status, Goto, Done, Ask, book, Spend, Refs, HistoryKept, IsTerminal
  <2> QED BY <2>1, <2>2, <2>3 DEF Inv
<1>6. ASSUME NEW p \in Turn, UpdateTokenUsage(p) PROVE Inv'
  <2>1. TypeOK'
    <3>1. CASE current = NoGoal
      BY <1>6, <3>1 DEF UpdateTokenUsage, Inv, TypeOK, Goto, book, Proc
    <3>2. CASE current # NoGoal
      <4>1. total - goal[current].start \in Int
        BY <3>2 DEF Inv, TypeOK
      <4>2. Max({0, total - goal[current].start}) \in Nat
        BY <4>1, MaxZero
      <4>3. goal' = [goal EXCEPT ![current].used = Max({0, total - goal[current].start})]
        BY <1>6, <3>2 DEF UpdateTokenUsage
      <4>4. PICK m \in Nat : goal' = [goal EXCEPT ![current] = [goal[current] EXCEPT !.used = m]]
        BY <4>2, <4>3
      <4>5. current \in Goal /\ [goal[current] EXCEPT !.used = m] \in Object
        BY <3>2 DEF Inv, TypeOK, Object
      <4>6. goal' \in [Goal -> Object]
        BY <4>4, <4>5, ReplaceObject DEF Inv
      <4> QED
        BY <1>6, <4>6 DEF UpdateTokenUsage, Inv, TypeOK, Goto, book, Proc, Object
    <3> QED BY <3>1, <3>2
  <2>2. Refs'
    <3>1. \A f \in Goal : goal'[f].status = goal[f].status
      BY <1>6 DEF Inv, TypeOK, UpdateTokenUsage
    <3>2. /\ UNCHANGED <<current, ref, want>>
          /\ \A q \in Proc : pc'[q] \notin {"look", "relook"} => pc'[q] = pc[q]
      BY <1>6 DEF UpdateTokenUsage, Inv, TypeOK, Goto, Proc
    <3> QED
      BY <2>1, <3>1, <3>2 DEF Inv, TypeOK, Refs
  <2>3. HistoryKept'
    BY <1>6 DEF Inv, TypeOK, Proc, Status, Goto, Done, Ask, book, UpdateTokenUsage, Refs, HistoryKept, IsTerminal
  <2> QED BY <2>1, <2>2, <2>3 DEF Inv
<1>7. ASSUME NEW p \in Turn, NEW i \in BOOLEAN, Look(p, i) PROVE Inv'
  <2>1. TypeOK'
    BY <1>7 DEF Inv, TypeOK, Proc, Status, Goto, Done, Ask, book, Look, Refs
  <2>2. Refs'
    BY <1>7, <2>1 DEF Inv, TypeOK, Proc, Status, Goto, Done, Ask, book, Look, Refs
  <2>3. HistoryKept'
    BY <1>7 DEF Inv, TypeOK, Proc, Status, Goto, Done, Ask, book, Look, Refs, HistoryKept, IsTerminal
  <2> QED BY <2>1, <2>2, <2>3 DEF Inv
<1>8. ASSUME NEW p \in Turn, CheckBudget(p) PROVE Inv'
  <2>1. TypeOK'
    BY <1>8 DEF Inv, TypeOK, Proc, Status, Goto, Done, Ask, book, CheckBudget, Refs
  <2>2. Refs'
    BY <1>8, <2>1 DEF Inv, TypeOK, Proc, Status, Goto, Done, Ask, book, CheckBudget, Refs
  <2>3. HistoryKept'
    BY <1>8 DEF Inv, TypeOK, Proc, Status, Goto, Done, Ask, book, CheckBudget, Refs, HistoryKept, IsTerminal
  <2> QED BY <2>1, <2>2, <2>3 DEF Inv
<1>9. ASSUME NEW p \in Turn, Count(p) PROVE Inv'
  <2>1. TypeOK'
    <3>1. CASE current = NoGoal
      BY <1>9, <3>1 DEF Count, Inv, TypeOK, Done, Goto, book
    <3>2. CASE current # NoGoal
      <4>1. current \in Goal /\ goal[current] \in Object
        BY <3>2 DEF Inv, TypeOK, Object
      <4>2. [goal[current] EXCEPT !.count = @ + 1] \in Object
        BY <4>1 DEF Object
      <4>3. goal' = [goal EXCEPT ![current] = [goal[current] EXCEPT !.count = @ + 1]]
        BY <1>9, <3>2 DEF Count
      <4>4. goal' \in [Goal -> Object]
        BY <4>1, <4>2, <4>3, ReplaceObject DEF Inv
      <4>5. /\ pc' \in [Proc -> {"idle", "look", "usage", "relook", "count", "hash", "load", "apply",
                                "clear", "record"}]
            /\ ref' \in [Proc -> Goal \cup {NoGoal}]
            /\ want' \in [Proc -> Status \cup {"none"}]
        BY <1>9 DEF Count, Done, Ask, Goto, Inv, TypeOK, Status
      <4> QED
        BY <1>9, <4>4, <4>5 DEF Count, book, Inv, TypeOK, Object
    <3> QED BY <3>1, <3>2
  <2>2. Refs'
    <3>1. \A f \in Goal : goal'[f].status = goal[f].status
      BY <1>9 DEF Inv, TypeOK, Count
    <3>2. \A q \in Proc : q # p => pc'[q] = pc[q] /\ ref'[q] = ref[q] /\ want'[q] = want[q]
      BY <1>9 DEF Count, Inv, TypeOK, Done, Ask, Goto, Proc
    <3>3. \/ pc'[p] = "idle"
          \/ pc'[p] = "load" /\ want'[p] = "Paused"
          \/ pc'[p] = "hash" /\ ref'[p] = current /\ current # NoGoal
      BY <1>9 DEF Count, Inv, TypeOK, Done, Ask, Goto, Proc
    <3>4. current' = current /\ current \in Goal \cup {NoGoal}
      BY <1>9 DEF Count, Inv, TypeOK
    <3> QED
      BY <2>1, <3>1, <3>2, <3>3, <3>4 DEF Inv, Refs, Status
  <2>3. HistoryKept'
    <3>1. \A f \in Goal : goal'[f].status = goal[f].status
      BY <1>9 DEF Inv, TypeOK, Count
    <3>2. UNCHANGED <<current, recorded>> /\ \A c \in Proc : pc[c] = "record" => pc'[c] = "record" /\ ref'[c] = ref[c]
      BY <1>9 DEF Inv, TypeOK, Count, Done, Ask, Goto, book, Proc
    <3> QED
      BY <3>1, <3>2 DEF Inv, HistoryKept, IsTerminal, Proc
  <2> QED BY <2>1, <2>2, <2>3 DEF Inv
<1>10. ASSUME NEW p \in Turn, NEW h \in Hash, NEW i \in BOOLEAN, RecordTurnHash(p, h, i) PROVE Inv'
  <2>0. goal' \in [Goal -> Object] /\ \A f \in Goal : goal'[f].status = goal[f].status
    <3>1. CASE current = NoGoal
      BY <1>10, <3>1 DEF RecordTurnHash, Inv, TypeOK, Object
    <3>2. CASE current # NoGoal
      <4>1. current \in Goal /\ goal[current] \in Object
        BY <3>2 DEF Inv, TypeOK, Object
      <4>2. goal' = [goal EXCEPT ![current] = Observed(goal[current], h)]
        BY <1>10, <3>2 DEF RecordTurnHash
      <4>3. Observed(goal[current], h) \in Object /\ Observed(goal[current], h).status = goal[current].status
        BY <4>1, ObservedObject
      <4> QED
        BY <4>1, <4>2, <4>3, ReplaceObject DEF Inv
    <3> QED BY <3>1, <3>2
  <2>1. TypeOK'
    <3>1. ref[p] \in Goal
      BY <1>10 DEF RecordTurnHash, Inv, Refs, Proc
    <3>2. prompts' \in [Goal -> Nat]
      BY <1>10, <3>1 DEF RecordTurnHash, Inv, TypeOK
    <3> QED
      <4>1. /\ pc' \in [Proc -> {"idle", "look", "usage", "relook", "count", "hash", "load", "apply",
                                "clear", "record"}]
            /\ ref' \in [Proc -> Goal \cup {NoGoal}]
            /\ want' \in [Proc -> Status \cup {"none"}]
        BY <1>10 DEF RecordTurnHash, Done, Ask, Goto, Inv, TypeOK, Status
      <4> QED
        BY <1>10, <2>0, <3>2, <4>1 DEF RecordTurnHash, Inv, TypeOK, Object
  <2>2. Refs'
    <3>1. \A f \in Goal : goal[f].status # "none" => goal'[f].status # "none"
      BY <2>0
    <3>2. \A q \in Proc : q # p => pc'[q] = pc[q] /\ ref'[q] = ref[q] /\ want'[q] = want[q]
      BY <1>10 DEF RecordTurnHash, Inv, TypeOK, Done, Ask, Goto, Proc
    <3>3. pc'[p] = "idle" \/ (pc'[p] = "load" /\ want'[p] = "Blocked")
      BY <1>10 DEF RecordTurnHash, Inv, TypeOK, Done, Ask, Goto, Proc
    <3>4. current' = current
      BY <1>10 DEF RecordTurnHash
    <3> QED
      BY <2>1, <3>1, <3>2, <3>3, <3>4 DEF Inv, Refs, Status
  <2>3. HistoryKept'
    <3>1. UNCHANGED <<current, recorded>> /\ \A c \in Proc : pc[c] = "record" => pc'[c] = "record" /\ ref'[c] = ref[c]
      BY <1>10 DEF Inv, TypeOK, RecordTurnHash, Done, Ask, Goto, Proc
    <3> QED
      BY <2>0, <3>1 DEF Inv, HistoryKept, IsTerminal, Proc
  <2> QED BY <2>1, <2>2, <2>3 DEF Inv
<1>11. ASSUME NEW p \in Turn, NEW s \in {"Complete", "Blocked"}, UpdateGoalTool(p, s) PROVE Inv'
  <2>1. TypeOK'
    BY <1>11 DEF Inv, TypeOK, Proc, Status, Goto, Done, Ask, book, UpdateGoalTool, Refs
  <2>2. Refs'
    BY <1>11, <2>1 DEF Inv, TypeOK, Proc, Status, Goto, Done, Ask, book, UpdateGoalTool, Refs
  <2>3. HistoryKept'
    BY <1>11 DEF Inv, TypeOK, Proc, Status, Goto, Done, Ask, book, UpdateGoalTool, Refs, HistoryKept, IsTerminal
  <2> QED BY <2>1, <2>2, <2>3 DEF Inv
<1>12. ASSUME NEW p \in Commander, ClearGoal(p) PROVE Inv'
  <2>0. goal' \in [Goal -> Object] /\ \A f \in Goal : goal'[f].status = goal[f].status
    <3>1. CASE current = NoGoal
      BY <1>12, <3>1 DEF ClearGoal, Inv, TypeOK, Object
    <3>2. CASE current # NoGoal
      <4>1. current \in Goal /\ goal[current] \in Object
        BY <3>2 DEF Inv, TypeOK, Object
      <4>2. goal' = [goal EXCEPT ![current] = [Unborn EXCEPT !.status = goal[current].status]]
        BY <1>12, <3>2 DEF ClearGoal
      <4> QED
        BY <4>1, <4>2, ForgottenObject, ReplaceObject DEF Inv
    <3> QED BY <3>1, <3>2
  <2>1. TypeOK'
    BY <1>12, <2>0 DEF ClearGoal, Inv, TypeOK, Object, Done, Goto, Proc, book
  <2>2. Refs'
    <3>1. \A f \in Goal : goal[f].status # "none" => goal'[f].status # "none"
      BY <2>0
    <3>2. \A q \in Proc : q # p => pc'[q] = pc[q] /\ ref'[q] = ref[q] /\ want'[q] = want[q]
      BY <1>12 DEF ClearGoal, Inv, TypeOK, Done, Goto, Proc
    <3>3. pc'[p] = "idle" \/ (pc'[p] = "record" /\ ref'[p] = current /\ current \in Goal)
      BY <1>12 DEF ClearGoal, Inv, TypeOK, Done, Goto, Proc
    <3>4. current' = NoGoal
      BY <1>12 DEF ClearGoal
    <3> QED
      BY <2>1, <3>1, <3>2, <3>3, <3>4 DEF Inv, Refs
  <2>3. HistoryKept'
    <3>1. CASE current = NoGoal
      BY <1>12, <2>0, <3>1 DEF ClearGoal, Inv, TypeOK, HistoryKept, IsTerminal, Done, Goto, Proc, book
    <3>2. CASE current # NoGoal
      <4>1. pc'[p] = "record" /\ ref'[p] = current /\ current' = NoGoal /\ recorded' = recorded
        BY <1>12, <3>2 DEF ClearGoal, Inv, TypeOK, Goto, Proc, book
      <4>2. \A c \in Commander : pc[c] = "record" => pc'[c] = "record" /\ ref'[c] = ref[c]
        BY <1>12, <3>2 DEF ClearGoal, Inv, TypeOK, Goto, Proc
      <4> QED
        BY <2>0, <4>1, <4>2 DEF Inv, HistoryKept, IsTerminal
    <3> QED BY <3>1, <3>2
  <2> QED BY <2>1, <2>2, <2>3 DEF Inv
<1>13. ASSUME NEW p \in Commander, RecordCleared(p) PROVE Inv'
  <2>1. TypeOK'
    <3>1. ref[p] \in Goal /\ goal[ref[p]].status \in Status
      BY <1>13 DEF RecordCleared, Inv, TypeOK, Refs, Proc
    <3>2. recorded' \in [Goal -> Status \cup {"none", "lost"}]
      BY <1>13, <3>1 DEF RecordCleared, WriteHistory, Inv, TypeOK
    <3> QED
      BY <1>13, <3>2 DEF RecordCleared, Done, Goto, Inv, TypeOK
  <2>2. Refs'
    BY <1>13, <2>1 DEF Inv, TypeOK, Proc, Status, Goto, Done, Ask, book, RecordCleared, WriteHistory, Refs
  <2>3. HistoryKept'
    BY <1>13 DEF Inv, TypeOK, Proc, Status, Goto, Done, Ask, book, RecordCleared, WriteHistory, Refs, HistoryKept, IsTerminal
  <2> QED BY <2>1, <2>2, <2>3 DEF Inv
<1>14. ASSUME NEW p \in Commander, NewSession(p) PROVE Inv'
  <2>1. TypeOK'
    BY <1>14 DEF Inv, TypeOK, Proc, Status, Goto, Done, Ask, book, NewSession, Refs
  <2>2. Refs'
    BY <1>14, <2>1 DEF Inv, TypeOK, Proc, Status, Goto, Done, Ask, book, NewSession, Refs
  <2>3. HistoryKept'
    BY <1>14 DEF Inv, TypeOK, Proc, Status, Goto, Done, Ask, book, NewSession, Refs, HistoryKept, IsTerminal
  <2> QED BY <2>1, <2>2, <2>3 DEF Inv
<1>15. ASSUME NEW p \in Commander, NEW s \in {"Paused", "Active", "Complete", "Blocked"}, GoalCommand(p, s) PROVE Inv'
  <2>1. TypeOK'
    BY <1>15 DEF Inv, TypeOK, Proc, Status, Goto, Done, Ask, book, GoalCommand, Refs
  <2>2. Refs'
    BY <1>15, <2>1 DEF Inv, TypeOK, Proc, Status, Goto, Done, Ask, book, GoalCommand, Refs
  <2>3. HistoryKept'
    BY <1>15 DEF Inv, TypeOK, Proc, Status, Goto, Done, Ask, book, GoalCommand, Refs, HistoryKept, IsTerminal
  <2> QED BY <2>1, <2>2, <2>3 DEF Inv
<1>16. ASSUME NEW p \in Model, NEW s \in {"Complete", "Blocked"}, UpdateModelStatus(p, s) PROVE Inv'
  <2>1. TypeOK'
    BY <1>16 DEF Inv, TypeOK, Proc, Status, Goto, Done, Ask, book, UpdateModelStatus, Refs
  <2>2. Refs'
    BY <1>16, <2>1 DEF Inv, TypeOK, Proc, Status, Goto, Done, Ask, book, UpdateModelStatus, Refs
  <2>3. HistoryKept'
    BY <1>16 DEF Inv, TypeOK, Proc, Status, Goto, Done, Ask, book, UpdateModelStatus, Refs, HistoryKept, IsTerminal
  <2> QED BY <2>1, <2>2, <2>3 DEF Inv
<1>17. CASE UNCHANGED vars
  BY <1>17 DEF vars, Inv, TypeOK, Refs, HistoryKept
<1> QED
  BY <1>1, <1>2, <1>3, <1>4, <1>5, <1>6, <1>7, <1>8, <1>9, <1>10, <1>11, <1>12, <1>13, <1>14, <1>15, <1>16, <1>17 DEF Next, Evaluate

\* The variables keep their types; no use of tokens is ever negative.
THEOREM TypeCorrect == Spec => []TypeOK
<1>1. Spec => []Inv
  BY InitInv, NextInv, PTL DEF Spec
<1> QED
  BY <1>1, PTL DEF Inv

\* No goal is completed or cleared without leaving a record, unless the file
\* could not be written.
THEOREM HistoryKeptHolds == Spec => []HistoryKept
<1>1. Spec => []Inv
  BY InitInv, NextInv, PTL DEF Spec
<1> QED
  BY <1>1, PTL DEF Inv

\* A completed goal stays completed: of the steps that write an object, the
\* one that may write the status looks at it first.
THEOREM CompleteIsFinalHolds == Spec => CompleteIsFinal
<1> DEFINE Final == \A g \in Goal : IsTerminal(goal[g].status) => goal'[g].status = goal[g].status
<1>1. Inv /\ [Next]_vars => [Final]_vars
  <2> SUFFICES ASSUME Inv, Next PROVE Final
    OBVIOUS
  <2>1. ASSUME NEW p \in Proc, UpdateStatus(p) PROVE Final
    BY <2>1 DEF UpdateStatus, Inv, TypeOK, IsTerminal
  <2>2. ASSUME NEW p \in Turn \cup Commander, NEW b \in Budget, CreateGoal(p, b) PROVE Final
    BY <2>2 DEF CreateGoal, Inv, TypeOK, IsTerminal
  <2>3. ASSUME NEW p \in Turn, NEW h \in Hash, NEW i \in BOOLEAN, RecordTurnHash(p, h, i) PROVE Final
    <3>1. CASE current = NoGoal
      BY <2>3, <3>1 DEF RecordTurnHash
    <3>2. CASE current # NoGoal
      <4>1. current \in Goal /\ goal[current] \in Object
        BY <3>2 DEF Inv, TypeOK, Object
      <4>2. goal' = [goal EXCEPT ![current] = Observed(goal[current], h)]
        BY <2>3, <3>2 DEF RecordTurnHash
      <4> QED
        BY <4>1, <4>2, ObservedObject, ReplaceObject DEF Inv
    <3> QED BY <3>1, <3>2
  <2>4. ASSUME NEW p \in Commander, ClearGoal(p) PROVE Final
    <3>1. CASE current = NoGoal
      BY <2>4, <3>1 DEF ClearGoal
    <3>2. CASE current # NoGoal
      <4>1. current \in Goal /\ goal[current] \in Object
        BY <3>2 DEF Inv, TypeOK, Object
      <4>2. goal' = [goal EXCEPT ![current] = [Unborn EXCEPT !.status = goal[current].status]]
        BY <2>4, <3>2 DEF ClearGoal
      <4> QED
        BY <4>1, <4>2, ForgottenObject, ReplaceObject DEF Inv
    <3> QED BY <3>1, <3>2
  <2>5. ASSUME NEW p \in Turn \cup Commander, BeginTurn(p) PROVE Final
    BY <2>5 DEF BeginTurn, Inv, TypeOK
  <2>6. ASSUME NEW p \in Turn, Count(p) PROVE Final
    BY <2>6 DEF Count, Inv, TypeOK
  <2>7. ASSUME NEW p \in Turn, UpdateTokenUsage(p) PROVE Final
    BY <2>7 DEF UpdateTokenUsage, Inv, TypeOK
  <2>8. CASE UNCHANGED goal
    BY <2>8
  <2> QED
    BY <2>1, <2>2, <2>3, <2>4, <2>5, <2>6, <2>7, <2>8
       DEF Next, LoadGoal, Evaluate, Spend, Look, CheckBudget, UpdateGoalTool, RecordCleared, NewSession,
           GoalCommand, UpdateModelStatus
<1>2. Spec => []Inv
  BY InitInv, NextInv, PTL DEF Spec
<1> QED
  BY <1>1, <1>2, PTL DEF Spec, CompleteIsFinal
------------------------------------------------------------------------------
(* How often the agent goes on by itself.                                  *)

\* The turns that were counted for g and have still to be given their prompt.
Outstanding(g) == {t \in Turn : pc[t] = "hash" /\ ref[t] = g}

Granted(g) == prompts[g] + Cardinality(Outstanding(g))

\* What the counter has granted since the last BeginTurn, at most; of a goal
\* outside the map only the limit is known.
InPeriod(g) == IF g = current /\ goal[g].count < Limit THEN goal[g].count ELSE Limit

Grants ==
    \A g \in Goal :
        /\ Granted(g) <= Limit * begins[g] + InPeriod(g)
        /\ goal[g].status = "none" => Granted(g) = 0 /\ begins[g] = 0

LEMMA GrantTypes ==
  ASSUME Inv, NEW g \in Goal
  PROVE  /\ IsFiniteSet(Outstanding(g)) /\ Cardinality(Outstanding(g)) \in Nat
         /\ prompts[g] \in Nat /\ Granted(g) \in Nat
         /\ Limit \in Nat /\ begins[g] \in Nat /\ Limit * begins[g] \in Nat
         /\ goal[g].count \in Nat /\ InPeriod(g) \in 0..Limit
<1>1. IsFiniteSet(Outstanding(g)) /\ Cardinality(Outstanding(g)) \in Nat
  BY GoalAssumption, FS_Subset, FS_CardinalityType DEF Outstanding
<1>2. prompts[g] \in Nat /\ Limit \in Nat /\ begins[g] \in Nat /\ goal[g].count \in Nat
  BY GoalAssumption DEF Inv, TypeOK
<1>3. Limit * begins[g] \in Nat
  BY <1>2
<1> QED
  BY <1>1, <1>2, <1>3 DEF Granted, InPeriod

\* A step that grants nothing, gives no prompt and leaves the counter of the
\* goal in the map alone.
LEMMA GrantsKept ==
  ASSUME Inv, Inv', Grants, prompts' = prompts, begins' = begins,
         \A t \in Turn : /\ pc'[t] = "hash" <=> pc[t] = "hash"
                         /\ pc[t] = "hash" => ref'[t] = ref[t],
         current' \in {current, NoGoal},
         \A g \in Goal : goal'[g].status = "none" => goal[g].status = "none",
         \A g \in Goal : g = current' => goal'[g].count = goal[g].count
  PROVE  Grants'
<1> SUFFICES ASSUME NEW g \in Goal
             PROVE  /\ Granted(g)' <= (Limit * begins[g])' + InPeriod(g)'
                    /\ goal'[g].status = "none" => Granted(g)' = 0 /\ begins'[g] = 0
  BY DEF Grants
<1>1. Outstanding(g)' = Outstanding(g)
  BY DEF Outstanding
<1>2. Granted(g)' = Granted(g) /\ (Limit * begins[g])' = Limit * begins[g]
  BY <1>1 DEF Granted
<1>3. InPeriod(g)' >= InPeriod(g) /\ InPeriod(g)' \in Nat
  <2>1. InPeriod(g) \in 0..Limit /\ Limit \in Nat
    BY GrantTypes
  <2>2. CASE g = current'
    <3>1. g = current /\ goal'[g].count = goal[g].count
      BY <2>2, GoalAssumption
    <3> QED
      BY <2>1, <2>2, <3>1 DEF InPeriod
  <2>3. CASE g # current'
    BY <2>1, <2>3 DEF InPeriod
  <2> QED BY <2>2, <2>3
<1>4. Granted(g) <= Limit * begins[g] + InPeriod(g)
  BY DEF Grants
<1>5. Granted(g)' <= (Limit * begins[g])' + InPeriod(g)'
  BY <1>2, <1>3, <1>4, GrantTypes
<1> QED
  BY <1>2, <1>5 DEF Grants

LEMMA InitGrants == Init => Grants
<1> SUFFICES ASSUME Init, NEW g \in Goal
             PROVE  /\ Granted(g) <= Limit * begins[g] + InPeriod(g)
                    /\ Granted(g) = 0 /\ begins[g] = 0
  BY DEF Grants
<1>1. Outstanding(g) = {}
  BY DEF Init, Outstanding, Proc
<1>2. Granted(g) = 0 /\ begins[g] = 0
  BY <1>1, FS_EmptySet DEF Init, Granted
<1> QED
  BY <1>2, InitInv, GrantTypes

\* BeginTurn opens a period of its own.
LEMMA BeginTurnGrants ==
  ASSUME Inv, Inv', Grants, NEW p \in Turn \cup Commander, BeginTurn(p)
  PROVE  Grants'
<1> SUFFICES ASSUME NEW g \in Goal
             PROVE  /\ Granted(g)' <= (Limit * begins[g])' + InPeriod(g)'
                    /\ goal'[g].status = "none" => Granted(g)' = 0 /\ begins'[g] = 0
  BY DEF Grants
<1>0. current \in Goal /\ goal[current] \in Object
  BY DEF BeginTurn, Inv, TypeOK, Object
<1>1. Granted(g)' = Granted(g) /\ current' = current
  BY DEF BeginTurn, Granted, Outstanding
<1>2. /\ [goal[current] EXCEPT !.count = 0] \in Object
      /\ [goal[current] EXCEPT !.count = 0].count = 0
      /\ [goal[current] EXCEPT !.count = 0].status = goal[current].status
  BY <1>0 DEF Object
<1>3. goal' = [goal EXCEPT ![current] = [goal[current] EXCEPT !.count = 0]]
  BY DEF BeginTurn
<1>4. /\ goal'[current].count = 0
      /\ \A f \in Goal : f # current => goal'[f] = goal[f]
      /\ goal'[current].status = goal[current].status
  BY <1>0, <1>2, <1>3, ReplaceObject DEF Inv
<1>5. CASE g = current
  <2>1. begins'[g] = begins[g] + 1
    BY <1>5 DEF BeginTurn, Inv, TypeOK
  <2>2. (Limit * begins[g])' = Limit * begins[g] + Limit
    BY <2>1, GrantTypes
  <2>3. InPeriod(g)' = 0
    BY <1>1, <1>4, <1>5, GoalAssumption DEF InPeriod
  <2>4. Granted(g) <= Limit * begins[g] + InPeriod(g)
    BY DEF Grants
  <2>5. Granted(g)' <= (Limit * begins[g])' + InPeriod(g)'
    BY <1>1, <2>2, <2>3, <2>4, GrantTypes
  <2>6. goal'[g].status # "none"
    BY <1>4, <1>5 DEF Inv, Refs
  <2> QED BY <2>5, <2>6
<1>6. CASE g # current
  <2>1. begins'[g] = begins[g] /\ goal'[g] = goal[g]
    BY <1>4, <1>6 DEF BeginTurn, Inv, TypeOK
  <2>2. InPeriod(g)' = InPeriod(g)
    BY <1>1, <1>6 DEF InPeriod
  <2> QED
    BY <1>1, <2>1, <2>2 DEF Grants
<1> QED BY <1>5, <1>6

\* A new goal has granted nothing.
LEMMA CreateGoalGrants ==
  ASSUME Inv, Inv', Grants, NEW p \in Turn \cup Commander, NEW b \in Budget, CreateGoal(p, b)
  PROVE  Grants'
<1>1. PICK n \in Goal :
        /\ goal[n].status = "none" /\ current = NoGoal /\ current' = n
        /\ goal' = [goal EXCEPT ![n] = [Unborn EXCEPT !.status = "Active", !.budget = b, !.start = total]]
  BY DEF CreateGoal
<1> SUFFICES ASSUME NEW g \in Goal
             PROVE  /\ Granted(g)' <= (Limit * begins[g])' + InPeriod(g)'
                    /\ goal'[g].status = "none" => Granted(g)' = 0 /\ begins'[g] = 0
  BY DEF Grants
<1>2. Granted(g)' = Granted(g) /\ begins' = begins
  BY DEF CreateGoal, book, Granted, Outstanding
<1>3. InPeriod(g)' \in 0..Limit
  <2>1. goal'[g].count \in Nat /\ Limit \in Nat
    BY GoalAssumption DEF Inv, TypeOK
  <2> QED BY <2>1 DEF InPeriod
<1>4. CASE g = n
  <2>1. goal'[g].status = "Active"
    BY <1>1, <1>4 DEF Inv, TypeOK, Unborn
  <2>2. Granted(g)' = 0 /\ begins[g] = 0 /\ Limit * begins[g] \in Nat
    BY <1>1, <1>2, <1>4, GrantTypes DEF Grants
  <2> QED
    BY <1>2, <1>3, <2>1, <2>2, GoalAssumption
<1>5. CASE g # n
  <2>1. goal'[g] = goal[g] /\ g # current' /\ g # current
    BY <1>1, <1>5, GoalAssumption DEF Inv, TypeOK
  <2>2. InPeriod(g)' = InPeriod(g)
    BY <2>1 DEF InPeriod
  <2> QED
    BY <1>2, <2>1, <2>2 DEF Grants
<1> QED BY <1>4, <1>5

\* IncrementContinuationCount grants one continuation while the counter is
\* below the limit, and none afterwards.
LEMMA CountGrants ==
  ASSUME Inv, Inv', Grants, NEW t \in Turn, Count(t)
  PROVE  Grants'
<1>0. t \in Proc /\ pc[t] = "count"
  BY DEF Count, Proc
<1>1. CASE current = NoGoal
  <2>1. Done(t) /\ goal' = goal /\ current' = current /\ prompts' = prompts /\ begins' = begins
    BY <1>1 DEF Count, book
  <2>2. \A u \in Turn : /\ pc'[u] = "hash" <=> pc[u] = "hash"
                        /\ pc[u] = "hash" => ref'[u] = ref[u]
    BY <1>0, <2>1 DEF Done, Goto, Inv, TypeOK, Proc
  <2> QED
    BY <2>1, <2>2, GrantsKept
<1>2. CASE current # NoGoal
  <2>0. current \in Goal /\ goal[current] \in Object /\ current' = current
        /\ prompts' = prompts /\ begins' = begins
    BY <1>2 DEF Count, book, Inv, TypeOK, Object
  <2>1. /\ goal' = [goal EXCEPT ![current] = [goal[current] EXCEPT !.count = goal[current].count + 1]]
    BY <1>2 DEF Count
  <2>2. /\ [goal[current] EXCEPT !.count = goal[current].count + 1] \in Object
        /\ [goal[current] EXCEPT !.count = goal[current].count + 1].count = goal[current].count + 1
        /\ [goal[current] EXCEPT !.count = goal[current].count + 1].status = goal[current].status
    BY <2>0 DEF Object
  <2>3. /\ goal'[current].count = goal[current].count + 1
        /\ goal'[current].status = goal[current].status
        /\ \A f \in Goal : f # current => goal'[f] = goal[f]
    BY <2>0, <2>1, <2>2, ReplaceObject DEF Inv
  <2>4. goal'[current].status # "none"
    BY <2>0, <2>3 DEF Inv, Refs
  <2> SUFFICES ASSUME NEW g \in Goal
               PROVE  /\ Granted(g)' <= (Limit * begins[g])' + InPeriod(g)'
                      /\ goal'[g].status = "none" => Granted(g)' = 0 /\ begins'[g] = 0
    BY DEF Grants
  <2>5. Granted(g) <= Limit * begins[g] + InPeriod(g)
    BY DEF Grants
  <2>6. (Limit * begins[g])' = Limit * begins[g]
    BY <2>0
  <2>7. CASE goal[current].count + 1 > Limit
    <3>1. Ask(t, "Paused")
      BY <1>2, <2>7 DEF Count
    <3>2. Outstanding(g)' = Outstanding(g)
      BY <1>0, <3>1 DEF Ask, Goto, Outstanding, Inv, TypeOK, Proc
    <3>3. Granted(g)' = Granted(g)
      BY <2>0, <3>2 DEF Granted
    <3>4. InPeriod(g)' = InPeriod(g)
      BY <2>0, <2>3, <2>7, GrantTypes DEF InPeriod
    <3> QED
      BY <2>0, <2>3, <2>4, <2>5, <2>6, <3>3, <3>4 DEF Grants
  <2>8. CASE ~(goal[current].count + 1 > Limit)
    <3>1. Goto(t, "hash") /\ ref' = [ref EXCEPT ![t] = current]
      BY <1>2, <2>8 DEF Count
    <3>2. CASE g = current
      <4>1. Outstanding(g)' = Outstanding(g) \cup {t} /\ t \notin Outstanding(g)
        BY <1>0, <3>1, <3>2 DEF Goto, Outstanding, Inv, TypeOK, Proc
      <4>2. Cardinality(Outstanding(g)') = Cardinality(Outstanding(g)) + 1
        BY <4>1, GrantTypes, FS_AddElement
      <4>3. Granted(g)' = Granted(g) + 1
        BY <2>0, <4>2, GrantTypes DEF Granted
      <4>4. InPeriod(g) = goal[g].count /\ InPeriod(g)' = goal[g].count + 1
        BY <2>0, <2>3, <2>8, <3>2, GrantTypes DEF InPeriod
      <4>5. Granted(g)' <= (Limit * begins[g])' + InPeriod(g)'
        BY <2>5, <2>6, <4>3, <4>4, GrantTypes
      <4> QED
        BY <2>4, <3>2, <4>5
    <3>3. CASE g # current
      <4>1. Outstanding(g)' = Outstanding(g)
        BY <1>0, <3>1, <3>3 DEF Goto, Outstanding, Inv, TypeOK, Proc
      <4>2. Granted(g)' = Granted(g) /\ InPeriod(g)' = InPeriod(g) /\ goal'[g] = goal[g]
        BY <2>0, <2>3, <3>3, <4>1 DEF Granted, InPeriod
      <4> QED
        BY <2>0, <2>5, <2>6, <4>2 DEF Grants
    <3> QED BY <3>2, <3>3
  <2> QED BY <2>7, <2>8
<1> QED BY <1>1, <1>2

\* RecordTurnHash leaves the counter alone.
LEMMA ObservedCount ==
  ASSUME NEW g \in Object, NEW h \in Hash
  PROVE  Observed(g, h).count = g.count
<1>1. CASE h = Blank
  BY <1>1 DEF Observed, Object
<1>2. CASE h # Blank /\ h = g.last
  BY <1>2 DEF Observed, Object
<1>3. CASE h # Blank /\ h # g.last
  BY <1>3 DEF Observed, Object
<1> QED BY <1>1, <1>2, <1>3

\* A prompt uses up what its turn was counted for.
LEMMA RecordTurnHashGrants ==
  ASSUME Inv, Inv', Grants, NEW t \in Turn, NEW h \in Hash, NEW i \in BOOLEAN, RecordTurnHash(t, h, i)
  PROVE  Grants'
<1>0. t \in Proc /\ pc[t] = "hash" /\ ref[t] \in Goal /\ current' = current /\ begins' = begins
  BY DEF RecordTurnHash, Inv, Refs, Proc
<1>1. \A f \in Goal : goal'[f].count = goal[f].count /\ goal'[f].status = goal[f].status
  <2>1. CASE current = NoGoal
    BY <2>1 DEF RecordTurnHash
  <2>2. CASE current # NoGoal
    <3>1. current \in Goal /\ goal[current] \in Object
      BY <2>2 DEF Inv, TypeOK, Object
    <3>2. goal' = [goal EXCEPT ![current] = Observed(goal[current], h)]
      BY <2>2 DEF RecordTurnHash
    <3>3. /\ Observed(goal[current], h) \in Object
          /\ Observed(goal[current], h).status = goal[current].status
          /\ Observed(goal[current], h).count = goal[current].count
      BY <3>1, ObservedObject, ObservedCount
    <3> QED
      BY <3>1, <3>2, <3>3, ReplaceObject DEF Inv
  <2> QED BY <2>1, <2>2
<1>2. pc'[t] # "hash" /\ \A u \in Proc : u # t => pc'[u] = pc[u] /\ ref'[u] = ref[u]
  BY <1>0 DEF RecordTurnHash, Ask, Done, Goto, Inv, TypeOK
<1>3. /\ prompts'[ref[t]] \in {prompts[ref[t]], prompts[ref[t]] + 1}
      /\ \A f \in Goal : f # ref[t] => prompts'[f] = prompts[f]
  BY <1>0 DEF RecordTurnHash, Inv, TypeOK
<1> SUFFICES ASSUME NEW g \in Goal
             PROVE  /\ Granted(g)' <= (Limit * begins[g])' + InPeriod(g)'
                    /\ goal'[g].status = "none" => Granted(g)' = 0 /\ begins'[g] = 0
  BY DEF Grants
<1>4. InPeriod(g)' = InPeriod(g) /\ (Limit * begins[g])' = Limit * begins[g]
  BY <1>0, <1>1 DEF InPeriod
<1>5. Granted(g)' <= Granted(g) /\ Granted(g)' \in Nat
  <2>1. CASE g = ref[t]
    <3>1. Outstanding(g)' = Outstanding(g) \ {t} /\ t \in Outstanding(g)
      BY <1>0, <1>2, <2>1 DEF Outstanding, Proc
    <3>2. Cardinality(Outstanding(g)') = Cardinality(Outstanding(g)) - 1
      BY <3>1, GrantTypes, FS_RemoveElement
    <3>3. Cardinality(Outstanding(g)') \in Nat
      BY <3>1, GrantTypes, FS_Subset, FS_CardinalityType
    <3> QED
      BY <1>3, <2>1, <3>2, <3>3, GrantTypes DEF Granted
  <2>2. CASE g # ref[t]
    <3>1. Outstanding(g)' = Outstanding(g)
      BY <1>0, <1>2, <2>2 DEF Outstanding, Proc
    <3> QED
      BY <1>3, <2>2, <3>1, GrantTypes DEF Granted
  <2> QED BY <2>1, <2>2
<1>6. Granted(g) <= Limit * begins[g] + InPeriod(g)
  BY DEF Grants
<1>7. Granted(g)' <= (Limit * begins[g])' + InPeriod(g)'
  BY <1>4, <1>5, <1>6, GrantTypes
<1>8. goal'[g].status = "none" => Granted(g)' = 0 /\ begins'[g] = 0
  BY <1>0, <1>1, <1>5, GrantTypes DEF Grants
<1> QED BY <1>7, <1>8

\* The status changes, or the use of tokens.
LEMMA NextGrants == Inv /\ Inv' /\ Grants /\ [Next]_vars => Grants'
<1> SUFFICES ASSUME Inv, Inv', Grants, [Next]_vars PROVE Grants'
  OBVIOUS
<1>1. ASSUME NEW p \in Proc, LoadGoal(p) PROVE Grants'
  BY <1>1, GrantsKept DEF LoadGoal, Done, Goto, book, Inv, TypeOK, Proc
<1>2. ASSUME NEW p \in Proc, UpdateStatus(p) PROVE Grants'
  <2> DEFINE g == ref[p]
  <2>1. g \in Goal /\ want[p] \in Status /\ goal[g] \in Object
    BY <1>2 DEF UpdateStatus, Inv, TypeOK, Refs, Proc, Object
  <2>2. \A f \in Goal : /\ goal'[f].count = goal[f].count
                        /\ goal'[f].status = "none" => goal[f].status = "none"
    <3>1. goal' = goal \/ goal' = [goal EXCEPT ![g] = [goal[g] EXCEPT !.status = want[p]]]
      BY <1>2 DEF UpdateStatus
    <3>2. /\ [goal[g] EXCEPT !.status = want[p]] \in Object
          /\ [goal[g] EXCEPT !.status = want[p]].status = want[p]
          /\ [goal[g] EXCEPT !.status = want[p]].count = goal[g].count
      BY <2>1 DEF Object
    <3>3. want[p] # "none"
      BY <2>1 DEF Status
    <3> QED
      BY <2>1, <3>1, <3>2, <3>3, ReplaceObject DEF Inv
  <2>3. \A t \in Turn : (pc'[t] = "hash" <=> pc[t] = "hash") /\ (pc[t] = "hash" => ref'[t] = ref[t])
    BY <1>2 DEF UpdateStatus, Done, Goto, Inv, TypeOK, Proc
  <2> QED
    BY <1>2, <2>2, <2>3, GrantsKept DEF UpdateStatus
<1>3. ASSUME NEW p \in Turn \cup Commander, BeginTurn(p) PROVE Grants'
  BY <1>3, BeginTurnGrants
<1>4. ASSUME NEW p \in Turn \cup Commander, NEW b \in Budget, CreateGoal(p, b) PROVE Grants'
  BY <1>4, CreateGoalGrants
<1>5. ASSUME NEW p \in Turn, UpdateTokenUsage(p) PROVE Grants'
  <2>1. \A f \in Goal : goal'[f].count = goal[f].count /\ goal'[f].status = goal[f].status
    <3>1. CASE current = NoGoal
      BY <1>5, <3>1 DEF UpdateTokenUsage
    <3>2. CASE current # NoGoal
      <4>1. current \in Goal /\ goal[current] \in Object
        BY <3>2 DEF Inv, TypeOK, Object
      <4>2. PICK m : goal' = [goal EXCEPT ![current] = [goal[current] EXCEPT !.used = m]]
        BY <1>5, <3>2 DEF UpdateTokenUsage
      <4> QED
        BY <4>1, <4>2 DEF Inv, TypeOK, Object
    <3> QED BY <3>1, <3>2
  <2>2. \A t \in Turn : (pc'[t] = "hash" <=> pc[t] = "hash") /\ ref'[t] = ref[t]
    BY <1>5 DEF UpdateTokenUsage, Goto, Inv, TypeOK, Proc
  <2> QED
    BY <1>5, <2>1, <2>2, GrantsKept DEF UpdateTokenUsage, book
<1>6. ASSUME NEW p \in Turn, Count(p) PROVE Grants'
  BY <1>6, CountGrants
<1>7. ASSUME NEW p \in Turn, NEW h \in Hash, NEW i \in BOOLEAN, RecordTurnHash(p, h, i) PROVE Grants'
  BY <1>7, RecordTurnHashGrants
<1>8. ASSUME NEW p \in Commander, ClearGoal(p) PROVE Grants'
  <2>1. \A f \in Goal : goal'[f].status = goal[f].status
    <3>1. CASE current = NoGoal
      BY <1>8, <3>1 DEF ClearGoal
    <3>2. CASE current # NoGoal
      <4>1. current \in Goal /\ goal[current] \in Object
        BY <3>2 DEF Inv, TypeOK, Object
      <4>2. goal' = [goal EXCEPT ![current] = [Unborn EXCEPT !.status = goal[current].status]]
        BY <1>8, <3>2 DEF ClearGoal
      <4> QED
        BY <4>1, <4>2, ForgottenObject, ReplaceObject DEF Inv
    <3> QED BY <3>1, <3>2
  <2>2. \A t \in Turn : (pc'[t] = "hash" <=> pc[t] = "hash") /\ (pc[t] = "hash" => ref'[t] = ref[t])
    BY <1>8 DEF ClearGoal, Done, Goto, Inv, TypeOK, Proc
  <2>3. current' = NoGoal /\ \A g \in Goal : g # current'
    BY <1>8, GoalAssumption DEF ClearGoal
  <2> QED
    BY <1>8, <2>1, <2>2, <2>3, GrantsKept DEF ClearGoal, book
<1>9. ASSUME goal' = goal, current' = current, prompts' = prompts, begins' = begins,
             NEW p \in Proc, pc[p] # "hash", pc'[p] # "hash",
             \A q \in Proc : q # p => pc'[q] = pc[q] /\ ref'[q] = ref[q]
      PROVE  Grants'
  <2>1. \A t \in Turn : (pc'[t] = "hash" <=> pc[t] = "hash") /\ (pc[t] = "hash" => ref'[t] = ref[t])
    BY <1>9 DEF Proc
  <2> QED
    BY <1>9, <2>1, GrantsKept
<1>10. ASSUME NEW p \in Turn, \/ Spend(p) \/ (\E i \in BOOLEAN : Look(p, i)) \/ CheckBudget(p)
                              \/ \E s \in {"Complete", "Blocked"} : UpdateGoalTool(p, s)
       PROVE  Grants'
  <2>1. /\ goal' = goal /\ current' = current /\ prompts' = prompts /\ begins' = begins
        /\ p \in Proc /\ pc[p] # "hash" /\ pc'[p] # "hash"
        /\ \A q \in Proc : q # p => pc'[q] = pc[q] /\ ref'[q] = ref[q]
    BY <1>10 DEF Spend, Look, CheckBudget, UpdateGoalTool, Ask, Done, Goto, book, Inv, TypeOK, Proc
  <2> QED BY <1>9, <2>1
<1>11. ASSUME NEW p \in Commander, \/ RecordCleared(p) \/ NewSession(p)
                                   \/ \E s \in {"Paused", "Active", "Complete", "Blocked"} : GoalCommand(p, s)
       PROVE  Grants'
  <2>1. /\ goal' = goal /\ current' = current /\ prompts' = prompts /\ begins' = begins
        /\ p \in Proc /\ pc[p] # "hash" /\ pc'[p] # "hash"
        /\ \A q \in Proc : q # p => pc'[q] = pc[q] /\ ref'[q] = ref[q]
    BY <1>11 DEF RecordCleared, NewSession, GoalCommand, Ask, Done, Goto, book, Inv, TypeOK, Proc
  <2> QED BY <1>9, <2>1
<1>12. ASSUME NEW p \in Model, NEW s \in {"Complete", "Blocked"}, UpdateModelStatus(p, s) PROVE Grants'
  <2>1. /\ goal' = goal /\ current' = current /\ prompts' = prompts /\ begins' = begins
        /\ p \in Proc /\ pc[p] # "hash" /\ pc'[p] # "hash"
        /\ \A q \in Proc : q # p => pc'[q] = pc[q] /\ ref'[q] = ref[q]
    BY <1>12 DEF UpdateModelStatus, Ask, Goto, book, Inv, TypeOK, Proc
  <2> QED BY <1>9, <2>1
<1>13. CASE UNCHANGED vars
  BY <1>13, GrantsKept DEF vars
<1> QED
  BY <1>1, <1>2, <1>3, <1>4, <1>5, <1>6, <1>7, <1>8, <1>10, <1>11, <1>12, <1>13 DEF Next, Evaluate

\* The agent goes on by itself at most Limit times per goal and per BeginTurn,
\* for every limit, whatever turns, tools and commands run at the same time.
THEOREM ContinuationsBoundedHolds == Spec => []ContinuationsBounded
<1>1. Inv /\ Grants => ContinuationsBounded
  <2> SUFFICES ASSUME Inv, Grants, NEW g \in Goal
               PROVE  prompts[g] <= Limit * (1 + begins[g])
    BY DEF ContinuationsBounded
  <2>1. prompts[g] <= Granted(g)
    BY GrantTypes DEF Granted
  <2>2. Granted(g) <= Limit * begins[g] + Limit
    BY GrantTypes DEF Grants
  <2>3. Limit * (1 + begins[g]) = Limit * begins[g] + Limit
    BY GrantTypes
  <2> QED
    BY <2>1, <2>2, <2>3, GrantTypes
<1>2. Init => Inv /\ Grants
  BY InitInv, InitGrants
<1>3. (Inv /\ Grants) /\ [Next]_vars => (Inv /\ Grants)'
  BY NextInv, NextGrants
<1> QED
  BY <1>1, <1>2, <1>3, PTL DEF Spec
------------------------------------------------------------------------------
(* What is kept in the file of a session (SessionFile).                    *)

(* What a function makes of a finite set is finite.                        *)
LEMMA ImageFinite ==
    ASSUME NEW S, IsFiniteSet(S), NEW T, NEW f \in [S -> T], \A t \in T : \E x \in S : f[x] = t
    PROVE  IsFiniteSet(T)
<1>1. f \in Surjection(S, T)
  BY DEF Surjection
<1>. QED BY <1>1, FS_Surjection

(* A finite set leaves one of the first numbers unused.                    *)
LEMMA UnusedIsNew ==
    ASSUME NEW S, IsFiniteSet(S)
    PROVE  Unused(S) \in Nat \ {0} /\ Unused(S) \notin S
<1>1. Cardinality(S) \in Nat
  BY FS_CardinalityType
<1>2. /\ IsFiniteSet(1..Cardinality(S) + 1)
      /\ Cardinality(1..Cardinality(S) + 1) = Cardinality(S) + 1
  <2>1. Cardinality(S) + 1 \in Int /\ ~(1 > Cardinality(S) + 1)
    BY <1>1
  <2>. QED BY <1>1, <2>1, FS_Interval
<1>3. ~(1..Cardinality(S) + 1 \subseteq S)
  <2>. SUFFICES ASSUME 1..Cardinality(S) + 1 \subseteq S PROVE FALSE
    OBVIOUS
  <2>1. Cardinality(1..Cardinality(S) + 1) <= Cardinality(S)
    BY FS_Subset
  <2>. QED BY <1>1, <1>2, <2>1
<1>4. Unused(S) \in 1..Cardinality(S) + 1 /\ Unused(S) \notin S
  BY <1>3 DEF Unused
<1>. QED BY <1>1, <1>4

LEMMA NewNumbers == NewId \in Nat \ {0} /\ NewCell \in Nat \ {0}
<1>0. IsFiniteSet(Saver)
  BY SessionFileAssumption
<1>1. IsFiniteSet({save[s].from : s \in Saver})
  <2>. DEFINE f == [s \in Saver |-> save[s].from]
  <2>1. /\ f \in [Saver -> {save[s].from : s \in Saver}]
        /\ \A t \in {save[s].from : s \in Saver} : \E s \in Saver : f[s] = t
    OBVIOUS
  <2>. HIDE DEF f
  <2>. QED BY <1>0, <2>1, ImageFinite
<1>2. IsFiniteSet({save[s].copy : s \in Saver})
  <2>. DEFINE f == [s \in Saver |-> save[s].copy]
  <2>1. /\ f \in [Saver -> {save[s].copy : s \in Saver}]
        /\ \A t \in {save[s].copy : s \in Saver} : \E s \in Saver : f[s] = t
    OBVIOUS
  <2>. HIDE DEF f
  <2>. QED BY <1>0, <2>1, ImageFinite
<1>3. IsFiniteSet({memory, stray, cache})
  <2>1. IsFiniteSet({memory}) /\ {memory, stray, cache} = ({memory} \cup {stray}) \cup {cache}
    BY FS_Singleton
  <2>2. IsFiniteSet({memory} \cup {stray})
    BY <2>1, FS_AddElement
  <2>. QED BY <2>1, <2>2, FS_AddElement
<1>4. IsFiniteSet(Present)
  <2>1. IsFiniteSet({memory, stray, cache} \cup {save[s].from : s \in Saver})
    BY <1>1, <1>3, FS_Union
  <2>. QED BY <1>2, <2>1, FS_Union DEF Present
<1>5. IsFiniteSet({o.id : o \in Present})
  <2>. DEFINE f == [o \in Present |-> o.id]
  <2>1. /\ f \in [Present -> {o.id : o \in Present}]
        /\ \A t \in {o.id : o \in Present} : \E o \in Present : f[o] = t
    OBVIOUS
  <2>. QED BY <1>4, <2>1, ImageFinite
<1>6. IsFiniteSet({o.cell : o \in Present})
  <2>. DEFINE f == [o \in Present |-> o.cell]
  <2>1. /\ f \in [Present -> {o.cell : o \in Present}]
        /\ \A t \in {o.cell : o \in Present} : \E o \in Present : f[o] = t
    OBVIOUS
  <2>. QED BY <1>4, <2>1, ImageFinite
<1>. QED BY <1>5, <1>6, UnusedIsNew DEF NewId, NewCell

(* Where a save is, what it saves and what it has open.                    *)
SaveRecord == [pc : {"idle", "open", "write", "rename", "cache"},
               from : SessionObject, copy : SessionObject,
               fd : {"none", "tmp", "file", "gone"}, attempt : Nat]

FileTypes ==
    /\ clock \in 1..MaxVersion
    /\ memory \in SessionObject /\ stray \in SessionObject /\ cache \in SessionObject
    /\ file \in Document /\ tmp \in Document
    /\ save \in [Saver -> SaveRecord]
    /\ load \in [pc : {"idle", "read"}, read : Document]
    /\ delete \in {"idle", "file", "tmp"}
    /\ overlapped \in BOOLEAN /\ split \in BOOLEAN

(* An object and a document of this session; no later version than the     *)
(* last one exists.                                                        *)
Real(o) == o.id # 0 /\ o.cell # 0 /\ o.own \in 1..clock

Copied(r) == r.pc \in {"write", "rename", "cache"}

Stored ==
    /\ memory # Nil => Real(memory)
    /\ stray # Nil => Real(stray)
    /\ cache # Nil => Real(cache)
    /\ \A s \in Saver : save[s].pc # "idle" => Real(save[s].from)
    /\ \A s \in Saver : Copied(save[s]) => save[s].copy.cell # 0 /\ save[s].copy.own \in 1..clock
    /\ file \notin {Empty, Absent} => file.own \in 1..clock
    /\ tmp \notin {Empty, Absent} => tmp.own \in 1..clock
    /\ load.pc = "read" /\ load.read # Empty => load.read.own \in 1..clock

(* The second says no less than the first, a document or an object; and no *)
(* more, up to a checkpoint completed since.                               *)
Before(d, o) == d.own <= o.own /\ (d.own = o.own /\ d.done => o.done)
Tells(d, o) == d.own = o.own /\ (d.done => o.done)

(* As long as no save has met another or a deletion, a save is alone with  *)
(* its files, from the temporary one to the one it leaves behind.          *)
SaveAlone ==
    /\ \A s, t \in Saver : save[s].pc # "idle" /\ save[t].pc # "idle" => s = t
    /\ delete # "idle" => (\A s \in Saver : save[s].pc = "idle") /\ cache = Nil /\ load.pc = "idle"
    /\ \A s \in Saver :
          /\ save[s].fd = IF save[s].pc = "write" THEN "tmp" ELSE "none"
          /\ save[s].pc = "rename" => Tells(tmp, save[s].copy)
          /\ save[s].pc = "cache" /\ file # Absent => Tells(file, save[s].copy)

(* Then what is read is what the file holds, and what is cached is not     *)
(* behind it, except between the rename and the update of the cache.       *)
CacheFollows ==
    /\ file # Empty
    /\ (\A s \in Saver : save[s].pc # "cache") =>
          /\ load.pc = "read" /\ cache = Nil => load.read = file
          /\ delete = "idle" /\ cache # Nil => NotBehind(cache)

(* And the session in memory, when it is the only object that is held or   *)
(* saved, is not behind what was saved or is being saved.                  *)
InMemory ==
    ~split /\ memory # Nil =>
        /\ stray = Nil
        /\ NotBehind(memory)
        /\ \A s \in Saver : save[s].pc # "idle" => save[s].from = memory
        /\ \A s \in Saver : Copied(save[s]) => Before(save[s].copy, memory)

FileIInv == FileTypes /\ Stored /\ (~overlapped => SaveAlone /\ CacheFollows /\ InMemory)

LEMMA Named ==
    /\ Nil \in SessionObject /\ Nil.id = 0 /\ Nil.cell = 0 /\ Nil.own = 0
    /\ Empty \in Document /\ Empty.own = 0
    /\ Absent \in Document /\ Absent.own = MaxVersion + 1
    /\ Resting \in SaveRecord /\ Resting.pc = "idle" /\ Resting.fd = "none"
    /\ Resting.from = Nil /\ Resting.copy = Nil /\ Resting.attempt = 0
    /\ NoLoad \in [pc : {"idle", "read"}, read : Document] /\ NoLoad.pc = "idle"
<1>1. Nil \in SessionObject /\ Nil.id = 0 /\ Nil.cell = 0 /\ Nil.own = 0
  BY DEF Nil, SessionObject
<1>2. Empty \in Document /\ Empty.own = 0
  BY DEF Empty, Document
<1>3. Absent \in Document /\ Absent.own = MaxVersion + 1
  BY SessionFileAssumption DEF Absent, Document
<1>4. /\ Resting \in SaveRecord /\ Resting.pc = "idle" /\ Resting.fd = "none"
      /\ Resting.from = Nil /\ Resting.copy = Nil /\ Resting.attempt = 0
  BY <1>1 DEF Resting, SaveRecord
<1>5. NoLoad \in [pc : {"idle", "read"}, read : Document] /\ NoLoad.pc = "idle"
  BY <1>2 DEF NoLoad
<1>. QED BY <1>1, <1>2, <1>3, <1>4, <1>5

LEMMA FileInitInv == FileInit => FileIInv
<1>. SUFFICES ASSUME FileInit PROVE FileIInv
  OBVIOUS
<1>0. 1 \in 1..MaxVersion
  BY SessionFileAssumption
<1>1. /\ memory \in SessionObject /\ memory.id = 1 /\ memory.own = 1 /\ memory.cell = 1
  BY DEF FileInit, SessionObject
<1>2. /\ clock = 1 /\ stray = Nil /\ cache = Nil /\ file = Absent /\ tmp = Absent
      /\ load = NoLoad /\ delete = "idle" /\ overlapped = FALSE /\ split = FALSE
      /\ save = [s \in Saver |-> Resting]
  BY DEF FileInit
<1>3. \A s \in Saver : save[s].pc = "idle" /\ save[s].fd = "none"
  BY <1>2, Named
<1>4. FileTypes
  BY <1>0, <1>1, <1>2, Named DEF FileTypes
<1>5. Stored
  BY <1>1, <1>2, <1>3, Named DEF Stored, Real, Copied
<1>6. SaveAlone
  BY <1>2, <1>3 DEF SaveAlone
<1>7. CacheFollows
  <2>1. Absent # Empty
    BY SessionFileAssumption, Named
  <2>. QED BY <1>2, <2>1, Named DEF CacheFollows
<1>8. InMemory
  BY <1>2, <1>3 DEF InMemory, NotBehind, Copied
<1>. QED BY <1>4, <1>5, <1>6, <1>7, <1>8 DEF FileIInv

(* A path that is moved changes only who has a file open there.            *)
LEMMA MovedType ==
    ASSUME NEW sv \in [Saver -> SaveRecord], NEW from, NEW to \in {"none", "tmp", "file", "gone"}
    PROVE  /\ Moved(sv, from, to) \in [Saver -> SaveRecord]
           /\ \A s \in Saver : sv[s].fd # from => Moved(sv, from, to)[s] = sv[s]
           /\ \A s \in Saver : /\ Moved(sv, from, to)[s].pc = sv[s].pc
                               /\ Moved(sv, from, to)[s].from = sv[s].from
                               /\ Moved(sv, from, to)[s].copy = sv[s].copy
<1>1. ASSUME NEW s \in Saver
      PROVE  /\ [sv[s] EXCEPT !.fd = to] \in SaveRecord
             /\ [sv[s] EXCEPT !.fd = to].pc = sv[s].pc
             /\ [sv[s] EXCEPT !.fd = to].from = sv[s].from
             /\ [sv[s] EXCEPT !.fd = to].copy = sv[s].copy
  BY DEF SaveRecord
<1>. QED BY <1>1 DEF Moved

(* A save of o begins; an eviction drops the session.                      *)
LEMMA StartInv ==
    ASSUME FileIInv, NEW s \in Saver, NEW o \in {memory, stray}, o # Nil, Start(s, o),
           \/ memory' = memory /\ stray' = stray
           \/ memory' = Nil /\ stray' \in {stray, memory}
    PROVE  FileIInv'
<1>. DEFINE r == [Resting EXCEPT !.pc = "open", !.from = o]
<1>. USE DEF FileIInv
<1>1. r \in SaveRecord /\ r.pc = "open" /\ r.from = o /\ r.fd = "none"
  BY Named DEF SaveRecord, FileTypes
<1>2. /\ save[s].pc = "idle" /\ save' = [save EXCEPT ![s] = r]
      /\ overlapped' = (overlapped \/ Saving # {} \/ delete # "idle")
      /\ UNCHANGED <<clock, cache, file, tmp, load, delete, split>>
  BY DEF Start
<1>. HIDE DEF r
<1>3. \A t \in Saver : save'[t] = IF t = s THEN r ELSE save[t]
  BY <1>2 DEF FileTypes
<1>4. FileTypes'
  <2>1. save' \in [Saver -> SaveRecord]
    BY <1>1, <1>2 DEF FileTypes
  <2>. QED BY <1>2, <2>1, Named DEF FileTypes
<1>5. Stored'
  <2>1. Real(o)
    BY DEF Stored
  <2>. QED BY <1>1, <1>2, <1>3, <2>1 DEF Stored, Real, Copied
<1>6. ASSUME ~overlapped'
      PROVE  SaveAlone' /\ CacheFollows' /\ InMemory'
  <2>1. ~overlapped /\ Saving = {} /\ delete = "idle"
    BY <1>2, <1>6 DEF FileTypes
  <2>2. SaveAlone /\ CacheFollows /\ InMemory
    BY <2>1
  <2>3. \A t \in Saver : save[t].pc = "idle"
    BY <2>1 DEF Saving
  <2>4. SaveAlone'
    <3>1. \A t \in Saver : t # s => save'[t].pc = "idle" /\ save'[t].fd = "none"
      BY <1>3, <2>2, <2>3 DEF SaveAlone
    <3>2. save'[s].pc = "open" /\ save'[s].fd = "none"
      BY <1>1, <1>3
    <3>. QED BY <1>2, <2>1, <3>1, <3>2 DEF SaveAlone
  <2>5. CacheFollows'
    BY <1>1, <1>2, <1>3, <2>2, <2>3 DEF CacheFollows, NotBehind
  <2>6. InMemory'
    <3>1. CASE memory' = Nil
      BY <3>1 DEF InMemory
    <3>2. CASE memory' = memory /\ stray' = stray /\ memory # Nil /\ ~split
      <4>1. stray = Nil /\ NotBehind(memory) /\ o = memory
        BY <2>2, <3>2 DEF InMemory
      <4>2. \A t \in Saver : ~Copied(save'[t]) /\ (save'[t].pc # "idle" => save'[t].from = memory)
        BY <1>1, <1>3, <2>3, <4>1 DEF Copied
      <4>. QED BY <1>2, <3>2, <4>1, <4>2 DEF InMemory, NotBehind
    <3>. QED BY <1>2, <3>1, <3>2 DEF InMemory
  <2>. QED BY <2>4, <2>5, <2>6
<1>. QED BY <1>4, <1>5, <1>6

(* The step of a save that is under way, or the end of it: what has to be  *)
(* known of the save, the file and the cache.                              *)
LEMMA SaveStepInv ==
    ASSUME FileIInv, FileTypes', Stored', NEW s \in Saver, save[s].pc # "idle",
           UNCHANGED <<clock, memory, stray, load, delete, overlapped, split>>,
           ~overlapped =>
              /\ \A t \in Saver : t # s => save'[t] = save[t]
              /\ save'[s].fd = IF save'[s].pc = "write" THEN "tmp" ELSE "none"
              /\ save'[s].pc # "idle" => save'[s].from = save[s].from
              /\ save'[s].pc = "rename" => Tells(tmp', save'[s].copy)
              /\ Copied(save'[s]) => \/ Copied(save[s]) /\ save'[s].copy = save[s].copy
                                     \/ save'[s].copy.own = save[s].from.own
                                          /\ save'[s].copy.done = save[s].from.done
              /\ \/ file' = file /\ cache' = cache /\ save[s].pc # "cache" /\ save'[s].pc # "cache"
                 \/ /\ save'[s].pc = "cache" /\ cache' = cache
                    /\ file' # Empty /\ Tells(file', save'[s].copy) 
                 \/ /\ save[s].pc = "cache" /\ save'[s].pc = "idle" /\ file' = file /\ cache' # Nil
                    /\ cache'.own = save[s].copy.own /\ cache'.done = save[s].copy.done
    PROVE  FileIInv'
<1>. USE DEF FileIInv
<1>. SUFFICES ASSUME ~overlapped
              PROVE  SaveAlone' /\ CacheFollows' /\ InMemory'
  OBVIOUS
<1>1. SaveAlone /\ CacheFollows /\ InMemory
  OBVIOUS
<1>2. /\ delete = "idle" /\ delete' = "idle"
      /\ \A t \in Saver : t # s => save[t].pc = "idle" /\ save'[t] = save[t]
  BY <1>1 DEF SaveAlone
<1>3. SaveAlone'
  <2>1. \A t \in Saver : t # s => save'[t].pc = "idle" /\ save'[t].fd = "none"
    BY <1>1, <1>2 DEF SaveAlone
  <2>2. save'[s].pc = "cache" => Tells(file', save'[s].copy)
    OBVIOUS
  <2>. QED BY <1>2, <2>1, <2>2 DEF SaveAlone
<1>4. CacheFollows'
  <2>1. CASE file' = file /\ cache' = cache /\ save[s].pc # "cache" /\ save'[s].pc # "cache"
    <3>1. \A t \in Saver : save[t].pc # "cache"
      BY <1>2, <2>1
    <3>. QED BY <1>1, <2>1, <3>1 DEF CacheFollows, NotBehind
  <2>2. CASE save'[s].pc = "cache" /\ file' # Empty
    BY <2>2 DEF CacheFollows
  <2>3. CASE /\ save[s].pc = "cache" /\ file' = file /\ cache' # Nil
             /\ cache'.own = save[s].copy.own /\ cache'.done = save[s].copy.done
    <3>1. file # Absent => Tells(file, save[s].copy)
      BY <1>1, <2>3 DEF SaveAlone
    <3>2. save[s].copy.own \in Nat
      BY DEF FileTypes, SaveRecord, SessionObject
    <3>3. NotBehind(cache)'
      BY <2>3, <3>1, <3>2 DEF NotBehind, Tells
    <3>. QED BY <1>1, <2>3, <3>3 DEF CacheFollows
  <2>. QED BY <2>1, <2>2, <2>3
<1>5. InMemory'
  <2>. SUFFICES ASSUME ~split, memory # Nil
                PROVE  /\ NotBehind(memory)'
                       /\ \A t \in Saver : save'[t].pc # "idle" => save'[t].from = memory
                       /\ \A t \in Saver : Copied(save'[t]) => Before(save'[t].copy, memory)
    BY <1>1 DEF InMemory
  <2>1. stray = Nil /\ NotBehind(memory) /\ save[s].from = memory /\ memory.own \in Nat
    BY <1>1 DEF InMemory, FileTypes, SessionObject
  <2>2. Copied(save'[s]) => Before(save'[s].copy, memory)
    <3>1. CASE Copied(save[s]) /\ save'[s].copy = save[s].copy
      BY <1>1, <3>1 DEF InMemory
    <3>2. CASE save'[s].copy.own = memory.own /\ save'[s].copy.done = memory.done
      BY <2>1, <3>2 DEF Before
    <3>. QED BY <2>1, <3>1, <3>2
  <2>3. NotBehind(memory)'
    <3>1. CASE file' = file
      BY <2>1, <3>1 DEF NotBehind
    <3>2. CASE save'[s].pc = "cache" /\ Tells(file', save'[s].copy)
      <4>1. Before(save'[s].copy, memory)
        BY <2>2, <3>2 DEF Copied
      <4>. QED BY <3>2, <4>1 DEF NotBehind, Before, Tells
    <3>. QED BY <3>1, <3>2
  <2>4. \A t \in Saver : t # s => save'[t].pc = "idle"
    BY <1>2
  <2>. QED BY <2>1, <2>2, <2>3, <2>4 DEF Copied
<1>. QED BY <1>3, <1>4, <1>5

(* An assignment to the object in memory, or to a stray one.               *)
LEMMA ChangeInv ==
    ASSUME FileIInv, NEW o \in {memory, stray}, o # Nil, NEW renew \in BOOLEAN, Change(o, renew)
    PROVE  FileIInv'
<1>. USE DEF FileIInv
<1>1. Real(o) /\ o \in SessionObject /\ clock + 1 \in 1..MaxVersion /\ clock' = clock + 1 /\ clock \in Nat
  BY SessionFileAssumption DEF Stored, FileTypes, Change
<1>2. PICK new \in SessionObject :
        /\ new.id = o.id /\ new.own = clock + 1 /\ new.cell # 0
        /\ memory' = Assigned(memory, o, new) /\ stray' = Assigned(stray, o, new)
        /\ cache' = Assigned(cache, o, new)
        /\ save' = [s \in Saver |-> [save[s] EXCEPT !.from = Assigned(@, o, new)]]
  <2>. DEFINE n == [o EXCEPT !.own = clock + 1,
                             !.cell = IF renew THEN NewCell ELSE @,
                             !.done = IF renew THEN FALSE ELSE @]
  <2>1. n \in SessionObject /\ n.id = o.id /\ n.own = clock + 1 /\ n.cell # 0
    <3>2. o.cell \in Nat \ {0} /\ o.done \in BOOLEAN /\ clock + 1 \in Nat
      BY <1>1 DEF SessionObject, Real
    <3>3. (IF renew THEN NewCell ELSE o.cell) \in Nat \ {0}
      BY <3>2, NewNumbers, Zenon
    <3>4. (IF renew THEN FALSE ELSE o.done) \in BOOLEAN
      BY <3>2, Zenon
    <3>0. PICK v \in Nat, c \in Nat, d \in BOOLEAN :
            v = clock + 1 /\ c # 0 /\ c = (IF renew THEN NewCell ELSE o.cell)
                          /\ d = (IF renew THEN FALSE ELSE o.done)
      BY <3>2, <3>3, <3>4, Zenon
    <3>1. n = [o EXCEPT !.own = v, !.cell = c, !.done = d]
      BY <3>0
    <3>. HIDE DEF n
    <3>. QED BY <1>1, <3>0, <3>1 DEF SessionObject
  <2>. HIDE DEF n
  <2>2. /\ memory' = Assigned(memory, o, n) /\ stray' = Assigned(stray, o, n)
        /\ cache' = Assigned(cache, o, n)
        /\ save' = [s \in Saver |-> [save[s] EXCEPT !.from = Assigned(@, o, n)]]
    BY DEF Change, n
  <2>. QED BY <2>1, <2>2
<1>3. UNCHANGED <<file, tmp, load, delete, overlapped, split>>
  BY DEF Change
<1>4. ASSUME NEW p \in SessionObject
      PROVE  /\ Assigned(p, o, new) \in SessionObject
             /\ Assigned(p, o, new) = new \/ Assigned(p, o, new) = p
             /\ Assigned(p, o, new) = Nil <=> p = Nil
  <2>1. Nil.id # o.id /\ new # Nil
    BY <1>1, <1>2, Named DEF Real
  <2>. QED BY <1>2, <2>1 DEF Assigned
<1>5. \A s \in Saver : /\ save'[s] \in SaveRecord /\ save'[s].pc = save[s].pc /\ save'[s].fd = save[s].fd
                       /\ save'[s].copy = save[s].copy /\ save[s].from \in SessionObject
                       /\ save'[s].from = Assigned(save[s].from, o, new)
  BY <1>2, <1>4 DEF FileTypes, SaveRecord
<1>6. FileTypes'
  <2>1. save' \in [Saver -> SaveRecord]
    BY <1>2, <1>5
  <2>. QED BY <1>1, <1>2, <1>3, <1>4, <2>1 DEF FileTypes
<1>7. Stored'
  <2>1. new.id # 0 /\ new.cell # 0 /\ new.own \in 1..clock'
    BY <1>1, <1>2 DEF Real
  <2>2. 1..clock \subseteq 1..clock'
    BY <1>1
  <2>3. ASSUME NEW p \in SessionObject, Real(p)
        PROVE  /\ Assigned(p, o, new).id # 0 /\ Assigned(p, o, new).cell # 0
               /\ Assigned(p, o, new).own \in 1..clock'
    BY <1>4, <2>1, <2>2, <2>3 DEF Real
  <2>4. (memory' # Nil => Real(memory)') /\ (stray' # Nil => Real(stray)') /\ (cache' # Nil => Real(cache)')
    BY <1>2, <1>4, <2>3 DEF Stored, FileTypes, Real
  <2>5. \A s \in Saver : save'[s].pc # "idle" => Real(save[s].from)'
    BY <1>5, <2>3 DEF Stored, Real
  <2>6. \A s \in Saver : Copied(save'[s]) => save'[s].copy.cell # 0 /\ save'[s].copy.own \in 1..clock'
    BY <1>5, <2>2 DEF Stored, Copied
  <2>. QED BY <1>3, <2>2, <2>4, <2>5, <2>6 DEF Stored
<1>8. ASSUME ~overlapped
      PROVE  SaveAlone' /\ CacheFollows' /\ InMemory'
  <2>1. SaveAlone /\ CacheFollows /\ InMemory
    BY <1>8
  <2>2. SaveAlone'
    <3>1. cache' = Nil <=> cache = Nil
      BY <1>2, <1>4 DEF FileTypes
    <3>. QED BY <1>3, <1>5, <2>1, <3>1 DEF SaveAlone
  <2>3. file # Absent => file.own <= clock
    BY <1>1, <2>1 DEF CacheFollows, Stored
  <2>4. file # Absent => file.own < new.own
    BY <1>1, <1>2, <2>3 DEF FileTypes, Document
  <2>5. CacheFollows'
    <3>1. cache' = new \/ cache' = cache
      BY <1>2, <1>4 DEF FileTypes
    <3>2. cache' = Nil <=> cache = Nil
      BY <1>2, <1>4 DEF FileTypes
    <3>3. file.own \in Nat /\ new.own \in Nat
      BY <1>2 DEF FileTypes, Document, SessionObject
    <3>4. cache' = new => NotBehind(cache)'
      BY <1>3, <2>4, <3>3 DEF NotBehind
    <3>5. cache' = cache /\ NotBehind(cache) => NotBehind(cache)'
      BY <1>3 DEF NotBehind
    <3>. QED BY <1>3, <1>5, <2>1, <3>1, <3>2, <3>4, <3>5 DEF CacheFollows
  <2>6. InMemory'
    <3>. SUFFICES ASSUME ~split, memory' # Nil
                  PROVE  /\ stray' = Nil
                         /\ NotBehind(memory)'
                         /\ \A s \in Saver : save'[s].pc # "idle" => save'[s].from = memory'
                         /\ \A s \in Saver : Copied(save'[s]) => Before(save'[s].copy, memory')
      BY <1>3 DEF InMemory
    <3>1. memory # Nil
      BY <1>2, <1>4 DEF FileTypes
    <3>2. stray = Nil /\ o = memory
      BY <2>1, <3>1 DEF InMemory
    <3>3. memory' = new /\ stray' = Nil
      BY <1>2, <1>4, <3>2 DEF Assigned, FileTypes
    <3>4. NotBehind(memory)'
      BY <1>2, <1>3, <2>4, <3>3 DEF NotBehind, FileTypes, Document
    <3>5. \A s \in Saver : save'[s].pc # "idle" => save'[s].from = memory'
      BY <1>5, <2>1, <3>1, <3>2, <3>3 DEF InMemory, Assigned
    <3>6. \A s \in Saver : Copied(save'[s]) => Before(save'[s].copy, memory')
      <4>1. ASSUME NEW s \in Saver, Copied(save'[s])
            PROVE  save'[s].copy.own < new.own
        BY <1>1, <1>2, <1>5, <4>1 DEF Stored, Copied
      <4>2. \A s \in Saver : save'[s].copy.own \in Nat /\ new.own \in Nat
        BY <1>2, <1>5 DEF FileTypes, SaveRecord, SessionObject
      <4>. QED BY <3>3, <4>1, <4>2 DEF Before
    <3>. QED BY <3>3, <3>4, <3>5, <3>6
  <2>. QED BY <2>2, <2>5, <2>6
<1>. QED BY <1>3, <1>6, <1>7, <1>8

(* A checkpoint is completed, in every object that points to it.           *)
LEMMA CompleteInv ==
    ASSUME FileIInv, NEW o \in {memory, stray}, o # Nil, CompleteCheckpoint(o)
    PROVE  FileIInv'
<1>. USE DEF FileIInv
<1>1. Real(o)
  BY DEF Stored
<1>2. /\ memory' = Completed(memory, o) /\ stray' = Completed(stray, o) /\ cache' = Completed(cache, o)
      /\ save' = [s \in Saver |-> [save[s] EXCEPT !.from = Completed(@, o), !.copy = Completed(@, o)]]
      /\ UNCHANGED <<clock, file, tmp, load, delete, overlapped, split>>
  BY DEF CompleteCheckpoint
<1>3. ASSUME NEW p \in SessionObject
      PROVE  /\ Completed(p, o) \in SessionObject
             /\ Completed(p, o).id = p.id /\ Completed(p, o).cell = p.cell /\ Completed(p, o).own = p.own
             /\ p.done => Completed(p, o).done
             /\ p.cell = o.cell => Completed(p, o).done
             /\ Completed(p, o) = Nil <=> p = Nil
             /\ Real(Completed(p, o)) <=> Real(p)
  <2>1. /\ Completed(p, o) \in SessionObject
        /\ Completed(p, o).id = p.id /\ Completed(p, o).cell = p.cell /\ Completed(p, o).own = p.own
        /\ p.done => Completed(p, o).done
        /\ p.cell = o.cell => Completed(p, o).done
    BY DEF Completed, SessionObject
  <2>2. Completed(p, o) = Nil <=> p = Nil
    BY <1>1, <2>1, Named DEF Completed, Real
  <2>. QED BY <2>1, <2>2 DEF Real
<1>4. \A s \in Saver : /\ save'[s] \in SaveRecord /\ save'[s].pc = save[s].pc /\ save'[s].fd = save[s].fd
                       /\ save[s].from \in SessionObject /\ save'[s].from = Completed(save[s].from, o)
                       /\ save[s].copy \in SessionObject /\ save'[s].copy = Completed(save[s].copy, o)
  <2>. SUFFICES ASSUME NEW s \in Saver
                PROVE  /\ save'[s] \in SaveRecord /\ save'[s].pc = save[s].pc /\ save'[s].fd = save[s].fd
                       /\ save[s].from \in SessionObject /\ save'[s].from = Completed(save[s].from, o)
                       /\ save[s].copy \in SessionObject /\ save'[s].copy = Completed(save[s].copy, o)
    OBVIOUS
  <2>1. save[s] \in SaveRecord
    BY DEF FileTypes
  <2>2. PICK f \in SessionObject, c \in SessionObject :
          /\ f = Completed(save[s].from, o) /\ c = Completed(save[s].copy, o)
    BY <1>3, <2>1 DEF SaveRecord
  <2>3. save'[s] = [save[s] EXCEPT !.from = f, !.copy = c]
    BY <1>2, <2>1, <2>2 DEF SaveRecord
  <2>4. save'[s] \in SaveRecord /\ save'[s].pc = save[s].pc /\ save'[s].fd = save[s].fd
        /\ save'[s].from = f /\ save'[s].copy = c
    BY <2>1, <2>2, <2>3 DEF SaveRecord
  <2>. QED BY <2>1, <2>2, <2>4 DEF SaveRecord
<1>5. FileTypes'
  <2>1. save' \in [Saver -> SaveRecord]
    BY <1>2, <1>4
  <2>. QED BY <1>2, <1>3, <2>1 DEF FileTypes
<1>6. Stored'
  <2>1. (memory' # Nil => Real(memory)') /\ (stray' # Nil => Real(stray)') /\ (cache' # Nil => Real(cache)')
    BY <1>2, <1>3 DEF Stored, FileTypes, Real
  <2>2. \A s \in Saver : save'[s].pc # "idle" => Real(save[s].from)'
    <3>1. clock' = clock
      BY <1>2
    <3>. QED BY <1>3, <1>4, <3>1 DEF Stored, Real
  <2>3. \A s \in Saver : Copied(save'[s]) => save'[s].copy.cell # 0 /\ save'[s].copy.own \in 1..clock'
    <3>1. clock' = clock
      BY <1>2
    <3>. QED BY <1>3, <1>4, <3>1 DEF Stored, Copied
  <2>. QED BY <1>2, <2>1, <2>2, <2>3 DEF Stored
<1>7. ASSUME ~overlapped
      PROVE  SaveAlone' /\ CacheFollows' /\ InMemory'
  <2>1. SaveAlone /\ CacheFollows /\ InMemory
    BY <1>7
  <2>2. SaveAlone'
    <3>1. \A s \in Saver : \A d \in Document : Tells(d, save[s].copy) => Tells(d, save'[s].copy)
      BY <1>3, <1>4 DEF Tells
    <3>2. cache' = Nil <=> cache = Nil
      BY <1>2, <1>3 DEF FileTypes
    <3>3. UNCHANGED <<file, tmp, load, delete>> /\ file \in Document /\ tmp \in Document
      BY <1>2 DEF FileTypes
    <3>. QED BY <1>4, <2>1, <3>1, <3>2, <3>3 DEF SaveAlone
  <2>3. CacheFollows'
    <3>1. (cache' = Nil <=> cache = Nil) /\ cache'.own = cache.own /\ (cache.done => cache'.done)
      BY <1>2, <1>3 DEF FileTypes
    <3>. QED BY <1>2, <1>4, <2>1, <3>1 DEF CacheFollows, NotBehind
  <2>4. InMemory'
    <3>. SUFFICES ASSUME ~split, memory' # Nil
                  PROVE  /\ stray' = Nil
                         /\ NotBehind(memory)'
                         /\ \A s \in Saver : save'[s].pc # "idle" => save'[s].from = memory'
                         /\ \A s \in Saver : Copied(save'[s]) => Before(save'[s].copy, memory')
      BY <1>2 DEF InMemory
    <3>1. memory # Nil
      BY <1>2, <1>3 DEF FileTypes
    <3>2. stray = Nil /\ o = memory /\ NotBehind(memory)
      BY <2>1, <3>1 DEF InMemory
    <3>3. memory'.own = memory.own /\ memory'.done /\ stray' = Nil
      BY <1>2, <1>3, <3>2 DEF FileTypes
    <3>4. NotBehind(memory)'
      BY <1>2, <3>2, <3>3 DEF NotBehind
    <3>5. \A s \in Saver : save'[s].pc # "idle" => save'[s].from = memory'
      BY <1>2, <1>4, <2>1, <3>1 DEF InMemory
    <3>6. \A s \in Saver : Copied(save'[s]) => Before(save'[s].copy, memory')
      <4>1. \A s \in Saver : save'[s].copy.own = save[s].copy.own
        BY <1>3, <1>4
      <4>. QED BY <1>4, <2>1, <3>1, <3>3, <4>1 DEF InMemory, Before, Copied
    <3>. QED BY <3>3, <3>4, <3>5, <3>6
  <2>. QED BY <2>2, <2>3, <2>4
<1>. QED BY <1>2, <1>5, <1>6, <1>7

(* The steps of a save.                                                    *)
LEMMA PersistInv ==
    ASSUME FileIInv, NEW s \in Saver, PersistStep(s)
    PROVE  FileIInv'
<1>. USE DEF FileIInv
<1>0. save[s] \in SaveRecord /\ save[s].from \in SessionObject /\ save[s].copy \in SessionObject
  BY DEF FileTypes, SaveRecord
<1>1. CASE OpenTmp(s)
  <2>1. /\ save[s].pc = "open" /\ tmp' = Empty
        /\ UNCHANGED <<clock, memory, stray, cache, file, load, delete, overlapped, split>>
    BY <1>1 DEF OpenTmp, objects
  <2>2. PICK c \in SessionObject :
          /\ save' = [save EXCEPT ![s] = [save[s] EXCEPT !.pc = "write", !.fd = "tmp", !.copy = c]]
          /\ c.own = save[s].from.own /\ c.done = save[s].from.done /\ c.cell # 0
    <3>. DEFINE c == [save[s].from EXCEPT !.id = Nil.id, !.cell = IF Redacting THEN NewCell ELSE @]
    <3>1. save[s].from.cell \in Nat \ {0}
      BY <1>0, <2>1 DEF Stored, Real, SessionObject
    <3>2. (IF Redacting THEN NewCell ELSE save[s].from.cell) \in Nat \ {0}
      BY <3>1, NewNumbers, Zenon
    <3>3. PICK i \in Nat, l \in Nat : l # 0 /\ c = [save[s].from EXCEPT !.id = i, !.cell = l]
      BY <3>2, Named
    <3>. HIDE DEF c
    <3>4. c \in SessionObject /\ c.own = save[s].from.own /\ c.done = save[s].from.done /\ c.cell # 0
      BY <1>0, <3>3 DEF SessionObject
    <3>5. save' = [save EXCEPT ![s].pc = "write", ![s].fd = "tmp", ![s].copy = c]
      BY <1>1 DEF OpenTmp, c
    <3>6. save' = [save EXCEPT ![s] = [save[s] EXCEPT !.pc = "write", !.fd = "tmp", !.copy = c]]
      BY <3>5
    <3>. QED BY <3>4, <3>6
  <2>3. PICK r \in SaveRecord :
          /\ r.pc = "write" /\ r.fd = "tmp" /\ r.copy = c /\ r.from = save[s].from
          /\ save' = [save EXCEPT ![s] = r]
    <3>. DEFINE r == [save[s] EXCEPT !.pc = "write", !.fd = "tmp", !.copy = c]
    <3>1. r \in SaveRecord /\ r.pc = "write" /\ r.fd = "tmp" /\ r.copy = c /\ r.from = save[s].from
      BY <1>0 DEF SaveRecord
    <3>. QED BY <2>2, <3>1
  <2>4. save'[s] = r /\ \A t \in Saver : t # s => save'[t] = save[t]
    BY <2>3 DEF FileTypes
  <2>5. FileTypes'
    BY <2>1, <2>3, Named DEF FileTypes
  <2>6. Stored'
    <3>1. Real(save[s].from)
      BY <2>1 DEF Stored
    <3>. QED BY <2>1, <2>2, <2>3, <2>4, <3>1 DEF Stored, Real, Copied
  <2>. QED BY <2>1, <2>2, <2>3, <2>4, <2>5, <2>6, SaveStepInv
<1>2. CASE WriteTmp(s)
  <2>1. /\ save[s].pc = "write"
        /\ tmp' = IF save[s].fd = "tmp" THEN Encoded(save[s].copy) ELSE tmp
        /\ file' = IF save[s].fd = "file" THEN Encoded(save[s].copy) ELSE file
        /\ save' = [save EXCEPT ![s] = [save[s] EXCEPT !.pc = "rename", !.fd = "none"]]
        /\ UNCHANGED <<clock, memory, stray, cache, load, delete, overlapped, split>>
    BY <1>2 DEF WriteTmp, objects
  <2>2. PICK r \in SaveRecord :
          /\ r.pc = "rename" /\ r.fd = "none" /\ r.copy = save[s].copy /\ r.from = save[s].from
          /\ save' = [save EXCEPT ![s] = r]
    <3>. DEFINE r == [save[s] EXCEPT !.pc = "rename", !.fd = "none"]
    <3>1. r \in SaveRecord /\ r.pc = "rename" /\ r.fd = "none" /\ r.copy = save[s].copy /\ r.from = save[s].from
      BY <1>0 DEF SaveRecord
    <3>. QED BY <2>1, <3>1
  <2>3. save'[s] = r /\ \A t \in Saver : t # s => save'[t] = save[t]
    BY <2>2 DEF FileTypes
  <2>4. PICK d \in Document :
          d = Encoded(save[s].copy) /\ d.own = save[s].copy.own /\ d.done = save[s].copy.done
    <3>1. save[s].copy.own \in Nat /\ save[s].copy.done \in BOOLEAN
      BY <1>0 DEF SessionObject
    <3>2. /\ Encoded(save[s].copy) \in Document
          /\ Encoded(save[s].copy).own = save[s].copy.own /\ Encoded(save[s].copy).done = save[s].copy.done
      BY <3>1 DEF Encoded, Document
    <3>. QED BY <3>2
  <2>5. FileTypes'
    BY <2>1, <2>2, <2>4 DEF FileTypes
  <2>6. Stored'
    <3>1. Copied(save[s]) /\ Real(save[s].from) /\ d.own \in 1..clock
      BY <2>1, <2>4 DEF Stored, Copied
    <3>. QED BY <2>1, <2>2, <2>3, <2>4, <3>1 DEF Stored, Real, Copied
  <2>7. ~overlapped => file' = file /\ tmp' = d
    BY <2>1, <2>4 DEF SaveAlone
  <2>8. Tells(d, r.copy) /\ Copied(save[s])
    BY <2>1, <2>2, <2>4 DEF Tells, Copied
  <2>. QED BY <2>1, <2>2, <2>3, <2>5, <2>6, <2>7, <2>8, SaveStepInv
<1>3. CASE save[s].pc \in {"write", "rename"} /\ SaveErrs(s)
  <2>. DEFINE n == IF save[s].attempt < PersistRetries
                   THEN [save[s] EXCEPT !.pc = "open", !.copy = Nil, !.fd = "none", !.attempt = @ + 1]
                   ELSE Resting
              mv == Moved(save, "tmp", "gone")
  <2>1. /\ n \in SaveRecord /\ n.pc \in {"open", "idle"} /\ n.fd = "none"
        /\ n.pc = "open" => n.from = save[s].from
    <3>1. CASE save[s].attempt < PersistRetries
      <4>1. PICK a \in Nat : n = [save[s] EXCEPT !.pc = "open", !.copy = Nil, !.fd = "none", !.attempt = a]
        <5>1. save[s].attempt + 1 \in Nat
          BY <1>0 DEF SaveRecord
        <5>. QED BY <3>1, <5>1
      <4>. HIDE DEF n
      <4>. QED BY <1>0, <4>1, Named DEF SaveRecord
    <3>2. CASE ~(save[s].attempt < PersistRetries)
      <4>1. n = Resting
        BY <3>2
      <4>. HIDE DEF n
      <4>. QED BY <4>1, Named
    <3>. QED BY <3>1, <3>2
  <2>2. /\ mv \in [Saver -> SaveRecord]
        /\ \A t \in Saver : save[t].fd # "tmp" => mv[t] = save[t]
        /\ \A t \in Saver : mv[t].pc = save[t].pc /\ mv[t].from = save[t].from /\ mv[t].copy = save[t].copy
    BY MovedType DEF FileTypes
  <2>3. /\ save' = [mv EXCEPT ![s] = n] /\ tmp' = Absent
        /\ UNCHANGED <<clock, memory, stray, cache, file, load, delete, overlapped, split>>
    BY <1>3 DEF SaveErrs, objects
  <2>. HIDE DEF n, mv
  <2>4. save'[s] = n /\ \A t \in Saver : t # s => save'[t] = mv[t]
    BY <2>2, <2>3
  <2>5. FileTypes'
    BY <2>1, <2>2, <2>3, Named DEF FileTypes
  <2>6. Stored'
    BY <1>3, <2>1, <2>2, <2>3, <2>4 DEF Stored, Real, Copied
  <2>7. ~overlapped => \A t \in Saver : t # s => save[t].fd # "tmp"
    BY <1>3 DEF SaveAlone
  <2>8. save'[s].pc \notin {"write", "rename", "cache"} /\ ~Copied(save'[s])
    BY <2>1, <2>4 DEF Copied
  <2>. QED BY <1>3, <2>1, <2>2, <2>3, <2>4, <2>5, <2>6, <2>7, <2>8, SaveStepInv
<1>4. CASE Rename(s)
  <2>. DEFINE mv == Moved(Moved(save, "file", "gone"), "tmp", "file")
  <2>1. /\ mv \in [Saver -> SaveRecord]
        /\ \A t \in Saver : save[t].fd = "none" => mv[t] = save[t]
        /\ \A t \in Saver : mv[t].pc = save[t].pc /\ mv[t].from = save[t].from /\ mv[t].copy = save[t].copy
    <3>1. PICK m1 \in [Saver -> SaveRecord] :
            /\ m1 = Moved(save, "file", "gone")
            /\ \A t \in Saver : save[t].fd # "file" => m1[t] = save[t]
            /\ \A t \in Saver : m1[t].pc = save[t].pc /\ m1[t].from = save[t].from /\ m1[t].copy = save[t].copy
      BY MovedType DEF FileTypes
    <3>2. /\ mv \in [Saver -> SaveRecord]
          /\ \A t \in Saver : m1[t].fd # "tmp" => mv[t] = m1[t]
          /\ \A t \in Saver : mv[t].pc = m1[t].pc /\ mv[t].from = m1[t].from /\ mv[t].copy = m1[t].copy
      BY <3>1, MovedType
    <3>. HIDE DEF mv
    <3>. QED BY <3>1, <3>2
  <2>2. /\ save' = [mv EXCEPT ![s] = [mv[s] EXCEPT !.pc = "cache"]]
        /\ save[s].pc = "rename" /\ file' = tmp /\ tmp # Absent /\ tmp' = Absent
        /\ UNCHANGED <<clock, memory, stray, cache, load, delete, overlapped, split>>
    BY <1>4, <2>1 DEF Rename, objects
  <2>. HIDE DEF mv
  <2>3. PICK r \in SaveRecord :
          /\ r.pc = "cache" /\ r.fd = mv[s].fd /\ r.copy = save[s].copy /\ r.from = save[s].from
          /\ save' = [mv EXCEPT ![s] = r]
    <3>. DEFINE r == [mv[s] EXCEPT !.pc = "cache"]
    <3>1. r \in SaveRecord /\ r.pc = "cache" /\ r.fd = mv[s].fd /\ r.copy = mv[s].copy /\ r.from = mv[s].from
      BY <2>1 DEF SaveRecord
    <3>. QED BY <2>1, <2>2, <3>1
  <2>4. save'[s] = r /\ \A t \in Saver : t # s => save'[t] = mv[t]
    BY <2>1, <2>3
  <2>5. FileTypes'
    BY <2>1, <2>2, <2>3, Named DEF FileTypes
  <2>6. Stored'
    <3>1. Copied(save[s])
      BY <2>2 DEF Copied
    <3>2. (tmp' \in {Empty, Absent}) /\ (file' \notin {Empty, Absent} => file'.own \in 1..clock')
      BY <2>2 DEF Stored
    <3>3. \A t \in Saver : /\ save'[t].from = save[t].from /\ save'[t].copy = save[t].copy
                           /\ Copied(save'[t]) => Copied(save[t])
                           /\ save'[t].pc # "idle" => save[t].pc # "idle"
      BY <2>1, <2>2, <2>3, <2>4, <3>1 DEF Copied
    <3>4. UNCHANGED <<clock, memory, stray, cache, load>>
      BY <2>2
    <3>. QED BY <3>2, <3>3, <3>4 DEF Stored, Real
  <2>7. ~overlapped => /\ Tells(tmp, save[s].copy) /\ \A t \in Saver : mv[t] = save[t]
                       /\ save[s].fd = "none"
    BY <2>1, <2>2 DEF SaveAlone
  <2>8. Copied(save[s]) /\ save[s].copy.own \in 1..clock
    BY <2>2 DEF Copied, Stored
  <2>9. Tells(tmp, save[s].copy) => tmp # Empty
    BY <2>8, Named DEF Tells, FileTypes
  <2>. QED BY <2>2, <2>3, <2>4, <2>5, <2>6, <2>7, <2>8, <2>9, SaveStepInv
<1>5. CASE CacheSaved(s)
  <2>1. /\ save[s].pc = "cache" /\ save' = [save EXCEPT ![s] = Resting]
        /\ cache' = [save[s].copy EXCEPT !.id = NewId]
        /\ UNCHANGED <<clock, memory, stray, file, tmp, load, delete, overlapped, split>>
    BY <1>5 DEF CacheSaved
  <2>2. PICK i \in Nat \ {0} : i = NewId
    BY NewNumbers
  <2>3. /\ cache' \in SessionObject /\ cache'.id # 0 /\ cache'.own = save[s].copy.own
        /\ cache'.done = save[s].copy.done /\ cache'.cell = save[s].copy.cell
    BY <1>0, <2>1, <2>2 DEF SessionObject
  <2>4. save'[s] = Resting /\ \A t \in Saver : t # s => save'[t] = save[t]
    BY <2>1 DEF FileTypes
  <2>5. FileTypes'
    BY <2>1, <2>3, Named DEF FileTypes
  <2>6. Stored'
    <3>1. save[s].copy.cell # 0 /\ save[s].copy.own \in 1..clock
      BY <2>1 DEF Stored, Copied
    <3>2. Real(cache)'
      BY <2>1, <2>3, <3>1 DEF Real
    <3>3. \A t \in Saver : save'[t].pc # "idle" => save'[t] = save[t]
      BY <2>4, Named
    <3>4. UNCHANGED <<clock, memory, stray, file, tmp, load>>
      BY <2>1
    <3>. QED BY <3>2, <3>3, <3>4 DEF Stored, Real, Copied
  <2>7. cache' # Nil /\ ~Copied(save'[s])
    BY <2>3, <2>4, Named DEF Copied
  <2>8. /\ save'[s].pc = "idle" /\ save'[s].fd = "none" /\ save[s].pc = "cache"
        /\ UNCHANGED <<clock, memory, stray, file, load, delete, overlapped, split>>
    BY <2>1, <2>4, Named
  <2>. QED BY <2>3, <2>4, <2>5, <2>6, <2>7, <2>8, SaveStepInv
<1>. QED BY <1>1, <1>2, <1>3, <1>4, <1>5 DEF PersistStep, WriteFails, RenameFails

(* GetSession has an object o, which becomes the session in memory when    *)
(* there is none.                                                          *)
LEMMA AdmitInv ==
    ASSUME FileIInv, NEW o \in SessionObject, o # Nil, Real(o), Admit(o),
           ~overlapped /\ (\A s \in Saver : save[s].pc = "idle") /\ memory = Nil => NotBehind(o),
           UNCHANGED <<clock, stray, file, tmp, save, delete, overlapped>>,
           cache' \in SessionObject, cache' # Nil => Real(cache'),
           load' \in [pc : {"idle", "read"}, read : Document],
           load'.pc = "read" /\ load'.read # Empty => load'.read.own \in 1..clock,
           ~overlapped => CacheFollows',
           ~overlapped /\ delete # "idle" => cache' = Nil /\ load'.pc = "idle"
    PROVE  FileIInv'
<1>. USE DEF FileIInv
<1>1. \/ memory = Nil /\ memory' = o /\ split' = (split \/ stray # Nil \/ Saving # {})
      \/ memory # Nil /\ UNCHANGED <<memory, split>>
  BY DEF Admit
<1>2. FileTypes'
  BY <1>1 DEF FileTypes
<1>3. Stored'
  BY <1>1 DEF Stored, Real
<1>4. ASSUME ~overlapped
      PROVE  SaveAlone' /\ InMemory'
  <2>1. SaveAlone /\ InMemory
    BY <1>4
  <2>2. SaveAlone'
    BY <1>4, <2>1 DEF SaveAlone
  <2>3. CASE memory = Nil /\ ~split'
    <3>1. memory' = o /\ stray = Nil /\ Saving = {}
      BY <1>1, <2>3 DEF FileTypes
    <3>2. \A s \in Saver : save[s].pc = "idle"
      BY <3>1 DEF Saving
    <3>3. NotBehind(o)
      BY <1>4, <2>3, <3>2
    <3>4. save' = save /\ stray' = Nil /\ NotBehind(memory)'
      BY <3>1, <3>3 DEF NotBehind
    <3>5. \A s \in Saver : save'[s].pc = "idle" /\ ~Copied(save'[s])
      BY <3>2, <3>4 DEF Copied
    <3>. QED BY <2>2, <3>4, <3>5 DEF InMemory
  <2>4. CASE memory # Nil
    <3>1. UNCHANGED <<memory, split, stray, save, file>>
      BY <1>1, <2>4
    <3>2. NotBehind(memory) => NotBehind(memory)'
      BY <3>1 DEF NotBehind
    <3>. QED BY <2>1, <2>2, <3>1, <3>2 DEF InMemory
  <2>5. CASE split'
    BY <2>2, <2>5 DEF InMemory
  <2>. QED BY <2>3, <2>4, <2>5
<1>. QED BY <1>2, <1>3, <1>4

(* A file is removed or moved away, at one path, while no save is at it,   *)
(* or it stays; a load or a deletion goes on.                              *)
LEMMA RemoveInv ==
    ASSUME FileIInv, NEW p \in {"file", "tmp"}, save' = Moved(save, p, "gone") \/ save' = save,
           UNCHANGED <<clock, memory, stray, cache, overlapped, split>>,
           file' \in {file, Absent}, tmp' \in {tmp, Absent},
           p = "tmp" \/ tmp' # tmp => (~overlapped => delete # "idle"),
           delete' \in {"idle", "file", "tmp"}, delete' # "idle" => delete # "idle",
           load' \in {load, NoLoad},
           load' = load /\ load.pc = "read" => overlapped
    PROVE  FileIInv'
<1>. USE DEF FileIInv
<1>1. /\ save' \in [Saver -> SaveRecord]
      /\ \A t \in Saver : save[t].fd # p => save'[t] = save[t]
      /\ \A t \in Saver : /\ save'[t].pc = save[t].pc /\ save'[t].from = save[t].from
                          /\ save'[t].copy = save[t].copy
  BY MovedType DEF FileTypes
<1>2. FileTypes'
  BY <1>1, Named DEF FileTypes
<1>3. Stored'
  <2>1. load'.pc = "read" /\ load'.read # Empty => load'.read.own \in 1..clock
    BY Named DEF Stored
  <2>2. \A t \in Saver : Copied(save'[t]) => Copied(save[t])
    BY <1>1 DEF Copied
  <2>. QED BY <1>1, <2>1, <2>2 DEF Stored, Real
<1>4. ASSUME ~overlapped
      PROVE  SaveAlone' /\ CacheFollows' /\ InMemory'
  <2>1. SaveAlone /\ CacheFollows /\ InMemory
    BY <1>4
  <2>2. load'.pc = "idle"
    BY <1>4, Named DEF FileTypes
  <2>3. \A t \in Saver : save'[t] = save[t]
    BY <1>1, <1>4, <2>1 DEF SaveAlone
  <2>4. tmp' = tmp \/ \A t \in Saver : save[t].pc = "idle"
    BY <1>4, <2>1 DEF SaveAlone
  <2>5. SaveAlone'
    BY <2>1, <2>2, <2>3, <2>4 DEF SaveAlone
  <2>6. Absent # Empty
    BY SessionFileAssumption, Named
  <2>7. delete # "idle" => cache = Nil
    BY <2>1 DEF SaveAlone
  <2>8. CacheFollows'
    BY <2>1, <2>2, <2>3, <2>6, <2>7 DEF CacheFollows, NotBehind
  <2>9. InMemory'
    BY <2>1, <2>3 DEF InMemory, NotBehind, Copied
  <2>. QED BY <2>5, <2>8, <2>9
<1>. QED BY <1>2, <1>3, <1>4

LEMMA FileNextInv == FileIInv /\ [FileNext]_fileVars => FileIInv'
<1>. SUFFICES ASSUME FileIInv, [FileNext]_fileVars
              PROVE  FileIInv'
  OBVIOUS
<1>. USE DEF FileIInv
<1>1. ASSUME NEW o \in Held, NEW renew \in BOOLEAN, Change(o, renew)
      PROVE  FileIInv'
  BY <1>1, ChangeInv DEF Held
<1>2. ASSUME NEW o \in Held, CompleteCheckpoint(o)
      PROVE  FileIInv'
  BY <1>2, CompleteInv DEF Held
<1>3. ASSUME NEW o \in Held, NEW s \in Saver, StartPersist(s, o)
      PROVE  FileIInv'
  BY <1>3, StartInv DEF Held, StartPersist
<1>4. ASSUME NEW s \in Saver, EvictSession(s)
      PROVE  FileIInv'
  <2>1. memory # Nil /\ memory' = Nil /\ stray' \in {stray, memory} /\ Start(s, memory)
    BY <1>4 DEF EvictSession, Dropped
  <2>. QED BY <2>1, StartInv
<1>5. ASSUME \/ memory' = memory /\ stray' = Nil
             \/ memory # Nil /\ memory' = Nil /\ stray' \in {stray, memory},
             UNCHANGED <<clock, cache, file, tmp, save, load, delete, overlapped, split>>
      PROVE  FileIInv'
  <2>1. FileTypes' /\ Stored'
    BY <1>5, Named DEF FileTypes, Stored, Real
  <2>2. SaveAlone => SaveAlone'
    BY <1>5 DEF SaveAlone
  <2>3. CacheFollows => CacheFollows'
    BY <1>5 DEF CacheFollows, NotBehind
  <2>4. InMemory => InMemory'
    BY <1>5 DEF InMemory, NotBehind
  <2>. QED BY <1>5, <2>1, <2>2, <2>3, <2>4
<1>6. CASE LetGo \/ RemoveActive
  BY <1>5, <1>6 DEF LetGo, RemoveActive, Dropped
<1>7. CASE CacheHit
  <2>1. /\ memory = Nil /\ cache # Nil /\ Admit(cache)
        /\ UNCHANGED <<clock, stray, cache, file, tmp, save, load, delete, overlapped>>
    BY <1>7 DEF CacheHit
  <2>2. Real(cache) /\ cache \in SessionObject
    BY <2>1 DEF Stored, FileTypes
  <2>3. ~overlapped => CacheFollows' /\ delete = "idle"
    BY <2>1 DEF CacheFollows, NotBehind, SaveAlone
  <2>4. ~overlapped /\ (\A s \in Saver : save[s].pc = "idle") => NotBehind(cache)
    BY <2>1, <2>3 DEF CacheFollows
  <2>5. load \in [pc : {"idle", "read"}, read : Document]
        /\ (load.pc = "read" /\ load.read # Empty => load.read.own \in 1..clock)
    BY DEF Stored, FileTypes
  <2>. QED BY <2>1, <2>2, <2>3, <2>4, <2>5, AdmitInv
<1>8. CASE NothingStored
  <2>. DEFINE new == [id |-> NewId, own |-> 1, cell |-> NewCell, done |-> FALSE]
  <2>1. /\ file = Absent /\ cache = Nil /\ Admit(new) /\ load.pc = "idle"
        /\ UNCHANGED <<clock, stray, cache, file, tmp, save, load, delete, overlapped>>
    BY <1>8 DEF NothingStored, Stripe
  <2>2. /\ new \in SessionObject /\ new.id # 0 /\ new.cell # 0 /\ new.own = 1
    BY NewNumbers DEF SessionObject
  <2>. HIDE DEF new
  <2>3. Real(new) /\ new # Nil
    BY <2>2, Named DEF Real, FileTypes
  <2>4. NotBehind(new)
    BY <2>1 DEF NotBehind
  <2>5. ~overlapped => CacheFollows'
    BY <2>1 DEF CacheFollows, NotBehind
  <2>6. load \in [pc : {"idle", "read"}, read : Document] /\ cache \in SessionObject
    BY DEF FileTypes
  <2>. QED BY <2>1, <2>2, <2>3, <2>4, <2>5, <2>6, AdmitInv
<1>9. CASE ReadFile
  <2>1. /\ UNCHANGED <<clock, memory, stray, cache, file, tmp, save, delete, overlapped, split>>
        /\ delete = "idle" /\ file # Absent /\ load' = [pc |-> "read", read |-> file]
    BY <1>9 DEF ReadFile, Stripe, objects
  <2>2. load'.pc = "read" /\ load'.read = file /\ load' \in [pc : {"idle", "read"}, read : Document]
    BY <2>1 DEF FileTypes
  <2>3. FileTypes' /\ Stored'
    BY <2>1, <2>2 DEF FileTypes, Stored, Real
  <2>4. SaveAlone => SaveAlone'
    BY <2>1 DEF SaveAlone
  <2>5. CacheFollows => CacheFollows'
    BY <2>1, <2>2 DEF CacheFollows, NotBehind
  <2>6. InMemory => InMemory'
    BY <2>1 DEF InMemory, NotBehind
  <2>. QED BY <2>1, <2>3, <2>4, <2>5, <2>6
<1>10. CASE CacheLoaded
  <2>. DEFINE new == Decoded(load.read)
  <2>1. /\ load.pc = "read" /\ load.read # Empty
        /\ cache' = IF cache = Nil THEN new ELSE cache
        /\ Admit(cache') /\ load' = NoLoad
        /\ UNCHANGED <<clock, stray, file, tmp, save, delete, overlapped>>
    BY <1>10 DEF CacheLoaded
  <2>2. /\ new \in SessionObject /\ new.id # 0 /\ new.cell # 0
        /\ new.own = load.read.own /\ new.done = load.read.done
    <3>1. load.read \in Document
      BY DEF FileTypes
    <3>2. load.read.own \in Nat /\ load.read.done \in BOOLEAN
      BY <3>1 DEF Document
    <3>. QED BY <3>2, NewNumbers DEF Decoded, SessionObject
  <2>. HIDE DEF new
  <2>3. load.read.own \in 1..clock
    BY <2>1 DEF Stored
  <2>4. Real(new) /\ new # Nil
    BY <2>2, <2>3, Named DEF Real
  <2>5. PICK o \in SessionObject : o = cache' /\ o # Nil /\ Real(o) /\ (cache = Nil => o = new) /\ (cache # Nil => o = cache)
    BY <2>1, <2>2, <2>4 DEF Stored, FileTypes
  <2>6. ~overlapped => delete = "idle"
    BY <2>1 DEF SaveAlone
  <2>7. ~overlapped /\ (\A s \in Saver : save[s].pc # "cache") => NotBehind(o)
    <3>. SUFFICES ASSUME ~overlapped, \A s \in Saver : save[s].pc # "cache"
                  PROVE  NotBehind(o)
      OBVIOUS
    <3>1. CASE cache = Nil
      <4>1. load.read = file /\ file.own \in Nat
        BY <2>1, <3>1 DEF CacheFollows, FileTypes, Document
      <4>. QED BY <2>2, <2>5, <3>1, <4>1 DEF NotBehind
    <3>2. CASE cache # Nil
      BY <2>5, <2>6, <3>2 DEF CacheFollows
    <3>. QED BY <3>1, <3>2
  <2>8. NotBehind(o) => NotBehind(cache)'
    BY <2>1, <2>5 DEF NotBehind
  <2>9. ~overlapped => CacheFollows'
    BY <2>1, <2>5, <2>7, <2>8, Named DEF CacheFollows
  <2>10. Admit(o) /\ (~overlapped /\ (\A s \in Saver : save[s].pc = "idle") => NotBehind(o))
    BY <2>1, <2>5, <2>7
  <2>. QED BY <2>1, <2>5, <2>6, <2>9, <2>10, Named, AdmitInv
<1>11. CASE Quarantine
  <2>1. /\ file' \in {file, Absent} /\ (save' = Moved(save, "file", "gone") \/ save' = save)
        /\ load' = NoLoad /\ UNCHANGED <<clock, memory, stray, cache, tmp, delete, overlapped, split>>
    BY <1>11 DEF Quarantine, objects
  <2>2. delete \in {"idle", "file", "tmp"} /\ NoLoad.pc # "read"
    BY Named DEF FileTypes
  <2>. QED BY <2>1, <2>2, RemoveInv
<1>12. CASE DeleteCached
  <2>1. /\ UNCHANGED <<clock, memory, stray, file, tmp, save, load, split>> /\ load.pc = "idle"
        /\ cache' = Nil /\ delete' = "file" /\ overlapped' = (overlapped \/ Saving # {})
    BY <1>12 DEF DeleteCached, Stripe
  <2>2. FileTypes' /\ Stored'
    BY <2>1, Named DEF FileTypes, Stored, Real
  <2>3. ASSUME ~overlapped'
        PROVE  SaveAlone' /\ CacheFollows' /\ InMemory'
    <3>1. ~overlapped /\ Saving = {}
      BY <2>1, <2>3 DEF FileTypes
    <3>2. SaveAlone /\ CacheFollows /\ InMemory /\ \A s \in Saver : save[s].pc = "idle"
      BY <3>1 DEF Saving
    <3>3. SaveAlone'
      BY <2>1, <3>2 DEF SaveAlone
    <3>4. CacheFollows'
      BY <2>1, <3>2 DEF CacheFollows
    <3>5. InMemory'
      BY <2>1, <3>2 DEF InMemory, NotBehind
    <3>. QED BY <3>3, <3>4, <3>5
  <2>. QED BY <2>2, <2>3
<1>13. CASE DeleteFile
  <2>1. delete = "file" => (~overlapped => load.pc = "idle")
    BY DEF SaveAlone
  <2>. QED BY <1>13, <2>1, RemoveInv DEF DeleteFile, objects
<1>14. CASE DeleteFails
  <2>1. delete = "file" => (~overlapped => load.pc = "idle")
    BY DEF SaveAlone
  <2>. QED BY <1>14, <2>1, RemoveInv DEF DeleteFails, objects
<1>15. CASE DeleteTmp
  <2>1. delete = "tmp" => (~overlapped => load.pc = "idle")
    BY DEF SaveAlone
  <2>. QED BY <1>15, <2>1, RemoveInv DEF DeleteTmp, objects
<1>16. CASE Die
  <2>1. /\ UNCHANGED <<clock, file, tmp, overlapped, split>> /\ memory' = Nil /\ stray' = Nil /\ cache' = Nil
        /\ save' = [s \in Saver |-> Resting] /\ load' = NoLoad /\ delete' = "idle"
    BY <1>16 DEF Die
  <2>2. \A s \in Saver : save'[s].pc = "idle" /\ save'[s].fd = "none"
    BY <2>1, Named
  <2>3. FileTypes'
    BY <2>1, Named DEF FileTypes
  <2>4. Stored'
    BY <2>1, <2>2, Named DEF Stored, Copied
  <2>5. SaveAlone'
    BY <2>1, <2>2 DEF SaveAlone
  <2>6. CacheFollows => CacheFollows'
    BY <2>1, Named DEF CacheFollows
  <2>7. InMemory'
    BY <2>1 DEF InMemory
  <2>. QED BY <2>1, <2>3, <2>4, <2>5, <2>6, <2>7
<1>17. CASE UNCHANGED fileVars
  <2>1. UNCHANGED <<clock, memory, stray, cache, file, tmp, save, load, delete, overlapped, split>>
    BY <1>17 DEF fileVars
  <2>. QED BY <2>1 DEF FileTypes, Stored, Real, SaveAlone, CacheFollows, InMemory, NotBehind
<1>. QED BY <1>1, <1>2, <1>3, <1>4, <1>6, <1>7, <1>8, <1>9, <1>10, <1>11, <1>12, <1>13, <1>14, <1>15,
            <1>16, <1>17, PersistInv
         DEF FileNext

LEMMA FileIInvHolds == FileSpec => []FileIInv
BY FileInitInv, FileNextInv, PTL DEF FileSpec

(* A crash at any step of a save, or of a load, leaves a whole document,   *)
(* for any number of savers and retries, as long as no two saves, and no   *)
(* save and deletion, of the session have met (SaveSession).               *)
THEOREM WholeUnlessOverlapHolds == FileSpec => []WholeUnlessOverlap
<1>1. FileIInv => WholeUnlessOverlap
  BY DEF FileIInv, CacheFollows, WholeUnlessOverlap, FileIsWhole
<1>. QED BY <1>1, FileIInvHolds, PTL

(* In the same case the cache of the store, whose objects share fields     *)
(* with the sessions that loads have given out and checkpoints with those  *)
(* that were saved, is not behind the file when nothing is under way.      *)
THEOREM CacheNotBehindHolds == FileSpec => []CacheNotBehind
<1>1. FileIInv => CacheNotBehind
  <2>1. Saving = {} => \A s \in Saver : save[s].pc # "cache"
    BY DEF Saving
  <2>. QED BY <2>1 DEF FileIInv, CacheFollows, CacheNotBehind
<1>. QED BY <1>1, FileIInvHolds, PTL

(* And a session in memory is never behind its file, unless it was loaded  *)
(* while a turn held the object evicted before, or a save was not over.    *)
THEOREM MemoryNotBehindHolds == FileSpec => []MemoryNotBehind
<1>1. FileIInv => MemoryNotBehind
  BY DEF FileIInv, InMemory, MemoryNotBehind
<1>. QED BY <1>1, FileIInvHolds, PTL
=============================================================================
