# A verification project for openclaw

The repository is an archive of Go projects.  The one with concurrent logic of
its own is `openclaw`, an agent gateway: messages arrive over channels and are
queued in a pipeline, each is handled as a turn of a session by the agent
runtime, which calls a language model behind a circuit breaker, runs tools (some
after a person has approved them), keeps sessions in memory and in a store,
pursues a goal over several turns, and runs background jobs and loops.  The other
directories are libraries ported from other languages, demonstrations and
exercises; of these, the notification list of the `mcp` port is used from several
goroutines and is modelled too.

Paths below are relative to `src/openclaw/` unless they begin with `mcp/`.

## Inventory

| component | state | operations | what is hard | what makes it correct |
|---|---|---|---|---|
| `util.NamedLockManager` (`util/locker.go`) | map of reference-counted gates | `Lock`, the returned `unlock` | a gate is dropped and made again while others still point to the old one; a context ends in the `select` | one holder per key, exact counts, no leak, `unlock` never blocks |
| `circuitbreaker` (`circuit.go`) | state, failure counts, cooldown, probe flag | `Execute`, `ThrowIfOpen`, `RecordSuccess/Failure`, `Reset` | results arrive in another state than the admission; cancelled probes | one probe per half-open period, its outcome decides, an outage ends |
| model calls (`agent/agent_runtime.go`) | attempt, fallback, context of each call | `CallLlmWithResilience`, streaming with fallbacks | retries, timeouts and streams around one breaker | every request returns |
| `agent.AgentRuntime` turns | history, checkpoint, iteration, the session's file | `RunTurn`, `RunStreaming`, compaction, checkpoints, resumption | a crash between a batch of tools and its save; saves that fail; a context that ends | a crash repeats one batch at most and the right one, turns end, failures are reported |
| tool batches (`agent_runtime.go`, `tool_executor.go`) | per call: the checks passed, asked, running, result | `ExecuteToolCalls` parallel and sequential, `Execute` | one call fails while others are checked or run | no call begins after an error, nothing goes on after the batch |
| `core.ToolApprovalService` (`core/pipeline.go`) | pending requests with a channel of one place and a `sync.Once` | `Create`, `TrySetDecision`, `WaitForDecisionOutcome`, `ListPending` | a decision races a timer, a cancellation, a list, another decision | the tool runs as the one recorded decision says; waits end |
| plugin bridge (`agent/plugins.go`) | pending requests with reply channels | send, answer, time out, close | answer, timeout and close meet on one request | one reply per request, callers are released |
| `core.SessionManager` (`core/session.go`) | map of active sessions, their count, the admission gate, background saves | `GetOrCreateById`, `RemoveActive`, sweep, eviction, `Persist` | map and count change in separate steps; sweeps and removals ignore the gate; nothing orders the saves | the limit, the count, admissions return |
| `core.FileMemoryStore`, sessions (`core/memory_store.go`) | cache, file and temporary file of a session; the objects that turns hold | load, save, delete | a load that races a save; a crash inside a save; two saves; an evicted object that is still used; a copy that shares a checkpoint | a whole file, a cache and a session in memory that are not behind it |
| goals (`core/goal.go`, `core/goal_models.go`, `agent/goal.go`, goal tools, `/goal`, `/new`) | one goal per session: status, counters, last hash; a history file | create, clear, change status, account tokens, decide on continuation | turns, tools and commands work on the goal between the calls of one check | bounded continuation, final completion, no goal without a record |
| `core.PostgresGoalService` | the same in tables | the same in transactions | differs from the in-memory service | the same |
| `payments` | secrets with expiry, approvals, authorizations | issue, fill in, pay, retry, revoke | a revocation meets a pending approval; a paid request is sent again | no revoked card filled in, paid and given once |
| `core.SessionAbortRegistry` | cancel functions by session id | `Register`, `Unregister`, `TryAbort` | an old turn unregisters the new one; cancel functions are called after the unlock | a turn nobody touched keeps its context |
| `core.ClawLoopScheduler`, loop job | entries with due times | add, cancel, collect due, enqueue | an occurrence counts as run before it is queued | no doubled occurrence |
| rate limit (`core/middleware.go`) | a window of times per sender | count, refuse, clean up | the clean-up decides under the lock and deletes after it | the limit per window |
| `core.CronScheduler` (`core/pipeline.go`) | running markers | `RunTick`, `RunStartupJobs`, `MarkJobCompleted`, clean-up | markers grow stale, dispatches fail, the channel is full | a job is not dispatched twice at once, markers go |
| live client (`client/live.go`, `websocket.go`) | the connection, its receive loop, `sendMu` | connect, send, disconnect, callbacks | calls cross; callbacks call the client | no connection left open, disconnects return |
| notification handlers (`mcp/core/shared_notification_handler.go`) | linked list of registrations with counts | register, close, walk | registrations are unlinked under a walk; handlers close themselves | no handler passed over, none after its `Close` |
| pipeline and senders, policies, process tool, notes, skills, setup, backup, governance, channels, cli, tui | files, tables, text | sequential | – | – |
| the rest of `mcp`, `kernel_memory`, `semantic_kernel`, `extensions_ai`, `graphify`, `kubeledger`, `rrd`, `yomawari`, `openclawgo`, `2023`–`2026` | – | – | ports and exercises | – |

How they interact: the agent runtime calls the model through `Execute`, checks a
streaming call with `ThrowIfOpen`, runs tools through the executor, which asks the
approval service and, for tools of plugins, the bridge; it saves its checkpoints with
`SaveSession` of the store (`agent_runtime.go:3675`) and ends a turn with
`EvaluateGoalContinuation`.
`main.go` drives the loop scheduler through a queue.  `SessionManager`,
`ToolApprovalService`, `CronScheduler`, the goal services and the abort registry are
services without a caller in this commit that constructs them: their interfaces, their
locking and their comments say that turns, people and timers use them from several
goroutines.  They are modelled with callers that may call any operation in any order.

Two compositions are modelled as one specification because the parts change each
other's state: `LlmCall` (calls and breaker) and `SessionFile` (the saves of turns and of
`SessionManager`, and the store).  The others share nothing but the session id.

`PROJECT.json` lists all components, the hazards with their lines, and the lines
behind every definition.

## Modules

| module | models | one step is |
|---|---|---|
| `NamedLock` | `NamedLockManager` | a critical section of `m.mu`, a branch of the `select` |
| `KeyedMutex` | the promise: a mutex per key | `Acquire`, `Release` |
| `McpNotifications` | `NotificationHandlers` | a critical section of the list or of a registration, the start and the end of a handler |
| `CircuitBreaker` | `CircuitBreaker` | a critical section of `cb.mu`; `Tick` for the clock |
| `LlmCall` | `CallLlmWithResilience` and the streaming fallbacks over `CircuitBreaker` | an attempt, its result, a refusal |
| `SessionAdmission` | the active sessions of `SessionManager` | an access to the map, the count or the gate |
| `ToolApproval` | `ToolApprovalService` | a critical section of `s.mu`, use of the `Once`, send, receive |
| `ToolBatch` | a batch of tool calls and `Execute` | a check, a question, the run of a tool, the collection of results |
| `PluginBridge` | `BridgeTransportBase` | an access to the pending map, a send, a receive |
| `CronScheduler` | `CronScheduler`; as external, the consumers | an access to `runningJobs` or the channel |
| `LiveClient` | `OpenClawLiveClient` | what happens between two uses of `sendMu`, of the connection or of the loop's `done` channel |
| `SessionGoal` | the in-memory goal service with everything that calls it | a critical section of the goal's mutex; two where loading and locking can be told apart |
| `SessionFile` | sessions in `FileMemoryStore`, `Persist`, background saves, the objects of a session in the map, in a turn's hands and in the cache | a system call on a file, an access to the cache, an assignment to a session; `Die` for the process |
| `AgentTurn` | `RunTurn` and `RunStreaming` with checkpoints | a model call with what follows it, a batch, an attempt to save; `Crash` |
| `RateWindow` | `RateLimitMiddleware` | an access to the map or to a window |
| `AbortRegistry` | `SessionAbortRegistry` | a critical section, a call of a cancel function |
| `LoopScheduler` | `ClawLoopScheduler`, `AgentLoopJob` | a method of the scheduler, one task queued |
| `Payments` | the vault, the runtime service, the round tripper | a use of the vault, an approval, a payment, a request |
| `*Proofs` | theorems, see below | |
| `MC*` | instances for TLC | |

Components that share no state are checked in one run where that costs nothing: an
`MC` module with a variable `part` extends several modules, starts all of them and
lets a behaviour follow one.  The states of the run are then the sum of the parts'
states, and each property is checked over the part it is about.

Definitions whose comment says *mutated form* are variants with a plausible
mistake in them.  No specification uses them: each shows that a property would
notice that mistake.

What the models leave out on purpose:

* `NamedLock`: which gate a new key gets is any unreachable one, since gates are
  heap objects.  `Lock` does not check the context before it enters, so neither
  does the model.
* `CircuitBreaker`: the failure count stops at the threshold and the probe count at
  `ProbeCap`, which no comparison can tell from larger values.  The conversion of a
  float64 beyond the largest `Duration` is left to the platform by Go; the model
  lets it be the smallest `Duration` (amd64) or the clamped one (arm64).  `IntMax` is
  the width of `Duration`, small in the instances.
* `LlmCall`: which model is chosen and what is counted as use.
* `SessionAdmission`: `LastActiveAt` is the order of the sessions; a session is
  expired or not.  Loading from the store fails or not.
* `ToolApproval`: a request has one waiter, the turn that created it.  The timer of
  the waiter and `ExpiresAt` run independently.
* `ToolBatch`: a tool is what the checks ask about it (`ToolKinds`); a reviewer answers
  either way; results have no text.
* `PluginBridge`: the plugin answers known and unknown requests in any order or not
  at all.
* `CronScheduler`: which jobs are due is any subset.  Every job without a name
  shares one marker, as in the code, which does not clear it in `MarkJobCompleted`.
* `SessionGoal`: the response is its hash; tokens grow by one.
* `SessionFile`: an object of the session has an identity, a version of its fields, and a
  checkpoint that is completed or not.  Loads hand out the cached object itself; a save
  works on a copy, with fields of its own and the checkpoint of the original, which a
  turn completes in place (`agent/runtime.go:164`); a store with redaction (`Redacting`)
  is taken to copy the checkpoint too.  The other pointers of a session, and `State` and
  `LastActiveAt`, are left out.  One turn may keep an object that was dropped from the map
  (`stray`) and go on changing and saving it.  A document is what it says of an object.  It
  is written with one write at offset zero, so what can be read of a file is the document
  written last, or nothing.  A save keeps the file it has open across a rename or a
  removal, as the operating system does.
* `LiveClient`: of a callback, only the calls of the client it makes.  A read that fails makes
  the last one, `OnError`, or none, and the loop ends.
* `AgentTurn`: an entry of the history is its kind and its batch.  Prompts, recall,
  routing and accounting shape text and are left out.
* `RateWindow`: a time is the tick it is taken in; it is taken before the mutex, as in
  the code, and may be out of order by up to `Delay`.
* `Payments`: amounts, limits and providers are answers of any kind.

## Runs

| run | parts and instance | checks |
|---|---|---|
| `named_lock` | locks: 3 goroutines, 2 keys, 3 gates; notifications: 3 registrations, one of them permanent, 2 walks | `CountIsExact`, `UnlockNeverBlocks`, `ImplementsKeyedMutex` (refinement), `WaitersServed`; `QuietAfterClose`, `EveryHandlerCalled` |
| `breaker` | 3 requests with one retry, a stream with one fallback, all cancellable, threshold 2, cooldowns 2 to 6 | `SingleProbe`, `ProbeUnderWay`, `ProbesAgain`, `RequestsReturn`, `ProbeDecides` |
| `session` | 2 sessions, limit 1, 2 admissions, a sweep, a removal | `CountDrift`, `LimitUpToMisses`, `AdmissionReturns` |
| `tools` | approval: 2 requests, 2 people and one who may not decide, lists; batch: up to 3 calls of 6 kinds of tool, two in a batch; bridge: 2 callers | `OutcomeIsTheDecision`, `PendingDrains`; `NothingRunsOn`, `StopsAtError`, `BatchReturns`; `OneReply`, `CloseReleases` |
| `cron` | scheduler: a named and an unnamed job, a tick, the startup, one consumer, a channel of one place; live client: one caller beside the callbacks, 2 connections | `ExclusiveDispatch`, `MarkersClear`; `NoConnForgotten`, `DisconnectsReturn` |
| `records` | goal: 2 turns, a user, a caller of the model interface, one goal with or without a budget, limit 1; file: a turn's and a background save, an evicted object, 2 versions, one retry, until saves meet | `ContinuationsBounded`, `HistoryKept`, `CompleteIsFinal`; `WholeUnlessOverlap`, `CacheNotBehind`, `MemoryNotBehind` |
| `turn` | turns: 3 turns, 2 iterations, history of 4, 2 attempts to save, crashes; rate: 3 messages and one of another sender; aborts: 3 turns, 2 aborters; 2 loops; payments: a card, 2 requests and another caller | `ResumesLastBatch`, `OneBatchAtRisk`, `PersistedMeansSaved`, `TurnsEnd`; `RateBound`; `UndisturbedRuns`; `LoopSentOnce`; `RevokedIsNotFilled`, `PaidAndGivenOnce` |

The largest are `records` (4.9 million distinct states) and `turn` (1.2 million); `records`
and `tools`, which has liveness to check, take about three minutes.  Every module has a type invariant of its own; those of the
modules with theorems are part of the inductive invariants below.

Why the bounds are enough for the cases that matter:

* Three goroutines on two keys give a holder, a waiter and a cancelling waiter on one
  key, or two on one while the other key's gate is made; as many gates as goroutines
  are all that can be reachable at once.  (Four of each were explored as well.)
* Three registrations let the middle one be unlinked under a walk that stands on it,
  between a permanent one and one that a second walk has reached.
* Three calls let two late results of an earlier period meet a probe.  With base 2,
  cap 6 and `IntMax` 15 the backoff goes through below, at and above the cap and out
  of range (4, 8, 16).
* A limit of one makes every second admission sweep and evict; `MaxMisses` 1 lets
  one session be counted out twice, after which nobody else sweeps or removes from
  outside (the drift would otherwise grow without bound).
* Three calls of a batch let one fail while another runs and a third is still being
  checked.  The six kinds are `update_goal` and what `innerApproval` tells apart: mutating,
  described, listed, named by the configuration, action-aware or not.
* One place in the channel makes it full after one job.  Two connections let one
  Connect replace another; larger instances of `LiveClient` were explored for safety.
* `Limit` 1 and `Repeats` 2 reach the limit and the repetition; `MaxCount` 2 lets the
  count pass the limit.  `MaxTokens` and `MaxBegins` 1 let both happen once.
* Two versions and a checkpoint that is completed let a save, a change during it and a
  save of the change meet a load, and an evicted object differ from the one loaded in its
  place.  A behaviour of `records` ends where two saves, or a save and a deletion, meet,
  since the properties of the file say nothing from there on; `session_save_overlap` begins
  where it ends.  The numbers that name objects and checkpoints are removed by a `VIEW`: two
  states that differ in them only have the same future.  `Redacting` is `FALSE`, which shares
  more; the proof is for both.  One retry lets the first attempt of a save leave its file to
  the second.
* Two iterations and a history of four make a batch, its checkpoint, the compaction
  and the trimming meet in one turn; three turns let a crashed one be resumed by one
  that crashes again.
* With `MaxPerMinute` 1 and an `IdleTtl` shorter than a minute a window is full and idle
  at once, which is where deleting it shows.

Deadlock is checked in `named_lock`, `breaker`, `session` and `cron`.  In the other runs the
inputs of a part are used up (requests, goals, versions, turns, messages), so the system
may stop; in `records` a goroutine that called `UpdateModelStatus` may be stuck as well.

### Where the code does not do what it says

Each of these runs checks one property and TLC finds a counterexample.

| run | what the code says | what happens |
|---|---|---|
| `breaker_cancelled_probe` (`HalfOpenResolves`) | "please try again after" (`circuit.go:42`) | a probe that is cancelled or times out leaves `halfOpenProbeActive` set; `Execute` refuses everybody from then on |
| `session_limit_race` (`SessionLimit`) | "maximum concurrent sessions limit (%d) has been reached." (`session.go:136`) | two of sweep, eviction and removal that meet on one session decrement the count twice, and one session too many is admitted |
| `approval_list_swallows` (`WaitEnds`) | the decision set in the instant of the timeout is read (`pipeline.go:1152`) | `ListPending` receives it instead, and the waiter waits on an empty channel, deaf to its context |
| `stream_failure` (`FailuresReported`) | a failure is emitted as "provider_failure" (`agent_runtime.go:4408`) | when the context or the model's timeout ends the call, the result is nil and reading its error ends the process |
| `session_save_overlap` (`FileIsWhole`) | "原子写入安全处理", a safe atomic write (`memory_store.go:1373`) | two saves of a session share the temporary path: one renames what the other has just truncated |

The passing runs state what does hold beside them.  `CountDrift` says that the count of
sessions is wrong by exactly the sessions deleted twice, and `LimitUpToMisses` that the
map outgrows the limit by no more than these.  `ProbeUnderWay` and `ProbeDecides` say that
a half-open breaker waits for a probe that exists, and decides, unless its probe was
cancelled.  `OutcomeIsTheDecision` holds whatever lists do, because a swallowed
decision makes the waiter wait and never act on another one.  `WholeUnlessOverlap` says
that the file is whole as long as no two saves, and no save and deletion, have met, and
`CacheNotBehind` and `MemoryNotBehind` what the cache and the session in memory then tell: what
the file does, or something later, unless (for memory) the session was loaded while its
old object was in use.  The cache is often ahead: a turn that completes a checkpoint also
completes it in the copy that its last save has put into the cache, so until the next
save the cache says completed and the file says ready to resume.

### What else reading the code for the models showed

These are not runs of their own; the models do what the code does in each case.

* `circuit.go:248`: after some thirty failed probes with the default cooldown the product
  exceeds a `Duration`; on amd64 the cooldown is negative and the open breaker refuses
  nobody.  That it never exceeds the cap is proved.
* `core/pipeline.go:1359`: the marker of a job is deleted once its message is in the channel,
  so a job that still runs is sent again by the next tick; `MarkJobCompleted` has no caller.
  `pipeline.go:1394`: `RunTick` returns at the first job that fails, and the due jobs after it
  miss their minute.
* `core/goal_models.go:80`: `IsBudgetExceeded` compares the wrong way round: a fresh goal
  with a budget is stopped at once.  `core/goal.go:136`: `UpdateModelStatus` calls
  `UpdateStatus` with the goal's mutex held and does not return, unless the goal is cleared
  in between; nothing calls it.
  `agent/goal.go:147`: nothing calls `BeginTurn`, so a goal paused at the limit is paused
  again by the first check after `/goal resume`.
* `agent_runtime.go`: a checkpoint is saved three times even when the first save
  succeeds; a streaming turn ignores failed saves (4614), and at the iteration limit it
  emits no Complete and leaves its checkpoint ready; the summary of a compaction has a
  role that `BuildMessages` drops; the recalled text is assigned to shadowed variables
  (4690, 4335); `ApplyTurnRouting` returns early when there is no error (3101).
* `tool_executor.go:1182`: the list of tools that require approval counts only for tools
  that are action-aware and that neither the configuration nor the preset names.  Listed
  tools that are not action-aware, and action-aware ones that are named explicitly and do
  not mutate, run unasked, while the log speaks of protected tools that are denied
  (`agent_runtime.go:4295`); the condition looks inverted.  `InnerApproval` is the condition as
  it stands.  No property is stated about who is asked, since it could only repeat it.
* `core/session.go:76`: an evicted session may be in the hands of a turn, which goes on
  changing and saving it (`session.go:241`, `agent_runtime.go:3675`), while the next message
  loads another object from the cache or the file: whichever is saved last decides what
  is kept.  `MemoryNotBehind` excepts this case (`split`).
* `agent/plugins.go:197`: two requests write to one `bufio.Writer` without a lock.
* `core/middleware.go`: the time of a message is taken before the mutex, so times in a
  window may be out of order; `RateBound` allows for it.
* `payments`: a card that expires during the approval is still filled in; a provider that
  gives no secret, or a second retrieval (`vault.go:106`), makes the caller panic.
* `client/live.go`: a peer that closes leaves `c.ws` set; a send whose context ends leaves
  its write to go on (226).  `Disconnect` closes the connection and waits for the loop with
  `sendMu` held; that close makes the loop call `OnError` (254), and an `OnError` that sends or
  disconnects waits for `sendMu`, until the context of `Disconnect` ends, or for good under
  `Close`.  `DisconnectsReturn` says that nothing else keeps it.
* `mcp/core/shared_notification_handler.go:148`: the context knows only the innermost
  registration, so handlers that, nested, close each other wait for ever.
  `mcp/core/shared_mcpsession_handler.go:530`: a decoded answer has a type no case names.
* `core/pipeline.go:719`: the lock is taken by channel id and the file is named after the id
  with other characters dropped, so two ids can share a file and not a lock.

## Fairness

Liveness needs that goroutines run and that time passes:

* weak fairness of every step of a goroutine inside a call (the Go scheduler);
* strong fairness of taking a gate (`NamedLock.Take`) and of entering the admission
  gate: channels serve their senders in order, and a `sync.Mutex` hands itself over to
  a waiter that has starved for a millisecond;
* `LlmCall`: time passes, a call that was let in comes back in some way, and some
  caller tries again (not the same one), since every turn calls the model.  That a
  probe is recorded is not assumed;
* `ToolApproval`: timers fire, deadlines pass, and pending requests are listed now
  and then.  Nobody has to decide and no context has to end;
* `ToolBatch`, `AgentTurn`: a tool, a reviewer's answer and a model call come back, with a
  result or with the timeout the code gives them;
* `PluginBridge`: only steps of this program are fair; the plugin need not answer and
  `CloseReleases` does not rest on the timeout of a minute;
* `CronScheduler`: ticks come (`RunTick` matches the minute it is called in), markers grow
  old, consumers take and finish what the channel holds;
* `LiveClient`, `McpNotifications`: callbacks and handlers return, and reading from a closed
  connection ends.

The callers behind the assumptions for `ToolApproval` and `CronScheduler` are not in
this commit; they are the use the services are written for.

`SessionGoal`, `SessionFile`, `RateWindow`, `AbortRegistry`, `LoopScheduler` and `Payments` are
checked for safety only.

## Proofs

tlapm checks these for every value of the constants that satisfies the named
assumptions of the modules.  All safety arguments are inductive invariants: the
invariant holds initially, every action preserves it (one step per action), and it
implies the property.

* **`NamedLockProofs`** (finite sets of goroutines and walks).  `MutualExclusion` is not
  inductive: it depends on two goroutines of one key having the same gate.  `IInv` adds
  that users point to the gate in the map (`UsersShareTheGate`), that two keys never have
  the same gate (`GatesDistinct`), that the count is the cardinality of the users (so the
  entry goes exactly with the last one), that idle goroutines point nowhere, and that
  the token has one owner.  Theorems: `MutualExclusionHolds`, `CountIsExactHolds`,
  `UnlockNeverBlocksHolds`, and `Refinement`: the specification implements `KeyedMutex`
  (`Take` is `Acquire`, `Unlock` is `Release`, the other steps stutter).  For the
  notifications, `RefsCountCalls` says that the count of a registration is the number of
  walks that run its handler, one more while it is not disposed of, and `DoneIsQuiet` that
  its completion is signalled only at zero: `QuietAfterCloseHolds`.  That a walk reaches what
  it owes is a statement about paths in the list; it is put without recursion: every set
  that holds the place where the walk stands and that `next` does not leave holds what is
  owed and not closed (`OwedIsAhead`).  A set closed under the links after `Unlink` is closed
  under those before it once the unlinked registration is added, which is the whole
  argument for `Close`.  `HeadLeadsToAll` says the same of the head, for walks that begin, and
  with `LinksAgree` (next and prev are inverse among the open registrations) excludes rings.
  Theorem: `EveryHandlerCalledHolds`.
* **`CircuitBreakerProofs`** (positive threshold and cooldowns within the range of a
  `Duration`).  `SingleProbe` needs that a probe of the present period keeps the flag up
  (`ProbeKeepsFlag`).  Theorems: `SingleProbeHolds`, `ClosedBelowThresholdHolds`,
  `CooldownHolds`.  `CallsUseTheBreaker`: `LlmCall` implements `CircuitBreaker`, every step of a
  request or a stream being one of the breaker's operations or a stutter; `CallsProbeOnce`
  carries `SingleProbe` over.  `CallIInv` adds the types of the loops (`AttemptsBounded`: retries
  and fallbacks keep to their number) and is inductive with `ProbeUnderWayHolds`: a recorded
  result always ends the half-open period (`ResultDecides`), so the flag can outlive its probe
  only through a cancellation.
* **`SessionAdmissionProofs`** (finite sets of sessions and goroutines; no goroutine both
  admits and sweeps or removes).  `CountDrift` is inductive with the roles of the goroutines
  (`Roles`) and a map without doubled keys (`Distinct`): `CountDriftHolds`.  The limit is not: the
  holder of the gate reads the count, and stores its session several steps later, while
  others delete and count.  `Room` says what the holder may rely on at each of its steps:
  once it is about to store there is room for one, within an eviction the attempts made and
  the sessions left stay within the limit, and all of it is relaxed by the sessions counted
  out twice; `AttemptsOfHolder` ties the attempts to the holder, because `SessionManager` ignores
  the error of a full map after `MaxSessions + 1` of them.  Theorems: `LimitUpToMissesHolds`,
  `AdmissionTypes`.
* **`ToolsProofs`**.  `OnceGuards` describes who may have run the `Once`: before it
  nothing is recorded or sent, and afterwards what travels through the channel is the
  recorded decision, or the timeout has claimed the `Once`.  Theorems:
  `OutcomeIsTheDecisionHolds`, `OneDecisionHolds`, with lists included.  `BatchIInv` says that
  the calls of a sequential batch are made in their order, that an error of a parallel one
  has ended its context, and that a batch is over only when none of its calls is under
  way.  Theorems: `NothingRunsOnHolds`, `StopsAtErrorHolds` (an action property).  `BridgeIInv` says that
  whoever has taken a request out of the pending map is the only one to send to its
  channel, which is empty until then: `OneReplyHolds`, `PendingAreCallingHolds`.
* **`SessionTurnProofs`**.  `TurnIInv` relates the checkpoint to the history it counts, in
  memory and in the file (`Fits`), the unsaved batches to the attempts made and their
  failures (`SavedSoFar`), and the mark of a checkpoint to the file: `ResumesLastBatchHolds`,
  `OneBatchAtRiskHolds`, `PersistedMeansSavedHolds`.  `AbortIInv` adds to the two properties of
  the registry where a cancel function can be: `AbortReachesHolds`, `UndisturbedRunsHolds`.
  `LoopIInv` counts each occurrence in one place, due, collected or sent:
  `LoopSentOnceHolds`.
* **`PaymentsRateProofs`**.  `CardsStayCleared`: the secret of a revoked card has been
  cleared in place, for whoever holds it through an approval too.  `PaidInOrder`: a
  secret in the vault was paid for and not given yet, and a request that has paid is
  past its approval.  Theorems: `RevokedIsNotFilledHolds`,
  `PaidAndGivenOnceHolds`.  For the rate (`IdleTtl` below the bound of the clock, `Delay` within
  a minute), a bound on a sum over windows needs no sum: the messages that passed lately
  are put one to one on pairs of a window and a place in it.  `Placed` gives each of them an
  entry of its own, which no eviction has dropped, since a message passes at most `Delay`
  after its time stamp (`Stamps`) and no time stamp is ahead of the clock; `EvictDropsOld` says
  that the loop drops a prefix, all of it old, also when the times are out of order.
  `Covered` says that these windows are the one under the key and as many others as were
  deleted in use.  Past intervals do not change any more.  Theorem: `RateBoundHolds`.
* **`CronProofs`**.  `ExclusiveDispatchHolds` assumes `Completing = FALSE`, that is, that no consumer
  calls `MarkJobCompleted`, as in this commit: the marker of a job under dispatch is
  there unless it went stale (`MarkerGuards`).  `NoConnForgottenHolds`: at most one caller
  stands between dialling and installing unless two Connects have crossed (`OneConnect`).
* **`RecordsProofs`**.  For the goals, `Refs` says that whoever is about to change or record
  a goal points to one that exists, and that only commands are at the recording step of
  `ClearGoal`: `TypeCorrect`, `HistoryKeptHolds`, `CompleteIsFinalHolds` (an action property).
  `Grants` (a finite set of turns) counts the prompts given and those still to come from
  turns between the count and the prompt, and compares them with the limit for each
  `BeginTurn` and the counter of the present period, the counter being past the limit and
  granting nothing when it is incremented there: `ContinuationsBoundedHolds`.
  For the file, `Stored` says that what is held, saved, read or written is a version of the
  session made so far; it and the sharing need that the numbers of new objects and
  checkpoints are unused (`UnusedIsNew`, over finite sets), and then an assignment or a
  completed checkpoint shows in the objects it belongs to and in no other.  As long as
  saves have not met, `SaveAlone` says that a save is alone with its temporary file and what
  the paths hold at each of its steps, up to a checkpoint completed since the copy was
  encoded; `CacheFollows` that what a load has read is what the file holds and that the
  cache is not behind it, except between the rename and the update of the cache; and
  `InMemory` that a session in memory that no load has split is the only object held or
  saved, and not behind the file nor the copy under way.  Theorems:
  `WholeUnlessOverlapHolds`, `CacheNotBehindHolds`, `MemoryNotBehindHolds`, with crashes at
  every step.

Only model-checked: all liveness (`WaitersServed`, `ProbesAgain`, `RequestsReturn`,
`ProbeDecides`, `AdmissionReturns`, `PendingDrains`, `BatchReturns`, `CloseReleases`,
`MarkersClear`, `DisconnectsReturn`, `TurnsEnd`), because fairness and `ENABLED` are beyond the
prover.  Every safety property of the passing runs is a theorem (`ExclusiveDispatch` for
`Completing = FALSE`).  No module with theorems uses a `RECURSIVE` operator.

## Not modelled

The reasons for each component are in `PROJECT.json`.  In short: parsing, prompts, storage
formats, skills, commands and adapters of channels hold no shared state that a property
is about, and a model of them would repeat their text.  The ports
(`kernel_memory`, `semantic_kernel`, `extensions_ai`, most of `mcp`), the separate tools and
the exercises make up the larger part of the archive and have no behaviour that two
actors could disturb.  Of the modelled files, what is left out is what builds or formats
text: prompts, recall, routing, usage records and meta-skills of the runtime, notes and
search of the store, branches and listing of `SessionManager`.

`PostgresGoalService` is not covered by `SessionGoal`.  Reading it beside the in-memory
service shows these differences: `CreateGoal` replaces an existing goal;
`RecordTurnHash` compares the count before it is incremented, so the fourth equal
response blocks and not the third; `GetGoal` returns a value when nothing was found, so
`/goal start` always reports a goal; `ClearGoal` deletes from another table;
`HasActiveGoal` ignores the status; the history gets the status before the change.

## Plan

Done so far, in the order of the first plan: locks, breaker, sessions, approvals, cron and
goals; then the saves of sessions, payments, model calls over the breaker, the abort
registry, loops and rate windows, the turn loop, tool batches, the plugin bridge, the
notification handlers and the live client.

Next:

1. The refinement of the registration list: `McpNotifications` as an implementation of a
   set of handlers with walks over it.
2. The other type invariants as theorems of their own (`NotifyTypeOK` and those of the
   parts of `turn`), now contained in weaker form in the inductive invariants.
3. `PostgresGoalService` as a second implementation next to `SessionGoal`.
4. `SessionAdmission` composed with `SessionFile`, now joined only by the eviction and the load.
