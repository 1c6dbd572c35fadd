# nolo-cli in TLA+

Specifications of the parts of nolo-cli in which several processes, several asynchronous
callbacks of one process, or a device and its servers share state: the registry of background
agent runs, the wake-up that follows the end of a run, the chat queue of the interactive terminal,
the agent loop with the history it sends to providers, the retries around a provider call, the
broker that shares one local database between processes, the replication of a record, the
machine connector, and the provider whose tools run in its stream. Each module is checked with TLC on small instances; every safety
property of these runs is proved with TLAPS as well, for every value of the constants.

`src/cli/` is a second, near-identical copy of the command-line sources; the copies at the
root of `src/` are the ones modelled. `PROJECT.json` maps every definition to its lines.

## 1. Inventory

| Component | State it keeps | Operations | Talks to | Hard part | Correct when |
|---|---|---|---|---|---|
| **Run record lock** `agentRunControl.ts` `withRunRecordLock` | a `.lock` file, a local `held` | exclusive create, stat, break, re-create, unlink | every process that updates a record | processes at file-system-call grain; a holder dies or is suspended | exclusive while nobody dies; a dead holder never blocks for ever |
| **Agent-run registry** `agentRunControl.ts`, `agentRunCommand.ts`, `client/cliAgentRunToolExecutors.ts` | `~/.nolo/runs/<id>.json`: status, pid, ack, lease, heartbeat | spawn, heartbeat, self-report, reconcile (`checkStaleRun`), wait = claim/poll/commit/release, stop, gc | the wake path, `ps`, the OS | unlocked writers beside locked ones; stale copies written back; death of any actor; leases that expire | no verdict on a run that shows signs of life; a verdict nobody's stop replaces is final; no result is acknowledged that nobody read |
| **Run-completion wake** `tui/runDock.ts`, `runRegistryPoller.ts`, `runCompletionWatcher.ts` | panel entries, retired runs, dedupe table, last status, notified runs | dock, poll, observe, retire, prune, switch dialog | registry (reads), session (`onWake`) | the end of a run races the tick, a claim, a dialog switch, pruning | one wake-up per run, none over a claim, none forgotten |
| **Chat queue and terminal session** `core/chat/*`, `tui/chatQueueTuiBinding.ts`, `tui/readlineWorkspace.ts` | queue, running, armed preempt, busy, AbortController, epochs | Enter, Ctrl+S, Esc, Esc Esc, wake-up, command, turn settlement, drain cascade | agent loop, wake | every await is an interleaving point; late returns | one turn at a time; no message lost, doubled or reordered; Enter comes back unless a turn still runs |
| **Agent loop** `agent-runtime/localLoop.ts`, `localAutoCompaction.ts`, `toolCallPairing.ts`, `outboundHistorySanitize.ts`, `ai/context/planCompression.ts` | a dialog's messages and summary; one turn's conversation, calls, usage | load, compact, cut, ask, run tools, gate, stop, save | providers, tools, the local store | a stop at any await; histories broken by stops and cuts; agents that differ in tools | every request pairs calls and answers; nothing starts after a stop; a stopped turn ends; usage is saved |
| **Fetch and stream retries** `client/localRuntimeFetchRetry.ts`, `providerStreamRetry.ts` | attempts, what was streamed | retry, wait out a drain, regenerate | providers, the platform | two layers, one of which must not replay | a POST the platform acted on, and a tool that ran, are not repeated |
| **CLI authority broker** `localRuntimeAuthority.ts`, `database-engine/cliAuthorityBroker*` | LevelDB lock, port, open store, one client per process | connect, take over, attach, operate, page through a scan | all nolo processes of a machine | the broker dies with requests in hand; several take over at once; rows vanish between pages | every operation ends; each request is applied once at most, and not after its answer; a scan sees each row once |
| **Tombstones and replication** `database/tombstones.ts`, `database/actions/*` | local record, versions on servers | read, read-and-wait, write, patch, remove, purge, restore | several servers | requests late, reordered or lost; merges based on old reads | what was deleted stays deleted until it is restored |
| **Machine connector** `machineWs*.ts`, `machineCommands.ts` | one websocket session, heartbeat loop, runs, controllers by request | greet, locate, open, beat, reconnect, dispatch, cancel, result | the server | runs overlap, outlive their socket and reuse ids | a result reaches the server if its socket lives; the latest run of an id can be cancelled |
| **Cursor provider** `agent-runtime/cursor/cursorProvider.ts`, `localLoop.ts` `blocksToOpenAiMessages` | blocks, dispatch chain, completion of one call | deltas, exec messages, answers, end or failure of the stream, return | the agent loop, tools, the server | tools run while text goes on; the stream may end or break under them | requests are answered in order; the returned reply is whole |
| **Web chat queue adapter** `chat/queue/*`, `chat/dialog/dialogRuntimeStore.ts` | a queue per dialog and its shadow in a store | enqueue, turn end, drain, dispose | Redux dispatch | the head is dequeued only after an awaited send | not modelled, see section 6 |
| OAuth, keyed queue, workflow executor, circuit breaker | small local state | sequential | external services | refresh races | not modelled, see the plan |
| Records, spaces, tables, documents, memory, prompts, tools, rendering, command line | data | pure or I/O | — | — | not modelled: data and layout |

How they interact: a turn of the session calls the agent loop, the loop calls a provider through
the two retry layers and stores the dialog through the broker's client, and the record actions
replicate what is stored. `startAgentRun` spawns a
detached process and writes a record under the lock; the tool result docks the run in the panel and starts
the poller; the poller reads the record that the child, reconcilers, waits and stops keep
rewriting; the watcher turns the end it sees into an event; the session starts a turn with
it or queues it. Each module takes from its neighbours only what the neighbour's module allows it to do: in `RunWake` a
record is active, then ended, claimed and released at any time; in `TuiSession` a wake-up
is a message that may arrive in any state, and a turn a thing that settles once it was stopped, which
is what `AbortEndsTurn` shows of the loop; in `AgentLoop` a provider call answers, fails or never ends, which covers
whatever `ProviderRetry` does below it.

## 2. Modules

| Module | Models | Built on |
|---|---|---|
| `RunRecordLock` | `withRunRecordLock`, one action per file-system call | — |
| `RunLifecycle` | abstract: the one verdict on a run that nobody stops | — |
| `RunRegistry` | one run's record and all who write it | `RunRecordLock`; implements `RunLifecycle` |
| `MCRunRegistry` | which actor lives in which process | `RunRegistry` |
| `RunWake` | panel, poller, watcher | — |
| `ChatQueue` | the pure queue machine, one operator per event | — |
| `TuiSession` | key handler, turns, binding, wake-ups | `ChatQueue` |
| `MCTerminal` | a behaviour of the session or of the wake path | `TuiSession`, `RunWake` |
| `ToolHistory` | pairing of calls and answers, the outbound history, the compaction boundary: pure operators | — |
| `AgentLoop` | turns of one dialog through the loop | `ToolHistory` |
| `ProviderRetry` | one provider call through both retry layers | — |
| `AuthorityBroker` | who serves the store, and writes through it | — |
| `BrokerIterator` | a paged scan through the broker | — |
| `Tombstones` | which of two versions of a record wins: pure operators | — |
| `RecordSync` | one record on this device and its servers | `Tombstones` |
| `MachineSession` | connection and runs of the machine connector | — |
| `CursorStream` | one call of the Cursor provider | — |
| `MCLocalRuntime` | a behaviour of one of the eight parts below the terminal, the lock of a run record among them | all of these |
| `RunRegistryProofs`, `AgentLoopProofs`, `ToolHistoryProofs` | theorems about the module of that name (the first one also about the lock) | the module, TLAPS |
| `TerminalProofs` | theorems about `TuiSession`, `RunWake` and their bundle | `MCTerminal`, TLAPS |
| `ProviderProofs` | theorems about `ProviderRetry` and `CursorStream` | both, TLAPS |
| `StoreProofs` | theorems about `Tombstones`, `RecordSync`, `AuthorityBroker` and `BrokerIterator` | all four, TLAPS |
| `LocalRuntimeProofs` | theorems about `MachineSession`, and about all parts of the local runtime together | `MCLocalRuntime` and the proofs of its parts |
| `SequenceFacts` | lemmas on numbers, sequences and ranks that several proofs need | TLAPS |

`MCTerminal` and `MCLocalRuntime` hold parts that share no variables; `part` says which one
a behaviour follows, the others stay as they begin. The run has the sum of their states and not the product,
and one place where all of them are checked.

**RunRecordLock.** `stage[p]` is the place of process p in the function, `held[p]` its local
variable. `TryLock` is the first `wx` create, `StatLock`/`BreakLock`/`RecreateLock` the
stale-lock path, `GoUnlocked` the fall-through in which a non-strict caller runs its callback
*without* the lock, `LeaveLock` the `finally` that unlinks the path whoever owns the file.
`LockDies` kills a process anywhere. Ages are one bit: older than `LOCK_STALE_MS` or not.

**RunRegistry.** `disk` is the record; `copy[p]` is what p has read and will write back; so
stale writes happen wherever the code reads and writes in two steps (heartbeat and
unlocked sections). `pc` names the operation: the sections `finalize`, `claim`, `commit`,
`ack`, `release`, `orphan`, `kill` share `EnterSection … LeaveSection`, and differ in
`Applies` (the early returns of the callback) and `Outcome` (what it publishes). `Look` and
`Probe` are `checkStaleRun` before its section, with the signs of death and the heartbeat's grace. The signs
(`kill(pid, 0)`, the start time in `ps`) are what the code calls indirect inferences, either of which can fail: with `Misjudges` a process
that lives may be taken for gone, or for another one with its pid, at any probe (`InferredGone`). A process that is gone is always found
gone: without that nothing ever settles. `Terminate` rests on `kill(pid, 0)` alone, which is exact.
Heartbeats are written when the run does something, not by a timer; a record without one gets no grace. Both are as in the code.
`RunLifecycle` is strict: one verdict, by the run itself or, once it is gone without a word, by a reader; never replaced.
`MayRun` is Node's run-to-completion: actors with the same `Host` do not interleave inside
a synchronous block. "reported" stands for done, failed and timeout. `token`, `lapsed` and
`told` follow the claims; `told` is a ghost.

**RunWake.** `reply[r]` is a tool result under way, read earlier than it is delivered, so it
may be stale. `dock`, `emitted`, `last`, `notified` are the panel, the poller's
deduplication, and the watcher's two tables. `Poll` is the whole tick: the runs it reads, the panel
updates that the fingerprint lets through, then `observe` with its order of tests. `disturbed` is a
ghost that marks runs once claimed, pruned as silent, or whose dialog was not the open one.

**TuiSession.** A turn is its epoch, and so is the AbortController it creates; `ctl` is
`activeTurnAbort`. `Settle(e, threw)` is everything from the return (or throw) of
`runAgentChat` to the next await: the outcome, which reads the *current* controller; the `finally`
that clears it; `notifyTurnEnd` with the armed preempt; and either the next turn of the
cascade or the release of `busy`. Only microtasks lie in between. The ledger (`sent`,
`dropped`, `late`) is ghost state that accounts for every message.

**ToolHistory and AgentLoop.** A message keeps its role, whether it has content, the calls it declares and the
call it answers. `PairToolCalls` is `sanitizeToolCallPairing`, `Outbound` is `sanitizeOutboundHistory` with the
tools a request declares, `GuardBoundary` the walk back over answers that `planCompression` does. Token
counts are a free choice: any cut, any compaction. The loop's actions run from one await to the next; `Ask` and
`StartTool` are its two `throwIfAborted` points, `AbandonRequest` and `AbandonTool` the losing side of
`raceWithAbort`, after which a tool goes on (`running`). `due` is a ghost: usage reported and not saved.

**ProviderRetry.** `transport` selects the layers. `attempt` is the one counter all kinds of failure share, `Budget` the limit each
is held against, `Throw` the catch branch of the outer layer. `processed` counts requests the upstream may have acted
on.

**AuthorityBroker.** `owner` has LevelDB's lock, `listener` the port. `client[p]` walks through `connectClient`: fast
open, take the store, open one's own broker, or attach, in rounds; `Unavailable` is `runWithSelfHealing`. `log` is
the order in which requests are applied, each with the operation it is for and whether it is the repeat. A crash takes the requests of a broker with it; a client's death or time-out leaves its request there.
**BrokerIterator** has the page arithmetic (`StartIndex` is `findIndex + 1`, so a lost row means 0), the
resumption behind the last yielded key and its asymmetry (`gte` forwards, `lt` backwards).

**Tombstones and RecordSync.** A version is three times: updated, deleted, restored. `Beats` is
`shouldReplaceWithNextRecord`. `task[t]` is an action between two steps, with what it has read; of the servers only `served` is
kept, the versions one of them may hold at some time, so a lost, late or repeated request needs no
channel. `DeletionHolds` remembers a deletion of this device until it is restored or written anew.

**MachineSession.** `link` is the place in `runMachineWsSession`, `raced` whether the heartbeat monitor has a handler.
`sent[s]` is `sentMessages` of session s, `startIndex` what the message handler of `defaultConnectWebSocket` takes before it awaits the run,
`controller` the module-level table. `got` and `alone` are ghosts.

**CursorStream.** A frame is its number, and `received` its kind. `wire = "chunk"` while the `data` handler hands out the frames of one
chunk; `Quiet` is Node's order, in which the callbacks of settled promises run before the next event.
`dispatches` is `dispatchChain`, `executing` the tool it stands at, `completion` the promise `h2Completion`. `OpenAiMessages` is
what the loop makes of the returned blocks. The one thing assumed of the server is that it sends nothing after `turnEnded`.

## 3. Runs

| Run (configuration) | Instance | States | Shows |
|---|---|---|---|
| `registry_processes` (`RegistryProcesses`) | spawner, child, wait, poller, stop, each a process; spawner and waiter may die; deaths misjudged | 1,331,711 | a run just heard from is spared, killed means gone, a final ack means the end was read |
| `registry_settles` (`RegistrySettles`) | child may die, one heartbeat, wait, poller; deaths inferred rightly | 95,434 | no wait answers before the end; the record of a dead run settles for good |
| `registry_lifecycle` (`RegistryLifecycle`) | three pollers, two heartbeats, deaths of child and spawner; deaths inferred rightly | 23,602 | implements `RunLifecycle` |
| `terminal` (`Terminal`) | session: 4 messages or wake-ups, 1 command, forced stops; wake: 1 new and 1 old run, claims, switches, silence | 600,190 | one turn, nothing lost or doubled, order, busy only while a turn runs that nobody stopped; at most one wake-up, none over a claim, none forgotten if undisturbed |
| `local_runtime` (`LocalRuntime`) | loop 163,000, retries 3,000, broker 89,000, scan 47,000, lock 2,000, record 64,000, connector 18,000, cursor 68,000 | 454,572 | see the list below |
| `spawner_publishes_stale` | spawner, child, poller | counterexample | a finished run is turned back to running |
| `heartbeat_drops_claim` | two waits in one TUI | counterexample | a heartbeat erases a claim |
| `command_frees_composer` | one command | counterexample | an ending command frees Enter under a running turn |
| `late_return_interferes` | forced stop, no command | counterexample | a late return takes the new turn's controller |
| `switch_forgets_end` | one run, dialog switches only | counterexample | an end polled while away is never announced |
| `retry_budget` | real budgets scaled to 2 and 4 | counterexample | lost connections are retried up to the drain budget |
| `deletion_undone` | one deletion, one read-and-wait | counterexample | an old answer replaces a tombstone |

What `local_runtime` shows, by part:

- *loop*: whatever stops, failures, cuts and compactions have done to a dialog, each request pairs every call with its answer (`RequestsArePaired`);
  after a change of agent no result is hidden from the model and no call stays structural without its declaration and answer
  (`ResultsReachTheModel`, `WireCallsAnswered`); a summary does not split a call from its answer (`BoundaryKeepsPairs`); a save appends
  exactly one turn (`TurnsAppend`); usage is saved however the turn ends (`UsageRecorded`); after a stop nothing starts and the
  turn ends (`NoStartAfterAbort`, `AbortEndsTurn`).
- *retries*: `PlatformSentOnce`, `ToolsRunOnce`, `DrainWaitedOut`.
- *broker*: every operation ends although brokers die (`OperationsEnd`); its request and its repeat are applied once at most each, even when they
  time out, and not after its caller was answered unless one of them timed out (`EffectsPrecedeAnswers`).
- *scan*: `EachRowOnce` and `NoRowSkipped` under writes of others and a change of broker.
- *lock*: exclusion while all live; a dead holder's file is removed (`ExclusiveWhileAllLive`, `DeadHolderNeverWedges`).
- *record*: `CalmDeletionHolds`: a deletion stands if no other action was under way at its time and `readAndWait` is not used.
- *connector*: `ResultsArrive`, `LatestIsCancellable`.
- *cursor*: whatever fails or breaks, requests are answered once and in their order (`ExecRepliesInOrder`); a reply that is returned holds every text, call
  and result, in order but for text that came while a tool was waiting (`ReplyIsWhole`).

What the registry runs show of a verdict. `LivelyRunsSpared` is the purpose of the grace and of the second look ("Liveness beats forensics",
`agentRunControl.ts:1161`): the reconciler that upholds the orphan verdict under the lock does so only if the last heartbeat the run wrote is older than the
grace, or another writer has put an older copy of the record back - which waits do through the lock's fallback, and the spawner by its
unlocked publish. A live run that is silent for the grace and is misjudged *is* called orphaned; so `ToldAfterTheEnd`, `DeadRunSettles` and
`ImplementsLifecycle` are stated, and checked, for deaths that are inferred rightly (`Misjudges = FALSE`).

No run checks for deadlock, because every one of these systems may really
stop: a run ends, a dialog is finished, the bound on messages is used up, the connector's key is rejected. Liveness properties say what must not stop.

**Bounds.** `MaxBeats` counts heartbeats before the final flush; one is enough to have a
beat before and a beat after any read. One process per role suffices for the verdicts because
the invariants are about one record and one writer at a time, and the proofs remove the bound.
`MaxMsgs = 4` gives a turn in flight, two staged messages (merge and order matter from two) and one that
arrives late; `MaxCommands = 1` because a command only resets `busy`, and does so at its end.
Two runs in `RunWake`, because a tick handles a set and an old run behaves differently from a new one.
`ForceStop`, `Claims`, `Switching`, `Silence`, `SlowSpawn`, `Misjudges`, `Suspend`, `Mortal` and
`Host` choose which disturbances an instance has; the proofs hold for each choice unless
the theorem names one.
*Loop*: two tools and two agents, one of which lacks a tool; three turns, of which those after
`LastFull = 2` stop at their first request, for by then the history holds all that two whole turns can leave behind;
two calls over all turns, at most both in one reply; `MinCompress = 2` for the 5 of the code.
*Retries*: `MaxAttempts = 2` and `DrainAttempts = 4` for 3 and 30; the order of the two is what matters.
*Broker*: two processes, one operation each, two faults (a fault is a process that ends or a request that times out): a first broker and
its successor both die, or one dies and one is slow. `Attach`, `AttachAgain`, `Rounds` are 1 for 5, 2 and 5; a counter that is decremented to 0.
*Scan*: five keys, pages of two, so that a scan has a first, a middle and a last page; two writes of others, forward and backward.
*Record*: two servers, two actions at a time, two in all, a clock of two ticks and one change by another device; three actions
(1.2 million states) were checked once by themselves and show nothing new.
*Connector*: two sessions and three runs, all under one request id, the case in which they can disturb each other; with two ids (137,000 states) it
was checked by itself.
*Cursor*: four frames, enough for two tools with text between, before or behind them, or for a thought that is interrupted; five frames (611,000 states) were
checked by themselves.
Symmetry is not used: the roles are not interchangeable, and the runs check liveness.

**Fairness, and why the code gives it.**
- *Lock*: a live process goes on executing, so it leaves the lock function; time passes.
- *Registry*: weak fairness for steps inside an operation. None for starting a wait or a stop, nor
  for the child finishing. Strong fairness for a wait's deadline and for time, because pollers and waits
  sleep between polls: seconds do pass however often they look.
- *Session*: weak fairness for reading attachments and for the settlement of turns that were told to stop (`raceWithAbort`, and the signal
  of the provider request; what `AbortEndsTurn` shows of the loop, with what is assumed there). None for any other turn: a request has no
  time limit by default (`agent-runtime/localLoop.ts:401-403`), the terminal passes none (`tui/readlineWorkspace.ts:1437-1463`), and a gate waits for the
  user. So `BusyNeedsATurn` says that Enter queues for ever only behind such a turn. None for keys, wake-ups or commands.
- *Wake*: weak fairness for the tick (a one-second interval) and for the delivery of
  tool results. None for the end of a run, claims or the user.
- *Loop*: weak fairness for the store, the summary's provider, the user at a gate, and for the loop's own reaction to a stop. None for
  provider calls of the loop and for tools: `AbortEndsTurn` holds although they may hang. The summary call is in because the
  code gives it neither a signal nor a time-out; if it hangs, so does a stopped turn.
- *Broker*: a live process takes its next step, a live broker serves what it has. Nothing has to connect, begin, fail or time out.
- *Retries, scan, record, connector, cursor*: none; nothing is claimed to happen eventually.

In the two bundled runs each of these is stated for the part that is followed.

## 4. What is proved

All theorems hold for arbitrary constants that satisfy the named assumptions of the module; these say only that bounds are numbers,
positive where the code's are, which roles and sets of names contain or exclude each other, that the servers of a record and the keys of a scan are finitely many, and
that the child of a run has its process to itself. TLC found each property to hold on the instances of section 3 first. Each item gives the inductive invariant and why the property needs it;
the number is the module's obligations.

**Lock and registry** (`RunRegistryProofs`, 1347).

- `LockExclusive`. `LockInv` says, while nobody has died and `Suspend` is off, that the file is never stale, nobody is breaking it,
  and whoever believes to hold it is its creator; it holds vacuously for ever after a death.
- `RegistryLockExclusive` carries the lock's invariant over (each registry step is a lock step or leaves the lock alone).
  `RegistryTypes` needs, beside types, which operation each role can be in.
- `AckAfterRead`, `KillVerdictSound` and `WaitsAnswerAfterTheEnd` come from `SoundInv`. Exclusion is of
  *no* help there, since sections may run unlocked and heartbeats never lock: `SoundInv` therefore says `Sound` not only of the
  record on disk but of every `copy` and `seen` that somebody may still write back or act on. The facts `Sound` states (child
  gone, a wait was told) are stable, so an old copy stays sound. The last two assume `ToolStops = {}`: the tool's stop labels a
  record without a pid killed without signalling anything, and then they are false. The last also assumes `~Misjudges`.
- `OrphanVerdictSound`: `LivelyRunsSpared`, with no condition on who takes part or what is misjudged. `GraceInv` says that who is about to look a
  second time has seen a heartbeat that is older than the grace; heartbeats only get older, and the second look insists on the one seen. So what
  the record says is old; that the run's *last* heartbeat is old follows unless somebody has put an older copy back.
- `SilenceBeforeVerdict`: where nobody waits and the pid is published before the child acts nobody does that (`KeptInv`: the record carries the
  last heartbeat), whoever reconciles or stops; so a run called orphaned has been silent for the grace.
- `RegistryImplementsLifecycle`: the registry implements `RunLifecycle` under the mapping (record's status, state of the child).
  The scope is the one in which it does: no waits, a spawn that is not slow, deaths inferred rightly, nobody stops the run. Outside of it a stale copy can turn a
  verdict back, which is what `spawner_publishes_stale` and `heartbeat_drops_claim` show; a silent run misjudged as orphaned reports later; and a stop
  relabels a run that has reported. `CopyInv` says which copies are under way,
  `LifeInv` what the record says for each place of spawner and child; then `StepImplements` maps every action to a
  step of `RunLifecycle` or to a stutter.

**Session and wake** (`TerminalProofs`, 1474).

- `CalmSessionOwnsItsTurn`: `CalmTurnsAgree`, that is one turn, whose `busy` and controller are its own, agreement of the queue core,
  no preempt that outlives its turn. `OwnerInv` strengthens it: while busy there is one owner, preparing or running; the
  controller is its own or nobody's; when idle nothing is armed. It holds while the session is `Calm` (no forced stop, no command
  run while idle), and `CalmWasCalm` shows that calm is never regained, so the invariant never has to be re-established.
- `NoMessageVanishes` and `FollowUpsStayInOrder`, calm or not: `Books` says that the prepared, staged, sent and dropped messages
  are disjoint and together all that arrived, and that the queue is `Tidy`. One lemma for each operation of `ChatQueue` says what it does to
  the set and the order of what is staged; the steps of the session are then bookkeeping.
- `EscKeepsTheQueue`: while calm only a message that arrived late is ever dropped; `LateInv` says that behind a turn
  told to stop, with no preempt armed, all that is staged came late.
- `RunsWakeOnce`, `UndisturbedEndsAreHeeded` from `WakeInv`, three conjuncts per run: types, with "a run without a record
  is neither answered nor docked"; woken exactly once iff notified; and, for an undisturbed run, that it is home and unclaimed, was
  notified if the watcher has seen its end, leaves the panel only with its end given, and otherwise is docked with the poller on, or has a tool
  result under way. Each tick reads all of it, so nothing slips between.
- `ClaimsSilenceWakes`, an action property: no step wakes the session with a run that is claimed at that step.
- `SessionTypes`, `WakeTyped`, and `TerminalTypes` for the bundle: a behaviour of it is one of the session or of the wake.

**Sequences** (`SequenceFacts`, 647). The library defines `FlattenSeq` with a recursive function, and `OpenAiMessages` is one as well. What such a
function computes is obtained without an induction rule for operators: `<` is well-founded on `Nat`, so there is a least
index at which a claim fails (`LeastNumber`, `NumbersInduct`), and it has a predecessor at which the claim held.

**Histories** (`ToolHistoryProofs`, 1049), about the pure operators, for every history of any length.

- `PairingHolds`: in what `PairToolCalls` returns every call is followed at once by its answer, and there is no other answer.
  `OutboundHolds`: the calls on the wire are of declared tools and are those answered there, and no result goes missing.
- Both are about `FlattenSeq`, and the filter `Picked` about the rank of an element in a set (`RanksAreTaken`).

**Agent loop** (`AgentLoopProofs`, 2195).

- `NothingStartsAfterAbort` follows from the steps alone: each start looks at the signal in the same synchronous block.
  `UsageIsSaved` needs `UsageInv`: what is due is what the turn has on its list plus what its compaction used, and an idle
  dialog has neither.
- `RequestsPaired`, `WireIsAnswered`, `ResultsAreShown`, `SummariesKeepPairs` and `SavesAppendTurns` rest on `TalkInv`: the dialog is `Good`
  (an answer stands behind its reply, every call is declared once), a summary ends at a `Boundary` of it, the conversation is `Sane` (every answer has its
  call) whatever the cut, the summary and the pairing left of the history, and the dialog as a save would leave it is `Good` again. With
  it each request meets the hypotheses of `PairingHolds` and `OutboundHolds`.
- `LoopTypes`, with which tool is running for which call and the count of rounds.

**Provider calls** (`ProviderProofs`, 1869).

- `PlatformPostsOnce` and `StreamToolsRunOnce` from `OnceInv`: as long as a request may still be sent the platform has acted on
  none, and once a tool was seen the phase never goes back to sending.
- `DrainsAreWaitedOut`: a call that met nothing but drains fails only with `DrainAttempts` of them, whichever budget is larger. `CountInv`: what
  each kind of failure came to adds up to the attempts.
- `ExecsAreAnsweredInOrder`: `ExecInv` says that every frame to be answered waits, runs or is answered, and that what is answered came before what
  runs, and that before what waits.
- `RepliesAreWhole`, in two halves. `MessagesSayTheWords` is about the function alone: the words of the blocks (their texts and calls, end to end) are the words of
  the messages `OpenAiMessages` makes of them, wherever a segment is flushed. `Speaking` is about the steps: the words of the blocks so
  far, with the open one, are `Faithful` to the frames handed on, each once, and one out of order only if it is a text before a call. What makes the
  step hold is `ExecInv`: of the frames later than the one dispatched, none that waits has a word yet, so only texts can have overtaken it. `Closed` and `Resulting` say that at the
  return nothing is open, waits or executes, and that a call without a result is executing.
- `RetryTypes`, `CursorTypes`.

**Store** (`StoreProofs`, 2469): a record and its servers, the broker, a scan.

- `DeletionStands`: `CalmDeletionHolds` for any number of servers, tasks and changes by other devices, any delivery. The key is the lemma
  `OnlyRestoreRevives`: a version that beats a tombstone is a later tombstone or was restored after it, however the versions in
  between were ordered. While a deletion is being mourned (`Mourning`), whatever a task under way has read was read after the
  deletion, so it is gone as well or restored (`DeletionInv`); a task begun before the deletion is what `overlapped` excludes, and
  there the property is false.
- `RestoreFreeOrder`: without restores the merge rule is a strict weak order, so merges commute.
- `SyncTyped`: types, and how far times run ahead of the clock: a patch takes a time behind that of the copy it has read. `TimeInv` bounds them by `Ceiling`, the last time
  of the clock plus the actions that are not edits under way: an edit is counted when it starts and raises the ceiling when it puts, so it puts at most one
  above all that was there.
- `NoLateEffects`: a request takes effect once at most, and not after its operation's answer unless a request of it timed out. `Sendings` says for every request under way (`Known`) who waits for it: its
  caller, or nobody because it timed out, or because the caller has gone on or is dead; with `Abodes` (who may be where, and that
  only the owner listens) and `Counted` (operations are numbered, and a process works on the last it began). `Once` says that requests differ in their effect, that one not
  done has had none, and that the effect of the attempt under way is there only if its request is; `Fades` why this outlives every repair: what a step can do to an
  operation only makes earlier attempts less current.
- `RowsComeOnce`, `RowsAreAllThere`: `ScanInv` says how cursor, page and last row meet (`PagesMeet`), that what was yielded is in order and the page
  goes on from there unless the cursor was lost (`InOrder`), and that a row that was there throughout is yielded, in the page or ahead (`NoneLost`). Rows are integers, so
  that a page is `Enumerable` in order is again the least-number principle.
- `BrokerTypes`, `ScanTyped`.

**Connector, and the runtime as a whole** (`LocalRuntimeProofs`, 987).

- `LatestRunCancellable`. `MachineInv` is the type invariant with the property itself; the proof is in how the table changes: a
  dispatch appends one run and points its request at it, and the end of a run takes an entry away only if it is its own.
- `ResultsReachTheServer`: `ArriveInv` says of each list of sent messages that it holds ended runs of its session, and that a run that was alone lies before the start index
  of every run still executing there, so nobody sends it again; and that a session with an open socket has cut off nobody.
- `LocalRuntimeTypes`: a step of the bundle is a step or a stutter of each part (`PartsStep`), so the conjunction of the parts' inductive invariants (`PartsInv`) is
  one of the bundle, and each gives its part's types.

**Only model-checked:** liveness, which is out of the prover's reach: `DeadHolderNeverWedges`, `DeadRunSettles`, `BusyNeedsATurn`, `UndisturbedWakes`,
`AbortEndsTurn`, `OperationsEnd`; and the disagreements of section 5, which are single counterexamples.

## 5. What the counterexamples say of the code

1. **The spawner publishes a stale record** (`agentRunControl.ts:867`). The child reports while the
   spawner waits for `ps`; the spawner's unlocked write sets the record to running again.
2. **A heartbeat drops a claim** (`agentRunControl.ts:353`). Its unlocked read-modify-write erases a
   lease granted in between; a second wait claims the run as well.
3. **A command frees the composer** (`tui/readlineWorkspace.ts:2801`). `!sleep` is awaited with busy false; a turn
   starts; the command ends and its `finally` resets busy under the turn.
4. **A late return interferes** (`tui/readlineWorkspace.ts:1573`). A force-stopped turn settles and its `finally`,
   its turn end and its caller's `finally` take the new turn's controller, queue and busy.
5. **A dialog switch forgets an end** (`tui/runRegistryPoller.ts:171`). The panel hears of the end and
   the watcher does not; nobody reads the record again.
6. **Lost connections get the drain's budget** (`client/localRuntimeFetchRetry.ts:301`). The catch branch ends the loop only
   through its bound, which is the larger drain budget; `maxAttempts` only decides whether it sleeps first.
7. **A deletion is undone** (`database/actions/readAndWait.ts:212`). The preferred server's answer is stored without being
   compared with the tombstone it replaces.

The same cause as 5 makes two more cases that `UndisturbedHeeded` leaves out: a run that ends while
claimed and is then released, and one pruned from the panel after five silent minutes (`tui/runDock.ts:153`).

Further places where the code does what a reader would hardly expect. They were met while modelling; the models
contain those marked (m), and the properties are stated so as to leave them out.

- *Registry*: a wait whose turn is stopped in the same poll that finds the end commits the final ack all the same (m,
  `client/cliAgentRunToolExecutors.ts:595`); the tool's stop labels a record without a pid killed (m, line 624); such a record, of a spawner
  that died early, is settled by nobody (m, `agentRunControl.ts:861`); a stop signals the recorded pid without checking its start time (line 1570); `gcRunRecords`
  may delete between another's read and write (line 654), which only a week-old record can meet; a stop replaces done by killed (m, line 1638), where the comments
  at 1014-1016 and 1025 call a self-reported status ground truth; a live run that is silent for the grace can be called orphaned until it reports (m).
- *Session*: a wake-up queued behind a picker while idle stays queued until the user presses Enter (m, `tui/readlineWorkspace.ts:2287`); a turn that exits with
  a code other than 0 still reports ok, so the cascade goes on (m, line 1570); a run started in the first turn of a new dialog carries no parent
  and is never announced (line 580).
- *Loop*: the summary call of a compaction takes neither the signal nor a time-out (m); its usage is lost when its text is empty (m); `onActionGate` is not raced
  with the signal (m); deltas of an abandoned request still reach the reader.
- *Retries*: drains, refusals and lost connections share one counter (m); loopback endpoints are retried for neither drains nor 429 (m).
- *Broker*: a request that timed out may be applied after a later write of the same caller (m: `EffectsPrecedeAnswers` leaves the order out, not the number); the row a forward scan
  would go on from, once deleted, makes it start again (m: rows then come twice, what `EachRowOnce` leaves out); two homes whose names hash to one port collide.
- *Record*: a write or deletion no server received is not sent again (m); with restores the merge rule is not transitive (m, in `Tombstones`); the
  background merge of a read compares with the record as it was before the requests (m, `database/actions/read.ts:142`); nothing in the repository calls `buildRestorePatch`.
- *Connector*: a heartbeat refused while the websocket target is resolved is an unhandled rejection (m, `machineWsSession.ts:150`);
  one refused later waits for a socket nobody closes (m, line 190); a run that overlaps another sends its frames again (m); the result of a run whose socket has closed is
  lost (m); an earlier run under a reused id can no longer be cancelled (m).
- *Cursor*: text that arrives while a tool waits for another stands before that tool's block (m: what `ReplyIsWhole` leaves out), and a thought likewise;
  after a failed call the tools still waiting are run (m); a stream that ends without `turnEnded` is returned as a normal reply cut by length (m), and its waiting tools are run first;
  a tool whose result cannot be converted is reported as failed although it ran (m); an unsupported request gets no answer (m). `createCursorProvider` (`agent-runtime/cursor/cursorProvider.ts:2197`) hands on no
  signal, so the stream of a stopped turn and its tools go on beside the next turn; `NoStartAfterAbort` speaks of the tools the loop starts.

## 6. Not modelled

- *Registry*: `gcRunRecords`, legacy records without a start time, a stop that signals a reused pid, death that is never noticed,
  listing and printing; the partial write of a file (records are published by rename).
- *Wake*: the 64-entry memory of retired runs, several parent dialogs, unreadable records, all display.
- *Session*: pause-drain, commands typed while busy (they start no turn), pickers and modals
  except that a wake-up may be queued while one is open, attachments beyond the await they cause, exit, rendering. A request
  is the set of its messages: the order inside a merged text is its layout.
- *Loop*: token estimates (any cut is possible), overlapping turns of one dialog, what prompts and tools contain,
  the truncation of large results.
- *Retries*: `Retry-After` and lengths of delays, callers with budgets of their own, a platform server on this machine,
  the streamed text and the marker between two tries of it.
- *Broker*: `close()` of a living broker, unix sockets, metadata and health files, point reads, `options.limit` of an iterator.
- *Record*: upload and upsert, deletion of tables and messages, tenants, authority of a record, cool-downs and sharing of
  concurrent reads.
- *Connector*: progress frames, what a run executes (some runs do not heed a cancel), permissions, large prompts, the length of delays, the daemon and watch modes.
- *Cursor*: building the request, blobs the server asks for, heartbeats, frames that cannot be parsed, token counts, frames behind `turnEnded`, the
  turn around the call.
- *Web chat queue adapter*: nothing in the repository enqueues into it; `enqueue` is called by tests only. What the composer of
  the web client does with it is not here, so its environment would be invented. One thing is visible: the head leaves the queue only
  after an awaited send, and a turn end during that await drains the same head again.
- *Not chosen*: components whose work is data, text, layout or a conversation with an external service (see `PROJECT.json`). They make up
  most of the repository's lines; the modelled part is the one in which order and failure decide.

## 7. Plan

1. `RunRecordLock`, `RunRegistry` with `RunLifecycle`. *Done, proved, the refinement included.*
2. `TuiSession` on `ChatQueue`. *Done; safety proved.*
3. `RunWake`. *Done; safety proved.*
4. Runs that confront the comments with the code. *Done: seven.*
5. `ToolHistory`, `AgentLoop`. *Done; safety proved.*
6. `ProviderRetry`. *Done, proved.*
7. `AuthorityBroker`, `BrokerIterator`. *Done; safety proved.*
8. `Tombstones`, `RecordSync`. *Done, proved.*
9. `MachineSession`. *Done, proved.*
10. `CursorStream`. *Done; safety proved.*
11. The types of all parts together (`LocalRuntimeTypes`). *Done.*
12. An abstract specification of the session (messages in, turns out, one at a time) that `TuiSession` implements while calm.
13. If room is left: two overlapping turns of one dialog in `AgentLoop`, the refresh of OAuth tokens, the circuit breaker of
    agent runs, the keyed queue, `RunWake` with several parent dialogs.

## 8. Checking it

    tlc -workers 2 -config Terminal.cfg MCTerminal    # any run: its cfg and module are in PROJECT.json
    tlapm TerminalProofs.tla                          # any ...Proofs module

The properties of the two bundled runs can be checked for one part at a time by narrowing the values that `Init` of its MC module gives `part`.
Operators named as mutants (each says so in its comment) are plausible bugs of the definition that
follows them; with the definition replaced by its mutant, the property listed beside it in
`PROJECT.json` is violated.
