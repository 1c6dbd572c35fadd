----------------------------- MODULE TuiSession -----------------------------
(***************************************************************************)
(* The interactive terminal session of src/tui/readlineWorkspace.ts with   *)
(* the queue binding of src/tui/chatQueueTuiBinding.ts.  One event loop    *)
(* runs the key handler, the settlement of turns and the wake-ups of       *)
(* finished background runs; what interleaves is what happens between two  *)
(* awaits.  A turn is named by its epoch (turnEpoch), and so is the        *)
(* AbortController it creates.  A message is its number of arrival.        *)
(***************************************************************************)
EXTENDS ChatQueue

CONSTANTS
  MaxMsgs,      \* bound: messages typed, and wake-ups, in a session
  MaxCommands,  \* bound: `!` and slash commands run while idle
  ForceStop     \* whether the user may press Esc a second time

ASSUME SessionAssumption ==
  /\ MaxMsgs \in Nat /\ MaxCommands \in Nat
  /\ ForceStop \in BOOLEAN

VARIABLES
  core,         \* the ChatQueueState of the binding
  armed,        \* preemptArmed of the binding
  busy,         \* whether Enter queues instead of starting a turn
  ctl,          \* epoch of activeTurnAbort, 0 when it is null
  activeEpoch,  \* activeTurnEpoch
  forcedEpoch,  \* forcedStopEpoch, 0 before the first forced stop
  stopping,     \* activityIndicator.isStopping()
  epoch,        \* turnEpoch: the last turn started
  aborted,      \* epochs whose signal is aborted
  inFlight,     \* epochs whose runAgentChat has not settled
  prep,         \* requests whose attachments are being read, turn not begun
  commands,     \* commands awaiting a subprocess or the network
  commandsRun,  \* commands started so far
  arrived,      \* number of messages that have arrived
  sent,         \* messages handed to a turn
  dropped,      \* messages an aborted turn end threw away
  late          \* messages queued behind a turn already told to stop

queueVars == <<core, armed>>
turnVars == <<ctl, activeEpoch, forcedEpoch, stopping, epoch, aborted, inFlight>>
commandVars == <<commands, commandsRun>>
ledger == <<arrived, sent, dropped, late>>
sessionVars == <<queueVars, busy, turnVars, prep, commandVars, ledger>>

Msgs == 1..MaxMsgs
Epochs == 1..MaxMsgs    \* every turn carries at least one message

SessionInit ==
  /\ core = EmptyQueue /\ armed = "none"
  /\ busy = FALSE
  /\ ctl = 0 /\ activeEpoch = 0 /\ forcedEpoch = 0
  /\ stopping = FALSE
  /\ epoch = 0 /\ aborted = {} /\ inFlight = {}
  /\ prep = {}
  /\ commands = 0 /\ commandsRun = 0
  /\ arrived = 0 /\ sent = {} /\ dropped = {} /\ late = {}

-----------------------------------------------------------------------------
(* Pieces of the handlers *)

Message == arrived + 1
Arrives == arrived < MaxMsgs /\ arrived' = Message

(* runOneAgentTurn up to its await: a new epoch with a new controller.  It *)
(* takes over activeTurnAbort whoever held it.  still is what remains in   *)
(* flight of the other turns.                                              *)
BeginTurn(req, still) ==
  /\ epoch' = epoch + 1
  /\ ctl' = epoch + 1 /\ activeEpoch' = epoch + 1
  /\ inFlight' = still \cup {epoch + 1}
  /\ sent' = sent \cup req

(* runIdleTextTurn: the queue core is told, busy is set, the turn begins. *)
RunIdleTextTurn(q, req) ==
  /\ core' = TurnStart(q)
  /\ busy' = TRUE
  /\ BeginTurn(req, inFlight)
  /\ UNCHANGED <<forcedEpoch, stopping, aborted>>

(* A message that joins the queue behind a turn; it is late when that turn *)
(* has already been told to stop.                                          *)
StageMessage ==
  /\ core' = Enqueue(core, {Message})
  /\ late' = IF ctl \in aborted THEN late \cup {Message} ELSE late

(* preemptAndAbortForDrain on queue q *)
PreemptAndAbortForDrain(q) ==
  IF q.running /\ q.queue # <<>>
  THEN /\ armed' = "drain"
       /\ aborted' = aborted \cup ({ctl} \ {0})
  ELSE UNCHANGED <<armed, aborted>>

-----------------------------------------------------------------------------
(* Keys *)

(* Enter on a text: queued while busy, else a direct turn. *)
EnterQueues ==
  /\ busy
  /\ Arrives /\ StageMessage
  /\ UNCHANGED <<armed, busy, turnVars, prep, commandVars, sent, dropped>>

EnterStarts ==
  /\ ~busy
  /\ Arrives
  /\ RunIdleTextTurn(core, {Message})
  /\ UNCHANGED <<armed, prep, commandVars, dropped, late>>

(* The same with attachments: busy is set, and their files are read before *)
(* the queue core hears of a turn.                                         *)
EnterWithImages ==
  /\ ~busy
  /\ Arrives
  /\ busy' = TRUE
  /\ prep' = prep \cup {{Message}}
  /\ UNCHANGED <<queueVars, turnVars, commandVars, sent, dropped, late>>

(* Mutant of ImagesRead: a failed read leaves without releasing busy. *)
ImagesReadFails(req) ==
  /\ req \in prep
  /\ prep' = prep \ {req}
  /\ UNCHANGED <<queueVars, busy, turnVars, commandVars, ledger>>

ImagesRead(req) ==
  /\ req \in prep
  /\ prep' = prep \ {req}
  /\ core' = TurnStart(core)
  /\ BeginTurn(req, inFlight)
  /\ UNCHANGED <<armed, busy, forcedEpoch, stopping, aborted, commandVars,
                 arrived, dropped, late>>

(* Enter on an empty line while busy: stop the reply, send what is queued. *)
EmptyEnterPreempts ==
  /\ busy /\ core.queue # <<>>
  /\ PreemptAndAbortForDrain(core)
  /\ UNCHANGED <<core, busy, ctl, activeEpoch, forcedEpoch, stopping, epoch,
                 inFlight, prep, commandVars, ledger>>

(* Enter on an empty line while idle: drainHeadForManualTurn, which refuses *)
(* while the core believes that a turn is running.                          *)
DrainHead(q) == ~q.running /\ q.queue # <<>>

EmptyEnterDrains ==
  /\ ~busy /\ DrainHead(core)
  /\ RunIdleTextTurn(Dequeue(core), Head(core.queue))
  /\ UNCHANGED <<armed, prep, commandVars, arrived, dropped, late>>

(* Ctrl+S: everything staged becomes one request, sent at once. *)
Merged(q, extra) == Enqueue(Clear(q), extra \cup Staged(q))

(* Mutant of FlushBusy: flushes an empty queue too. *)
FlushBusyAlways ==
  /\ busy
  /\ core' = Merged(core, {})
  /\ PreemptAndAbortForDrain(core')
  /\ UNCHANGED <<busy, ctl, activeEpoch, forcedEpoch, stopping, epoch,
                 inFlight, prep, commandVars, ledger>>

FlushBusy ==
  /\ busy /\ core.queue # <<>>
  /\ core' = Merged(core, {})
  /\ PreemptAndAbortForDrain(core')
  /\ UNCHANGED <<busy, ctl, activeEpoch, forcedEpoch, stopping, epoch,
                 inFlight, prep, commandVars, ledger>>

(* Idle, the draft (if any) is folded in too, and the empty-Enter path runs *)
(* the merged request unless the core still believes that a turn runs.      *)
FlushIdle(draft) ==
  LET q == Merged(core, draft)
  IN /\ ~busy /\ core.queue # <<>>
     /\ IF draft = {} THEN UNCHANGED arrived ELSE Arrives
     /\ IF DrainHead(q)
        THEN RunIdleTextTurn(Dequeue(q), Head(q.queue))
        ELSE core' = q /\ UNCHANGED <<busy, turnVars, sent>>
     /\ UNCHANGED <<armed, prep, commandVars, dropped, late>>

(* Mutant of EscStops: the queue is not protected from the abort. *)
EscAbandons ==
  /\ busy /\ ctl # 0 /\ ~stopping
  /\ stopping' = TRUE
  /\ aborted' = aborted \cup {ctl}
  /\ UNCHANGED <<queueVars, busy, ctl, activeEpoch, forcedEpoch, epoch,
                 inFlight, prep, commandVars, ledger>>

(* Esc, the first: cooperative stop, keeping what is queued. *)
EscStops ==
  /\ busy /\ ctl # 0 /\ ~stopping
  /\ armed' = IF core.queue # <<>> /\ core.running THEN "stop" ELSE armed
  /\ stopping' = TRUE
  /\ aborted' = aborted \cup {ctl}
  /\ UNCHANGED <<core, busy, ctl, activeEpoch, forcedEpoch, epoch, inFlight,
                 prep, commandVars, ledger>>

(* Esc, the second: the composer is handed back without waiting. *)
EscForces ==
  /\ ForceStop
  /\ busy /\ ctl # 0 /\ stopping
  /\ forcedEpoch' = activeEpoch
  /\ stopping' = FALSE
  /\ aborted' = aborted \cup {ctl}
  /\ ctl' = 0 /\ activeEpoch' = 0
  /\ busy' = FALSE
  /\ UNCHANGED <<queueVars, epoch, inFlight, prep, commandVars, ledger>>

(* A `!` or slash command typed while idle awaits its subprocess, picker or *)
(* request with busy FALSE; Enter's finally resets busy when it is over.    *)
CommandStarts ==
  /\ ~busy /\ commandsRun < MaxCommands
  /\ commands' = commands + 1 /\ commandsRun' = commandsRun + 1
  /\ UNCHANGED <<queueVars, busy, turnVars, prep, ledger>>

CommandEnds ==
  /\ commands > 0
  /\ commands' = commands - 1
  /\ busy' = FALSE
  /\ UNCHANGED <<queueVars, turnVars, prep, commandsRun, ledger>>

-----------------------------------------------------------------------------
(* Wake-ups and the end of turns *)

(* runWakeHandler: a background run has finished.  Queued while a turn      *)
(* holds the session or a picker owns the screen, else a turn of its own.   *)
WakeQueues ==
  /\ Arrives /\ StageMessage
  /\ UNCHANGED <<armed, busy, turnVars, prep, commandVars, sent, dropped>>

(* Mutant of WakeStarts: asks the queue core instead of busy. *)
WakeByCore ==
  /\ ~core.running
  /\ Arrives
  /\ RunIdleTextTurn(core, {Message})
  /\ UNCHANGED <<armed, prep, commandVars, dropped, late>>

WakeStarts ==
  /\ ~busy
  /\ Arrives
  /\ RunIdleTextTurn(core, {Message})
  /\ UNCHANGED <<armed, prep, commandVars, dropped, late>>

Failed == [ok |-> FALSE, aborted |-> FALSE]

(* What runOneAgentTurn reports for turn e.  A turn that settles after the  *)
(* controller was nulled reads .signal of null and throws.  The controller  *)
(* read is the current one, whichever turn made it.                         *)
Outcome(e, threw) ==
  CASE threw -> Failed
    [] ~threw /\ forcedEpoch = e -> [ok |-> FALSE, aborted |-> TRUE]
    [] ~threw /\ forcedEpoch # e /\ ctl = 0 -> Failed
    [] OTHER -> [ok |-> ctl \notin aborted, aborted |-> ctl \in aborted]

(* consumePreempt: an abort the user armed is not an abandonment. *)
ConsumePreempt(raw) ==
  IF armed = "none" \/ ~raw.aborted THEN raw
  ELSE [ok |-> armed = "drain", aborted |-> FALSE]

Clean(outcome) == outcome.ok /\ ~outcome.aborted

(* Turn e settles.  Its finally clears the indicator and the controller,    *)
(* then notifyTurnEnd ends the turn and either starts the head of the queue *)
(* (busy stays) or lets the caller's finally release busy: there are only   *)
(* microtasks in between.                                                   *)
Settle(e, threw) ==
  LET outcome == ConsumePreempt(Outcome(e, threw))
      q == TurnEnd(core, outcome)
  IN /\ e \in inFlight
     /\ armed' = "none"
     /\ stopping' = FALSE
     /\ dropped' = IF outcome.aborted THEN dropped \cup Staged(core) ELSE dropped
     /\ IF ShouldDrain(q, Clean(outcome))
        THEN /\ core' = Dequeue(TurnStart(q))
             /\ BeginTurn(Head(q.queue), inFlight \ {e})
             /\ UNCHANGED busy
        ELSE /\ core' = q
             /\ ctl' = 0
             /\ inFlight' = inFlight \ {e}
             /\ busy' = FALSE
             /\ UNCHANGED <<activeEpoch, epoch, sent>>
     /\ UNCHANGED <<forcedEpoch, aborted, prep, commandVars, arrived, late>>

-----------------------------------------------------------------------------
Keys ==
  \/ EnterQueues \/ EnterStarts \/ EnterWithImages
  \/ EmptyEnterPreempts \/ EmptyEnterDrains
  \/ FlushBusy \/ FlushIdle({}) \/ FlushIdle({Message})
  \/ EscStops \/ EscForces
  \/ CommandStarts

SessionNext ==
  \/ Keys
  \/ CommandEnds
  \/ \E req \in prep : ImagesRead(req)
  \/ WakeQueues \/ WakeStarts
  \/ \E e \in inFlight, threw \in BOOLEAN : Settle(e, threw)

(* Attachments get read, and a turn that was told to stop settles: its      *)
(* provider request takes the signal and a tool it waits for is left behind *)
(* (AbortEndsTurn of the loop).  Nothing obliges any other turn to settle:  *)
(* a request has no time limit of its own (localLoop.ts:401-403), and a     *)
(* gate waits for the user.  Nor does anything oblige the user to press a   *)
(* key.                                                                     *)
SettleStopped == \E e \in inFlight \cap aborted, threw \in BOOLEAN : Settle(e, threw)

SessionFairness ==
  /\ WF_sessionVars(\E req \in prep : ImagesRead(req))
  /\ WF_sessionVars(SettleStopped)

SessionSpec == SessionInit /\ [][SessionNext]_sessionVars /\ SessionFairness

-----------------------------------------------------------------------------
(* Type invariant. *)
SessionTypeOK ==
  /\ core \in ChatQueueState(1..arrived)
  /\ armed \in {"none", "drain", "stop"}
  /\ busy \in BOOLEAN /\ stopping \in BOOLEAN
  /\ epoch \in 0..arrived /\ arrived \in 0..MaxMsgs
  /\ ctl \in 0..epoch /\ activeEpoch \in 0..epoch /\ forcedEpoch \in 0..epoch
  /\ aborted \subseteq 1..epoch /\ inFlight \subseteq 1..epoch
  /\ prep \subseteq Requests(1..arrived)
  /\ commands \in 0..commandsRun /\ commandsRun \in 0..MaxCommands
  /\ sent \subseteq 1..arrived /\ dropped \subseteq 1..arrived
  /\ late \subseteq 1..arrived

(* Neither exception to the gating has been used: no forced stop, and no    *)
(* command run while busy is FALSE.                                         *)
Calm == forcedEpoch = 0 /\ commandsRun = 0

(* Submit is gated "so a second turn cannot race the in-flight one"         *)
(* (src/tui/readlineWorkspace.ts:2360-2362).                                *)
NoSecondTurn == \A d, e \in inFlight : d = e

(* At most one turn is being prepared or run, the session is busy while it  *)
(* is, and Esc holds that turn's controller.                                *)
OneTurn ==
  /\ NoSecondTurn
  /\ inFlight # {} => busy /\ ctl \in inFlight /\ prep = {}
  /\ \A r, s \in prep : r = s
  /\ prep # {} => busy

(* The queue core believes in a running turn exactly while one is in        *)
(* flight: a turn that throws does not leave it "stuck in `running`"        *)
(* (src/tui/readlineWorkspace.ts:2081-2089), nor does a turn go unnoticed.  *)
RunningIsATurn == core.running <=> inFlight # {}

(* An armed preempt belongs to the turn now unwinding and is spent by its   *)
(* end: it never waits to soften the abort of a later turn.                 *)
PreemptIsSpent == armed # "none" => ctl \in inFlight \cap aborted

(* Every message that arrived is in exactly one place: being prepared, in   *)
(* one request of the queue, sent, or dropped.  So none is sent twice and   *)
(* none vanishes, through flushes, preempts and drains alike.               *)
EachInOnePlace ==
  /\ 1..arrived = (UNION prep) \cup Staged(core) \cup sent \cup dropped
  /\ sent \cap dropped = {}
  /\ (UNION prep) \cap (sent \cup dropped \cup Staged(core)) = {}
  /\ Staged(core) \cap (sent \cup dropped) = {}
  /\ \A i, j \in DOMAIN core.queue :
       i # j => core.queue[i] \cap core.queue[j] = {}

(* What was staged when the user pressed Esc is never thrown away (the user *)
(* "did not abandon what they queued", src/tui/readlineWorkspace.ts:2555);  *)
(* only what joins the queue while the stopped turn unwinds can be.         *)
OnlyLateDropped == dropped \subseteq late

(* The queue is in order of arrival, whatever has been merged into what. *)
QueueInOrder ==
  \A i, j \in DOMAIN core.queue : i < j =>
     \A m \in core.queue[i], n \in core.queue[j] : m < n

(* In a calm session one turn at a time is prepared or run, busy and Esc     *)
(* are its own, the queue core believes in it, and no preempt outlives it.  *)
(* What a forced stop and a command do to that is what NoSecondTurn and     *)
(* LateReturnDiscarded are about.                                           *)
CalmTurnsAgree == Calm => OneTurn /\ RunningIsATurn /\ PreemptIsSpent

(* A calm session drops nothing that was queued before Esc. *)
CalmOnlyLateDropped == Calm => OnlyLateDropped

(* `busy` is released however a line settles: Enter queues for ever only     *)
(* behind a turn that still runs and that nobody told to stop.  A turn that  *)
(* was stopped, one that threw, a failed attachment or a turn that was       *)
(* overtaken leaves no session busy with nothing                             *)
(* (src/tui/readlineWorkspace.ts:2787-2792).                                 *)
BusyNeedsATurn == busy ~> (~busy \/ inFlight \ aborted # {})

(* What a force-stopped turn brings back late is discarded whole: a turn    *)
(* begun since keeps its controller, the session stays busy with it, and    *)
(* the queue is as it was (src/tui/readlineWorkspace.ts:1014-1015).         *)
LateReturnDiscarded ==
  [][\A e \in inFlight :
       e \notin inFlight' /\ e = forcedEpoch /\ inFlight \ {e} # {}
         => UNCHANGED <<busy, ctl, core>>]_sessionVars

=============================================================================
