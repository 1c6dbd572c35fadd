--------------------------- MODULE TerminalProofs ---------------------------
(***************************************************************************)
(* What holds of the interactive terminal for any number of messages and   *)
(* any set of runs.                                                        *)
(*                                                                         *)
(* TuiSession:                                                             *)
(*  - As long as the session is calm (no forced stop, no command that      *)
(*    awaits while busy is FALSE): at most one turn, which the queue core  *)
(*    knows of, which Esc can reach, and which alone an armed preempt      *)
(*    waits for; and nothing queued when Esc was pressed is dropped.       *)
(*  - Always: each message is in one place, the queue is in order of       *)
(*    arrival, and every variable has its type.                            *)
(* RunWake: no run wakes the dialog twice, a claimed run not at all; and   *)
(* the end of a run that was never claimed, silent or polled from another  *)
(* dialog is never forgotten.                                              *)
(* MCTerminal: each of the two behaves in the whole as it does alone.      *)
(***************************************************************************)
EXTENDS MCTerminal, FiniteSetTheorems, TLAPS

(* A queue state whose requests are sets of numbers. *)
QueueType == [running: BOOLEAN, queue: Seq(SUBSET Nat)]

(* The shape of the state the argument needs. *)
Shape ==
  /\ core \in QueueType
  /\ epoch \in Nat /\ arrived \in Nat
  /\ inFlight \subseteq 1..epoch
  /\ busy \in BOOLEAN

(* A calm session has no command awaiting either. *)
Quiet == Calm /\ commands = 0

(* The inductive invariant: one owner, preparing or running, while busy;    *)
(* the controller is the owner's or nobody's; an idle session has no        *)
(* controller, and nothing armed.                                           *)
OwnerInv ==
  /\ Shape /\ Quiet
  /\ OneTurn /\ RunningIsATurn /\ PreemptIsSpent
  /\ busy => inFlight # {} \/ prep # {}
  /\ ctl # 0 => ctl \in inFlight

(* In any session: a controller belongs to a turn that has a number. *)
EpochsCount ==
  /\ epoch \in Nat /\ commandsRun \in Nat
  /\ ctl # 0 => activeEpoch # 0

(* A session begins calm and idle. *)
LEMMA OwnerInit == SessionInit => OwnerInv
<1> SUFFICES ASSUME SessionInit PROVE OwnerInv
  OBVIOUS
<1>1. core \in QueueType /\ core.running = FALSE
  <2>1. <<>> \in Seq(SUBSET Nat)
    OBVIOUS
  <2> QED
    BY <2>1 DEF SessionInit, EmptyQueue, QueueType
<1>2. Shape /\ Quiet
  BY <1>1 DEF SessionInit, Shape, Quiet, Calm
<1>3. OneTurn /\ RunningIsATurn /\ PreemptIsSpent
  BY <1>1 DEF SessionInit, OneTurn, NoSecondTurn, RunningIsATurn, PreemptIsSpent
<1> QED
  BY <1>2, <1>3 DEF SessionInit, OwnerInv

(* Handing a request to a turn while none is in flight or being prepared. *)
LEMMA RunStarts ==
  ASSUME OwnerInv, NEW q, NEW req, ~busy,
         q \in QueueType,
         RunIdleTextTurn(q, req),
         arrived' \in Nat, UNCHANGED <<armed, prep, commandVars>>
  PROVE  OwnerInv'
<1>1. inFlight = {} /\ prep = {}
  BY DEF OwnerInv, OneTurn
<1>2. inFlight' = {epoch + 1} /\ ctl' = epoch + 1 /\ epoch' = epoch + 1
      /\ busy' = TRUE /\ forcedEpoch' = 0 /\ core' = TurnStart(q)
  BY <1>1 DEF RunIdleTextTurn, BeginTurn, OwnerInv, Quiet, Calm
<1>3. armed = "none" /\ armed' = armed /\ prep' = prep
  BY <1>1 DEF OwnerInv, PreemptIsSpent
<1>4. core' \in QueueType /\ core'.running = TRUE
  BY <1>2 DEF TurnStart, QueueType
<1>5. Shape' /\ Quiet'
  BY <1>2, <1>4 DEF OwnerInv, Shape, Quiet, Calm, commandVars
<1>6. OneTurn'
  BY <1>1, <1>2, <1>3 DEF OneTurn, NoSecondTurn
<1>7. RunningIsATurn' /\ PreemptIsSpent'
  BY <1>2, <1>3, <1>4 DEF RunningIsATurn, PreemptIsSpent
<1> QED
  BY <1>2, <1>5, <1>6, <1>7 DEF OwnerInv

(* A step that leaves the turns and busy alone, and arms only while aborting *)
(* the turn in flight.                                                       *)
LEMMA KeepsOwner ==
  ASSUME OwnerInv,
         core' \in QueueType,
         core'.running = core.running,
         arrived' \in Nat,
         UNCHANGED <<busy, ctl, forcedEpoch, epoch, inFlight, prep, commandVars>>,
         aborted \subseteq aborted',
         armed' # armed => ctl \in inFlight \cap aborted'
  PROVE  OwnerInv'
<1>1. Shape' /\ Quiet'
  BY DEF OwnerInv, Shape, Quiet, Calm, commandVars
<1>2. OneTurn'
  BY DEF OwnerInv, OneTurn, NoSecondTurn
<1>3. RunningIsATurn'
  BY DEF OwnerInv, RunningIsATurn
<1>4. PreemptIsSpent'
  BY DEF OwnerInv, PreemptIsSpent
<1> QED
  BY <1>1, <1>2, <1>3, <1>4 DEF OwnerInv

(* In a calm session a running core has a controller to abort. *)
LEMMA RunningHasController ==
  ASSUME OwnerInv, core.running PROVE ctl # 0 /\ ctl \in inFlight
  BY DEF OwnerInv, Shape, OneTurn, RunningIsATurn

(* Every message a request carries is a number. *)
LEMMA StagedAreNumbers ==
  ASSUME NEW q \in QueueType
  PROVE  Staged(q) \in SUBSET Nat
<1>1. q.queue \in Seq(SUBSET Nat)
  BY DEF QueueType
<1>2. \A i \in DOMAIN q.queue : q.queue[i] \in SUBSET Nat
  BY <1>1
<1> QED
  BY <1>2 DEF Staged

(* The queue of a flush is one request. *)
LEMMA MergedShape ==
  ASSUME NEW q \in QueueType,
         NEW extra \in SUBSET Nat
  PROVE  /\ Merged(q, extra) \in QueueType
         /\ Merged(q, extra).running = q.running
         /\ Merged(q, extra).queue # <<>>
<1> DEFINE req == extra \cup Staged(q)
<1>1. req \in SUBSET Nat
  BY StagedAreNumbers
<1>2. Merged(q, extra) = [q EXCEPT !.queue = Append(<<>>, req)]
  BY DEF Merged, Enqueue, Clear
<1>3. Append(<<>>, req) \in Seq(SUBSET Nat) /\ Append(<<>>, req) # <<>>
  BY <1>1
<1> QED
  BY <1>2, <1>3 DEF QueueType

(* Taking the head leaves a queue. *)
LEMMA DequeueShape ==
  ASSUME NEW q \in QueueType, q.queue # <<>>
  PROVE  Dequeue(q) \in QueueType /\ Dequeue(q).running = q.running
<1>1. Tail(q.queue) \in Seq(SUBSET Nat)
  <2>1. q.queue \in Seq(SUBSET Nat)
    BY DEF QueueType
  <2> QED
    BY <2>1
<1> QED
  BY <1>1 DEF Dequeue, QueueType

(* Settling ends the only turn, and the next one, if any, replaces it. *)
LEMMA SettleKeepsOwner ==
  ASSUME OwnerInv, NEW e \in inFlight, NEW threw \in BOOLEAN, Settle(e, threw)
  PROVE  OwnerInv'
<1> DEFINE outcome == ConsumePreempt(Outcome(e, threw))
           q == TurnEnd(core, outcome)
<1>1. inFlight = {e} /\ prep = {} /\ busy
  BY DEF OwnerInv, OneTurn, NoSecondTurn
<1>2. q \in QueueType /\ q.running = FALSE
  BY DEF OwnerInv, Shape, TurnEnd, QueueType
<1>3. armed' = "none" /\ UNCHANGED <<forcedEpoch, prep, commandVars, arrived>>
  BY DEF Settle
<1>4. CASE ShouldDrain(q, Clean(outcome))
  <2>1. core' = Dequeue(TurnStart(q)) /\ BeginTurn(Head(q.queue), inFlight \ {e})
        /\ busy' = busy
    BY <1>4 DEF Settle
  <2>2. inFlight' = {epoch + 1} /\ ctl' = epoch + 1 /\ epoch' = epoch + 1
    BY <2>1, <1>1 DEF BeginTurn
  <2>3. q.queue # <<>> /\ q.queue \in Seq(SUBSET Nat)
    BY <1>2, <1>4 DEF ShouldDrain, QueueType
  <2>4. core' \in QueueType /\ core'.running
    <3>1. TurnStart(q) \in QueueType /\ TurnStart(q).running
          /\ TurnStart(q).queue = q.queue
      BY <1>2 DEF TurnStart, QueueType
    <3> QED
      BY <2>1, <2>3, <3>1, DequeueShape
  <2>5. Shape' /\ Quiet'
    BY <1>3, <2>1, <2>2, <2>4 DEF OwnerInv, Shape, Quiet, Calm, commandVars
  <2>6. OneTurn'
    BY <1>1, <1>3, <2>1, <2>2 DEF OneTurn, NoSecondTurn
  <2>7. RunningIsATurn' /\ PreemptIsSpent'
    BY <1>3, <2>2, <2>4 DEF RunningIsATurn, PreemptIsSpent
  <2> QED
    BY <2>2, <2>5, <2>6, <2>7 DEF OwnerInv
<1>5. CASE ~ShouldDrain(q, Clean(outcome))
  <2>1. core' = q /\ ctl' = 0 /\ inFlight' = inFlight \ {e} /\ busy' = FALSE
        /\ epoch' = epoch
    BY <1>5 DEF Settle
  <2>2. inFlight' = {} /\ prep' = {}
    BY <1>1, <1>3, <2>1
  <2>3. Shape' /\ Quiet'
    BY <1>2, <1>3, <2>1, <2>2 DEF OwnerInv, Shape, Quiet, Calm, commandVars
  <2>4. OneTurn' /\ RunningIsATurn' /\ PreemptIsSpent'
    BY <1>2, <1>3, <2>1, <2>2 DEF OneTurn, NoSecondTurn, RunningIsATurn,
       PreemptIsSpent
  <2> QED
    BY <2>1, <2>3, <2>4 DEF OwnerInv
<1> QED
  BY <1>4, <1>5

(* A text or wake-up that joins the queue. *)
LEMMA StagingKeepsOwner ==
  ASSUME OwnerInv, Arrives, StageMessage,
         UNCHANGED <<armed, busy, turnVars, prep, commandVars>>
  PROVE  OwnerInv'
<1>1. core' \in QueueType
      /\ core'.running = core.running
  <2>1. core \in QueueType /\ {Message} \in SUBSET Nat
    BY DEF OwnerInv, Shape, Message
  <2>2. Append(core.queue, {Message}) \in Seq(SUBSET Nat)
    BY <2>1 DEF QueueType
  <2> QED
    BY <2>1, <2>2 DEF StageMessage, Enqueue, QueueType
<1>2. arrived' \in Nat
  BY DEF OwnerInv, Shape, Arrives, Message
<1>3. UNCHANGED <<busy, ctl, forcedEpoch, epoch, inFlight, prep, commandVars, aborted, armed>>
  BY DEF turnVars
<1> QED
  BY <1>1, <1>2, <1>3, KeepsOwner

(* preemptAndAbortForDrain arms and aborts together. *)
LEMMA PreemptKeepsOwner ==
  ASSUME OwnerInv, NEW q, q.running = core.running,
         PreemptAndAbortForDrain(q),
         core' \in QueueType,
         core'.running = core.running,
         UNCHANGED <<busy, ctl, forcedEpoch, epoch, inFlight, prep, commandVars,
                     arrived>>
  PROVE  OwnerInv'
<1>1. aborted \subseteq aborted' /\ (armed' # armed => ctl \in inFlight \cap aborted')
  BY RunningHasController DEF PreemptAndAbortForDrain
<1>2. arrived' \in Nat
  BY DEF OwnerInv, Shape
<1> QED
  BY <1>1, <1>2, KeepsOwner

(* One case per action of SessionNext. *)
LEMMA OwnerStep ==
  ASSUME OwnerInv, EpochsCount, [SessionNext]_sessionVars, Calm'
  PROVE  OwnerInv'
<1> USE DEF OwnerInv
<1>0. core \in QueueType /\ arrived \in Nat
      /\ Message \in Nat
  BY DEF Shape, Message
<1>1. CASE EnterQueues
  BY <1>1, StagingKeepsOwner DEF EnterQueues
<1>2. CASE EnterStarts
  BY <1>0, <1>2, RunStarts DEF EnterStarts, Arrives
<1>3. CASE EnterWithImages
  <2>1. inFlight = {} /\ prep = {} /\ prep' = {{Message}} /\ busy' = TRUE
        /\ arrived' \in Nat
    BY <1>0, <1>3 DEF EnterWithImages, OneTurn, Arrives
  <2>2. UNCHANGED <<core, armed, ctl, forcedEpoch, epoch, aborted, inFlight,
                    commands, commandsRun>>
    BY <1>3 DEF EnterWithImages, queueVars, turnVars, commandVars
  <2>3. Shape' /\ Quiet' /\ RunningIsATurn' /\ PreemptIsSpent'
    BY <2>1, <2>2 DEF Shape, Quiet, Calm, RunningIsATurn, PreemptIsSpent
  <2>4. OneTurn'
    BY <2>1, <2>2 DEF OneTurn, NoSecondTurn
  <2> QED
    BY <2>1, <2>2, <2>3, <2>4
<1>4. CASE EmptyEnterPreempts
  BY <1>0, <1>4, PreemptKeepsOwner DEF EmptyEnterPreempts, ledger
<1>5. CASE EmptyEnterDrains
  <2>1. Dequeue(core) \in QueueType
    BY <1>0, <1>5, DequeueShape DEF EmptyEnterDrains, DrainHead
  <2> QED
    BY <1>0, <1>5, <2>1, RunStarts DEF EmptyEnterDrains
<1>6. CASE FlushBusy
  <2>1. core' \in QueueType
        /\ core'.running = core.running
    BY <1>0, <1>6, MergedShape DEF FlushBusy
  <2> QED
    BY <1>0, <1>6, <2>1, PreemptKeepsOwner DEF FlushBusy, ledger
<1>7. ASSUME NEW draft \in {{}, {Message}}, FlushIdle(draft) PROVE OwnerInv'
  <2> DEFINE q == Merged(core, draft)
  <2>1. q \in QueueType /\ q.running = core.running
        /\ q.queue # <<>>
    BY <1>0, MergedShape
  <2>2. ~busy /\ ~core.running
    BY <1>7 DEF FlushIdle, OneTurn, RunningIsATurn, Shape
  <2>3. RunIdleTextTurn(Dequeue(q), Head(q.queue))
    BY <1>7, <2>1, <2>2 DEF FlushIdle, DrainHead
  <2>4. Dequeue(q) \in QueueType
    BY <2>1, DequeueShape
  <2>5. arrived' \in Nat /\ UNCHANGED <<armed, prep, commandVars>>
    BY <1>0, <1>7 DEF FlushIdle, Arrives
  <2> QED
    BY <2>2, <2>3, <2>4, <2>5, RunStarts
<1>8. CASE EscStops
  <2>1. ctl \in inFlight /\ ctl \in aborted' /\ aborted \subseteq aborted'
    BY <1>8 DEF EscStops
  <2> QED
    BY <1>0, <1>8, <2>1, KeepsOwner DEF EscStops, ledger
<1>9. CASE EscForces \/ CommandStarts \/ CommandEnds
  BY <1>9 DEF EscForces, CommandStarts, CommandEnds, Quiet, Calm, EpochsCount
<1>10. ASSUME NEW req \in prep, ImagesRead(req) PROVE OwnerInv'
  <2>1. prep = {req} /\ inFlight = {} /\ busy
    BY <1>10 DEF OneTurn
  <2>2. prep' = {} /\ inFlight' = {epoch + 1} /\ ctl' = epoch + 1
        /\ epoch' = epoch + 1 /\ core' = TurnStart(core)
        /\ UNCHANGED <<armed, busy, forcedEpoch, commands, commandsRun, arrived>>
    BY <2>1, <1>10 DEF ImagesRead, BeginTurn, commandVars
  <2>3. armed = "none"
    BY <2>1 DEF PreemptIsSpent
  <2>4. core' \in QueueType /\ core'.running = TRUE
    BY <1>0, <2>2 DEF TurnStart, QueueType
  <2>5. Shape' /\ Quiet'
    BY <2>2, <2>4 DEF Shape, Quiet, Calm
  <2>6. OneTurn' /\ RunningIsATurn' /\ PreemptIsSpent'
    BY <2>1, <2>2, <2>3, <2>4 DEF OneTurn, NoSecondTurn, RunningIsATurn,
       PreemptIsSpent
  <2> QED
    BY <2>2, <2>5, <2>6
<1>11. CASE WakeQueues
  BY <1>11, StagingKeepsOwner DEF WakeQueues
<1>12. CASE WakeStarts
  BY <1>0, <1>12, RunStarts DEF WakeStarts, Arrives
<1>13. CASE \E e \in inFlight, threw \in BOOLEAN : Settle(e, threw)
  BY <1>13, SettleKeepsOwner
<1>14. CASE UNCHANGED sessionVars
  BY <1>14 DEF sessionVars, queueVars, turnVars, commandVars, ledger, Shape, Quiet, Calm,
     OneTurn, NoSecondTurn, RunningIsATurn, PreemptIsSpent
<1> QED
  BY <1>1, <1>2, <1>3, <1>4, <1>5, <1>6, <1>7, <1>8, <1>9, <1>10, <1>11,
     <1>12, <1>13, <1>14 DEF SessionNext, Keys

(* Epochs only count up, so the bookkeeping of EpochsCount stays. *)
LEMMA EpochsStep ==
  ASSUME EpochsCount, [SessionNext]_sessionVars PROVE EpochsCount'
<1> USE DEF EpochsCount
<1>1. ASSUME NEW q, NEW req, RunIdleTextTurn(q, req), UNCHANGED commandVars
      PROVE  EpochsCount'
  BY <1>1 DEF RunIdleTextTurn, BeginTurn, commandVars
<1>2. ASSUME UNCHANGED <<ctl, activeEpoch, epoch>>, UNCHANGED commandVars
      PROVE  EpochsCount'
  BY <1>2 DEF commandVars
<1>3. CASE EnterStarts \/ WakeStarts \/ EmptyEnterDrains
  BY <1>1, <1>3 DEF EnterStarts, WakeStarts, EmptyEnterDrains
<1>4. CASE EnterQueues \/ WakeQueues \/ EnterWithImages
  BY <1>2, <1>4 DEF EnterQueues, WakeQueues, EnterWithImages, turnVars
<1>5. CASE EmptyEnterPreempts \/ FlushBusy \/ EscStops
  BY <1>2, <1>5 DEF EmptyEnterPreempts, FlushBusy, EscStops
<1>6. ASSUME NEW draft, FlushIdle(draft) PROVE EpochsCount'
  <2>1. \/ RunIdleTextTurn(Dequeue(Merged(core, draft)), Head(Merged(core, draft).queue))
        \/ UNCHANGED <<ctl, activeEpoch, epoch>>
    BY <1>6 DEF FlushIdle, turnVars
  <2>2. UNCHANGED commandVars
    BY <1>6 DEF FlushIdle
  <2> QED
    BY <1>1, <1>2, <2>1, <2>2
<1>7. CASE EscForces \/ CommandStarts \/ CommandEnds
  BY <1>7 DEF EscForces, CommandStarts, CommandEnds, commandVars, turnVars
<1>8. ASSUME NEW req \in prep, ImagesRead(req) PROVE EpochsCount'
  BY <1>8 DEF ImagesRead, BeginTurn, commandVars
<1>9. ASSUME NEW e \in inFlight, NEW threw \in BOOLEAN, Settle(e, threw)
      PROVE  EpochsCount'
  <2>1. \/ \E req, still : BeginTurn(req, still)
        \/ ctl' = 0 /\ epoch' = epoch
    BY <1>9 DEF Settle
  <2>2. UNCHANGED commandVars
    BY <1>9 DEF Settle
  <2> QED
    BY <2>1, <2>2 DEF BeginTurn, commandVars
<1>10. CASE UNCHANGED sessionVars
  BY <1>2, <1>10 DEF sessionVars, turnVars
<1> QED
  BY <1>3, <1>4, <1>5, <1>6, <1>7, <1>8, <1>9, <1>10 DEF SessionNext, Keys

(* A session that is no longer calm never is again. *)
LEMMA CalmWasCalm ==
  ASSUME EpochsCount, [SessionNext]_sessionVars, Calm' PROVE Calm
<1> USE DEF EpochsCount, Calm
<1>1. CASE EnterStarts \/ WakeStarts \/ EmptyEnterDrains
  BY <1>1 DEF EnterStarts, WakeStarts, EmptyEnterDrains, RunIdleTextTurn, commandVars
<1>2. CASE EnterQueues \/ WakeQueues \/ EnterWithImages
  BY <1>2 DEF EnterQueues, WakeQueues, EnterWithImages, turnVars, commandVars
<1>3. CASE EmptyEnterPreempts \/ FlushBusy \/ EscStops
  BY <1>3 DEF EmptyEnterPreempts, FlushBusy, EscStops, commandVars
<1>4. ASSUME NEW draft, FlushIdle(draft) PROVE Calm
  BY <1>4 DEF FlushIdle, RunIdleTextTurn, turnVars, commandVars
<1>5. CASE EscForces \/ CommandStarts \/ CommandEnds
  BY <1>5 DEF EscForces, CommandStarts, CommandEnds, commandVars, turnVars
<1>6. ASSUME NEW req \in prep, ImagesRead(req) PROVE Calm
  BY <1>6 DEF ImagesRead, commandVars
<1>7. ASSUME NEW e \in inFlight, NEW threw \in BOOLEAN, Settle(e, threw)
      PROVE  Calm
  BY <1>7 DEF Settle, commandVars
<1>8. CASE UNCHANGED sessionVars
  BY <1>8 DEF sessionVars, turnVars, commandVars
<1> QED
  BY <1>1, <1>2, <1>3, <1>4, <1>5, <1>6, <1>7, <1>8 DEF SessionNext, Keys

(* For any number of messages, commands and stops: as long as the session   *)
(* is calm it has one turn at a time, held by busy and within reach of Esc, *)
(* the queue core in step with it, and no preempt armed for a later turn.   *)
THEOREM CalmSessionOwnsItsTurn ==
  SessionSpec => []CalmTurnsAgree
<1> DEFINE Inv == EpochsCount /\ (Calm => OwnerInv)
<1>1. SessionInit => Inv
  BY OwnerInit DEF SessionInit, EpochsCount
<1>2. Inv /\ [SessionNext]_sessionVars => Inv'
  BY EpochsStep, CalmWasCalm, OwnerStep
<1>3. Inv => CalmTurnsAgree
  BY DEF OwnerInv, CalmTurnsAgree
<1> QED
  <2> HIDE DEF Inv
  <2> QED
    BY <1>1, <1>2, <1>3, PTL DEF SessionSpec

-----------------------------------------------------------------------------
(* Queues.  What each operation of the queue machine does to the messages  *)
(* staged in a queue and to their order.                                   *)

(* A queue of non-empty requests, in order of arrival. *)
InOrder(list) ==
  \A i, j \in DOMAIN list : i < j => \A m \in list[i], n \in list[j] : m < n

Tidy(q) ==
  /\ q \in QueueType
  /\ \A i \in DOMAIN q.queue : q.queue[i] # {}
  /\ InOrder(q.queue)

(* The state beside the list does not matter. *)
LEMMA SameQueue ==
  ASSUME NEW q, NEW r, Tidy(q), r \in QueueType, r.queue = q.queue
  PROVE  Tidy(r) /\ Staged(r) = Staged(q)
  BY DEF Tidy, Staged

LEMMA EmptyIsTidy ==
  ASSUME NEW q \in QueueType, q.queue = <<>>
  PROVE  Tidy(q) /\ Staged(q) = {}
  BY DEF Tidy, Staged, InOrder

LEMMA StartIsTidy ==
  ASSUME NEW q, Tidy(q)
  PROVE  /\ Tidy(TurnStart(q)) /\ Staged(TurnStart(q)) = Staged(q)
         /\ TurnStart(q).queue = q.queue
<1>1. TurnStart(q) \in QueueType /\ TurnStart(q).queue = q.queue
  BY DEF Tidy, TurnStart, QueueType
<1> QED
  BY <1>1, SameQueue

(* A request whose messages come after all others joins at the end. *)
LEMMA EnqueueIsTidy ==
  ASSUME NEW q, Tidy(q), NEW req \in SUBSET Nat, req # {},
         \A m \in Staged(q), n \in req : m < n
  PROVE  Tidy(Enqueue(q, req)) /\ Staged(Enqueue(q, req)) = Staged(q) \cup req
<1> DEFINE old == q.queue
           new == Append(old, req)
<1>1. old \in Seq(SUBSET Nat)
  BY DEF Tidy, QueueType
<1>2. Enqueue(q, req) \in QueueType /\ Enqueue(q, req).queue = new
  BY <1>1 DEF Enqueue, Tidy, QueueType
<1>3. DOMAIN new = DOMAIN old \cup {Len(old) + 1} /\ Len(old) + 1 \notin DOMAIN old
      /\ DOMAIN old = 1..Len(old) /\ Len(old) \in Nat
  BY <1>1
<1>4. new[Len(old) + 1] = req /\ \A i \in DOMAIN old : new[i] = old[i]
  BY <1>1
<1>5. \A i \in DOMAIN old : old[i] # {} /\ old[i] \subseteq Staged(q)
  BY DEF Tidy, Staged
<1>6. InOrder(old)
  BY DEF Tidy
<1> HIDE DEF old, new
<1>7. InOrder(new)
  <2> SUFFICES ASSUME NEW i \in DOMAIN new, NEW j \in DOMAIN new, i < j,
                      NEW m \in new[i], NEW n \in new[j]
               PROVE  m < n
    BY DEF InOrder
  <2>1. i \in DOMAIN old
    BY <1>3
  <2>2. CASE j \in DOMAIN old
    BY <1>4, <1>6, <2>1, <2>2 DEF InOrder
  <2>3. CASE j = Len(old) + 1
    BY <1>4, <1>5, <2>1, <2>3
  <2> QED
    BY <1>3, <2>2, <2>3
<1>8. \A i \in DOMAIN new : new[i] # {}
  BY <1>3, <1>4, <1>5
<1>9. UNION {new[i] : i \in DOMAIN new} = (UNION {old[i] : i \in DOMAIN old}) \cup req
  BY <1>3, <1>4
<1>10. Staged(Enqueue(q, req)) = Staged(q) \cup req
  BY <1>2, <1>9 DEF Staged, old
<1> QED
  BY <1>2, <1>7, <1>8, <1>10 DEF Tidy

(* A flush leaves one request with all that was staged, and more. *)
LEMMA MergedIsTidy ==
  ASSUME NEW q, Tidy(q), q.queue # <<>>, NEW extra \in SUBSET Nat
  PROVE  /\ Tidy(Merged(q, extra)) /\ Merged(q, extra).running = q.running
         /\ Staged(Merged(q, extra)) = Staged(q) \cup extra
         /\ Merged(q, extra).queue # <<>>
<1>1. Clear(q) \in QueueType /\ Clear(q).queue = <<>>
  <2>1. <<>> \in Seq(SUBSET Nat)
    OBVIOUS
  <2> QED
    BY <2>1 DEF Clear, Tidy, QueueType
<1>2. Tidy(Clear(q)) /\ Staged(Clear(q)) = {}
  BY <1>1, EmptyIsTidy
<1>3. extra \cup Staged(q) \in SUBSET Nat
  BY StagedAreNumbers DEF Tidy
<1>4. extra \cup Staged(q) # {}
  <2>1. q.queue \in Seq(SUBSET Nat)
    BY DEF Tidy, QueueType
  <2>2. 1 \in DOMAIN q.queue
    BY <2>1
  <2> QED
    BY <2>2 DEF Tidy, Staged
<1>5. Tidy(Merged(q, extra)) /\ Staged(Merged(q, extra)) = extra \cup Staged(q)
  BY <1>2, <1>3, <1>4, EnqueueIsTidy DEF Merged
<1>6. Merged(q, extra).running = q.running /\ Merged(q, extra).queue # <<>>
  BY MergedShape DEF Tidy
<1> QED
  BY <1>5, <1>6

(* The head leaves, and what stays comes after it. *)
LEMMA DequeueIsTidy ==
  ASSUME NEW q, Tidy(q), q.queue # <<>>
  PROVE  /\ Tidy(Dequeue(q))
         /\ Head(q.queue) # {} /\ Head(q.queue) \in SUBSET Nat
         /\ Staged(q) = Head(q.queue) \cup Staged(Dequeue(q))
         /\ Head(q.queue) \cap Staged(Dequeue(q)) = {}
<1> DEFINE old == q.queue
           new == Tail(old)
<1>1. old \in Seq(SUBSET Nat) /\ old # <<>>
  BY DEF Tidy, QueueType
<1>2. Dequeue(q) \in QueueType /\ Dequeue(q).queue = new
  BY <1>1, DequeueShape DEF Dequeue, Tidy, QueueType
<1>3. /\ DOMAIN old = 1..Len(old) /\ Len(old) \in Nat /\ 1 \in DOMAIN old
      /\ DOMAIN new = 1..(Len(old) - 1)
      /\ \A i \in DOMAIN new : i + 1 \in DOMAIN old /\ new[i] = old[i + 1]
      /\ \A i \in DOMAIN old : i # 1 => i - 1 \in DOMAIN new /\ new[i - 1] = old[i]
      /\ Head(old) = old[1]
  BY <1>1
<1>4. InOrder(old) /\ \A i \in DOMAIN old : old[i] # {} /\ old[i] \in SUBSET Nat
  BY <1>1, <1>3 DEF Tidy
<1> HIDE DEF old, new
<1>5. InOrder(new)
  <2> SUFFICES ASSUME NEW i \in DOMAIN new, NEW j \in DOMAIN new, i < j,
                      NEW m \in new[i], NEW n \in new[j]
               PROVE  m < n
    BY DEF InOrder
  <2>1. i + 1 \in DOMAIN old /\ j + 1 \in DOMAIN old /\ i + 1 < j + 1
        /\ m \in old[i + 1] /\ n \in old[j + 1]
    BY <1>3
  <2> QED
    BY <1>4, <2>1 DEF InOrder
<1>6. \A i \in DOMAIN new : new[i] # {}
  BY <1>3, <1>4
<1>7. UNION {old[i] : i \in DOMAIN old} = old[1] \cup (UNION {new[i] : i \in DOMAIN new})
  <2>1. ASSUME NEW x, NEW i \in DOMAIN old, x \in old[i]
        PROVE  x \in old[1] \cup (UNION {new[k] : k \in DOMAIN new})
    BY <1>3, <2>1
  <2>2. ASSUME NEW x, NEW i \in DOMAIN new, x \in new[i]
        PROVE  x \in UNION {old[k] : k \in DOMAIN old}
    BY <1>3, <2>2
  <2> QED
    BY <1>3, <2>1, <2>2
<1>8. old[1] \cap (UNION {new[i] : i \in DOMAIN new}) = {}
  <2> SUFFICES ASSUME NEW x \in old[1], NEW i \in DOMAIN new, x \in new[i]
               PROVE  FALSE
    OBVIOUS
  <2>1. i + 1 \in DOMAIN old /\ 1 < i + 1 /\ x \in old[i + 1]
    BY <1>3
  <2>2. x < x
    BY <1>3, <1>4, <2>1 DEF InOrder
  <2>3. x \in Nat
    BY <1>3, <1>4
  <2> QED
    BY <2>2, <2>3
<1>9. Staged(q) = UNION {old[i] : i \in DOMAIN old}
      /\ Staged(Dequeue(q)) = UNION {new[i] : i \in DOMAIN new}
  BY <1>2 DEF Staged, old
<1>10. Tidy(Dequeue(q))
  BY <1>2, <1>5, <1>6 DEF Tidy
<1>11. Head(q.queue) = old[1] /\ old[1] # {} /\ old[1] \in SUBSET Nat
  BY <1>3, <1>4 DEF old
<1> QED
  BY <1>7, <1>8, <1>9, <1>10, <1>11

-----------------------------------------------------------------------------
(* The ledger.  Every message is prepared, queued, sent or dropped.        *)

(* The first n messages lie in four places, none in two. *)
Apart(P, Q, S, D, n) ==
  /\ 1..n = P \cup Q \cup S \cup D
  /\ S \cap D = {} /\ P \cap (S \cup D \cup Q) = {} /\ Q \cap (S \cup D) = {}

(* The inductive invariant of EachInOnePlace and QueueInOrder.  Requests    *)
(* whose attachments are being read are apart too: reading one must not     *)
(* take a message of another.                                               *)
Books ==
  /\ Tidy(core) /\ arrived \in Nat
  /\ Apart(UNION prep, Staged(core), sent, dropped, arrived)
  /\ \A r \in prep : r # {}
  /\ \A r, s \in prep : r # s => r \cap s = {}

LEMMA BooksStart == SessionInit => Books
<1> SUFFICES ASSUME SessionInit PROVE Books
  OBVIOUS
<1>1. core \in QueueType /\ core.queue = <<>>
  BY OwnerInit DEF OwnerInv, Shape, SessionInit, EmptyQueue
<1>2. Tidy(core) /\ Staged(core) = {}
  BY <1>1, EmptyIsTidy
<1> QED
  BY <1>2 DEF SessionInit, Books, Apart

LEMMA BooksShow == Books => EachInOnePlace /\ QueueInOrder
<1> SUFFICES ASSUME Books PROVE EachInOnePlace /\ QueueInOrder
  OBVIOUS
<1>1. QueueInOrder
  BY DEF Books, Tidy, InOrder, QueueInOrder
<1>2. ASSUME NEW i \in DOMAIN core.queue, NEW j \in DOMAIN core.queue, i < j
      PROVE  core.queue[i] \cap core.queue[j] = {}
  <2>1. core.queue \in Seq(SUBSET Nat)
    BY DEF Books, Tidy, QueueType
  <2>2. core.queue[i] \in SUBSET Nat
    BY <2>1
  <2> SUFFICES ASSUME NEW m \in Nat, m \in core.queue[i], m \in core.queue[j]
               PROVE  FALSE
    BY <2>2
  <2>3. m < m
    BY <1>1, <1>2 DEF QueueInOrder
  <2> QED
    BY <2>3
<1>3. \A i, j \in DOMAIN core.queue :
        i # j => core.queue[i] \cap core.queue[j] = {}
  <2> SUFFICES ASSUME NEW i \in DOMAIN core.queue, NEW j \in DOMAIN core.queue,
                      i # j
               PROVE  core.queue[i] \cap core.queue[j] = {}
    OBVIOUS
  <2>1. core.queue \in Seq(SUBSET Nat)
    BY DEF Books, Tidy, QueueType
  <2>2. i < j \/ j < i
    BY <2>1
  <2> QED
    BY <1>2, <2>2
<1>4. Apart(UNION prep, Staged(core), sent, dropped, arrived)
  BY DEF Books
<1> QED
  BY <1>1, <1>3, <1>4 DEF EachInOnePlace, Apart

(* The message that arrives next is in no place yet. *)
LEMMA MessageIsNew ==
  ASSUME Books
  PROVE  /\ Message \in Nat /\ {Message} \in SUBSET Nat
         /\ 1..Message = 1..arrived \cup {Message}
         /\ Message \notin 1..arrived
         /\ \A m \in Staged(core), n \in {Message} : m < n
  BY DEF Books, Message, Apart

LEMMA NextIsApart ==
  ASSUME NEW P, NEW Q, NEW S, NEW D, NEW n \in Nat, Apart(P, Q, S, D, n)
  PROVE  /\ Apart(P \cup {n + 1}, Q, S, D, n + 1)
         /\ Apart(P, Q \cup {n + 1}, S, D, n + 1)
         /\ Apart(P, Q, S \cup {n + 1}, D, n + 1)
<1>1. 1..(n + 1) = 1..n \cup {n + 1} /\ n + 1 \notin 1..n
  OBVIOUS
<1>2. n + 1 \notin P /\ n + 1 \notin Q /\ n + 1 \notin S /\ n + 1 \notin D
  BY <1>1 DEF Apart
<1> QED
  BY <1>1, <1>2, Zenon DEF Apart

(* Part of what is queued, or of what is prepared, moves to the turns. *)
LEMMA MovingIsApart ==
  ASSUME NEW P, NEW Q, NEW S, NEW D, NEW n, Apart(P, Q, S, D, n), NEW req
  PROVE  /\ req \subseteq Q => Apart(P, Q \ req, S \cup req, D, n)
         /\ req \subseteq P => Apart(P \ req, Q, S \cup req, D, n)
         /\ Apart(P, {}, S, D \cup Q, n)
  BY Zenon DEF Apart

(* A turn begun with req, q staying queued: what was staged, and the        *)
(* message that arrives with it if one does, are shared out between them.   *)
LEMMA RunKeepsBooks ==
  ASSUME Books, NEW q, NEW req, RunIdleTextTurn(q, req),
         UNCHANGED <<prep, dropped>>, Tidy(q),
         \/ Staged(q) \cup req = Staged(core) /\ arrived' = arrived
         \/ Staged(q) \cup req = Staged(core) \cup {Message} /\ arrived' = Message,
         Staged(q) \cap req = {}
  PROVE  Books'
<1>1. core' = TurnStart(q) /\ sent' = sent \cup req
  BY DEF RunIdleTextTurn, BeginTurn
<1>2. Tidy(core') /\ Staged(core') = Staged(q)
  BY <1>1, StartIsTidy
<1>3. arrived \in Nat /\ Apart(UNION prep, Staged(core), sent, dropped, arrived)
  BY DEF Books
<1>4. arrived' \in Nat
      /\ Apart(UNION prep, Staged(q) \cup req, sent, dropped, arrived')
  <2>1. CASE Staged(q) \cup req = Staged(core) /\ arrived' = arrived
    BY <1>3, <2>1
  <2>2. CASE Staged(q) \cup req = Staged(core) \cup {Message} /\ arrived' = Message
    <3>1. Apart(UNION prep, Staged(core) \cup {Message}, sent, dropped, Message)
      BY <1>3, NextIsApart DEF Message
    <3> QED
      BY <2>2, <3>1, MessageIsNew
  <2> QED
    BY <2>1, <2>2
<1>5. Apart(UNION prep, (Staged(q) \cup req) \ req, sent \cup req, dropped, arrived')
  BY <1>4, MovingIsApart
<1>6. (Staged(q) \cup req) \ req = Staged(q)
  OBVIOUS
<1>7. Apart(UNION prep', Staged(core'), sent', dropped', arrived')
  BY <1>1, <1>2, <1>5, <1>6
<1> QED
  BY <1>2, <1>4, <1>7 DEF Books

(* The queue changes its grouping at most. *)
LEMMA SameStagedKeepsBooks ==
  ASSUME Books, Tidy(core'), Staged(core') = Staged(core),
         UNCHANGED <<prep, sent, dropped, arrived>>
  PROVE  Books'
  BY DEF Books

LEMMA StagingKeepsBooks ==
  ASSUME Books, Arrives, StageMessage, UNCHANGED <<prep, sent, dropped>>
  PROVE  Books'
<1>1. arrived' = Message /\ core' = Enqueue(core, {Message})
  BY DEF Arrives, StageMessage
<1>2. Tidy(core') /\ Staged(core') = Staged(core) \cup {Message}
  BY <1>1, MessageIsNew, EnqueueIsTidy DEF Books
<1>3. Apart(UNION prep, Staged(core) \cup {Message}, sent, dropped, Message)
  BY NextIsApart DEF Books, Message
<1>4. arrived' \in Nat
  BY <1>1, MessageIsNew
<1> QED
  BY <1>1, <1>2, <1>3, <1>4 DEF Books

LEMMA ArrivalKeepsBooks ==
  ASSUME Books, Arrives, RunIdleTextTurn(core, {Message}),
         UNCHANGED <<prep, dropped>>
  PROVE  Books'
<1>1. Staged(core) \cap {Message} = {}
  BY MessageIsNew DEF Books, Apart
<1> QED
  BY <1>1, RunKeepsBooks DEF Arrives, Books

LEMMA FlushKeepsBooks ==
  ASSUME Books, NEW draft \in {{}, {Message}}, FlushIdle(draft)
  PROVE  Books'
<1> DEFINE q == Merged(core, draft)
<1>1. draft \in SUBSET Nat /\ core.queue # <<>>
  BY MessageIsNew DEF FlushIdle
<1>2. Tidy(q) /\ Staged(q) = Staged(core) \cup draft /\ q.queue # <<>>
  BY <1>1, MergedIsTidy DEF Books
<1>3. /\ UNCHANGED <<prep, dropped>>
      /\ \/ draft = {} /\ arrived' = arrived
         \/ draft = {Message} /\ arrived' = Message
  BY DEF FlushIdle, Arrives
<1>4. CASE DrainHead(q)
  <2>1. RunIdleTextTurn(Dequeue(q), Head(q.queue))
    BY <1>4 DEF FlushIdle
  <2>2. /\ Tidy(Dequeue(q)) /\ Staged(q) = Head(q.queue) \cup Staged(Dequeue(q))
        /\ Head(q.queue) \cap Staged(Dequeue(q)) = {}
    BY <1>2, DequeueIsTidy
  <2> HIDE DEF q
  <2> QED
    BY <1>2, <1>3, <2>1, <2>2, RunKeepsBooks
<1>5. CASE ~DrainHead(q)
  <2>1. core' = q /\ sent' = sent
    BY <1>5 DEF FlushIdle
  <2> HIDE DEF q
  <2>2. arrived' \in Nat
        /\ Apart(UNION prep, Staged(core) \cup draft, sent, dropped, arrived')
    <3>1. CASE draft = {} /\ arrived' = arrived
      <4>1. Staged(core) \cup draft = Staged(core)
        BY <3>1
      <4> QED
        BY <3>1, <4>1 DEF Books
    <3>2. CASE draft = {Message} /\ arrived' = Message
      <4>1. Apart(UNION prep, Staged(core) \cup {Message}, sent, dropped, Message)
        BY NextIsApart DEF Books, Message
      <4> QED
        BY <3>2, <4>1, MessageIsNew
    <3> QED
      BY <1>3, <3>1, <3>2
  <2> QED
    BY <1>2, <1>3, <2>1, <2>2 DEF Books
<1> QED
  BY <1>4, <1>5

(* The end of a turn drops what is staged, starts its head, or keeps it. *)
LEMMA SettleKeepsBooks ==
  ASSUME Books, NEW e \in inFlight, NEW threw \in BOOLEAN, Settle(e, threw)
  PROVE  Books'
<1> DEFINE outcome == ConsumePreempt(Outcome(e, threw))
           q == TurnEnd(core, outcome)
<1>1. UNCHANGED <<prep, arrived>>
      /\ dropped' = IF outcome.aborted THEN dropped \cup Staged(core) ELSE dropped
  BY DEF Settle
<1>2. q \in QueueType /\ q.running = FALSE
      /\ q.queue = IF outcome.aborted THEN <<>> ELSE core.queue
  BY DEF Books, Tidy, TurnEnd, QueueType
<1>3. \/ /\ ShouldDrain(q, Clean(outcome))
         /\ core' = Dequeue(TurnStart(q)) /\ sent' = sent \cup Head(q.queue)
      \/ core' = q /\ sent' = sent
  BY DEF Settle, BeginTurn
<1>4. CASE outcome.aborted
  <2>1. q.queue = <<>> /\ core' = q /\ sent' = sent
    BY <1>2, <1>3, <1>4 DEF ShouldDrain
  <2>2. Tidy(core') /\ Staged(core') = {}
    BY <1>2, <2>1, EmptyIsTidy
  <2>3. Apart(UNION prep, {}, sent, dropped \cup Staged(core), arrived)
    BY MovingIsApart DEF Books
  <2> QED
    BY <1>1, <1>4, <2>1, <2>2, <2>3 DEF Books
<1>5. CASE ~outcome.aborted
  <2>1. Tidy(q) /\ Staged(q) = Staged(core) /\ dropped' = dropped
    BY <1>1, <1>2, <1>5, SameQueue DEF Books
  <2> HIDE DEF q
  <2>2. CASE core' = q /\ sent' = sent
    BY <1>1, <2>1, <2>2, SameStagedKeepsBooks
  <2>3. CASE q.queue # <<>> /\ core' = Dequeue(TurnStart(q))
             /\ sent' = sent \cup Head(q.queue)
    <3> DEFINE t == TurnStart(q)
    <3>1. Tidy(t) /\ Staged(t) = Staged(core) /\ t.queue = q.queue
      BY <2>1, StartIsTidy
    <3> HIDE DEF t
    <3>2. /\ Tidy(Dequeue(t))
          /\ Staged(core) = Head(q.queue) \cup Staged(Dequeue(t))
          /\ Head(q.queue) \cap Staged(Dequeue(t)) = {}
      BY <2>3, <3>1, DequeueIsTidy
    <3>3. Staged(core) \ Head(q.queue) = Staged(Dequeue(t))
          /\ Head(q.queue) \subseteq Staged(core)
      BY <3>2, Zenon
    <3>4. Apart(UNION prep, Staged(Dequeue(t)), sent \cup Head(q.queue), dropped,
                arrived)
      <4>1. Apart(UNION prep, Staged(core) \ Head(q.queue),
                  sent \cup Head(q.queue), dropped, arrived)
        BY <3>3, MovingIsApart DEF Books
      <4> QED
        BY <3>3, <4>1
    <3>5. core' = Dequeue(t)
      BY <2>3 DEF t
    <3> QED
      BY <1>1, <2>1, <2>3, <3>2, <3>4, <3>5 DEF Books
  <2> QED
    BY <1>3, <2>2, <2>3 DEF ShouldDrain
<1> QED
  BY <1>4, <1>5

(* One case per action that moves a message. *)
LEMMA BooksStep ==
  ASSUME Books, [SessionNext]_sessionVars PROVE Books'
<1>1. CASE EnterQueues \/ WakeQueues
  BY <1>1, StagingKeepsBooks DEF EnterQueues, WakeQueues
<1>2. CASE EnterStarts \/ WakeStarts
  BY <1>2, ArrivalKeepsBooks DEF EnterStarts, WakeStarts
<1>3. CASE EnterWithImages
  <2>1. /\ arrived' = Message /\ prep' = prep \cup {{Message}}
        /\ core' = core /\ sent' = sent /\ dropped' = dropped
    BY <1>3 DEF EnterWithImages, Arrives, queueVars
  <2>2. Apart((UNION prep) \cup {Message}, Staged(core), sent, dropped, Message)
    BY NextIsApart DEF Books, Message
  <2>3. UNION prep' = (UNION prep) \cup {Message}
    BY <2>1
  <2>4. \A r \in prep : r # {Message} => r \cap {Message} = {}
    BY MessageIsNew DEF Books, Apart
  <2> QED
    BY <2>1, <2>2, <2>3, <2>4, MessageIsNew DEF Books
<1>4. CASE EmptyEnterPreempts \/ EscStops \/ EscForces \/ CommandStarts
           \/ CommandEnds \/ UNCHANGED sessionVars
  <2>1. UNCHANGED <<core, prep, sent, dropped, arrived>>
    BY <1>4 DEF EmptyEnterPreempts, EscStops, EscForces, CommandStarts,
       CommandEnds, sessionVars, queueVars, ledger
  <2> QED
    BY <2>1 DEF Books
<1>5. CASE EmptyEnterDrains
  <2>1. /\ Tidy(Dequeue(core))
        /\ Staged(core) = Head(core.queue) \cup Staged(Dequeue(core))
        /\ Head(core.queue) \cap Staged(Dequeue(core)) = {}
    BY <1>5, DequeueIsTidy DEF EmptyEnterDrains, DrainHead, Books
  <2> QED
    BY <1>5, <2>1, RunKeepsBooks DEF EmptyEnterDrains
<1>6. CASE FlushBusy
  <2>1. Tidy(core') /\ Staged(core') = Staged(core) \cup {}
    BY <1>6, MergedIsTidy DEF FlushBusy, Books
  <2> QED
    BY <1>6, <2>1, SameStagedKeepsBooks DEF FlushBusy, ledger
<1>7. CASE FlushIdle({}) \/ FlushIdle({Message})
  BY <1>7, FlushKeepsBooks
<1>8. ASSUME NEW req \in prep, ImagesRead(req) PROVE Books'
  <2>1. /\ prep' = prep \ {req} /\ core' = TurnStart(core)
        /\ sent' = sent \cup req /\ dropped' = dropped /\ arrived' = arrived
    BY <1>8 DEF ImagesRead, BeginTurn
  <2>2. UNION prep' = (UNION prep) \ req /\ req \subseteq UNION prep
    BY <2>1 DEF Books
  <2>3. Apart((UNION prep) \ req, Staged(core), sent \cup req, dropped, arrived)
    BY <2>2, MovingIsApart DEF Books
  <2>4. Tidy(core') /\ Staged(core') = Staged(core)
    BY <2>1, StartIsTidy DEF Books
  <2> QED
    BY <2>1, <2>2, <2>3, <2>4 DEF Books
<1>9. CASE \E e \in inFlight, threw \in BOOLEAN : Settle(e, threw)
  BY <1>9, SettleKeepsBooks
<1> QED
  BY <1>1, <1>2, <1>3, <1>4, <1>5, <1>6, <1>7, <1>8, <1>9 DEF SessionNext, Keys

(* For any number of messages, and through forced stops and commands too:   *)
(* every message typed or woken is in exactly one place, being prepared,    *)
(* queued, sent or dropped, however Enter, Ctrl+S, Esc and the ends of      *)
(* turns move them.                                                         *)
THEOREM NoMessageVanishes == SessionSpec => []EachInOnePlace
<1> QED
  BY BooksStart, BooksStep, BooksShow, PTL DEF SessionSpec

(* And what is queued goes out in the order in which it came. *)
THEOREM FollowUpsStayInOrder == SessionSpec => []QueueInOrder
<1> QED
  BY BooksStart, BooksStep, BooksShow, PTL DEF SessionSpec

-----------------------------------------------------------------------------
(* Late messages.  What a calm session drops joined the queue behind a turn *)
(* already told to stop.                                                    *)

(* A turn told to stop with no preempt armed had nothing queued then, so    *)
(* what is queued now came late.  The epochs aborted have begun.            *)
LateInv ==
  /\ OnlyLateDropped
  /\ ctl \in aborted /\ armed = "none" => Staged(core) \subseteq late
  /\ aborted \subseteq 1..epoch

LEMMA LateStart == SessionInit => LateInv
  BY DEF SessionInit, LateInv, OnlyLateDropped

(* A turn begins with a controller of its own, which no one has aborted. *)
LEMMA RunKeepsLate ==
  ASSUME OwnerInv, LateInv, NEW q, NEW req, RunIdleTextTurn(q, req),
         UNCHANGED <<armed, dropped, late>>
  PROVE  LateInv'
<1>1. ctl' = epoch + 1 /\ epoch' = epoch + 1 /\ aborted' = aborted /\ epoch \in Nat
  BY DEF RunIdleTextTurn, BeginTurn, OwnerInv, Shape
<1>2. ctl' \notin aborted' /\ aborted' \subseteq 1..epoch'
  BY <1>1 DEF LateInv
<1> QED
  BY <1>2 DEF LateInv, OnlyLateDropped

LEMMA StagingKeepsLate ==
  ASSUME Books, LateInv, Arrives, StageMessage,
         UNCHANGED <<armed, turnVars, dropped>>
  PROVE  LateInv'
<1>1. late \subseteq late' /\ UNCHANGED <<ctl, aborted, epoch>>
      /\ (ctl \in aborted => late' = late \cup {Message})
  BY DEF StageMessage, turnVars
<1>2. Staged(core') = Staged(core) \cup {Message}
  BY MessageIsNew, EnqueueIsTidy DEF Books, StageMessage
<1> QED
  BY <1>1, <1>2 DEF LateInv, OnlyLateDropped

(* preemptAndAbortForDrain arms whenever it aborts. *)
LEMMA PreemptKeepsLate ==
  ASSUME OwnerInv, LateInv, NEW q, PreemptAndAbortForDrain(q),
         Staged(core') = Staged(core),
         UNCHANGED <<ctl, epoch, dropped, late>>
  PROVE  LateInv'
<1>1. CASE armed' = "drain" /\ aborted' = aborted \cup ({ctl} \ {0})
  <2>1. ({ctl} \ {0}) \subseteq 1..epoch
    BY DEF OwnerInv, Shape
  <2> QED
    BY <1>1, <2>1 DEF LateInv, OnlyLateDropped
<1>2. CASE UNCHANGED <<armed, aborted>>
  BY <1>2 DEF LateInv, OnlyLateDropped
<1> QED
  BY <1>1, <1>2 DEF PreemptAndAbortForDrain

(* A turn whose end is an abort was told to stop with no preempt armed. *)
LEMMA SettleKeepsLate ==
  ASSUME OwnerInv, LateInv, NEW e \in inFlight, NEW threw \in BOOLEAN,
         Settle(e, threw)
  PROVE  LateInv'
<1> DEFINE raw == Outcome(e, threw)
           outcome == ConsumePreempt(raw)
<1>1. epoch \in Nat /\ e \in 1..epoch /\ forcedEpoch = 0
  BY DEF OwnerInv, Shape, Quiet, Calm
<1>2. outcome.aborted => ctl \in aborted /\ armed = "none"
  <2>1. raw.aborted => ctl \in aborted
    BY <1>1 DEF Outcome, Failed
  <2>2. outcome.aborted => raw.aborted /\ armed = "none"
    BY DEF ConsumePreempt
  <2> QED
    BY <2>1, <2>2
<1>3. dropped' \subseteq late /\ UNCHANGED <<aborted, late>>
  <2>1. dropped' = IF outcome.aborted THEN dropped \cup Staged(core) ELSE dropped
    BY DEF Settle
  <2>2. UNCHANGED <<aborted, late>>
    BY DEF Settle
  <2> QED
    BY <1>2, <2>1, <2>2 DEF LateInv, OnlyLateDropped
<1>4. \/ ctl' = epoch + 1 /\ epoch' = epoch + 1
      \/ ctl' = 0 /\ epoch' = epoch
  BY DEF Settle, BeginTurn
<1>5. ctl' \notin aborted' /\ aborted' \subseteq 1..epoch'
  BY <1>1, <1>3, <1>4 DEF LateInv
<1> QED
  BY <1>3, <1>5 DEF LateInv, OnlyLateDropped

LEMMA LateStep ==
  ASSUME EpochsCount, OwnerInv, Books, LateInv, [SessionNext]_sessionVars, Calm'
  PROVE  LateInv'
<1>1. CASE EnterQueues \/ WakeQueues
  BY <1>1, StagingKeepsLate DEF EnterQueues, WakeQueues
<1>2. CASE EnterStarts \/ WakeStarts \/ EmptyEnterDrains
  BY <1>2, RunKeepsLate DEF EnterStarts, WakeStarts, EmptyEnterDrains
<1>3. CASE EnterWithImages \/ CommandStarts \/ CommandEnds \/ UNCHANGED sessionVars
  <2>1. UNCHANGED <<core, armed, ctl, epoch, aborted, dropped, late>>
    BY <1>3 DEF EnterWithImages, CommandStarts, CommandEnds, sessionVars,
       queueVars, turnVars, ledger
  <2> QED
    BY <2>1 DEF LateInv, OnlyLateDropped
<1>4. CASE EmptyEnterPreempts
  BY <1>4, PreemptKeepsLate DEF EmptyEnterPreempts, ledger
<1>5. CASE FlushBusy
  <2>1. Staged(core') = Staged(core) \cup {}
    BY <1>5, MergedIsTidy DEF FlushBusy, Books
  <2> QED
    BY <1>5, <2>1, PreemptKeepsLate DEF FlushBusy, ledger
<1>6. ASSUME NEW draft \in {{}, {Message}}, FlushIdle(draft) PROVE LateInv'
  <2> DEFINE q == Merged(core, draft)
  <2>1. ~q.running /\ q.queue # <<>>
    <3>1. ~core.running
      BY <1>6 DEF FlushIdle, OwnerInv, OneTurn, RunningIsATurn, Shape
    <3>2. draft \in SUBSET Nat
      BY MessageIsNew
    <3> QED
      BY <1>6, <3>1, <3>2, MergedIsTidy DEF FlushIdle, Books
  <2>2. RunIdleTextTurn(Dequeue(q), Head(q.queue))
    BY <1>6, <2>1 DEF FlushIdle, DrainHead
  <2> QED
    BY <1>6, <2>2, RunKeepsLate DEF FlushIdle
<1>7. CASE EscStops
  <2>1. ctl \in inFlight /\ core.running
    BY <1>7 DEF EscStops, OwnerInv, RunningIsATurn
  <2>2. /\ UNCHANGED <<core, ctl, epoch, dropped, late>>
        /\ aborted' = aborted \cup {ctl}
        /\ core.queue # <<>> => armed' = "stop"
    BY <1>7, <2>1 DEF EscStops, ledger
  <2>3. core.queue = <<>> => Staged(core) = {}
    BY EmptyIsTidy DEF Books, Tidy
  <2>4. ctl \in 1..epoch
    BY <2>1 DEF OwnerInv, Shape
  <2> QED
    BY <2>2, <2>3, <2>4 DEF LateInv, OnlyLateDropped
<1>8. CASE EscForces
  BY <1>8 DEF EscForces, Calm, EpochsCount
<1>9. ASSUME NEW req \in prep, ImagesRead(req) PROVE LateInv'
  <2>1. /\ ctl' = epoch + 1 /\ epoch' = epoch + 1
        /\ UNCHANGED <<aborted, dropped, late>> /\ epoch \in Nat
    BY <1>9 DEF ImagesRead, BeginTurn, OwnerInv, Shape
  <2>2. ctl' \notin aborted' /\ aborted' \subseteq 1..epoch'
    BY <2>1 DEF LateInv
  <2> QED
    BY <2>1, <2>2 DEF LateInv, OnlyLateDropped
<1>10. CASE \E e \in inFlight, threw \in BOOLEAN : Settle(e, threw)
  BY <1>10, SettleKeepsLate
<1> QED
  BY <1>1, <1>2, <1>3, <1>4, <1>5, <1>6, <1>7, <1>8, <1>9, <1>10
     DEF SessionNext, Keys

(* For any number of messages: a calm session throws away nothing that was  *)
(* queued when the user pressed Esc, whether to stop or to preempt.         *)
THEOREM EscKeepsTheQueue == SessionSpec => []CalmOnlyLateDropped
<1> DEFINE Inv == EpochsCount /\ Books /\ (Calm => OwnerInv /\ LateInv)
<1>1. SessionInit => Inv
  BY OwnerInit, BooksStart, LateStart DEF SessionInit, EpochsCount
<1>2. Inv /\ [SessionNext]_sessionVars => Inv'
  BY EpochsStep, BooksStep, CalmWasCalm, OwnerStep, LateStep
<1>3. Inv => CalmOnlyLateDropped
  BY DEF LateInv, CalmOnlyLateDropped
<1> QED
  <2> HIDE DEF Inv
  <2> QED
    BY <1>1, <1>2, <1>3, PTL DEF SessionSpec

-----------------------------------------------------------------------------
(* Types.  A turn has a number because each carries a message no other did. *)

TurnNumbers ==
  /\ epoch \in Nat /\ epoch <= Cardinality(sent)
  /\ ctl \in 0..epoch /\ activeEpoch \in 0..epoch /\ forcedEpoch \in 0..epoch
  /\ aborted \subseteq 1..epoch /\ inFlight \subseteq 1..epoch

Flags ==
  /\ armed \in {"none", "drain", "stop"}
  /\ busy \in BOOLEAN /\ stopping \in BOOLEAN
  /\ arrived \in 0..MaxMsgs /\ late \subseteq 1..arrived
  /\ commands \in 0..commandsRun /\ commandsRun \in 0..MaxCommands

LEMMA NumbersAreFinite ==
  ASSUME NEW n \in Nat, NEW S, S \subseteq 1..n
  PROVE  IsFiniteSet(S) /\ Cardinality(S) \in Nat /\ Cardinality(S) <= n
<1>1. IsFiniteSet(1..n) /\ Cardinality(1..n) = n
  BY FS_Interval
<1>2. IsFiniteSet(S) /\ Cardinality(S) <= Cardinality(1..n)
  BY <1>1, FS_Subset
<1> QED
  BY <1>1, <1>2, FS_CardinalityType

(* Sending a request counts a turn, and it is at least one message more. *)
LEMMA BeginCounts ==
  ASSUME Books, Books', TurnNumbers, NEW req, NEW still \in SUBSET inFlight,
         BeginTurn(req, still), req # {}, req \cap sent = {},
         UNCHANGED <<forcedEpoch, aborted>>
  PROVE  TurnNumbers'
<1>1. IsFiniteSet(sent) /\ Cardinality(sent) \in Nat
      /\ IsFiniteSet(sent') /\ Cardinality(sent') \in Nat
  <2>1. sent \subseteq 1..arrived /\ arrived \in Nat
        /\ sent' \subseteq 1..arrived' /\ arrived' \in Nat
    BY DEF Books, Apart
  <2> QED
    BY <2>1, NumbersAreFinite
<1>2. PICK m \in req : m \notin sent
  OBVIOUS
<1>3. Cardinality(sent \cup {m}) = Cardinality(sent) + 1
      /\ IsFiniteSet(sent \cup {m})
  BY <1>1, <1>2, FS_AddElement
<1>4. (sent \cup {m}) \in SUBSET sent'
  BY DEF BeginTurn
<1>5. Cardinality(sent \cup {m}) <= Cardinality(sent')
  BY <1>1, <1>4, FS_Subset
<1>6. /\ epoch' = epoch + 1 /\ ctl' = epoch + 1 /\ activeEpoch' = epoch + 1
      /\ inFlight' = still \cup {epoch + 1} /\ epoch \in Nat
  BY DEF BeginTurn, TurnNumbers
<1>7. epoch' <= Cardinality(sent')
  BY <1>1, <1>3, <1>5, <1>6 DEF TurnNumbers
<1>8. forcedEpoch' \in 0..epoch' /\ aborted' \subseteq 1..epoch'
      /\ inFlight' \subseteq 1..epoch' /\ ctl' \in 0..epoch'
      /\ activeEpoch' \in 0..epoch'
  BY <1>6 DEF TurnNumbers
<1> QED
  BY <1>6, <1>7, <1>8 DEF TurnNumbers

LEMMA RunCounts ==
  ASSUME Books, Books', TurnNumbers, NEW q, NEW req, RunIdleTextTurn(q, req),
         req # {}, req \cap sent = {}
  PROVE  TurnNumbers'
<1>1. BeginTurn(req, inFlight) /\ UNCHANGED <<forcedEpoch, aborted>>
      /\ inFlight \in SUBSET inFlight
  BY DEF RunIdleTextTurn
<1> QED
  BY <1>1, BeginCounts

(* What is staged, and the message now arriving, has not been sent. *)
LEMMA UnsentIsStaged ==
  ASSUME Books
  PROVE  Message \notin sent /\ Staged(core) \cap sent = {}
  BY MessageIsNew DEF Books, Apart

LEMMA SettleCounts ==
  ASSUME Books, Books', TurnNumbers, NEW e \in inFlight, NEW threw \in BOOLEAN,
         Settle(e, threw)
  PROVE  TurnNumbers'
<1> DEFINE outcome == ConsumePreempt(Outcome(e, threw))
           q == TurnEnd(core, outcome)
<1>1. UNCHANGED <<forcedEpoch, aborted>>
  BY DEF Settle
<1>2. CASE ShouldDrain(q, Clean(outcome))
  <2>1. BeginTurn(Head(q.queue), inFlight \ {e})
    BY <1>2 DEF Settle
  <2>2. q.queue = core.queue /\ core.queue # <<>>
    BY <1>2 DEF ShouldDrain, TurnEnd
  <2>3. Head(core.queue) # {} /\ Head(core.queue) \subseteq Staged(core)
    BY <2>2, DequeueIsTidy DEF Books
  <2>4. Head(q.queue) # {} /\ Head(q.queue) \cap sent = {}
    BY <2>2, <2>3, UnsentIsStaged
  <2>5. inFlight \ {e} \in SUBSET inFlight
    OBVIOUS
  <2> HIDE DEF q
  <2> QED
    BY <1>1, <2>1, <2>4, <2>5, BeginCounts
<1>3. CASE ~ShouldDrain(q, Clean(outcome))
  <2>1. ctl' = 0 /\ inFlight' = inFlight \ {e} /\ UNCHANGED <<activeEpoch, epoch, sent>>
    BY <1>3 DEF Settle
  <2> QED
    BY <1>1, <2>1 DEF TurnNumbers
<1> QED
  BY <1>2, <1>3

LEMMA NumbersStep ==
  ASSUME Books, Books', TurnNumbers, [SessionNext]_sessionVars
  PROVE  TurnNumbers'
<1>1. CASE EnterStarts \/ WakeStarts
  <2>1. RunIdleTextTurn(core, {Message}) /\ {Message} \cap sent = {}
    BY <1>1, UnsentIsStaged DEF EnterStarts, WakeStarts
  <2> QED
    BY <2>1, RunCounts
<1>2. CASE EnterQueues \/ WakeQueues \/ EnterWithImages \/ CommandStarts
           \/ CommandEnds \/ UNCHANGED sessionVars
  <2>1. UNCHANGED <<epoch, ctl, activeEpoch, forcedEpoch, aborted, inFlight, sent>>
    BY <1>2 DEF EnterQueues, WakeQueues, EnterWithImages, CommandStarts,
       CommandEnds, sessionVars, turnVars, ledger
  <2> QED
    BY <2>1 DEF TurnNumbers
<1>3. CASE EmptyEnterPreempts \/ FlushBusy
  <2>1. UNCHANGED <<epoch, ctl, activeEpoch, forcedEpoch, inFlight, sent>>
        /\ aborted' \subseteq aborted \cup ({ctl} \ {0})
    BY <1>3 DEF EmptyEnterPreempts, FlushBusy, PreemptAndAbortForDrain, ledger
  <2> QED
    BY <2>1 DEF TurnNumbers
<1>4. CASE EmptyEnterDrains
  <2>1. RunIdleTextTurn(Dequeue(core), Head(core.queue)) /\ core.queue # <<>>
    BY <1>4 DEF EmptyEnterDrains, DrainHead
  <2>2. Head(core.queue) # {} /\ Head(core.queue) \subseteq Staged(core)
    BY <2>1, DequeueIsTidy DEF Books
  <2> QED
    BY <2>1, <2>2, UnsentIsStaged, RunCounts
<1>5. ASSUME NEW draft \in {{}, {Message}}, FlushIdle(draft) PROVE TurnNumbers'
  <2> DEFINE q == Merged(core, draft)
  <2>1. draft \in SUBSET Nat /\ draft \cap sent = {}
    BY MessageIsNew, UnsentIsStaged
  <2>2. Tidy(q) /\ Staged(q) = Staged(core) \cup draft /\ q.queue # <<>>
    BY <1>5, <2>1, MergedIsTidy DEF FlushIdle, Books
  <2>3. Head(q.queue) # {} /\ Head(q.queue) \subseteq Staged(q)
    BY <2>2, DequeueIsTidy
  <2>4. \/ RunIdleTextTurn(Dequeue(q), Head(q.queue))
        \/ UNCHANGED <<epoch, ctl, activeEpoch, forcedEpoch, aborted, inFlight, sent>>
    BY <1>5 DEF FlushIdle, turnVars
  <2>5. Head(q.queue) \cap sent = {}
    BY <2>1, <2>2, <2>3, UnsentIsStaged
  <2> HIDE DEF q
  <2>6. CASE RunIdleTextTurn(Dequeue(q), Head(q.queue))
    BY <2>3, <2>5, <2>6, RunCounts
  <2>7. CASE UNCHANGED <<epoch, ctl, activeEpoch, forcedEpoch, aborted, inFlight, sent>>
    BY <2>7 DEF TurnNumbers
  <2> QED
    BY <2>4, <2>6, <2>7
<1>6. CASE EscStops \/ EscForces
  <2>1. UNCHANGED <<epoch, inFlight, sent>> /\ ctl # 0
        /\ aborted' = aborted \cup {ctl} /\ ctl' \in {0, ctl}
        /\ activeEpoch' \in {0, activeEpoch} /\ forcedEpoch' \in {forcedEpoch, activeEpoch}
    BY <1>6 DEF EscStops, EscForces, ledger
  <2> QED
    BY <2>1 DEF TurnNumbers
<1>7. ASSUME NEW req \in prep, ImagesRead(req) PROVE TurnNumbers'
  <2>1. BeginTurn(req, inFlight) /\ UNCHANGED <<forcedEpoch, aborted>>
    BY <1>7 DEF ImagesRead
  <2>2. req # {} /\ req \cap sent = {} /\ inFlight \in SUBSET inFlight
    BY DEF Books, Apart
  <2> QED
    BY <2>1, <2>2, BeginCounts
<1>8. CASE \E e \in inFlight, threw \in BOOLEAN : Settle(e, threw)
  BY <1>8, SettleCounts
<1> QED
  BY <1>1, <1>2, <1>3, <1>4, <1>5, <1>6, <1>7, <1>8 DEF SessionNext, Keys

LEMMA FlagsStep ==
  ASSUME Flags, Books, [SessionNext]_sessionVars PROVE Flags'
<1>1. ASSUME UNCHANGED <<arrived, late, commandVars>>, armed' \in {"none", "drain", "stop"},
             busy' \in BOOLEAN, stopping' \in BOOLEAN
      PROVE  Flags'
  BY <1>1 DEF Flags, commandVars
<1>2. ASSUME Arrives, late' = late \/ late' = late \cup {Message},
             UNCHANGED <<armed, stopping, commandVars>>, busy' \in BOOLEAN
      PROVE  Flags'
  <2>1. arrived \in 0..MaxMsgs /\ late \subseteq 1..arrived /\ arrived < MaxMsgs
        /\ arrived' = arrived + 1 /\ late' \subseteq late \cup {arrived + 1}
    BY <1>2 DEF Flags, Arrives, Message
  <2>2. arrived' \in 0..MaxMsgs /\ late' \subseteq 1..arrived'
    BY <2>1, SessionAssumption
  <2> QED
    BY <1>2, <2>2 DEF Flags, commandVars
<1>3. CASE EnterQueues \/ WakeQueues
  BY <1>2, <1>3 DEF Flags, EnterQueues, WakeQueues, StageMessage, turnVars
<1>4. CASE EnterStarts \/ WakeStarts \/ EnterWithImages
  BY <1>2, <1>4 DEF Flags, EnterStarts, WakeStarts, EnterWithImages,
     RunIdleTextTurn, queueVars, turnVars
<1>5. CASE EmptyEnterPreempts \/ FlushBusy
  BY <1>1, <1>5 DEF Flags, EmptyEnterPreempts, FlushBusy,
     PreemptAndAbortForDrain, ledger
<1>6. CASE EmptyEnterDrains
  BY <1>1, <1>6 DEF Flags, EmptyEnterDrains, RunIdleTextTurn
<1>7. ASSUME NEW draft, FlushIdle(draft) PROVE Flags'
  <2>1. UNCHANGED <<armed, late, commandVars, stopping>> /\ busy' \in BOOLEAN
        /\ (arrived' = arrived \/ Arrives)
    BY <1>7 DEF Flags, FlushIdle, RunIdleTextTurn, turnVars
  <2> QED
    BY <1>1, <1>2, <2>1 DEF Flags
<1>8. CASE EscStops \/ EscForces
  BY <1>1, <1>8 DEF Flags, EscStops, EscForces, queueVars, ledger
<1>9. CASE CommandStarts \/ CommandEnds \/ UNCHANGED sessionVars
  <2>1. UNCHANGED <<arrived, late, armed, stopping>> /\ busy' \in {busy, FALSE}
    BY <1>9 DEF CommandStarts, CommandEnds, sessionVars, queueVars, turnVars, ledger
  <2>2. commands' \in 0..commandsRun' /\ commandsRun' \in 0..MaxCommands
    BY <1>9, SessionAssumption DEF Flags, CommandStarts, CommandEnds, sessionVars,
       commandVars
  <2> QED
    BY <2>1, <2>2 DEF Flags
<1>10. ASSUME NEW req \in prep, ImagesRead(req) PROVE Flags'
  BY <1>1, <1>10 DEF Flags, ImagesRead
<1>11. ASSUME NEW e \in inFlight, NEW threw \in BOOLEAN, Settle(e, threw)
       PROVE  Flags'
  BY <1>1, <1>11 DEF Flags, Settle
<1> QED
  BY <1>3, <1>4, <1>5, <1>6, <1>7, <1>8, <1>9, <1>10, <1>11
     DEF SessionNext, Keys

(* Messages in their places, and turns counted: together they are           *)
(* inductive and give every variable its type.                              *)
SessionInv == Books /\ TurnNumbers /\ Flags

LEMMA SessionStart == SessionInit => SessionInv
<1> SUFFICES ASSUME SessionInit PROVE SessionInv
  OBVIOUS
<1>1. Cardinality({}) = 0
  BY FS_EmptySet
<1>2. TurnNumbers
  BY <1>1 DEF SessionInit, TurnNumbers
<1>3. Flags
  <2>1. busy \in BOOLEAN /\ stopping \in BOOLEAN
    BY Zenon DEF SessionInit
  <2>2. arrived \in 0..MaxMsgs /\ commandsRun \in 0..MaxCommands
        /\ commands \in 0..commandsRun
    BY SessionAssumption DEF SessionInit
  <2> QED
    BY <2>1, <2>2 DEF SessionInit, Flags
<1> QED
  BY <1>2, <1>3, BooksStart DEF SessionInv

LEMMA SessionStep == SessionInv /\ [SessionNext]_sessionVars => SessionInv'
BY BooksStep, NumbersStep, FlagsStep DEF SessionInv

LEMMA SessionMeans == SessionInv => SessionTypeOK
<1> SUFFICES ASSUME SessionInv PROVE SessionTypeOK
  OBVIOUS
<1>1. /\ sent \subseteq 1..arrived /\ dropped \subseteq 1..arrived
      /\ Staged(core) \subseteq 1..arrived /\ UNION prep \subseteq 1..arrived
  BY DEF SessionInv, Books, Apart
<1>2. epoch \in 0..arrived
  <2>1. arrived \in Nat /\ epoch \in Nat /\ epoch <= Cardinality(sent)
    BY DEF SessionInv, Books, TurnNumbers
  <2>2. Cardinality(sent) \in Nat /\ Cardinality(sent) <= arrived
    BY <1>1, <2>1, NumbersAreFinite
  <2> QED
    BY <2>1, <2>2
<1>3. prep \subseteq Requests(1..arrived)
  BY <1>1 DEF SessionInv, Books, Requests
<1>4. core \in ChatQueueState(1..arrived)
  <2>1. core \in QueueType /\ core.queue \in Seq(SUBSET Nat)
    BY DEF SessionInv, Books, Tidy, QueueType
  <2>2. \A i \in DOMAIN core.queue : core.queue[i] \in Requests(1..arrived)
    BY <1>1 DEF SessionInv, Books, Tidy, Staged, Requests
  <2>3. core.queue \in Seq(Requests(1..arrived))
    BY <2>1, <2>2
  <2> QED
    BY <2>1, <2>3 DEF QueueType, ChatQueueState
<1> QED
  BY <1>1, <1>2, <1>3, <1>4 DEF SessionInv, SessionTypeOK, TurnNumbers, Flags

(* Every variable of the session has its type: in particular turns are     *)
(* never more than messages, and no request is empty.                       *)
THEOREM SessionTypes == SessionSpec => []SessionTypeOK
  BY SessionStart, SessionStep, SessionMeans, PTL DEF SessionSpec

-----------------------------------------------------------------------------
(* RunWake *)

(* What is known of one run.  Named runs have been woken for, once.  Of an  *)
(* undisturbed run nothing on disk is claimed; once started it is on its    *)
(* way to the panel, read by the poller, or its end is known; and it leaves *)
(* the panel only by its end.                                               *)
Given(r) == woken[r] > 0 \/ r \in told

Named(r) == woken[r] = IF r \in notified THEN 1 ELSE 0

Kept(r) ==
  r \notin disturbed =>
    /\ home /\ lease[r] = "none" /\ r \notin ack
    /\ last[r] = "ended" /\ r \notin OldRuns => r \in notified
    /\ dock[r] \in {"ended", "retired"} /\ r \notin OldRuns => Given(r)
    /\ status[r] # "absent" /\ r \notin OldRuns =>
         reply[r] # "none" \/ Given(r) \/ (dock[r] = "active" /\ polling)

(* Only a run that has a record is answered for or docked. *)
Recordless(r) == status[r] = "absent" => reply[r] = "none" /\ dock[r] = "off"

Typed == WakeTypeOK /\ \A r \in Runs : Recordless(r)

WakeInv == Typed /\ \A r \in Runs : Named(r) /\ Kept(r)

(* Every session begins with nothing docked and nobody named. *)
LEMMA WakeBegins == WakeInit => WakeInv
<1> SUFFICES ASSUME WakeInit PROVE WakeInv
  OBVIOUS
<1>1. WakeTypeOK
  BY DEF WakeInit, WakeTypeOK
<1>2. ASSUME NEW r \in Runs PROVE Recordless(r) /\ Named(r) /\ Kept(r)
  BY <1>2 DEF WakeInit, Recordless, Named, Kept, Given
<1> QED
  BY <1>1, <1>2 DEF WakeInv, Typed

(* What a tick does to each variable, run by run. *)
LEMMA TickSays ==
  ASSUME Poll
  PROVE  /\ UNCHANGED <<status, lease, ack, reply, polling, home, told, disturbed>>
         /\ dock' = [r \in Runs |->
               IF r \in Active /\ emitted[r] # status[r] THEN status[r] ELSE dock[r]]
         /\ emitted' = [r \in Runs |-> IF r \in Active THEN status[r] ELSE "none"]
         /\ notified' = notified \cup Finished(Active)
         /\ woken' = [r \in Runs |->
               IF r \in Finished(Active) THEN woken[r] + 1 ELSE woken[r]]
         /\ last' = [r \in Runs |->
               IF r \in Recorded(Active) THEN status[r] ELSE last[r]]
  BY DEF Poll, Observe, diskVars

(* Every action keeps the types. *)
LEMMA WakeTypes ==
  ASSUME Typed, [WakeNext]_wakeVars PROVE Typed'
<1>0. WakeTypeOK /\ \A r \in Runs : Recordless(r)
  BY DEF Typed
<1>1. ASSUME NEW s \in Runs, RunStep(s) PROVE Typed'
  <2>1. CASE StartRun(s) \/ EndRun(s) \/ AskStatus(s)
    <3>1. UNCHANGED <<lease, ack, dock, emitted, polling, last, notified, woken,
                      home, told, disturbed>>
      BY <2>1 DEF StartRun, EndRun, AskStatus, pollVars, watchVars, diskVars
    <3>2. status' \in [Runs -> {"absent", "active", "ended"}]
          /\ reply' \in [Runs -> {"none", "active", "ended"}]
      BY <1>0, <2>1 DEF StartRun, EndRun, AskStatus, WakeTypeOK, diskVars
    <3>3. \A r \in Runs : Recordless(r)'
      BY <1>0, <2>1, <3>1 DEF StartRun, EndRun, AskStatus, Recordless, WakeTypeOK, diskVars
    <3> QED
      BY <1>0, <3>1, <3>2, <3>3 DEF Typed, WakeTypeOK
  <2>2. CASE ClaimRun(s) \/ CommitClaim(s) \/ ReleaseClaim(s) \/ LeaseExpires(s)
    <3>1. UNCHANGED <<status, dock, emitted, polling, last, notified, woken,
                      home, told>>
      BY <2>2 DEF ClaimRun, CommitClaim, ReleaseClaim, LeaseExpires, pollVars, watchVars
    <3>2. /\ lease' \in [Runs -> {"none", "held", "expired"}]
          /\ ack' \subseteq Runs /\ disturbed' \subseteq Runs
          /\ reply' \in [Runs -> {"none", "active", "ended"}]
      BY <1>0, <2>2 DEF ClaimRun, CommitClaim, ReleaseClaim, LeaseExpires, WakeTypeOK
    <3>3. \A r \in Runs : Recordless(r)'
      BY <1>0, <2>2, <3>1 DEF ClaimRun, CommitClaim, ReleaseClaim, LeaseExpires,
         Recordless, WakeTypeOK
    <3> QED
      BY <1>0, <3>1, <3>2, <3>3 DEF Typed, WakeTypeOK
  <2>3. CASE DeliverReply(s)
    <3>1. /\ UNCHANGED <<status, lease, ack, emitted, last, notified, woken, home,
                         disturbed>>
          /\ polling' = TRUE
      BY <2>3 DEF DeliverReply, watchVars, diskVars
    <3>2. /\ dock' \in [Runs -> {"off", "active", "ended", "retired"}]
          /\ told' \subseteq Runs
          /\ reply' \in [Runs -> {"none", "active", "ended"}]
      BY <1>0, <2>3 DEF DeliverReply, Docked, WakeTypeOK
    <3>3. \A r \in Runs : Recordless(r)'
      BY <1>0, <2>3, <3>1 DEF DeliverReply, Docked, Recordless, WakeTypeOK
    <3> QED
      BY <1>0, <3>1, <3>2, <3>3 DEF Typed, WakeTypeOK
  <2>4. CASE Retire(s) \/ PruneSilent(s)
    <3>1. UNCHANGED <<status, lease, ack, reply, emitted, polling, last, notified,
                      woken, home, told>>
      BY <2>4 DEF Retire, PruneSilent, pollVars, watchVars, diskVars
    <3>2. /\ dock' \in [Runs -> {"off", "active", "ended", "retired"}]
          /\ disturbed' \subseteq Runs
      BY <1>0, <2>4 DEF Retire, PruneSilent, WakeTypeOK
    <3>3. \A r \in Runs : Recordless(r)'
      BY <1>0, <2>4, <3>1 DEF Retire, PruneSilent, Recordless, WakeTypeOK
    <3> QED
      BY <1>0, <3>1, <3>2, <3>3 DEF Typed, WakeTypeOK
  <2> QED
    BY <1>1, <2>1, <2>2, <2>3, <2>4 DEF RunStep
<1>2. CASE Poll
  <2>1. \A r \in Active : r \in Runs /\ status[r] \in {"active", "ended"}
    BY <1>0 DEF Active, Recordless, WakeTypeOK
  <2>2. Finished(Active) \subseteq Runs /\ Recorded(Active) \subseteq Active
    BY DEF Finished, Recorded, Active
  <2>3. /\ dock' \in [Runs -> {"off", "active", "ended", "retired"}]
        /\ emitted' \in [Runs -> {"none", "active", "ended"}]
    BY <1>0, <1>2, <2>1, TickSays DEF WakeTypeOK
  <2>4. last' \in [Runs -> {"unseen", "active", "ended"}]
    BY <1>0, <1>2, <2>1, <2>2, TickSays DEF WakeTypeOK
  <2>5. woken' \in [Runs -> Nat] /\ notified' \subseteq Runs
    BY <1>0, <1>2, <2>2, TickSays DEF WakeTypeOK
  <2>6. UNCHANGED <<status, lease, ack, reply, polling, home, told, disturbed>>
    BY <1>2, TickSays
  <2>7. \A r \in Runs : Recordless(r)'
    BY <1>0, <1>2, <2>1, TickSays DEF Recordless
  <2> QED
    BY <1>0, <2>3, <2>4, <2>5, <2>6, <2>7 DEF Typed, WakeTypeOK
<1>3. CASE StopPolling
  <2>1. /\ UNCHANGED <<status, lease, ack, reply, dock, last, notified, woken, home,
                       told, disturbed>>
        /\ polling' = FALSE /\ emitted' = [r \in Runs |-> "none"]
    BY <1>3 DEF StopPolling, watchVars, diskVars
  <2> QED
    BY <1>0, <2>1 DEF Typed, WakeTypeOK, Recordless
<1>4. CASE SwitchDialog
  <2>1. /\ UNCHANGED <<status, lease, ack, reply, dock, emitted, polling, last,
                       notified, woken, told>>
        /\ home' \in BOOLEAN /\ disturbed' = Runs
    BY <1>4 DEF SwitchDialog, watchVars, diskVars, pollVars
  <2> QED
    BY <1>0, <2>1 DEF Typed, WakeTypeOK, Recordless
<1>5. CASE UNCHANGED wakeVars
  BY <1>0, <1>5 DEF wakeVars, pollVars, watchVars, diskVars, Typed, WakeTypeOK, Recordless
<1> QED
  BY <1>1, <1>2, <1>3, <1>4, <1>5 DEF WakeNext

(* A step taken for one run does to another run's facts nothing that counts. *)
LEMMA OtherRuns ==
  ASSUME NEW r \in Runs, NEW s \in Runs, s # r, RunStep(s), Typed,
         Named(r), Kept(r)
  PROVE  Named(r)' /\ Kept(r)'
<1> USE DEF WakeTypeOK, Typed
<1>1. /\ UNCHANGED <<status[r], lease[r], reply[r], dock[r], last[r], woken[r],
                     r \in ack, r \in told, r \in disturbed, home, notified>>
      /\ polling => polling'
  BY DEF RunStep, StartRun, EndRun, AskStatus, ClaimRun, CommitClaim, ReleaseClaim,
     LeaseExpires, DeliverReply, Retire, PruneSilent, pollVars, watchVars, diskVars
<1> QED
  BY <1>1 DEF Named, Kept, Given

(* A step taken for the run itself. *)
LEMMA OwnSteps ==
  ASSUME NEW r \in Runs, RunStep(r), Typed, Named(r), Kept(r)
  PROVE  Named(r)' /\ Kept(r)'
<1>0. WakeTypeOK /\ Recordless(r)
  BY DEF Typed
<1>1. UNCHANGED <<woken, notified, last, home>>
  BY DEF RunStep, StartRun, EndRun, AskStatus, ClaimRun, CommitClaim,
     ReleaseClaim, LeaseExpires, DeliverReply, Retire, PruneSilent, watchVars
<1>2. Named(r)'
  BY <1>1 DEF Named
<1>3. CASE StartRun(r) \/ AskStatus(r)
  <2>1. /\ reply'[r] # "none"
        /\ UNCHANGED <<lease, ack, dock, told, disturbed>>
    BY <1>0, <1>3 DEF StartRun, AskStatus, WakeTypeOK, diskVars
  <2> QED
    BY <1>1, <1>2, <2>1 DEF Kept, Given
<1>4. CASE EndRun(r)
  <2>1. status[r] # "absent"
        /\ UNCHANGED <<lease, ack, reply, dock, polling, told, disturbed>>
    BY <1>4 DEF EndRun, pollVars
  <2> QED
    BY <1>1, <1>2, <2>1 DEF Kept, Given
<1>5. CASE ClaimRun(r) \/ PruneSilent(r)
  <2>1. r \in disturbed'
    BY <1>5 DEF ClaimRun, PruneSilent
  <2> QED
    BY <1>2, <2>1 DEF Kept
<1>6. CASE CommitClaim(r) \/ ReleaseClaim(r) \/ LeaseExpires(r)
  <2>1. lease[r] # "none" /\ UNCHANGED disturbed
    BY <1>6 DEF CommitClaim, ReleaseClaim, LeaseExpires
  <2> QED
    BY <1>2, <2>1 DEF Kept
<1>7. CASE DeliverReply(r)
  <2>1. /\ UNCHANGED <<status, lease, ack, disturbed>> /\ polling' = TRUE
        /\ dock'[r] = IF dock[r] = "retired" THEN "retired" ELSE reply[r]
        /\ told' = IF reply[r] = "ended" THEN told \cup {r} ELSE told
    BY <1>0, <1>7 DEF DeliverReply, Docked, WakeTypeOK, diskVars
  <2>2. reply[r] \in {"active", "ended"}
    BY <1>0, <1>7 DEF DeliverReply, WakeTypeOK
  <2>3. Given(r) => Given(r)'
    BY <1>1, <2>1 DEF Given
  <2>4. ASSUME r \notin disturbed, r \notin OldRuns
        PROVE  Given(r)' \/ dock'[r] = "active"
    BY <1>1, <2>1, <2>2, <2>3, <2>4 DEF Kept, Given
  <2> QED
    BY <1>1, <1>2, <2>1, <2>4 DEF Kept
<1>8. CASE Retire(r)
  <2>1. /\ dock[r] = "ended"
        /\ UNCHANGED <<status, lease, ack, reply, polling, told, disturbed>>
    BY <1>8 DEF Retire, pollVars, diskVars
  <2> QED
    BY <1>1, <1>2, <2>1 DEF Kept, Given
<1> QED
  BY <1>3, <1>4, <1>5, <1>6, <1>7, <1>8 DEF RunStep

(* A tick reads the run or leaves it alone.  What it reads ended it names,   *)
(* unless it was named before.                                               *)
LEMMA TickKeeps ==
  ASSUME NEW r \in Runs, Poll, Typed, Named(r), Kept(r)
  PROVE  Named(r)' /\ Kept(r)'
<1> USE DEF WakeTypeOK, Typed
<1>1. /\ UNCHANGED <<status, lease, ack, reply, polling, home, told, disturbed>>
      /\ dock'[r] = IF r \in Active /\ emitted[r] # status[r] THEN status[r] ELSE dock[r]
      /\ notified' = notified \cup Finished(Active)
      /\ woken'[r] = IF r \in Finished(Active) THEN woken[r] + 1 ELSE woken[r]
      /\ last'[r] = IF r \in Recorded(Active) THEN status[r] ELSE last[r]
  BY TickSays
<1>2. Named(r)'
  BY <1>1 DEF Named, Finished
<1>3. ASSUME r \notin disturbed PROVE Kept(r)'
  <2>1. home /\ ~Claimed(r)
    BY <1>3 DEF Kept, Claimed, Acked
  <2>2. ASSUME r \notin OldRuns, r \in Active, status[r] = "ended"
        PROVE  r \in notified' /\ woken'[r] > 0
    BY <1>1, <1>2, <1>3, <2>1, <2>2 DEF Finished, Kept, Named
  <2>3. last'[r] = "ended" /\ r \notin OldRuns => r \in notified'
    <3>1. CASE r \in Recorded(Active)
      BY <1>1, <2>2, <3>1 DEF Recorded
    <3>2. CASE r \notin Recorded(Active)
      BY <1>1, <1>3, <3>2 DEF Kept
    <3> QED
      BY <3>1, <3>2
  <2>4. Given(r) => Given(r)'
    BY <1>1 DEF Given
  <2>5. dock'[r] \in {"ended", "retired"} /\ r \notin OldRuns => Given(r)'
    BY <1>1, <1>3, <2>2, <2>4 DEF Kept, Given
  <2>6. status[r] # "absent" /\ r \notin OldRuns =>
          reply[r] # "none" \/ Given(r)' \/ (dock'[r] = "active" /\ polling)
    <3>1. ASSUME dock[r] = "active", status[r] # "absent", r \notin OldRuns
          PROVE  Given(r)' \/ dock'[r] = "active"
      <4>1. r \in Active /\ status[r] \in {"active", "ended"}
        BY <3>1 DEF Active
      <4>2. CASE status[r] = "ended"
        BY <2>2, <3>1, <4>1, <4>2 DEF Given
      <4>3. CASE status[r] = "active"
        BY <1>1, <3>1, <4>3
      <4> QED
        BY <4>1, <4>2, <4>3
    <3>2. status[r] # "absent" /\ r \notin OldRuns =>
            reply[r] # "none" \/ Given(r) \/ (dock[r] = "active" /\ polling)
      BY <1>3 DEF Kept
    <3> QED
      BY <2>4, <3>1, <3>2
  <2> QED
    BY <1>1, <1>3, <2>3, <2>5, <2>6 DEF Kept
<1>4. CASE r \in disturbed
  BY <1>1, <1>2, <1>4 DEF Kept
<1> QED
  BY <1>2, <1>3, <1>4

(* The interval stops only when no run is docked and active. *)
LEMMA RestKeeps ==
  ASSUME NEW r \in Runs, StopPolling \/ SwitchDialog \/ UNCHANGED wakeVars, Typed,
         Named(r), Kept(r)
  PROVE  Named(r)' /\ Kept(r)'
<1> USE DEF WakeTypeOK, Typed
<1>1. CASE StopPolling
  BY <1>1 DEF StopPolling, Active, Named, Kept, Given, diskVars, watchVars
<1>2. CASE SwitchDialog
  BY <1>2 DEF SwitchDialog, Named, Kept, watchVars
<1>3. CASE UNCHANGED wakeVars
  BY <1>3 DEF wakeVars, diskVars, pollVars, watchVars, Named, Kept, Given
<1> QED
  BY <1>1, <1>2, <1>3

(* The invariant is inductive. *)
LEMMA WakeStep == WakeInv /\ [WakeNext]_wakeVars => WakeInv'
<1> SUFFICES ASSUME WakeInv, [WakeNext]_wakeVars PROVE WakeInv'
  OBVIOUS
<1>1. Typed'
  BY WakeTypes DEF WakeInv
<1>2. ASSUME NEW r \in Runs PROVE Named(r)' /\ Kept(r)'
  <2>1. Typed /\ Named(r) /\ Kept(r)
    BY <1>2 DEF WakeInv
  <2>2. CASE \E s \in Runs : RunStep(s)
    BY <2>1, <2>2, OtherRuns, OwnSteps
  <2>3. CASE Poll
    BY <2>1, <2>3, TickKeeps
  <2>4. CASE StopPolling \/ SwitchDialog \/ UNCHANGED wakeVars
    BY <2>1, <2>4, RestKeeps
  <2> QED
    BY <2>2, <2>3, <2>4 DEF WakeNext
<1> QED
  BY <1>1, <1>2 DEF WakeInv

(* The invariant says what the runs check. *)
LEMMA WakeMeans == WakeInv => WakeTypeOK /\ WakesOnce /\ UndisturbedHeeded
<1> SUFFICES ASSUME WakeInv PROVE WakeTypeOK /\ WakesOnce /\ UndisturbedHeeded
  OBVIOUS
<1>1. WakeTypeOK /\ WakesOnce
  BY DEF WakeInv, Typed, WakesOnce, Named
<1>2. ASSUME NEW r \in Runs \ disturbed PROVE Heeded(r)
  BY <1>2 DEF WakeInv, Typed, WakeTypeOK, Named, Kept, Given, Heeded, Watched
<1> QED
  BY <1>1, <1>2 DEF UndisturbedHeeded

(* Types hold for any set of runs. *)
THEOREM WakeTyped == WakeSpec => []WakeTypeOK
  BY WakeBegins, WakeStep, WakeMeans, PTL DEF WakeSpec

(* However many runs, claims, stale tool results and dialogs: a run wakes   *)
(* its dialog at most once.                                                 *)
THEOREM RunsWakeOnce == WakeSpec => []WakesOnce
  BY WakeBegins, WakeStep, WakeMeans, PTL DEF WakeSpec

(* The end of an undisturbed run is known, on its way, or still watched.    *)
THEOREM UndisturbedEndsAreHeeded == WakeSpec => []UndisturbedHeeded
  BY WakeBegins, WakeStep, WakeMeans, PTL DEF WakeSpec

(* A tick is the only step that wakes, and it names no run that is claimed  *)
(* or that was named before.                                                *)
LEMMA OnlyTicksWake ==
  ASSUME [WakeNext]_wakeVars, NEW r \in Runs, woken'[r] # woken[r]
  PROVE  ~Claimed(r) /\ r \notin notified
<1>1. CASE Poll
  BY <1>1, TickSays DEF Finished
<1>2. CASE (\E s \in Runs : RunStep(s)) \/ StopPolling \/ SwitchDialog
           \/ UNCHANGED wakeVars
  <2>1. UNCHANGED woken
    BY <1>2 DEF RunStep, StartRun, EndRun, AskStatus, ClaimRun, CommitClaim,
       ReleaseClaim, LeaseExpires, DeliverReply, Retire, PruneSilent,
       StopPolling, SwitchDialog, wakeVars, watchVars
  <2> QED
    BY <2>1
<1> QED
  BY <1>1, <1>2 DEF WakeNext

(* However claims, leases and ticks interleave: a run that a wait holds or  *)
(* has collected wakes nobody.                                              *)
THEOREM ClaimsSilenceWakes == WakeSpec => ClaimedStaysSilent
<1>1. [WakeNext]_wakeVars =>
        [\A r \in Runs : woken'[r] # woken[r] =>
           ~Claimed(r) /\ r \notin notified]_wakeVars
  BY OnlyTicksWake
<1> QED
  BY <1>1, PTL DEF WakeSpec, ClaimedStaysSilent

-----------------------------------------------------------------------------
(* The whole: a step of it is a step of the part that is followed, and      *)
(* leaves the other alone.                                                  *)

LEMMA PartsStart == Init => SessionInit /\ WakeInit
BY DEF Init

LEMMA PartsStep ==
  [Next]_vars => [SessionNext]_sessionVars /\ [WakeNext]_wakeVars
BY Zenon DEF Next, vars

(* Whichever part a behaviour follows, every variable keeps its type. *)
THEOREM TerminalTypes == Spec => []TypeOK
<1>1. Init => SessionInv /\ WakeInv
  BY PartsStart, SessionStart, WakeBegins
<1>2. SessionInv /\ WakeInv /\ [Next]_vars => SessionInv' /\ WakeInv'
  BY PartsStep, SessionStep, WakeStep
<1>3. SessionInv /\ WakeInv => TypeOK
  BY SessionMeans, WakeMeans DEF TypeOK
<1> QED
  BY <1>1, <1>2, <1>3, PTL DEF Spec

=============================================================================
