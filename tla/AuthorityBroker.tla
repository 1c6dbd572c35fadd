-------------------------- MODULE AuthorityBroker --------------------------
(***************************************************************************)
(* How the nolo processes of one machine share one LevelDB directory       *)
(* (src/localRuntimeAuthority.ts and the broker of src/database-engine):   *)
(* whoever opens the store first serves it to all on one local port, and   *)
(* when that process ends another takes over.  A client repeats an         *)
(* operation once after the broker was unavailable.                        *)
(*                                                                         *)
(* LevelDB's lock and the port belong to the process and are free when it  *)
(* dies.  A process has one client and may be the broker at the same time;  *)
(* one that has ended may be followed by a new one of the same name.       *)
(* Reads are left out: an operation is a write, known by its writer and    *)
(* its number.                                                             *)
(***************************************************************************)
EXTENDS Naturals, Sequences, FiniteSets

CONSTANTS
  Procs, Nobody,
  Attach,       \* attempts to attach to the broker that holds the lock (5)
  AttachAgain,  \* the same within a further round (2)
  Rounds,       \* further rounds of taking over (5)
  MaxOps,       \* bound: operations of one process
  MaxFaults     \* bound: processes that end and requests that time out

ASSUME BrokerAssumption ==
  /\ Nobody \notin Procs
  /\ {Attach, AttachAgain, Rounds} \subseteq Nat \ {0}
  /\ {MaxOps, MaxFaults} \subseteq Nat

VARIABLES
  alive,      \* the processes that use the store
  owner,      \* the process with the LevelDB lock
  listener,   \* the process listening on the port
  client,      \* where each process's client is
  round,      \* takeover rounds of the connection under way
  left,       \* attach attempts left in this round
  healed,     \* the current operation was repeated
  op,         \* number of each process's current operation, 0 without one
  begun,      \* operations each process has begun
  calls,      \* write requests the broker has, waited for or not
  log,        \* the requests applied to the store, in order
  answered,   \* operations whose caller knows the outcome
  timedOut,   \* operations a request of which timed out
  faults      \* processes that ended and requests that timed out

connVars == <<client, round, left>>
storeVars == <<alive, owner, listener>>
opVars == <<healed, op, begun>>
faultVars == <<timedOut, faults>>
brokerVars == <<storeVars, connVars, opVars, calls, log, answered, faultVars>>

Stages == {"off", "fast", "take", "bind", "own", "attach", "ready", "calling"}
Connecting == {"fast", "take", "bind", "own", "attach"}
Op(p) == [by |-> p, nr |-> op[p]]

BrokerInit ==
  /\ alive = {} /\ owner = Nobody /\ listener = Nobody
  /\ client = [p \in Procs |-> "off"]
  /\ round = [p \in Procs |-> 0] /\ left = [p \in Procs |-> 0]
  /\ healed = [p \in Procs |-> FALSE]
  /\ op = [p \in Procs |-> 0] /\ begun = [p \in Procs |-> 0]
  /\ calls = {} /\ log = <<>> /\ answered = {} /\ timedOut = {}
  /\ faults = 0

-----------------------------------------------------------------------------
(* The connection: connectClient *)

Goto(p, s) == client' = [client EXCEPT ![p] = s]

(* A connection that stands serves the operation that waits for it. *)
Connected(p) ==
  Goto(p, IF op[p] = 0 THEN "ready" ELSE "calling") /\ UNCHANGED <<round, left>>

GiveUpSilently(p) ==   \* mutant: the operation that waits is forgotten
  /\ Goto(p, IF op[p] = 0 THEN "off" ELSE "ready")
  /\ UNCHANGED <<round, left, op, answered, healed, begun>>

(* It could neither attach nor take over: the error reaches the caller of   *)
(* the operation that waits for it, if there is one.                        *)
GiveUp(p) ==
  /\ Goto(p, IF op[p] = 0 THEN "off" ELSE "ready")
  /\ op' = [op EXCEPT ![p] = 0]
  /\ answered' = IF op[p] = 0 THEN answered ELSE answered \cup {Op(p)}
  /\ UNCHANGED <<round, left, healed, begun>>

KeepOp == UNCHANGED <<opVars, answered>>

(* One more round of taking over, or the end. *)
NextRound(p) ==
  IF round[p] < Rounds
  THEN round' = [round EXCEPT ![p] = @ + 1] /\ Goto(p, "take") /\ UNCHANGED left /\ KeepOp
  ELSE GiveUp(p)

(* A process connects when it first needs the store; one that has ended is  *)
(* replaced by a new one.                                                   *)
Connect(p) ==
  /\ client[p] = "off"
  /\ alive' = alive \cup {p}
  /\ Goto(p, "fast")
  /\ round' = [round EXCEPT ![p] = 0]
  /\ UNCHANGED <<owner, listener, left, opVars, calls, log, answered, faultVars>>

(* client.open() answers, or the connection is refused or times out; a      *)
(* time-out counts as unavailable like the rest (invokeBrokerRequest).      *)
OpenAnswers(p, s) == client[p] = s /\ listener # Nobody /\ UNCHANGED faults
OpenFails(p, s) ==
  /\ client[p] = s
  /\ \/ listener = Nobody /\ UNCHANGED faults
     \/ listener # Nobody /\ faults < MaxFaults /\ faults' = faults + 1

(* The fast path: somebody else's broker may be there already. *)
FastOpen(p) ==
  /\ \/ OpenAnswers(p, "fast") /\ Connected(p)
     \/ OpenFails(p, "fast") /\ Goto(p, "take") /\ UNCHANGED <<round, left>>
  /\ KeepOp
  /\ UNCHANGED <<storeVars, calls, log, timedOut>>

(* startBroker: this process's own broker, when it has one, or the store if *)
(* nobody has it; else the lock error sends the client back to attaching.   *)
TakeStore(p) ==
  /\ client[p] = "take"
  /\ \/ owner = p /\ Goto(p, "own") /\ UNCHANGED <<owner, left>>
     \/ owner = Nobody /\ owner' = p /\ Goto(p, "bind") /\ UNCHANGED left
     \/ /\ owner \notin {p, Nobody}
        /\ Goto(p, "attach")
        /\ left' = [left EXCEPT ![p] = IF round[p] = 0 THEN Attach ELSE AttachAgain]
        /\ UNCHANGED owner
  /\ UNCHANGED <<alive, listener, round, opVars, calls, log, answered, faultVars>>

(* The port is only bound by whoever has the store. *)
Bind(p) ==
  /\ client[p] = "bind"
  /\ listener' = p /\ Goto(p, "own")
  /\ UNCHANGED <<alive, owner, round, left, opVars, calls, log, answered, faultVars>>

(* Opening through the broker just started: in the first round a failure is *)
(* thrown, in a further one it is one more failed round.                    *)
OpenOwn(p) ==
  /\ \/ OpenAnswers(p, "own") /\ Connected(p) /\ KeepOp
     \/ OpenFails(p, "own") /\ round[p] = 0 /\ GiveUp(p)
     \/ OpenFails(p, "own") /\ round[p] > 0 /\ NextRound(p)
  /\ UNCHANGED <<storeVars, calls, log, timedOut>>

(* attachToExistingBroker *)
AttachOpen(p) ==
  /\ \/ OpenAnswers(p, "attach") /\ Connected(p) /\ KeepOp
     \/ /\ OpenFails(p, "attach") /\ left[p] > 1
        /\ left' = [left EXCEPT ![p] = @ - 1]
        /\ UNCHANGED <<client, round>> /\ KeepOp
     \/ OpenFails(p, "attach") /\ left[p] = 1 /\ NextRound(p)
  /\ UNCHANGED <<storeVars, calls, log, timedOut>>

-----------------------------------------------------------------------------
(* Operations: runWithSelfHealing *)

Begin(p) ==
  /\ client[p] = "ready" /\ begun[p] < MaxOps
  /\ begun' = [begun EXCEPT ![p] = @ + 1]
  /\ op' = [op EXCEPT ![p] = begun'[p]]
  /\ healed' = [healed EXCEPT ![p] = FALSE]
  /\ Goto(p, "calling")
  /\ UNCHANGED <<storeVars, round, left, calls, log, answered, faultVars>>

Waiting(p) == {c \in calls : c.by = p /\ c.waits}

(* Mutant of Unavailable: the repeat is started and not awaited.  The       *)
(* caller gets the error at once, while its operation goes on.              *)
UnavailableRepeatsBehind(told, gone) ==
  LET again == {p \in told : ~healed[p]}
      over == told \ again
  IN  /\ healed' = [p \in Procs |-> healed[p] \/ p \in again]
      /\ client' = [p \in Procs |-> IF p \in again THEN "fast"
                                   ELSE IF p \in over THEN "ready"
                                   ELSE IF p \in gone THEN "off" ELSE client[p]]
      /\ round' = [p \in Procs |-> IF p \in again THEN 0 ELSE round[p]]
      /\ op' = [p \in Procs |-> IF p \in over \cup gone THEN 0 ELSE op[p]]
      /\ answered' = answered \cup {Op(p) : p \in told}
      /\ UNCHANGED <<left, begun>>

(* Mutant of Unavailable: a repeat is repeated like a first request. *)
UnavailableRepeatsAgain(told, gone) ==
  /\ client' = [p \in Procs |-> IF p \in told THEN "fast"
                                ELSE IF p \in gone THEN "off" ELSE client[p]]
  /\ round' = [p \in Procs |-> IF p \in told THEN 0 ELSE round[p]]
  /\ op' = [p \in Procs |-> IF p \in gone THEN 0 ELSE op[p]]
  /\ UNCHANGED <<left, healed, begun, answered>>

(* The clients told are told that the broker is unavailable: they connect  *)
(* anew and repeat the operation, once.  The processes gone are no more.    *)
Unavailable(told, gone) ==
  LET again == {p \in told : ~healed[p]}
      over == told \ again
  IN  /\ healed' = [p \in Procs |-> healed[p] \/ p \in again]
      /\ client' = [p \in Procs |-> IF p \in again THEN "fast"
                                   ELSE IF p \in over THEN "ready"
                                   ELSE IF p \in gone THEN "off" ELSE client[p]]
      /\ round' = [p \in Procs |-> IF p \in again THEN 0 ELSE round[p]]
      /\ op' = [p \in Procs |-> IF p \in over \cup gone THEN 0 ELSE op[p]]
      /\ answered' = answered \cup {Op(p) : p \in over}
      /\ UNCHANGED <<left, begun>>

(* The request reaches the broker, or the connection is refused. *)
Send(p) ==
  /\ client[p] = "calling" /\ Waiting(p) = {}
  /\ \/ /\ listener # Nobody
        /\ calls' = calls \cup {[by |-> p, nr |-> op[p], again |-> healed[p],
                                 waits |-> TRUE, done |-> FALSE]}
        /\ UNCHANGED <<connVars, opVars, answered>>
     \/ listener = Nobody /\ Unavailable({p}, {}) /\ UNCHANGED calls
  /\ UNCHANGED <<storeVars, log, faultVars>>

(* What is logged of a request: the operation, and whether it is its repeat. *)
Effect(c) == [by |-> c.by, nr |-> c.nr, again |-> c.again]

(* The broker applies a request. *)
Execute(c) ==
  /\ c \in calls /\ ~c.done
  /\ log' = Append(log, Effect(c))
  /\ calls' = (calls \ {c}) \cup (IF c.waits THEN {[c EXCEPT !.done = TRUE]} ELSE {})
  /\ UNCHANGED <<storeVars, connVars, opVars, answered, faultVars>>

(* Its answer reaches the client that waits for it. *)
Reply(c) ==
  /\ c \in calls /\ c.done /\ c.waits
  /\ calls' = calls \ {c}
  /\ Goto(c.by, "ready")
  /\ op' = [op EXCEPT ![c.by] = 0]
  /\ answered' = answered \cup {Op(c.by)}
  /\ UNCHANGED <<storeVars, round, left, healed, begun, log, faultVars>>

(* The client waits no longer; the broker still has the request. *)
TimeOut(c) ==
  /\ c \in calls /\ c.waits /\ faults < MaxFaults
  /\ faults' = faults + 1 /\ timedOut' = timedOut \cup {Op(c.by)}
  /\ calls' = (calls \ {c}) \cup (IF c.done THEN {} ELSE {[c EXCEPT !.waits = FALSE]})
  /\ Unavailable({c.by}, {})
  /\ UNCHANGED <<storeVars, log>>

(* A process ends.  With the broker its requests end, and whoever waited    *)
(* for one is told; a client that ends leaves its request with the broker.  *)
Crash(p) ==
  /\ p \in alive /\ faults < MaxFaults
  /\ faults' = faults + 1 /\ alive' = alive \ {p}
  /\ owner' = IF owner = p THEN Nobody ELSE owner
  /\ listener' = IF listener = p THEN Nobody ELSE listener
  /\ IF listener = p
     THEN calls' = {} /\ Unavailable({q \in Procs \ {p} : Waiting(q) # {}}, {p})
     ELSE /\ calls' = {[c EXCEPT !.waits = @ /\ c.by # p] :
                         c \in {d \in calls : d.by # p \/ ~d.done}}
          /\ Unavailable({}, {p})
  /\ UNCHANGED <<log, timedOut>>

-----------------------------------------------------------------------------
(* What goes on by itself while the process lives. *)
Step(p) ==
  FastOpen(p) \/ TakeStore(p) \/ Bind(p) \/ OpenOwn(p) \/ AttachOpen(p) \/ Send(p)

Serve(p) == \E c \in calls : c.by = p /\ (Execute(c) \/ Reply(c))

BrokerNext ==
  \/ \E p \in Procs : Connect(p) \/ Begin(p) \/ Step(p) \/ Crash(p)
  \/ \E c \in calls : Execute(c) \/ Reply(c) \/ TimeOut(c)

(* A live process takes its next step and a broker serves its requests.     *)
(* Nothing has to connect, begin, end or time out.                          *)
BrokerFairness == \A p \in Procs : WF_brokerVars(Step(p)) /\ WF_brokerVars(Serve(p))

BrokerSpec == BrokerInit /\ [][BrokerNext]_brokerVars /\ BrokerFairness

-----------------------------------------------------------------------------
(* Properties *)

Ops == [by : Procs, nr : 1..MaxOps]
Effects == [by : Procs, nr : 1..MaxOps, again : BOOLEAN]
OpOf(r) == [by |-> r.by, nr |-> r.nr]

(* Every variable has its type; the lock and the port are held by processes *)
(* that run, the port by the one with the lock.                             *)
BrokerTypeOK ==
  /\ alive \subseteq Procs /\ owner \in alive \cup {Nobody}
  /\ listener \in {owner, Nobody}
  /\ client \in [Procs -> Stages]
  /\ round \in [Procs -> 0..Rounds]
  /\ left \in [Procs -> 0..(Attach + AttachAgain)]
  /\ healed \in [Procs -> BOOLEAN]
  /\ {op[p] : p \in Procs} \cup {begun[p] : p \in Procs} \subseteq 0..MaxOps
  /\ calls \subseteq [by : Procs, nr : 1..MaxOps, again : BOOLEAN,
                     waits : BOOLEAN, done : BOOLEAN]
  /\ log \in Seq(Effects) /\ answered \cup timedOut \subseteq Ops
  /\ faults \in 0..MaxFaults

(* An operation takes effect once at most by its request and once by its    *)
(* repeat, whatever times out.  And once its caller knows how it ended it   *)
(* has no further effect - which could undo what was written since - unless *)
(* one of its requests timed out: a repeated request never outlives its     *)
(* broker.  (runWithSelfHealing, src/localRuntimeAuthority.ts:191-201.)     *)
EffectsPrecedeAnswers ==
  [][log' # log =>
       LET e == log'[Len(log')]
       IN /\ \A i \in DOMAIN log : log[i] # e
          /\ OpOf(e) \in answered => OpOf(e) \in timedOut]_brokerVars

(* An operation ends, in success or in an error, although brokers die and   *)
(* others have to take over meanwhile.                                      *)
OperationsEnd == \A p \in Procs : op[p] # 0 ~> op[p] = 0
=============================================================================
