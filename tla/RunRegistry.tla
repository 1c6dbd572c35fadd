---------------------------- MODULE RunRegistry ----------------------------
(***************************************************************************)
(* One run of the local agent-run registry: the record                     *)
(* ~/.nolo/runs/<runId>.json and everybody who reads and writes it.        *)
(*                                                                         *)
(*   Spawner   spawnLocalBackgroundRun, in the orchestrating process       *)
(*   Child     the detached process that executes the run: heartbeats, and *)
(*             the terminal status it reports of itself                    *)
(*   Waiters   one controlAgentRun(action:"wait") call each                *)
(*   Pollers   the readers that reconcile: ps, status, list, the TUI poll  *)
(*   CliStops  `nolo agent stop|kill`: refuse a record without a pid       *)
(*   ToolStops controlAgentRun(action:"stop"): do not                      *)
(*                                                                         *)
(* The code of one operating-system process is synchronous between awaits, *)
(* so actors of one host never interleave inside a block; actors of        *)
(* different hosts interleave at every file-system call.                   *)
(***************************************************************************)
EXTENDS Integers, RunRecordLock

CONSTANTS Spawner, Child, Waiters, Pollers, CliStops, ToolStops,
          Host,       \* the operating-system process each actor lives in
          SlowSpawn,  \* may the child act while the spawner still waits for `ps`?
          Misjudges,  \* may checkStaleRun take a process that lives for gone?
          MaxBeats    \* heartbeats before the final flush (bound)

Stops == CliStops \cup ToolStops

ASSUME RegistryAssumption ==
    /\ Proc = {Spawner, Child} \cup Waiters \cup Pollers \cup Stops
    /\ Spawner # Child
    /\ {Spawner, Child} \cap (Waiters \cup Pollers \cup Stops) = {}
    /\ Waiters \cap Pollers = {} /\ Waiters \cap Stops = {} /\ Pollers \cap Stops = {}
    /\ CliStops \cap ToolStops = {}
    /\ \A p \in Proc : Host[p] = Host[Child] => p = Child
    /\ SlowSpawn \in BOOLEAN /\ Misjudges \in BOOLEAN
    /\ MaxBeats \in Nat

(***************************************************************************)
(* The record.  "reported" stands for done, failed and timeout: what the   *)
(* child says of itself.  A lease is the waiter that claimed the run (its  *)
(* token) and activity.updatedAt is the number of the heartbeat.           *)
(***************************************************************************)
Terminal == {"reported", "killed", "orphaned"}

Record == [status : {"absent", "running"} \cup Terminal,
           pid    : BOOLEAN,
           ack    : BOOLEAN,
           lease  : Waiters \cup {None},
           beat   : 0..(MaxBeats + 1)]

NoRecord == [status |-> "absent", pid |-> FALSE, ack |-> FALSE,
             lease |-> None, beat |-> 0]

NewRecord == [NoRecord EXCEPT !.status = "running"]

VARIABLES disk,     \* the published record
          pc,       \* what each actor is doing
          copy,     \* the record read in a read-modify-write, until it is written
          seen,     \* the record checkStaleRun last read or returned
          token,    \* the waiters whose claim was granted
          aborted,  \* the waits whose turn was stopped
          beats,    \* heartbeats written so far
          oldBeats, \* of these, how many are older than ORPHAN_HEARTBEAT_GRACE_MS
          lapsed,   \* the leases that have run out
          told      \* ghost: the waits that have read a terminal status

recVars == <<disk, copy, seen, beats>>
waitVars == <<token, aborted, told>>
timeVars == <<oldBeats, lapsed>>
vars == <<lockVars, pc, recVars, waitVars, timeVars>>

Sections == {"finalize", "claim", "orphan", "commit", "ack", "release", "kill"}
Idle == {"new", "ready", "idle", "pause", "ended"}
Pcs == Sections \cup Idle
          \cup {"start", "publish", "work", "beat", "flush", "poll", "probe", "signal", "dead"}

TypeOK ==
    /\ LockTypeOK
    /\ disk \in Record
    /\ pc \in [Proc -> Pcs]
    /\ copy \in [Proc -> Record]
    /\ seen \in [Proc -> Record]
    /\ token \in SUBSET Waiters
    /\ aborted \in SUBSET Waiters
    /\ told \in SUBSET Waiters
    /\ beats \in 0..(MaxBeats + 1)
    /\ oldBeats \in 0..(MaxBeats + 1)
    /\ lapsed \in SUBSET Waiters

Init ==
    /\ LockInit
    /\ disk = NoRecord
    /\ pc = [p \in Proc |-> CASE p \in Waiters -> "ready"
                              [] p \in Pollers \cup Stops -> "idle"
                              [] OTHER -> "new"]
    /\ copy = [p \in Proc |-> NoRecord]
    /\ seen = [p \in Proc |-> NoRecord]
    /\ token = {} /\ aborted = {} /\ told = {}
    /\ beats = 0 /\ oldBeats = 0
    /\ lapsed = {}

Goto(p, l) == pc' = [pc EXCEPT ![p] = l]

ChildAlive == pc[Child] \in {"work", "beat", "flush", "finalize"}
ChildGone == pc[Child] \in {"ended", "dead"}

(* p is alive and no other actor of its host is inside a synchronous block. *)
(* Between awaits a stop is at rest while it waits for the process to go.   *)
InBlock(q) == pc[q] \notin Idle \cup {"dead", "work", "signal"}
MayRun(p) ==
    /\ pc[p] # "dead"
    /\ \A q \in Proc \ {p} : Host[q] = Host[p] => ~InBlock(q)

-----------------------------------------------------------------------------
(* spawnLocalBackgroundRun *)

CreateRecord ==
    /\ pc[Spawner] = "new" /\ MayRun(Spawner)
    /\ disk' = NewRecord
    /\ Goto(Spawner, "start")
    /\ UNCHANGED <<lockVars, copy, seen, beats, waitVars, timeVars>>

StartChild ==
    /\ pc[Spawner] = "start"
    /\ pc' = [pc EXCEPT ![Spawner] = "publish", ![Child] = "work"]
    /\ UNCHANGED <<lockVars, recVars, waitVars, timeVars>>

(* spawn returned no pid: the record stays as it was created.               *)
SpawnFails ==
    /\ pc[Spawner] = "start"
    /\ Goto(Spawner, "ended")
    /\ UNCHANGED <<lockVars, recVars, waitVars, timeVars>>

(* The spawner's own copy plus the pid, with no lock and no second read.    *)
PublishPid ==
    /\ pc[Spawner] = "publish"
    /\ disk' = [NewRecord EXCEPT !.pid = TRUE]
    /\ Goto(Spawner, "ended")
    /\ UNCHANGED <<lockVars, copy, seen, beats, waitVars, timeVars>>

-----------------------------------------------------------------------------
(* The child.  Its heartbeat reads and writes the record without the lock;  *)
(* before it reports, it flushes one more.                                  *)

ChildRuns == SlowSpawn \/ pc[Spawner] # "publish"

BeginBeat(l) ==
    /\ pc[Child] = "work" /\ ChildRuns
    /\ l = "beat" => beats < MaxBeats
    /\ copy' = [copy EXCEPT ![Child] = disk]
    /\ Goto(Child, l)
    /\ UNCHANGED <<lockVars, disk, seen, beats, waitVars, timeVars>>

WriteBeat ==
    /\ pc[Child] \in {"beat", "flush"}
    /\ beats' = beats + 1
    /\ disk' = [copy[Child] EXCEPT !.beat = beats']
    /\ copy' = [copy EXCEPT ![Child] = NoRecord]
    /\ Goto(Child, IF pc[Child] = "beat" THEN "work" ELSE "finalize")
    /\ UNCHANGED <<lockVars, seen, waitVars, timeVars>>

-----------------------------------------------------------------------------
(* Critical sections.  pc names the operation; stage says how far it is in  *)
(* withRunRecordLock.  In stage "in" the callback reads the record and      *)
(* either leaves it alone or publishes a changed copy.                      *)

Lapsed(r) == r.lease = None \/ r.lease \in lapsed          \* isAckLeaseExpired
Consumed(r) == r.ack /\ r.lease = None                     \* the final ack

(* Mutant of Applies: the orphan verdict without its second look.           *)
AppliesBlind(p, r) ==
    /\ r.status # "absent"
    /\ pc[p] = "claim"   => ~Consumed(r) /\ Lapsed(r)
    /\ pc[p] = "commit"  => r.lease \in {None, p}
    /\ pc[p] = "ack"     => ~r.ack
    /\ pc[p] = "release" => r.lease = p

(* What the callback requires of the record it reads.                       *)
Applies(p, r) ==
    /\ r.status # "absent"
    /\ pc[p] = "claim"   => ~Consumed(r) /\ Lapsed(r)
    /\ pc[p] = "orphan"  => r.status = "running" /\ r.beat = seen[p].beat
    /\ pc[p] = "commit"  => r.lease \in {None, p}
    /\ pc[p] = "ack"     => ~r.ack
    /\ pc[p] = "release" => r.lease = p

(* Mutant of Outcome: a release drops the lease and leaves the ack behind.   *)
OutcomeKeepsAck(p, r) ==
    CASE pc[p] = "finalize" -> [r EXCEPT !.status = "reported"]
      [] pc[p] = "kill"     -> [r EXCEPT !.status = "killed"]
      [] pc[p] = "orphan"   -> [r EXCEPT !.status = "orphaned", !.pid = FALSE]
      [] pc[p] = "claim"    -> [r EXCEPT !.ack = TRUE, !.lease = p]
      [] OTHER              -> [r EXCEPT !.ack = TRUE, !.lease = None]

(* Mutant of Outcome: a stop writes a status the record does not have.      *)
OutcomeCancels(p, r) ==
    [r EXCEPT !.status = IF pc[p] = "kill" THEN "cancelled" ELSE "reported"]

(* What it publishes.                                                       *)
Outcome(p, r) ==
    CASE pc[p] = "finalize" -> [r EXCEPT !.status = "reported"]
      [] pc[p] = "kill"     -> [r EXCEPT !.status = "killed"]
      [] pc[p] = "orphan"   -> [r EXCEPT !.status = "orphaned", !.pid = FALSE]
      [] pc[p] = "claim"    -> [r EXCEPT !.ack = TRUE, !.lease = p]
      [] pc[p] = "release"  -> [r EXCEPT !.ack = FALSE, !.lease = None]
      [] OTHER              -> [r EXCEPT !.ack = TRUE, !.lease = None]

EnterSection(p) ==
    /\ pc[p] \in Sections /\ MayRun(p)
    /\ TryLock(p, pc[p] = "claim")
    /\ UNCHANGED <<pc, recVars, waitVars, timeVars>>

ContendSection(p) ==
    /\ MayRun(p)
    /\ StatLock(p) \/ BreakLock(p) \/ RecreateLock(p)
    /\ UNCHANGED <<pc, recVars, waitVars, timeVars>>

ReadInSection(p) ==
    /\ stage[p] = "in" /\ copy[p] = NoRecord /\ MayRun(p)
    /\ \/ /\ Applies(p, disk)
          /\ copy' = [copy EXCEPT ![p] = disk]
          /\ UNCHANGED <<lockVars, seen>>
       \/ /\ ~Applies(p, disk)
          /\ EndSection(p)
          /\ seen' = IF pc[p] = "orphan" THEN [seen EXCEPT ![p] = disk] ELSE seen
          /\ UNCHANGED copy
    /\ UNCHANGED <<pc, disk, beats, waitVars, timeVars>>

WriteInSection(p) ==
    /\ stage[p] = "in" /\ copy[p] # NoRecord /\ MayRun(p)
    /\ disk' = Outcome(p, copy[p])
    /\ copy' = [copy EXCEPT ![p] = NoRecord]
    /\ seen' = IF pc[p] = "orphan" THEN [seen EXCEPT ![p] = disk'] ELSE seen
    /\ token' = IF pc[p] = "claim" THEN token \cup {p} ELSE token
    /\ EndSection(p)
    /\ UNCHANGED <<pc, beats, aborted, told, timeVars>>

(* Mutant of Resume: a record without a pid is taken for a finished run.    *)
ResumeWithoutPid(p, r) ==
    /\ IF p \in Waiters /\ (r.status \in Terminal \/ ~r.pid)
       THEN /\ Goto(p, IF p \in token THEN "commit" ELSE "ack")
            /\ told' = told \cup {p}
       ELSE /\ Goto(p, IF p \in Waiters THEN "pause" ELSE "idle")
            /\ UNCHANGED told
    /\ UNCHANGED <<token, aborted>>

(* What checkStaleRun returns decides what its caller does next: a poller   *)
(* is done, a wait breaks out of its loop on a terminal status and acks.    *)
Resume(p, r) ==
    /\ IF p \in Waiters /\ r.status \in Terminal
       THEN /\ Goto(p, IF p \in token THEN "commit" ELSE "ack")
            /\ told' = told \cup {p}
       ELSE /\ Goto(p, IF p \in Waiters THEN "pause" ELSE "idle")
            /\ UNCHANGED told
    /\ UNCHANGED <<token, aborted>>

LeaveSection(p) ==
    /\ MayRun(p)
    /\ LeaveLock(p)
    /\ \/ /\ pc[p] = "orphan"
          /\ Resume(p, seen[p])
          /\ seen' = [seen EXCEPT ![p] = NoRecord]
       \/ /\ pc[p] # "orphan"
          /\ Goto(p, IF pc[p] = "claim" THEN "poll" ELSE "ended")
          /\ UNCHANGED <<seen, waitVars>>
    /\ UNCHANGED <<disk, copy, beats, timeVars>>

Section(p) ==
    \/ EnterSection(p)
    \/ ContendSection(p)
    \/ ReadInSection(p)
    \/ WriteInSection(p)
    \/ LeaveSection(p)

-----------------------------------------------------------------------------
(* checkStaleRun, up to its critical section: by a poller at any time, by a *)
(* wait once per turn of its loop.                                          *)

(* Mutant of Fresh: off by one, so the last heartbeat never gets old.       *)
FreshForEver(r) == r.beat >= oldBeats

Fresh(r) == r.beat > oldBeats       \* heartbeat within ORPHAN_HEARTBEAT_GRACE_MS

Look(p) ==
    /\ pc[p] = IF p \in Waiters THEN "poll" ELSE "idle"
    /\ disk.status # "absent" /\ MayRun(p)
    /\ \/ /\ disk.status = "running" /\ disk.pid
          /\ seen' = [seen EXCEPT ![p] = disk]
          /\ Goto(p, "probe")
          /\ UNCHANGED waitVars
       \/ /\ ~(disk.status = "running" /\ disk.pid)
          /\ Resume(p, disk)
          /\ UNCHANGED seen
    /\ UNCHANGED <<lockVars, disk, copy, beats, timeVars>>

(* What kill(pid, 0) and the start time that `ps` reports are taken to say: *)
(* a process that is gone is found gone, one that lives may be mistaken for *)
(* gone or for another one with its pid.                                    *)
InferredGone == ChildGone \/ Misjudges

(* Mutant of Probe: the inference alone decides, whatever the heartbeat.    *)
ProbeWithoutGrace(p) ==
    /\ pc[p] = "probe" /\ MayRun(p)
    /\ \/ /\ InferredGone
          /\ Goto(p, "orphan")
          /\ UNCHANGED <<seen, waitVars>>
       \/ /\ ~ChildGone
          /\ Resume(p, seen[p])
          /\ seen' = [seen EXCEPT ![p] = NoRecord]
    /\ UNCHANGED <<lockVars, disk, copy, beats, timeVars>>

(* The inference, then the heartbeat's grace.                               *)
Probe(p) ==
    /\ pc[p] = "probe" /\ MayRun(p)
    /\ \/ /\ InferredGone /\ ~Fresh(seen[p])
          /\ Goto(p, "orphan")
          /\ UNCHANGED <<seen, waitVars>>
       \/ /\ ~ChildGone \/ Fresh(seen[p])
          /\ Resume(p, seen[p])
          /\ seen' = [seen EXCEPT ![p] = NoRecord]
    /\ UNCHANGED <<lockVars, disk, copy, beats, timeVars>>

-----------------------------------------------------------------------------
(* controlAgentRun(action:"wait").  The run id comes from the spawner's     *)
(* reply, or from a listing once the spawner is gone.                       *)

BeginWait(w) ==
    /\ pc[w] = "ready" /\ MayRun(w)
    /\ disk.status # "absent" /\ pc[Spawner] \in {"ended", "dead"}
    /\ Goto(w, "claim")
    /\ UNCHANGED <<lockVars, recVars, waitVars, timeVars>>

(* The sleep between two polls ends by itself or because the turn was       *)
(* stopped; either way the loop reads the record before it looks at that.   *)
Wake(w) ==
    /\ pc[w] = "pause" /\ MayRun(w)
    /\ w \notin aborted
    /\ aborted' \in {aborted, aborted \cup {w}}
    /\ Goto(w, "poll")
    /\ UNCHANGED <<lockVars, recVars, token, told, timeVars>>

(* Not terminal: past the deadline, or stopped.  The finally block releases *)
(* the claim.                                                               *)
GiveUp(w) ==
    /\ pc[w] = "pause" /\ MayRun(w)
    /\ Goto(w, IF w \in token THEN "release" ELSE "ended")
    /\ UNCHANGED <<lockVars, recVars, waitVars, timeVars>>

-----------------------------------------------------------------------------
(* Stopping a run.                                                          *)

BeginStop(s) ==
    /\ pc[s] = "idle" /\ MayRun(s)
    /\ disk.status # "absent"
    /\ Goto(s, CASE disk.pid        -> "signal"
                 [] s \in ToolStops -> "kill"
                 [] OTHER           -> "ended")
    /\ UNCHANGED <<lockVars, recVars, waitVars, timeVars>>

(* Mutant of Terminate: the signal is sent and its effect taken for granted. *)
TerminateUnconfirmed(s) ==
    /\ pc[s] = "signal" /\ MayRun(s)
    /\ Goto(s, "kill")
    /\ UNCHANGED <<lockVars, recVars, waitVars, timeVars>>

(* terminateRunProcess: SIGTERM, SIGKILL, and the probe that confirms.  It  *)
(* takes no start time from `ps`: ESRCH of kill(pid, 0) alone is exact.     *)
Terminate(s) ==
    /\ pc[s] = "signal" /\ MayRun(s)
    /\ \/ /\ ChildAlive
          /\ pc' = [pc EXCEPT ![s] = "kill", ![Child] = "dead"]
          /\ LockDies({Child})
       \/ /\ ~ChildAlive
          /\ Goto(s, "kill")
          /\ UNCHANGED lockVars
    /\ UNCHANGED <<recVars, waitVars, timeVars>>

(* Still alive after SIGKILL: reported as such, and nothing is written.     *)
StopUnconfirmed(s) ==
    /\ pc[s] = "signal" /\ MayRun(s)
    /\ ChildAlive
    /\ Goto(s, "ended")
    /\ UNCHANGED <<lockVars, recVars, waitVars, timeVars>>

-----------------------------------------------------------------------------
(* Deaths and time.                                                         *)

Die(h) ==
    LET D == {p \in Proc : Host[p] = h}
    IN  /\ D \subseteq Mortal
        /\ \E p \in D : pc[p] \notin {"new", "ended", "dead"}
        /\ pc' = [p \in Proc |-> IF p \in D THEN "dead" ELSE pc[p]]
        /\ copy' = [p \in Proc |-> IF p \in D THEN NoRecord ELSE copy[p]]
        /\ seen' = [p \in Proc |-> IF p \in D THEN NoRecord ELSE seen[p]]
        /\ LockDies(D)
        /\ UNCHANGED <<disk, beats, waitVars, timeVars>>

(* Blocks take milliseconds: seconds pass only between them.                *)
Calm == Suspend \/ \A p \in Proc : ~InBlock(p)

BeatsAge ==
    /\ Calm /\ oldBeats # beats
    /\ oldBeats' = beats
    /\ UNCHANGED <<lockVars, pc, recVars, waitVars, lapsed>>

(* ttl is the wait's own timeout plus a minute: a lease outlives its wait.  *)
LeaseLapses(w) ==
    /\ Calm /\ w \in token \ lapsed
    /\ Suspend \/ pc[w] \in {"ended", "dead"}
    /\ lapsed' = lapsed \cup {w}
    /\ UNCHANGED <<lockVars, pc, recVars, waitVars, oldBeats>>

LockFileAges ==
    /\ Calm /\ LockAges
    /\ UNCHANGED <<pc, recVars, waitVars, timeVars>>

-----------------------------------------------------------------------------
SpawnerStep == CreateRecord \/ StartChild \/ SpawnFails \/ PublishPid
ChildStep == (\E l \in {"beat", "flush"} : BeginBeat(l)) \/ WriteBeat \/ Section(Child)
WaitStep(w) == BeginWait(w) \/ Wake(w) \/ GiveUp(w) \/ Look(w) \/ Probe(w) \/ Section(w)
PollStep(p) == Look(p) \/ Probe(p) \/ Section(p)
StopStep(s) == BeginStop(s) \/ Terminate(s) \/ StopUnconfirmed(s) \/ Section(s)
Time == BeatsAge \/ LockFileAges \/ \E w \in Waiters : LeaseLapses(w)

Next ==
    \/ SpawnerStep
    \/ ChildStep
    \/ \E w \in Waiters : WaitStep(w)
    \/ \E p \in Pollers : PollStep(p)
    \/ \E s \in Stops : StopStep(s)
    \/ \E p \in Mortal : Die(Host[p])
    \/ Time

(* A process goes on executing; nothing makes the child finish (a tool may  *)
(* run for ever), a wait begin or a user stop a run.  The pollers sleep     *)
(* between polls, so time passes however often they run (strong fairness),  *)
(* and the deadline of a wait comes.                                        *)
Fairness ==
    /\ WF_vars(SpawnerStep)
    /\ WF_vars(WriteBeat \/ Section(Child))
    /\ \A w \in Waiters : WF_vars(WaitStep(w) /\ ~BeginWait(w)) /\ SF_vars(GiveUp(w))
    /\ \A p \in Pollers : WF_vars(PollStep(p))
    /\ \A s \in Stops : WF_vars(StopStep(s) /\ ~BeginStop(s))
    /\ SF_vars(Time)

Spec == Init /\ [][Next]_vars /\ Fairness
-----------------------------------------------------------------------------
(* Properties.                                                              *)

(* A record is never finally acked - which silences the completion for      *)
(* everybody else - unless some wait has read a terminal status of it.      *)
FinalAckWasRead == Consumed(disk) => told # {}

(* A run that shows signs of life is not called orphaned, however its       *)
(* process is misjudged ("Liveness beats forensics", agentRunControl.ts:    *)
(* 1161): the second look upholds the verdict only if the last heartbeat    *)
(* that the run wrote is older than the grace, or is no longer on the       *)
(* record because another writer has put an older copy back.  Contention    *)
(* for the lock, heartbeats and writers may come between the looks.         *)
Upheld(p) == pc[p] = "orphan" /\ copy[p] = NoRecord /\ copy'[p] # NoRecord
LivelyRunsSpared ==
    [][\A p \in Proc : Upheld(p) => beats <= oldBeats \/ disk.beat < beats]_vars

(* "Only a confirmed exit is reported as killed" (agentRunControl.ts:1558). *)
KilledAreGone == disk.status = "killed" => ChildGone

(* No orchestrator is told that a run has ended while its process has yet   *)
(* to report: a wait answers with a terminal status only once the child has *)
(* published its own or is gone.  Stated for an inference that is right     *)
(* (Misjudges FALSE): a living run mistaken for gone is told as orphaned.   *)
ToldAfterTheEnd == told # {} => ChildGone \/ pc[Child] = "finalize"

(* A run whose process is gone and whose pid was published settles: from    *)
(* some time on its record is terminal and stays so.                        *)
DeadRunSettles ==
    (ChildGone /\ disk.pid) ~> [](disk.status \in Terminal)

(* With nobody waiting for or stopping the run, its pid published in time   *)
(* and its death rightly inferred, however many readers reconcile it while  *)
(* it beats, reports or dies: the registry decides the run once and for all *)
(* ("a real terminal status must not race a concurrent orphan verdict, in   *)
(* either direction", agentRunControl.ts:1014-1015).                        *)
Process == IF ChildAlive THEN "alive" ELSE IF ChildGone THEN "gone" ELSE "unborn"
Lifecycle == INSTANCE RunLifecycle WITH verdict <- disk.status, process <- Process
ImplementsLifecycle == Lifecycle!Spec

(* "A self-reported terminal status is ground truth" (agentRunControl.ts:   *)
(* 1025): once published, no later write brings the run back to running.    *)
SelfReportStands ==
    [][disk.status = "reported" => disk'.status # "running"]_vars

(* Two concurrent waits never both hold a claim that has not run out        *)
(* (agentRunControl.ts:931-933).                                            *)
Claimants == {w \in token \ lapsed : pc[w] \in {"poll", "probe", "orphan", "pause", "commit"}}
OneClaimant == \A v, w \in Claimants : v = w
=============================================================================
