------------------------- MODULE RunRegistryProofs -------------------------
(***************************************************************************)
(* For every set of waits, pollers and stops, every way they share         *)
(* processes, every number of heartbeats: what RunRegistry's runs check on *)
(* small instances.  The first part is about the record lock alone, for    *)
(* any number of contenders.                                               *)
(***************************************************************************)
EXTENDS RunRegistry, TLAPS

-----------------------------------------------------------------------------
(* The lock by itself: types, and exclusion as long as nobody dies or is    *)
(* stopped inside the section.                                              *)

AllLive == ~Suspend /\ \A p \in Proc : stage[p] # "dead"

(* While all live, no lock file is stale, so nobody is about to break one,  *)
(* and a process that believes it holds the lock created the present file.  *)
LiveInv ==
    /\ ~stale
    /\ \A p \in Proc : /\ stage[p] \notin {"break", "recreate"}
                       /\ held[p] => lockFile = p

LockInv == LockTypeOK /\ (AllLive => LiveInv)

(* Every way in which the lock moves, in this module and in RunRegistry.    *)
LockMoves ==
    \/ \E p \in Proc : Contend(p)
    \/ LockAges
    \/ \E D \in SUBSET Proc : LockDies(D)

(* A step of one process changes no other process's stage or flag.          *)
LEMMA ContendKeepsInv ==
    ASSUME LockInv, NEW p \in Proc, Contend(p)
    PROVE  LockInv'
<1> USE LockAssumption
<1>1. LockTypeOK'
  BY DEF LockInv, LiveInv, LockTypeOK, Stage, Contend, TryLock, CreateLock, GoUnlocked,
         StatLock, BreakLock, RecreateLock, LeaveLock, EndSection
<1>2. ASSUME AllLive'
      PROVE  LiveInv'
  <2>1. \A q \in Proc : stage[q] = "dead" => stage'[q] = "dead"
    BY DEF LockInv, LiveInv, LockTypeOK, Stage, Contend, TryLock, CreateLock, GoUnlocked,
           StatLock, BreakLock, RecreateLock, LeaveLock, EndSection
  <2>2. AllLive
    BY <1>2, <2>1 DEF AllLive
  <2>3. CASE \E isStrict \in BOOLEAN : TryLock(p, isStrict)
    BY <2>2, <2>3 DEF LockInv, LiveInv, LockTypeOK, Stage, TryLock, CreateLock
  <2>4. CASE StatLock(p)
    BY <2>2, <2>4 DEF LockInv, LiveInv, LockTypeOK, Stage, StatLock, GoUnlocked
  <2>5. CASE BreakLock(p) \/ RecreateLock(p)
    BY <2>2, <2>5 DEF LockInv, LiveInv, LockTypeOK, BreakLock, RecreateLock
  <2>6. CASE EndSection(p)
    BY <2>2, <2>6 DEF LockInv, LiveInv, LockTypeOK, Stage, EndSection
  <2>7. CASE LeaveLock(p)
    BY <2>2, <2>7 DEF LockInv, LiveInv, LockTypeOK, Stage, LeaveLock
  <2>8. QED
    BY <2>3, <2>4, <2>5, <2>6, <2>7 DEF Contend
<1>3. QED
  BY <1>1, <1>2 DEF LockInv

LEMMA AgesKeepsInv ==
    ASSUME LockInv, LockAges
    PROVE  LockInv'
BY LockAssumption DEF LockInv, LiveInv, LockTypeOK, AllLive, LockAges

LEMMA DiesKeepsInv ==
    ASSUME LockInv, NEW D \in SUBSET Proc, LockDies(D)
    PROVE  LockInv'
<1>1. LockTypeOK'
  BY DEF LockInv, LiveInv, LockTypeOK, Stage, LockDies
<1>2. CASE D = {}
  <2>1. \A p \in Proc : stage'[p] = stage[p] /\ held'[p] = held[p]
    BY <1>2 DEF LockInv, LiveInv, LockTypeOK, LockDies
  <2>2. AllLive' => AllLive
    BY <2>1 DEF AllLive
  <2>3. LiveInv => LiveInv'
    BY <2>1 DEF LiveInv, LockDies
  <2>4. QED
    BY <1>1, <2>2, <2>3 DEF LockInv
<1>3. CASE D # {}
  <2>1. PICK d \in D : TRUE
    BY <1>3
  <2>2. d \in Proc /\ stage'[d] = "dead"
    BY <2>1 DEF LockDies
  <2>3. QED
    BY <1>1, <2>2 DEF LockInv, AllLive
<1>4. QED
  BY <1>2, <1>3

LEMMA MovesKeepInv ==
    ASSUME LockInv, LockMoves
    PROVE  LockInv'
BY ContendKeepsInv, AgesKeepsInv, DiesKeepsInv DEF LockMoves

LEMMA UnchangedKeepsInv ==
    ASSUME LockInv, UNCHANGED lockVars
    PROVE  LockInv'
BY DEF LockInv, LiveInv, LockTypeOK, AllLive, lockVars

LEMMA InitInv ==
    ASSUME LockInit
    PROVE  LockInv
BY LockAssumption DEF LockInit, LockInv, LiveInv, LockTypeOK, Stage, AllLive

LEMMA InvExcludes == LockInv => ExclusiveWhileAllLive
BY DEF LockInv, LiveInv, LockTypeOK, AllLive, ExclusiveWhileAllLive, Holders

(* In every behaviour of the lock the inductive invariant holds.            *)
THEOREM LockInvariance == LockSpec => []LockInv
<1>1. LockInit => LockInv
  BY InitInv
<1>2. LockInv /\ [LockNext]_lockVars => LockInv'
  <2> SUFFICES ASSUME LockInv, [LockNext]_lockVars
               PROVE  LockInv'
    OBVIOUS
  <2>1. CASE LockNext
    <3>1. ASSUME NEW p \in Mortal, LockDies({p})
          PROVE  LockInv'
      <4>1. {p} \in SUBSET Proc
        BY LockAssumption
      <4>2. QED
        BY <3>1, <4>1, DiesKeepsInv
    <3>2. QED
      BY <2>1, <3>1, ContendKeepsInv, AgesKeepsInv DEF LockNext
  <2>2. CASE UNCHANGED lockVars
    BY <2>2, UnchangedKeepsInv
  <2>3. QED
    BY <2>1, <2>2
<1>3. QED
  BY <1>1, <1>2, PTL DEF LockSpec

(* The lock is exclusive as long as no contender dies or is stopped inside, *)
(* for any set of processes and any mix of strict and unstrict callers.     *)
THEOREM LockExclusive == LockSpec => []ExclusiveWhileAllLive
BY LockInvariance, InvExcludes, PTL

-----------------------------------------------------------------------------
USE LockAssumption, RegistryAssumption

(* Every step of the registry is a step of one action by one actor.         *)
LEMMA NextCases ==
    ASSUME Next
    PROVE  \/ CreateRecord \/ StartChild \/ SpawnFails \/ PublishPid
           \/ \E l \in {"beat", "flush"} : BeginBeat(l)
           \/ WriteBeat
           \/ \E p \in Proc : \/ EnterSection(p) \/ ContendSection(p)
                              \/ ReadInSection(p) \/ WriteInSection(p)
                              \/ LeaveSection(p)
           \/ \E p \in Waiters \cup Pollers : Look(p) \/ Probe(p)
           \/ \E w \in Waiters : BeginWait(w) \/ Wake(w) \/ GiveUp(w)
           \/ \E s \in Stops : BeginStop(s) \/ Terminate(s) \/ StopUnconfirmed(s)
           \/ \E p \in Mortal : Die(Host[p])
           \/ BeatsAge \/ LockFileAges
           \/ \E w \in Waiters : LeaseLapses(w)
BY DEF Next, SpawnerStep, ChildStep, WaitStep, PollStep, StopStep, Time, Section

-----------------------------------------------------------------------------
(* The lock.                                                                *)

LEMMA RegistryMovesLock ==
    ASSUME Next
    PROVE  LockMoves \/ UNCHANGED lockVars
<1>1. ASSUME NEW p \in Proc, EnterSection(p)
      PROVE  LockMoves
  BY <1>1 DEF EnterSection, LockMoves, Contend
<1>2. ASSUME NEW p \in Proc, ContendSection(p)
      PROVE  LockMoves
  BY <1>2 DEF ContendSection, LockMoves, Contend
<1>3. ASSUME NEW p \in Proc, ReadInSection(p) \/ WriteInSection(p)
      PROVE  LockMoves \/ UNCHANGED lockVars
  BY <1>3 DEF ReadInSection, WriteInSection, LockMoves, Contend
<1>4. ASSUME NEW p \in Proc, LeaveSection(p)
      PROVE  LockMoves
  BY <1>4 DEF LeaveSection, LockMoves, Contend
<1>5. ASSUME NEW s \in Stops, Terminate(s)
      PROVE  LockMoves \/ UNCHANGED lockVars
  BY <1>5 DEF Terminate, LockMoves
<1>6. ASSUME NEW p \in Mortal, Die(Host[p])
      PROVE  LockMoves
  BY <1>6 DEF Die, LockMoves
<1>7. ASSUME LockFileAges
      PROVE  LockMoves
  BY <1>7 DEF LockFileAges, LockMoves
<1>8. QED
  BY NextCases, <1>1, <1>2, <1>3, <1>4, <1>5, <1>6, <1>7
     DEF CreateRecord, StartChild, SpawnFails, PublishPid, BeginBeat, WriteBeat,
         Look, Probe, BeginWait, Wake, GiveUp, BeginStop, StopUnconfirmed,
         BeatsAge, LeaseLapses

LEMMA StepKeepsLockInv == LockInv /\ [Next]_vars => LockInv'
<1> SUFFICES ASSUME LockInv, [Next]_vars
             PROVE  LockInv'
  OBVIOUS
<1>1. LockMoves \/ UNCHANGED lockVars
  BY RegistryMovesLock DEF vars
<1>2. QED
  BY <1>1, MovesKeepInv, UnchangedKeepsInv

(* The lock file excludes in the registry as it does by itself.             *)
THEOREM RegistryLockExclusive == Spec => []ExclusiveWhileAllLive
<1>1. Init => LockInv
  BY InitInv DEF Init
<1>2. QED
  BY <1>1, StepKeepsLockInv, InvExcludes, PTL DEF Spec

-----------------------------------------------------------------------------
(* Types.                                                                   *)

LEMMA RecordFacts ==
    /\ NoRecord \in Record
    /\ NewRecord \in Record
    /\ [NewRecord EXCEPT !.pid = TRUE] \in Record
<1>1. 0 \in 0..(MaxBeats + 1)
  OBVIOUS
<1>2. NoRecord \in Record
  BY <1>1 DEF Record, NoRecord
<1>3. NewRecord \in Record
  BY <1>2 DEF Record, NewRecord
<1>4. QED
  BY <1>2, <1>3 DEF Record

LEMMA OutcomeType ==
    ASSUME NEW p \in Proc, NEW r \in Record, pc[p] = "claim" => p \in Waiters
    PROVE  Outcome(p, r) \in Record
BY DEF Outcome, Record, Terminal

(* Which actor may be where.                                                *)
RoleInv ==
    /\ pc[Child] \in {"new", "work", "beat", "flush", "finalize", "ended", "dead"}
    /\ pc[Spawner] \in {"new", "start", "publish", "ended", "dead"}
    /\ \A w \in Waiters : pc[w] \in {"ready", "claim", "poll", "probe", "orphan", "pause",
                                     "commit", "ack", "release", "ended", "dead"}
    /\ \A p \in Pollers : pc[p] \in {"idle", "probe", "orphan", "dead"}
    /\ \A s \in Stops : pc[s] \in {"idle", "signal", "kill", "ended", "dead"}

(* Inside withRunRecordLock an actor is in one of its sections; a child in  *)
(* the middle of a heartbeat has not used up its heartbeats; it is unborn   *)
(* until the spawner starts it.                                             *)
FlowInv ==
    /\ pc[Spawner] \in {"new", "start"} => pc[Child] = "new"
    /\ \A p \in Proc : stage[p] \notin {"out", "dead"} => pc[p] \in Sections
    /\ pc[Child] \in {"new", "work", "flush"} => beats <= MaxBeats
    /\ pc[Child] = "beat" => beats < MaxBeats

TypeInv == TypeOK /\ LockInv /\ RoleInv /\ FlowInv

(* TypeOK without the lock's variables, which LockInv types.                *)
LEMMA TypeOKSplit ==
    TypeOK <=> /\ LockTypeOK
               /\ disk \in Record /\ pc \in [Proc -> Pcs]
               /\ copy \in [Proc -> Record] /\ seen \in [Proc -> Record]
               /\ token \in SUBSET Waiters /\ aborted \in SUBSET Waiters
               /\ told \in SUBSET Waiters /\ lapsed \in SUBSET Waiters
               /\ beats \in 0..(MaxBeats + 1) /\ oldBeats \in 0..(MaxBeats + 1)
BY DEF TypeOK

LEMMA InitTypeInv == Init => TypeInv
<1> SUFFICES ASSUME Init
             PROVE  TypeInv
  OBVIOUS
<1>1. LockInv
  BY InitInv DEF Init
<1>2. TypeOK
  BY <1>1, RecordFacts DEF Init, TypeOK, LockInv, Pcs, Sections, Idle
<1>3. RoleInv
  BY DEF Init, RoleInv, Stops
<1>4. FlowInv
  BY DEF Init, LockInit, FlowInv, Stops
<1>5. QED
  BY <1>1, <1>2, <1>3, <1>4 DEF TypeInv

LEMMA SpawnerTypes ==
    ASSUME TypeInv, LockTypeOK',
           CreateRecord \/ StartChild \/ SpawnFails \/ PublishPid
    PROVE  TypeOK' /\ RoleInv' /\ FlowInv'
<1> USE RecordFacts DEF TypeInv
<1>1. CASE CreateRecord
  <2>1. TypeOK'
    BY <1>1 DEF CreateRecord, Goto, TypeOK, Pcs, Idle, lockVars, waitVars, timeVars
  <2>2. RoleInv'
    BY <1>1 DEF CreateRecord, Goto, TypeOK, RoleInv
  <2>3. FlowInv'
    BY <1>1 DEF CreateRecord, Goto, TypeOK, FlowInv, Sections, lockVars, recVars
  <2>4. QED
    BY <2>1, <2>2, <2>3
<1>2. CASE StartChild
  <2>1. TypeOK'
    BY <1>2 DEF StartChild, Goto, TypeOK, Pcs, Idle, lockVars, recVars, waitVars, timeVars
  <2>2. RoleInv'
    BY <1>2 DEF StartChild, Goto, TypeOK, RoleInv
  <2>3. FlowInv'
    BY <1>2 DEF StartChild, Goto, TypeOK, FlowInv, Sections, lockVars, recVars
  <2>4. QED
    BY <2>1, <2>2, <2>3
<1>3. CASE SpawnFails
  <2>1. TypeOK'
    BY <1>3 DEF SpawnFails, Goto, TypeOK, Pcs, Idle, lockVars, recVars, waitVars, timeVars
  <2>2. RoleInv'
    BY <1>3 DEF SpawnFails, Goto, TypeOK, RoleInv
  <2>3. FlowInv'
    BY <1>3 DEF SpawnFails, Goto, TypeOK, FlowInv, Sections, lockVars, recVars
  <2>4. QED
    BY <2>1, <2>2, <2>3
<1>4. CASE PublishPid
  <2>1. TypeOK'
    BY <1>4 DEF PublishPid, Goto, TypeOK, Pcs, Idle, lockVars, waitVars, timeVars
  <2>2. RoleInv'
    BY <1>4 DEF PublishPid, Goto, TypeOK, RoleInv
  <2>3. FlowInv'
    BY <1>4 DEF PublishPid, Goto, TypeOK, FlowInv, Sections, lockVars, recVars
  <2>4. QED
    BY <2>1, <2>2, <2>3
<1>5. QED
  BY <1>1, <1>2, <1>3, <1>4

LEMMA BeatTypes ==
    ASSUME TypeInv, LockTypeOK',
           WriteBeat \/ \E l \in {"beat", "flush"} : BeginBeat(l)
    PROVE  TypeOK' /\ RoleInv' /\ FlowInv'
<1> USE DEF TypeInv
<1>1. ASSUME NEW l \in {"beat", "flush"}, BeginBeat(l)
      PROVE  TypeOK' /\ RoleInv' /\ FlowInv'
  <2>1. TypeOK'
    BY <1>1 DEF BeginBeat, Goto, TypeOK, Pcs, lockVars, waitVars, timeVars
  <2>2. RoleInv'
    BY <1>1 DEF BeginBeat, Goto, TypeOK, RoleInv
  <2>3. FlowInv'
    BY <1>1 DEF BeginBeat, Goto, TypeOK, FlowInv, Sections, lockVars
  <2>4. QED
    BY <2>1, <2>2, <2>3
<1>2. CASE WriteBeat
  <2>1. beats' \in 0..(MaxBeats + 1)
    BY <1>2 DEF WriteBeat, TypeOK, FlowInv
  <2>2. disk' \in Record
    BY <1>2, <2>1 DEF WriteBeat, TypeOK, Record
  <2>3. TypeOK'
    BY <1>2, <2>1, <2>2, RecordFacts
       DEF WriteBeat, Goto, TypeOK, Pcs, Sections, lockVars, waitVars, timeVars
  <2>4. RoleInv' /\ FlowInv'
    BY <1>2 DEF WriteBeat, Goto, TypeOK, RoleInv, FlowInv, Sections, lockVars
  <2>5. QED
    BY <2>3, <2>4
<1>3. QED
  BY <1>1, <1>2

LEMMA LockStepTypes ==
    ASSUME TypeInv, LockTypeOK', NEW p \in Proc, EnterSection(p) \/ ContendSection(p)
    PROVE  TypeOK' /\ RoleInv' /\ FlowInv'
<1> USE DEF TypeInv
<1>1. UNCHANGED <<pc, recVars, waitVars, timeVars>>
  BY DEF EnterSection, ContendSection
<1>2. TypeOK' /\ RoleInv'
  BY <1>1 DEF TypeOK, RoleInv, recVars, waitVars, timeVars
<1>3. pc[p] \in Sections
  BY DEF EnterSection, ContendSection, StatLock, BreakLock, RecreateLock, FlowInv
<1>4. \A q \in Proc \ {p} : stage'[q] = stage[q]
  BY DEF EnterSection, ContendSection, TryLock, CreateLock, StatLock, BreakLock,
         RecreateLock, GoUnlocked, TypeOK, LockTypeOK
<1>5. FlowInv'
  BY <1>1, <1>3, <1>4 DEF FlowInv, recVars
<1>6. QED
  BY <1>2, <1>5

LEMMA BodyTypes ==
    ASSUME TypeInv, LockTypeOK', NEW p \in Proc, ReadInSection(p) \/ WriteInSection(p)
    PROVE  TypeOK' /\ RoleInv' /\ FlowInv'
<1> USE DEF TypeInv
<1>1. pc[p] \in Sections
  BY DEF ReadInSection, WriteInSection, FlowInv
<1>2. pc[p] = "claim" => p \in Waiters
  BY DEF RoleInv
<1>3. CASE ReadInSection(p)
  <2>1. TypeOK'
    BY <1>3 DEF ReadInSection, TypeOK, waitVars, timeVars
  <2>2. FlowInv'
    BY <1>1, <1>3 DEF ReadInSection, EndSection, FlowInv, TypeOK, LockTypeOK, lockVars
  <2>3. RoleInv'
    BY <1>3 DEF ReadInSection, RoleInv
  <2>4. QED
    BY <2>1, <2>2, <2>3
<1>4. CASE WriteInSection(p)
  <2>1. disk' \in Record
    BY <1>2, <1>4, OutcomeType DEF WriteInSection, TypeOK
  <2>2. TypeOK'
    BY <1>2, <1>4, <2>1, RecordFacts DEF WriteInSection, TypeOK, timeVars
  <2>3. FlowInv'
    BY <1>1, <1>4 DEF WriteInSection, EndSection, FlowInv, TypeOK, LockTypeOK
  <2>4. RoleInv'
    BY <1>4 DEF WriteInSection, RoleInv
  <2>5. QED
    BY <2>2, <2>3, <2>4
<1>5. QED
  BY <1>3, <1>4

(* What checkStaleRun's return does to the variables it may change.         *)
LEMMA ResumeTypes ==
    ASSUME TypeInv, NEW p \in Waiters \cup Pollers, NEW r \in Record, Resume(p, r)
    PROVE  /\ pc' \in [Proc -> Pcs] /\ told' \in SUBSET Waiters
           /\ UNCHANGED <<token, aborted>>
           /\ \A q \in Proc \ {p} : pc'[q] = pc[q]
           /\ p \in Waiters => pc'[p] \in {"commit", "ack", "pause"}
           /\ p \in Pollers => pc'[p] = "idle"
BY DEF TypeInv, TypeOK, Resume, Goto, Pcs, Sections, Idle

LEMMA LeaveTypes ==
    ASSUME TypeInv, LockTypeOK', NEW p \in Proc, LeaveSection(p)
    PROVE  TypeOK' /\ RoleInv' /\ FlowInv'
<1> USE DEF TypeInv
<1>1. pc[p] \in Sections
  BY DEF LeaveSection, LeaveLock, FlowInv
<1>2. stage'[p] = "out" /\ \A q \in Proc \ {p} : stage'[q] = stage[q]
  BY DEF LeaveSection, LeaveLock, TypeOK, LockTypeOK
<1>3. CASE pc[p] = "orphan"
  <2>1. p \in Waiters \cup Pollers
    BY <1>3 DEF RoleInv, Stops
  <2>2. Resume(p, seen[p]) /\ seen[p] \in Record
    BY <1>3 DEF LeaveSection, TypeOK
  <2>3. TypeOK'
    BY <1>3, <2>1, <2>2, ResumeTypes, RecordFacts DEF LeaveSection, TypeOK, timeVars
  <2>4. RoleInv'
    BY <2>1, <2>2, ResumeTypes DEF RoleInv, TypeOK
  <2>5. FlowInv'
    BY <1>2, <2>1, <2>2, ResumeTypes DEF LeaveSection, FlowInv, TypeOK
  <2>6. QED
    BY <2>3, <2>4, <2>5
<1>4. CASE pc[p] # "orphan"
  <2>1. TypeOK'
    BY <1>4 DEF LeaveSection, Goto, TypeOK, Pcs, Idle, waitVars, timeVars
  <2>2. RoleInv'
    BY <1>1, <1>4 DEF LeaveSection, Goto, TypeOK, RoleInv, Sections
  <2>3. FlowInv'
    BY <1>1, <1>2, <1>4 DEF LeaveSection, Goto, TypeOK, FlowInv, Sections, RoleInv
  <2>4. QED
    BY <2>1, <2>2, <2>3
<1>5. QED
  BY <1>3, <1>4

LEMMA CheckTypes ==
    ASSUME TypeInv, LockTypeOK', NEW p \in Waiters \cup Pollers, Look(p) \/ Probe(p)
    PROVE  TypeOK' /\ RoleInv' /\ FlowInv'
<1> USE DEF TypeInv
<1>1. pc[p] \notin Sections /\ UNCHANGED stage
  BY DEF Look, Probe, Sections, lockVars
<1>2. CASE \/ Resume(p, disk) /\ UNCHANGED seen
           \/ Resume(p, seen[p]) /\ seen' = [seen EXCEPT ![p] = NoRecord]
  <2>1. PICK r \in Record : Resume(p, r)
    BY <1>2 DEF TypeOK
  <2>2. TypeOK'
    BY <1>2, <2>1, ResumeTypes, RecordFacts DEF Look, Probe, TypeOK, timeVars
  <2>3. RoleInv'
    BY <2>1, ResumeTypes DEF RoleInv, TypeOK
  <2>4. FlowInv'
    BY <1>1, <2>1, ResumeTypes DEF FlowInv, TypeOK, Look, Probe
  <2>5. QED
    BY <2>2, <2>3, <2>4
<1>3. CASE \/ Look(p) /\ Goto(p, "probe") /\ seen' = [seen EXCEPT ![p] = disk] /\ UNCHANGED waitVars
           \/ Probe(p) /\ Goto(p, "orphan") /\ UNCHANGED <<seen, waitVars>>
  <2>1. TypeOK'
    BY <1>3 DEF Look, Probe, Goto, TypeOK, Pcs, Sections, waitVars, timeVars
  <2>2. RoleInv'
    BY <1>3 DEF Goto, RoleInv, TypeOK
  <2>3. FlowInv'
    BY <1>1, <1>3 DEF Look, Probe, Goto, FlowInv, TypeOK
  <2>4. QED
    BY <2>1, <2>2, <2>3
<1>4. CASE Look(p)
  BY <1>2, <1>3, <1>4 DEF Look
<1>5. CASE Probe(p)
  BY <1>2, <1>3, <1>5 DEF Probe
<1>6. QED
  BY <1>4, <1>5

LEMMA WaitTypes ==
    ASSUME TypeInv, LockTypeOK', NEW w \in Waiters, BeginWait(w) \/ Wake(w) \/ GiveUp(w)
    PROVE  TypeOK' /\ RoleInv' /\ FlowInv'
<1> USE DEF TypeInv, BeginWait, Wake, GiveUp, Goto, TypeOK
<1>1. TypeOK'
  BY DEF Pcs, Sections, Idle, recVars, waitVars, timeVars
<1>2. RoleInv'
  BY DEF RoleInv
<1>3. FlowInv'
  BY DEF FlowInv, Sections, lockVars, recVars
<1>4. QED
  BY <1>1, <1>2, <1>3

LEMMA StopTypes ==
    ASSUME TypeInv, LockTypeOK', NEW s \in Stops,
           BeginStop(s) \/ Terminate(s) \/ StopUnconfirmed(s)
    PROVE  TypeOK' /\ RoleInv' /\ FlowInv'
<1> USE DEF TypeInv, TypeOK
<1>1. CASE BeginStop(s) \/ StopUnconfirmed(s) \/ (Goto(s, "kill") /\ Terminate(s) /\ UNCHANGED lockVars)
  <2> USE <1>1 DEF BeginStop, StopUnconfirmed, Terminate, Goto
  <2>1. TypeOK'
    BY DEF Pcs, Sections, Idle, recVars, waitVars, timeVars
  <2>2. RoleInv'
    BY DEF RoleInv
  <2>3. FlowInv'
    BY DEF FlowInv, Sections, lockVars, recVars
  <2>4. QED
    BY <2>1, <2>2, <2>3
<1>2. CASE /\ Terminate(s) /\ ChildAlive /\ pc[s] = "signal" /\ LockDies({Child})
           /\ pc' = [pc EXCEPT ![s] = "kill", ![Child] = "dead"]
  <2>1. TypeOK'
    BY <1>2 DEF Terminate, Pcs, Sections, Idle, recVars, waitVars, timeVars
  <2>2. RoleInv'
    BY <1>2 DEF RoleInv, Stops
  <2>3. FlowInv'
    BY <1>2 DEF Terminate, FlowInv, Sections, LockDies, LockTypeOK, recVars, ChildAlive
  <2>4. QED
    BY <2>1, <2>2, <2>3
<1>3. QED
  BY <1>1, <1>2 DEF Terminate

LEMMA DieTypes ==
    ASSUME TypeInv, LockTypeOK', NEW h, Die(h)
    PROVE  TypeOK' /\ RoleInv' /\ FlowInv'
<1> USE DEF TypeInv, TypeOK, Die
<1>1. TypeOK'
  BY RecordFacts DEF Pcs, Sections, Idle, waitVars, timeVars
<1>2. RoleInv'
  BY DEF RoleInv
<1>3. FlowInv'
  BY DEF FlowInv, LockDies, LockTypeOK
<1>4. QED
  BY <1>1, <1>2, <1>3

LEMMA TimeTypes ==
    ASSUME TypeInv, LockTypeOK',
           BeatsAge \/ LockFileAges \/ \E w \in Waiters : LeaseLapses(w)
    PROVE  TypeOK' /\ RoleInv' /\ FlowInv'
BY DEF TypeInv, TypeOK, BeatsAge, LockFileAges, LockAges, LeaseLapses, RoleInv, FlowInv,
       lockVars, recVars, waitVars, timeVars

LEMMA StepKeepsTypeInv == TypeInv /\ [Next]_vars => TypeInv'
<1> SUFFICES ASSUME TypeInv, [Next]_vars
             PROVE  TypeInv'
  OBVIOUS
<1>1. LockInv' /\ LockTypeOK'
  BY StepKeepsLockInv DEF TypeInv, LockInv
<1>2. CASE Next
  <2>1. TypeOK' /\ RoleInv' /\ FlowInv'
    BY <1>1, <1>2, NextCases, SpawnerTypes, BeatTypes, LockStepTypes, BodyTypes, LeaveTypes,
       CheckTypes, WaitTypes, StopTypes, DieTypes, TimeTypes
  <2>2. QED
    BY <1>1, <2>1 DEF TypeInv
<1>3. CASE UNCHANGED vars
  <2>1. TypeOK' /\ RoleInv' /\ FlowInv'
    BY <1>1, <1>3 DEF TypeInv, TypeOK, RoleInv, FlowInv, vars, lockVars, recVars, waitVars, timeVars
  <2>2. QED
    BY <1>1, <2>1 DEF TypeInv
<1>4. QED
  BY <1>2, <1>3

(* Types, and with them which actor may be where, hold in every behaviour.  *)
THEOREM RegistryTypes == Spec => []TypeOK
<1>1. TypeInv => TypeOK
  BY DEF TypeInv
<1>2. QED
  BY <1>1, InitTypeInv, StepKeepsTypeInv, PTL DEF Spec

-----------------------------------------------------------------------------
(* Safety.  A record is copied by its readers and may be written back at    *)
(* any later time, so what is true of the published record must be true of  *)
(* every copy in flight; each part must be stable once it is true.          *)

Reporting == pc[Child] = "finalize"
Born == pc[Child] # "new"

Sound(r) ==
    /\ ~Misjudges /\ r.status = "orphaned" => ChildGone
    /\ r.status = "reported" => ChildGone \/ Reporting
    /\ ToolStops = {} /\ r.status = "killed" => ChildGone
    /\ Consumed(r) => told # {}
    /\ r.pid => Born

(* What an actor has established before it enters a section.                *)
KnownInv ==
    \A p \in Proc : /\ ~Misjudges /\ pc[p] = "orphan" => ChildGone
                    /\ pc[p] \in {"signal", "publish"} => Born
                    /\ ToolStops = {} /\ pc[p] = "kill" => ChildGone
                    /\ pc[p] \in {"commit", "ack"} => told # {}

SoundInv ==
    /\ Sound(disk)
    /\ \A p \in Proc : Sound(copy[p]) /\ Sound(seen[p])
    /\ KnownInv
    /\ ToolStops = {} /\ ~Misjudges => ToldAfterTheEnd

(* Death is for ever, a child that reports does nothing else, and nobody    *)
(* forgets that it was told.                                                *)
LEMMA StableFacts ==
    ASSUME TypeInv, Next
    PROVE  /\ ChildGone => ChildGone'
           /\ Reporting => Reporting' \/ ChildGone'
           /\ Born => Born'
           /\ told \subseteq told'
<1> USE DEF TypeInv, TypeOK, Born
<1>1. ASSUME NEW p \in Proc, LeaveSection(p)
      PROVE  /\ ChildGone => ChildGone'
             /\ Reporting => Reporting' \/ ChildGone'
             /\ Born => Born'
             /\ told \subseteq told'
  <2>1. pc[p] \in Sections
    BY <1>1 DEF LeaveSection, LeaveLock, FlowInv
  <2>2. p # Child \/ pc[p] = "finalize"
    BY <2>1 DEF RoleInv, Sections
  <2>3. QED
    BY <1>1, <2>1, <2>2 DEF LeaveSection, Goto, Resume, ChildGone, Reporting, Sections, waitVars
<1>2. ASSUME NEW p \in Waiters \cup Pollers, Look(p) \/ Probe(p)
      PROVE  told \subseteq told' /\ pc'[Child] = pc[Child]
  BY <1>2 DEF Look, Probe, Goto, Resume, waitVars
<1>3. ASSUME NEW h, Die(h)
      PROVE  told \subseteq told' /\ pc'[Child] \in {pc[Child], "dead"}
  BY <1>3 DEF Die, waitVars
<1>4. CASE \/ CreateRecord \/ StartChild \/ SpawnFails \/ PublishPid \/ WriteBeat
           \/ \E l \in {"beat", "flush"} : BeginBeat(l)
  BY <1>4 DEF CreateRecord, StartChild, SpawnFails, PublishPid, WriteBeat, BeginBeat, Goto,
              ChildGone, Reporting, FlowInv, waitVars
<1>5. ASSUME NEW p \in Proc,
             EnterSection(p) \/ ContendSection(p) \/ ReadInSection(p) \/ WriteInSection(p)
      PROVE  told' = told /\ pc' = pc
  BY <1>5 DEF EnterSection, ContendSection, ReadInSection, WriteInSection, waitVars
<1>6. ASSUME NEW w \in Waiters, BeginWait(w) \/ Wake(w) \/ GiveUp(w)
      PROVE  told' = told /\ pc'[Child] = pc[Child]
  BY <1>6 DEF BeginWait, Wake, GiveUp, Goto, waitVars
<1>7. ASSUME NEW s \in Stops, BeginStop(s) \/ Terminate(s) \/ StopUnconfirmed(s)
      PROVE  told' = told /\ pc'[Child] \in {pc[Child], "dead"}
  BY <1>7 DEF BeginStop, Terminate, StopUnconfirmed, Goto, waitVars
<1>8. CASE BeatsAge \/ LockFileAges \/ \E w \in Waiters : LeaseLapses(w)
  BY <1>8 DEF BeatsAge, LockFileAges, LeaseLapses, waitVars, ChildGone, Reporting
<1>9. QED
  BY NextCases, <1>1, <1>2, <1>3, <1>4, <1>5, <1>6, <1>7, <1>8 DEF ChildGone, Reporting

LEMMA SoundStable ==
    ASSUME TypeInv, Next, NEW r \in Record, Sound(r)
    PROVE  Sound(r)'
<1>1. told # {} => told' # {}
  BY StableFacts
<1>2. QED
  BY <1>1, StableFacts DEF Sound, Consumed

LEMMA BlankSound == Sound(NoRecord) /\ Sound(NewRecord)
BY DEF Sound, NoRecord, NewRecord, Consumed

(* What a section writes is sound if what it read was.                      *)
LEMMA OutcomeSound ==
    ASSUME TypeInv, KnownInv, NEW p \in Proc, pc[p] \in Sections,
           NEW r \in Record, Sound(r)
    PROVE  Sound(Outcome(p, r))
<1> USE DEF TypeInv, Sound, Record, Consumed
<1>1. CASE pc[p] = "finalize"
  <2>1. Reporting
    BY <1>1 DEF RoleInv, Stops, Reporting
  <2>2. QED
    BY <1>1, <2>1 DEF Outcome
<1>2. CASE pc[p] \in {"kill", "orphan"}
  BY <1>2 DEF Outcome, KnownInv
<1>3. CASE pc[p] = "claim"
  <2>1. p \in Waiters
    BY <1>3 DEF RoleInv
  <2>2. QED
    BY <1>3, <2>1 DEF Outcome
<1>4. CASE pc[p] \in {"commit", "ack", "release"}
  BY <1>4 DEF Outcome, KnownInv
<1>5. QED
  BY <1>1, <1>2, <1>3, <1>4 DEF Sections

(* Every record that a step puts on disk, into a copy or into what a check  *)
(* returns was sound before the step.                                       *)
LEMMA WritesSound ==
    ASSUME TypeInv, SoundInv, Next
    PROVE  /\ \E v \in Record : Sound(v) /\ disk' = v
           /\ \A q \in Proc : /\ \E v \in Record : Sound(v) /\ copy'[q] = v
                              /\ \E v \in Record : Sound(v) /\ seen'[q] = v
<1> DEFINE Kept == /\ \E v \in Record : Sound(v) /\ disk' = v
                   /\ \A q \in Proc : /\ \E v \in Record : Sound(v) /\ copy'[q] = v
                                      /\ \E v \in Record : Sound(v) /\ seen'[q] = v
<1>1. Sound(disk) /\ disk \in Record
  BY DEF SoundInv, TypeInv, TypeOK
<1>2. \A q \in Proc : Sound(copy[q]) /\ copy[q] \in Record /\ Sound(seen[q]) /\ seen[q] \in Record
  BY DEF SoundInv, TypeInv, TypeOK
<1>3. ASSUME UNCHANGED <<disk, copy, seen>>
      PROVE  Kept
  BY <1>1, <1>2, <1>3
<1>4. CASE CreateRecord
  BY <1>2, <1>4, BlankSound, RecordFacts DEF CreateRecord
<1>5. CASE PublishPid
  <2>1. Sound([NewRecord EXCEPT !.pid = TRUE])
    BY <1>5 DEF PublishPid, SoundInv, KnownInv, Sound, NewRecord, NoRecord, Consumed
  <2>2. QED
    BY <1>2, <1>5, <2>1, RecordFacts DEF PublishPid
<1>6. ASSUME NEW l \in {"beat", "flush"}, BeginBeat(l)
      PROVE  Kept
  BY <1>1, <1>2, <1>6 DEF BeginBeat, TypeInv, TypeOK
<1>7. CASE WriteBeat
  <2>1. beats' \in 0..(MaxBeats + 1)
    BY <1>7 DEF WriteBeat, TypeInv, TypeOK, FlowInv
  <2>2. disk' \in Record /\ Sound(disk')
    BY <1>2, <1>7, <2>1 DEF WriteBeat, Record, Sound, Consumed
  <2>3. QED
    BY <1>2, <1>7, <2>2, BlankSound, RecordFacts DEF WriteBeat, TypeInv, TypeOK
<1>8. ASSUME NEW p \in Proc, ReadInSection(p)
      PROVE  Kept
  BY <1>1, <1>2, <1>8 DEF ReadInSection, TypeInv, TypeOK
<1>9. ASSUME NEW p \in Proc, WriteInSection(p)
      PROVE  Kept
  <2>1. pc[p] \in Sections
    BY <1>9 DEF WriteInSection, TypeInv, FlowInv
  <2>2. Sound(Outcome(p, copy[p]))
    BY <1>2, <2>1, OutcomeSound DEF SoundInv
  <2>3. Outcome(p, copy[p]) \in Record
    BY <1>2, OutcomeType DEF TypeInv, RoleInv
  <2>4. QED
    BY <1>2, <1>9, <2>2, <2>3, BlankSound, RecordFacts DEF WriteInSection, TypeInv, TypeOK
<1>10. ASSUME NEW p \in Proc, LeaveSection(p)
       PROVE  Kept
  BY <1>1, <1>2, <1>10, BlankSound, RecordFacts DEF LeaveSection, TypeInv, TypeOK
<1>11. ASSUME NEW p \in Waiters \cup Pollers, Look(p) \/ Probe(p)
       PROVE  Kept
  BY <1>1, <1>2, <1>11, BlankSound, RecordFacts DEF Look, Probe, TypeInv, TypeOK
<1>12. ASSUME NEW h, Die(h)
       PROVE  Kept
  BY <1>1, <1>2, <1>12, BlankSound, RecordFacts DEF Die
<1>13. QED
  BY NextCases, <1>3, <1>4, <1>5, <1>6, <1>7, <1>8, <1>9, <1>10, <1>11, <1>12
     DEF StartChild, SpawnFails, EnterSection, ContendSection, BeginWait, Wake, GiveUp, BeginStop,
         Terminate, StopUnconfirmed, BeatsAge, LockFileAges, LeaseLapses, recVars

(* What a check returns decides: a wait goes on to ack only what is over.   *)
LEMMA ResumeKnows ==
    ASSUME TypeInv, SoundInv, NEW p \in Waiters \cup Pollers, NEW r \in Record,
           Sound(r), Resume(p, r)
    PROVE  /\ pc'[p] \in {"commit", "ack"} => told' # {}
           /\ pc'[p] \notin {"orphan", "signal", "kill", "publish"}
           /\ ToolStops = {} /\ ~Misjudges /\ told' # {} => ChildGone \/ Reporting
<1> USE DEF TypeInv, TypeOK
<1>1. CASE p \in Waiters /\ r.status \in Terminal
  BY <1>1 DEF Resume, Goto, Terminal, Sound
<1>2. CASE ~(p \in Waiters /\ r.status \in Terminal)
  BY <1>2 DEF Resume, Goto, SoundInv, ToldAfterTheEnd, Reporting
<1>3. QED
  BY <1>1, <1>2

(* An actor that has not moved knows what it knew; one that has, what its   *)
(* step told it.                                                            *)
LEMMA StepKeepsKnown ==
    ASSUME TypeInv, SoundInv, Next
    PROVE  KnownInv' /\ (ToolStops = {} /\ ~Misjudges => ToldAfterTheEnd')
<1> USE DEF TypeInv, TypeOK
<1> DEFINE Learns(q) == /\ ~Misjudges /\ pc'[q] = "orphan" => ChildGone'
                        /\ pc'[q] \in {"signal", "publish"} => Born'
                        /\ ToolStops = {} /\ pc'[q] = "kill" => ChildGone'
                        /\ pc'[q] \in {"commit", "ack"} => told' # {}
           Told == ToolStops = {} /\ ~Misjudges /\ told' # {} => ChildGone' \/ Reporting'
<1>1. \A q \in Proc : pc'[q] = pc[q] => Learns(q)
  BY StableFacts DEF SoundInv, KnownInv
<1>2. told' = told => Told
  BY StableFacts DEF SoundInv, ToldAfterTheEnd, Reporting
<1>3. ASSUME WriteBeat \/ \E l \in {"beat", "flush"} : BeginBeat(l)
      PROVE  (\A q \in Proc : Learns(q)) /\ Told
  BY <1>1, <1>2, <1>3 DEF WriteBeat, BeginBeat, Goto, waitVars
<1>4. ASSUME NEW p \in Waiters \cup Pollers, NEW r \in Record, Sound(r), Resume(p, r)
      PROVE  (\A q \in Proc : Learns(q)) /\ Told
  <2>1. \A q \in Proc \ {p} : pc'[q] = pc[q]
    BY <1>4, ResumeTypes
  <2>2. Learns(p)
    BY <1>4, ResumeKnows
  <2>3. Told
    BY <1>4, ResumeKnows, StableFacts
  <2>4. QED
    BY <1>1, <2>1, <2>2, <2>3
<1>5. ASSUME NEW p \in Proc, LeaveSection(p)
      PROVE  (\A q \in Proc : Learns(q)) /\ Told
  <2>1. pc[p] \in Sections
    BY <1>5 DEF LeaveSection, LeaveLock, FlowInv
  <2>2. CASE pc[p] = "orphan"
    <3>1. p \in Waiters \cup Pollers
      BY <2>2 DEF RoleInv, Stops
    <3>2. QED
      BY <1>4, <1>5, <2>2, <3>1 DEF LeaveSection, SoundInv
  <2>3. CASE pc[p] # "orphan"
    BY <1>1, <1>2, <1>5, <2>3 DEF LeaveSection, Goto, waitVars
  <2>4. QED
    BY <2>2, <2>3
<1>6. ASSUME NEW p \in Waiters \cup Pollers, Look(p)
      PROVE  (\A q \in Proc : Learns(q)) /\ Told
  <2>1. CASE Resume(p, disk)
    BY <1>4, <2>1 DEF SoundInv
  <2>2. CASE Goto(p, "probe") /\ UNCHANGED waitVars
    BY <1>1, <1>2, <2>2 DEF Goto, waitVars
  <2>3. QED
    BY <1>6, <2>1, <2>2 DEF Look
<1>7. ASSUME NEW p \in Waiters \cup Pollers, Probe(p)
      PROVE  (\A q \in Proc : Learns(q)) /\ Told
  <2>1. CASE Resume(p, seen[p])
    BY <1>4, <2>1 DEF SoundInv
  <2>2. CASE InferredGone /\ Goto(p, "orphan") /\ UNCHANGED waitVars
    BY <1>1, <1>2, <2>2, StableFacts DEF Goto, InferredGone, waitVars
  <2>3. QED
    BY <1>7, <2>1, <2>2 DEF Probe
<1>8. ASSUME NEW w \in Waiters, BeginWait(w) \/ Wake(w) \/ GiveUp(w)
      PROVE  (\A q \in Proc : Learns(q)) /\ Told
  BY <1>1, <1>2, <1>8 DEF BeginWait, Wake, GiveUp, Goto, waitVars
<1>9. ASSUME NEW s \in Stops, BeginStop(s) \/ StopUnconfirmed(s)
      PROVE  (\A q \in Proc : Learns(q)) /\ Told
  BY <1>1, <1>2, <1>9, StableFacts DEF BeginStop, StopUnconfirmed, Goto, waitVars, SoundInv, Sound
<1>10. ASSUME NEW s \in Stops, Terminate(s)
       PROVE  (\A q \in Proc : Learns(q)) /\ Told
  <2>1. ChildGone'
    BY <1>10, StableFacts DEF Terminate, Goto, ChildAlive, ChildGone, SoundInv, KnownInv, Born, RoleInv, Stops
  <2>2. \A q \in Proc : pc'[q] = pc[q] \/ pc'[q] \in {"kill", "dead"}
    BY <1>10 DEF Terminate, Goto
  <2>3. QED
    BY <1>1, <1>2, <1>10, <2>1, <2>2 DEF Terminate, waitVars
<1>11. ASSUME NEW h, Die(h)
       PROVE  (\A q \in Proc : Learns(q)) /\ Told
  BY <1>1, <1>2, <1>11 DEF Die, waitVars
<1>12. ASSUME CreateRecord \/ StartChild \/ SpawnFails \/ PublishPid
       PROVE  (\A q \in Proc : Learns(q)) /\ Told
  <2>1. told' = told
    BY <1>12 DEF CreateRecord, StartChild, SpawnFails, PublishPid, waitVars
  <2>2. \A q \in Proc : pc'[q] = pc[q] \/ pc'[q] \in {"work", "start", "publish", "ended"}
    BY <1>12 DEF CreateRecord, StartChild, SpawnFails, PublishPid, Goto
  <2>3. \A q \in Proc : pc'[q] = "publish" => pc[q] = "publish" \/ Born'
    BY <1>12 DEF CreateRecord, StartChild, SpawnFails, PublishPid, Goto, Born
  <2>4. QED
    BY <1>1, <1>2, <2>1, <2>2, <2>3
<1>13. ASSUME UNCHANGED <<pc, told>>
       PROVE  (\A q \in Proc : Learns(q)) /\ Told
  BY <1>1, <1>2, <1>13
<1>14. (\A q \in Proc : Learns(q)) /\ Told
  <2> HIDE DEF Learns, Told
  <2> QED
    BY NextCases, <1>3, <1>5, <1>6, <1>7, <1>8, <1>9, <1>10, <1>11, <1>12, <1>13
       DEF EnterSection, ContendSection, ReadInSection, WriteInSection, BeatsAge, LockFileAges,
           LeaseLapses, waitVars
<1>15. QED
  BY <1>14 DEF KnownInv, ToldAfterTheEnd, Reporting

LEMMA InitSound == Init => SoundInv
BY BlankSound DEF Init, SoundInv, KnownInv, ToldAfterTheEnd, Stops

LEMMA StepKeepsSound ==
    ASSUME TypeInv, SoundInv, [Next]_vars
    PROVE  SoundInv'
<1>1. CASE Next
  <2>1. ASSUME NEW v \in Record, Sound(v)
        PROVE  Sound(v)'
    BY <1>1, <2>1, SoundStable
  <2>2. Sound(disk)'
    <3>1. PICK v \in Record : Sound(v) /\ disk' = v
      BY <1>1, WritesSound
    <3>2. QED
      BY <2>1, <3>1 DEF Sound, Consumed
  <2>3. ASSUME NEW q \in Proc
        PROVE  Sound(copy[q])' /\ Sound(seen[q])'
    <3>1. PICK v \in Record : Sound(v) /\ copy'[q] = v
      BY <1>1, WritesSound
    <3>2. PICK u \in Record : Sound(u) /\ seen'[q] = u
      BY <1>1, WritesSound
    <3>3. Sound(v)' /\ Sound(u)'
      BY <2>1, <3>1, <3>2
    <3>4. QED
      BY <3>1, <3>2, <3>3 DEF Sound, Consumed
  <2>4. KnownInv' /\ (ToolStops = {} /\ ~Misjudges => ToldAfterTheEnd')
    BY <1>1, StepKeepsKnown
  <2>5. QED
    BY <2>2, <2>3, <2>4 DEF SoundInv
<1>2. CASE UNCHANGED vars
  BY <1>2 DEF vars, recVars, waitVars, SoundInv, Sound, KnownInv, ToldAfterTheEnd,
              Consumed, ChildGone, Reporting, Born
<1>3. QED
  BY <1>1, <1>2

LEMMA Soundness == Spec => [](TypeInv /\ SoundInv)
<1>1. Init => TypeInv /\ SoundInv
  BY InitTypeInv, InitSound
<1>2. (TypeInv /\ SoundInv) /\ [Next]_vars => (TypeInv /\ SoundInv)'
  BY StepKeepsTypeInv, StepKeepsSound
<1>3. QED
  BY <1>1, <1>2, PTL DEF Spec

(* However stale the copies that processes write back, a record is never    *)
(* finally acked before a wait has read a terminal status.                  *)
THEOREM AckAfterRead == Spec => []FinalAckWasRead
<1>1. SoundInv => FinalAckWasRead
  BY DEF SoundInv, Sound, FinalAckWasRead
<1>2. QED
  BY <1>1, Soundness, PTL

(* With `nolo agent stop` alone - which refuses a record that has no pid -  *)
(* no record says killed of a live process ...                              *)
THEOREM KillVerdictSound == ToolStops = {} => (Spec => []KilledAreGone)
<1> SUFFICES ASSUME ToolStops = {}
             PROVE  Spec => []KilledAreGone
  OBVIOUS
<1>1. SoundInv => KilledAreGone
  BY DEF SoundInv, Sound, KilledAreGone
<1>2. QED
  BY <1>1, Soundness, PTL

(* ... and, if the death of a process is rightly inferred, no wait answers  *)
(* with a terminal status before the process has published its own or is    *)
(* gone.                                                                    *)
THEOREM WaitsAnswerAfterTheEnd ==
    ToolStops = {} /\ ~Misjudges => (Spec => []ToldAfterTheEnd)
<1> SUFFICES ASSUME ToolStops = {}, ~Misjudges
             PROVE  Spec => []ToldAfterTheEnd
  OBVIOUS
<1>1. SoundInv => ToldAfterTheEnd
  BY DEF SoundInv
<1>2. QED
  BY <1>1, Soundness, PTL
-----------------------------------------------------------------------------
(* The grace.  Who is about to look a second time has seen a heartbeat that *)
(* is older than the grace, and a heartbeat only gets older.                *)

GraceInv ==
    /\ oldBeats <= beats
    /\ \A p \in Proc : pc[p] = "orphan" /\ stage[p] # "leave" => seen[p].beat <= oldBeats

(* Heartbeats are counted up and grow old together.                         *)
LEMMA BeatsAscend ==
    ASSUME TypeInv, GraceInv, Next
    PROVE  oldBeats <= oldBeats' /\ oldBeats' <= beats' /\ beats <= beats'
<1> USE DEF TypeInv, TypeOK, GraceInv
<1>1. CASE UNCHANGED <<beats, oldBeats>>
  BY <1>1
<1>2. CASE WriteBeat
  BY <1>2 DEF WriteBeat, timeVars
<1>3. CASE BeatsAge
  BY <1>3 DEF BeatsAge, recVars
<1>4. ASSUME NEW h, Die(h)
      PROVE  UNCHANGED <<beats, oldBeats>>
  BY <1>4 DEF Die, timeVars
<1>5. ASSUME NEW p \in Proc,
             EnterSection(p) \/ ContendSection(p) \/ ReadInSection(p) \/ WriteInSection(p)
             \/ LeaveSection(p)
      PROVE  UNCHANGED <<beats, oldBeats>>
  BY <1>5 DEF EnterSection, ContendSection, ReadInSection, WriteInSection, LeaveSection,
              recVars, timeVars
<1>6. QED
  BY NextCases, <1>1, <1>2, <1>3, <1>4, <1>5
     DEF CreateRecord, StartChild, SpawnFails, PublishPid, BeginBeat, Look, Probe, BeginWait, Wake,
         GiveUp, BeginStop, Terminate, StopUnconfirmed, LockFileAges, LeaseLapses, recVars, timeVars

(* Who is on the way to the second look keeps what it has seen, or has just *)
(* found the heartbeat in it old.                                           *)
LEMMA SeenKept ==
    ASSUME TypeInv, Next, NEW q \in Proc, pc'[q] = "orphan", stage'[q] # "leave"
    PROVE  /\ seen'[q] = seen[q]
           /\ (pc[q] = "orphan" /\ stage[q] # "leave") \/ ~Fresh(seen[q])
<1> USE DEF TypeInv, TypeOK, LockTypeOK
<1> DEFINE Kept == /\ seen'[q] = seen[q]
                   /\ (pc[q] = "orphan" /\ stage[q] # "leave") \/ ~Fresh(seen[q])
<1>1. ASSUME seen'[q] = seen[q], pc'[q] = pc[q], stage'[q] = stage[q]
      PROVE  Kept
  BY <1>1
<1>2. ASSUME NEW p \in Proc, EnterSection(p) \/ ContendSection(p)
      PROVE  Kept
  BY <1>2 DEF EnterSection, ContendSection, TryLock, CreateLock, GoUnlocked, StatLock, BreakLock,
              RecreateLock, recVars
<1>3. ASSUME NEW p \in Proc, ReadInSection(p) \/ WriteInSection(p)
      PROVE  Kept
  BY <1>3 DEF ReadInSection, WriteInSection, EndSection, lockVars
<1>4. ASSUME NEW p \in Proc, LeaveSection(p)
      PROVE  Kept
  <2>1. pc'[p] # "orphan"
    BY <1>4 DEF LeaveSection, Resume, Goto
  <2>2. q # p
    BY <2>1
  <2>3. QED
    BY <1>4, <2>2 DEF LeaveSection, LeaveLock, Resume, Goto
<1>5. ASSUME NEW p \in Waiters \cup Pollers, Look(p) \/ Probe(p)
      PROVE  Kept
  BY <1>5 DEF Look, Probe, Resume, Goto, lockVars
<1>6. ASSUME NEW h, Die(h)
      PROVE  Kept
  BY <1>6 DEF Die, LockDies
<1>7. ASSUME NEW s \in Stops, BeginStop(s) \/ Terminate(s) \/ StopUnconfirmed(s)
      PROVE  Kept
  BY <1>7 DEF BeginStop, Terminate, StopUnconfirmed, Goto, LockDies, lockVars, recVars
<1>8. ASSUME NEW w \in Waiters, BeginWait(w) \/ Wake(w) \/ GiveUp(w)
      PROVE  Kept
  BY <1>8 DEF BeginWait, Wake, GiveUp, Goto, lockVars, recVars
<1>9. CASE \/ CreateRecord \/ StartChild \/ SpawnFails \/ PublishPid \/ WriteBeat
           \/ \E l \in {"beat", "flush"} : BeginBeat(l)
  BY <1>9 DEF CreateRecord, StartChild, SpawnFails, PublishPid, WriteBeat, BeginBeat, Goto,
              lockVars, recVars
<1>10. CASE BeatsAge \/ LockFileAges \/ \E w \in Waiters : LeaseLapses(w)
  BY <1>10 DEF BeatsAge, LockFileAges, LockAges, LeaseLapses, lockVars, recVars
<1>11. QED
  BY NextCases, <1>2, <1>3, <1>4, <1>5, <1>6, <1>7, <1>8, <1>9, <1>10

LEMMA StepKeepsGrace ==
    ASSUME TypeInv, GraceInv, [Next]_vars
    PROVE  GraceInv'
<1> USE DEF TypeInv, TypeOK, Record
<1>1. CASE Next
  <2>1. ASSUME NEW q \in Proc, pc'[q] = "orphan", stage'[q] # "leave"
        PROVE  seen'[q].beat <= oldBeats'
    <3>1. /\ seen'[q] = seen[q]
          /\ (pc[q] = "orphan" /\ stage[q] # "leave") \/ ~Fresh(seen[q])
      BY <1>1, <2>1, SeenKept
    <3>2. seen[q].beat <= oldBeats
      BY <3>1 DEF GraceInv, Fresh, Record
    <3>3. oldBeats \in Nat /\ oldBeats' \in Nat
      BY StepKeepsTypeInv
    <3>4. oldBeats <= oldBeats'
      BY <1>1, BeatsAscend
    <3>5. seen[q].beat \in Nat
      BY DEF Record
    <3>6. QED
      BY <3>1, <3>2, <3>3, <3>4, <3>5
  <2>2. QED
    BY <1>1, <2>1, BeatsAscend DEF GraceInv
<1>2. CASE UNCHANGED vars
  BY <1>2 DEF vars, lockVars, recVars, timeVars, GraceInv
<1>3. QED
  BY <1>1, <1>2

(* Only the second look takes a copy for the verdict, and only of a record  *)
(* with the heartbeat seen at the first.                                    *)
LEMMA UpheldByLook ==
    ASSUME TypeInv, Next, NEW p \in Proc, Upheld(p)
    PROVE  stage[p] = "in" /\ disk.status = "running" /\ disk.beat = seen[p].beat
<1> USE DEF TypeInv, TypeOK, Upheld
<1>1. p # Child
  BY DEF RoleInv
<1>2. ReadInSection(p)
  <2>1. ASSUME NEW q \in Proc, WriteInSection(q) \/ (ReadInSection(q) /\ q # p)
        PROVE  FALSE
    BY <2>1 DEF ReadInSection, WriteInSection
  <2>2. ASSUME NEW h, Die(h)
        PROVE  FALSE
    BY <2>2 DEF Die
  <2>3. ASSUME WriteBeat \/ \E l \in {"beat", "flush"} : BeginBeat(l)
        PROVE  FALSE
    BY <1>1, <2>3 DEF WriteBeat, BeginBeat
  <2>4. QED
    BY NextCases, <2>1, <2>2, <2>3
       DEF CreateRecord, StartChild, SpawnFails, PublishPid, EnterSection, ContendSection,
           LeaveSection, Look, Probe, BeginWait, Wake, GiveUp, BeginStop, Terminate,
           StopUnconfirmed, BeatsAge, LockFileAges, LeaseLapses, recVars
<1>3. QED
  BY <1>2 DEF ReadInSection, Applies

LEMMA Graced == Spec => [](TypeInv /\ GraceInv)
<1>1. Init => TypeInv /\ GraceInv
  BY InitTypeInv DEF Init, GraceInv, Stops
<1>2. (TypeInv /\ GraceInv) /\ [Next]_vars => (TypeInv /\ GraceInv)'
  BY StepKeepsTypeInv, StepKeepsGrace
<1>3. QED
  BY <1>1, <1>2, PTL DEF Spec

(* However kill(pid, 0) and `ps` misjudge a process, whoever waits for,     *)
(* reconciles or stops the run and in whatever order they get the lock: the *)
(* verdict is upheld only on a run that has not beaten for the grace, or    *)
(* whose last heartbeat another writer has removed from the record.         *)
THEOREM OrphanVerdictSound == Spec => LivelyRunsSpared
<1>1. TypeInv /\ GraceInv /\ [Next]_vars
        => [\A p \in Proc : Upheld(p) => beats <= oldBeats \/ disk.beat < beats]_vars
  <2> SUFFICES ASSUME TypeInv, GraceInv, Next, NEW p \in Proc, Upheld(p)
               PROVE  beats <= oldBeats \/ disk.beat < beats
    OBVIOUS
  <2>1. disk.beat <= oldBeats
    BY UpheldByLook DEF GraceInv, Upheld
  <2>2. QED
    BY <2>1 DEF TypeInv, TypeOK, Record
<1>2. QED
  BY <1>1, Graced, PTL DEF Spec, LivelyRunsSpared

(* Where nobody waits for the run and its pid is published before it acts,  *)
(* nobody removes a heartbeat: a record that says running bears the last.   *)
KeptInv ==
    /\ disk.status = "running" => disk.beat = beats
    /\ pc[Spawner] \in {"new", "start", "publish"}
          => beats = 0 /\ pc[Child] \in {"new", "work", "dead"}

LEMMA StepKeepsKept ==
    ASSUME Waiters = {}, ~SlowSpawn, TypeInv, KeptInv, [Next]_vars
    PROVE  KeptInv'
<1> USE DEF TypeInv, TypeOK
<1>1. ASSUME disk' = disk, beats' = beats,
             pc'[Spawner] = pc[Spawner] \/ pc'[Spawner] \in {"ended", "dead"},
             pc'[Child] = pc[Child] \/ pc'[Child] = "dead"
      PROVE  KeptInv'
  BY <1>1 DEF KeptInv
<1>2. CASE CreateRecord \/ StartChild \/ SpawnFails \/ PublishPid
  BY <1>2 DEF CreateRecord, StartChild, SpawnFails, PublishPid, Goto, NewRecord, NoRecord, KeptInv,
              FlowInv, recVars
<1>3. CASE WriteBeat \/ \E l \in {"beat", "flush"} : BeginBeat(l)
  <2>1. pc[Spawner] \notin {"new", "start", "publish"} /\ pc'[Spawner] = pc[Spawner]
    BY <1>3 DEF WriteBeat, BeginBeat, ChildRuns, Goto, KeptInv, FlowInv
  <2>2. disk'.status = "running" => disk'.beat = beats'
    BY <1>3 DEF WriteBeat, BeginBeat, KeptInv, Record
  <2>3. QED
    BY <2>1, <2>2 DEF KeptInv
<1>4. ASSUME NEW p \in Proc, WriteInSection(p)
      PROVE  KeptInv'
  <2>1. pc[p] \in {"finalize", "orphan", "kill"}
    BY <1>4 DEF WriteInSection, FlowInv, RoleInv, Sections, Stops
  <2>2. disk'.status # "running"
    BY <1>4, <2>1 DEF WriteInSection, Outcome, Record
  <2>3. QED
    BY <1>4, <2>2 DEF WriteInSection, KeptInv
<1>5. ASSUME NEW p \in Proc, LeaveSection(p)
      PROVE  KeptInv'
  <2>1. pc[p] \in Sections /\ disk' = disk /\ beats' = beats
    BY <1>5 DEF LeaveSection, LeaveLock, FlowInv
  <2>2. pc[p] = "finalize" <=> p = Child
    BY <2>1 DEF RoleInv, Sections, Stops
  <2>3. p # Spawner /\ (p = Child => pc[Spawner] \notin {"new", "start", "publish"})
    BY <2>1, <2>2 DEF KeptInv, RoleInv, Sections
  <2>4. \A q \in Proc \ {p} : pc'[q] = pc[q]
    BY <1>5 DEF LeaveSection, Resume, Goto
  <2>5. QED
    BY <2>1, <2>3, <2>4 DEF KeptInv
<1>6. ASSUME NEW p \in Proc, EnterSection(p) \/ ContendSection(p) \/ ReadInSection(p)
      PROVE  KeptInv'
  BY <1>1, <1>6 DEF EnterSection, ContendSection, ReadInSection, recVars
<1>7. ASSUME NEW p \in Waiters \cup Pollers, Look(p) \/ Probe(p)
      PROVE  KeptInv'
  BY <1>1, <1>7 DEF Look, Probe, Resume, Goto
<1>8. ASSUME NEW s \in Stops, BeginStop(s) \/ Terminate(s) \/ StopUnconfirmed(s)
      PROVE  KeptInv'
  BY <1>1, <1>8 DEF BeginStop, Terminate, StopUnconfirmed, Goto, recVars
<1>9. ASSUME NEW h, Die(h)
      PROVE  KeptInv'
  BY <1>1, <1>9 DEF Die
<1>10. CASE BeatsAge \/ LockFileAges \/ (\E w \in Waiters : LeaseLapses(w)) \/ UNCHANGED vars
  BY <1>1, <1>10 DEF BeatsAge, LockFileAges, LeaseLapses, vars, recVars
<1>11. QED
  BY NextCases, <1>2, <1>3, <1>4, <1>5, <1>6, <1>7, <1>8, <1>9, <1>10

(* Whoever reconciles or stops it: where nobody waits for a run whose pid   *)
(* is published before it acts, no run that has beaten within the grace is  *)
(* called orphaned, be its process misjudged or not.                        *)
THEOREM SilenceBeforeVerdict ==
    Waiters = {} /\ ~SlowSpawn =>
        (Spec => [][\A p \in Proc : Upheld(p) => beats <= oldBeats]_vars)
<1> SUFFICES ASSUME Waiters = {}, ~SlowSpawn
             PROVE  Spec => [][\A p \in Proc : Upheld(p) => beats <= oldBeats]_vars
  OBVIOUS
<1>1. Init => KeptInv
  BY DEF Init, KeptInv, NoRecord, Stops
<1>2. (TypeInv /\ GraceInv) /\ KeptInv /\ [Next]_vars => KeptInv'
  BY StepKeepsKept
<1>3. (TypeInv /\ GraceInv) /\ KeptInv /\ [Next]_vars
        => [\A p \in Proc : Upheld(p) => beats <= oldBeats]_vars
  <2> SUFFICES ASSUME TypeInv, GraceInv, KeptInv, Next, NEW p \in Proc, Upheld(p)
               PROVE  beats <= oldBeats
    OBVIOUS
  <2>1. QED
    BY UpheldByLook DEF GraceInv, KeptInv, Upheld
<1>4. QED
  BY <1>1, <1>2, <1>3, Graced, PTL DEF Spec

-----------------------------------------------------------------------------
(* Refinement.  With nobody waiting for or stopping the run, the pid        *)
(* published before the child acts and its death rightly inferred, the      *)
(* registry decides the run once.                                           *)

LifeScope == Waiters = {} /\ Stops = {} /\ ~SlowSpawn /\ ~Misjudges

Settled == pc[Spawner] \in {"ended", "dead"}

(* Only a section and a heartbeat hold a copy of the record.                *)
CopyInv ==
    \A p \in Proc : copy[p] # NoRecord => stage[p] = "in" \/ pc[p] \in {"beat", "flush", "dead"}

LEMMA StepKeepsCopies ==
    ASSUME TypeInv, CopyInv, [Next]_vars
    PROVE  CopyInv'
<1> USE DEF TypeInv, TypeOK, LockTypeOK
<1>1. ASSUME NEW p \in Proc,
             pc[p] \notin {"beat", "flush", "dead"} \/ pc'[p] = pc[p],
             stage'[p] = stage[p], copy'[p] = copy[p]
      PROVE  copy'[p] # NoRecord => stage'[p] = "in" \/ pc'[p] \in {"beat", "flush", "dead"}
  BY <1>1 DEF CopyInv
<1>2. ASSUME NEW p \in Proc, EnterSection(p) \/ ContendSection(p) \/ LeaveSection(p)
      PROVE  CopyInv'
  <2>1. stage[p] # "in" /\ pc[p] \in Sections /\ UNCHANGED copy
    BY <1>2 DEF EnterSection, ContendSection, LeaveSection, LeaveLock, TryLock, StatLock, BreakLock,
                RecreateLock, FlowInv, recVars
  <2>2. copy'[p] = NoRecord
    BY <2>1 DEF CopyInv, Sections
  <2>3. \A q \in Proc \ {p} : stage'[q] = stage[q] /\ pc'[q] = pc[q]
    <3>1. CASE EnterSection(p) \/ ContendSection(p)
      BY <3>1 DEF EnterSection, ContendSection, TryLock, CreateLock, StatLock, BreakLock,
                  RecreateLock, GoUnlocked
    <3>2. CASE LeaveSection(p)
      BY <3>2 DEF LeaveSection, LeaveLock, Resume, Goto
    <3>3. QED
      BY <1>2, <3>1, <3>2
  <2>4. QED
    BY <2>1, <2>2, <2>3 DEF CopyInv
<1>3. ASSUME NEW p \in Proc, ReadInSection(p) \/ WriteInSection(p)
      PROVE  CopyInv'
  <2>1. \A q \in Proc \ {p} : stage'[q] = stage[q] /\ pc'[q] = pc[q] /\ copy'[q] = copy[q]
    BY <1>3 DEF ReadInSection, WriteInSection, EndSection, lockVars
  <2>2. stage'[p] = "in" \/ copy'[p] = NoRecord
    BY <1>3 DEF ReadInSection, WriteInSection, lockVars
  <2>3. QED
    BY <2>1, <2>2 DEF CopyInv
<1>4. CASE WriteBeat \/ \E l \in {"beat", "flush"} : BeginBeat(l)
  <2>1. \A q \in Proc \ {Child} : stage'[q] = stage[q] /\ pc'[q] = pc[q] /\ copy'[q] = copy[q]
    BY <1>4 DEF WriteBeat, BeginBeat, Goto, lockVars
  <2>2. copy'[Child] = NoRecord \/ pc'[Child] \in {"beat", "flush"}
    BY <1>4 DEF WriteBeat, BeginBeat, Goto
  <2>3. QED
    BY <2>1, <2>2 DEF CopyInv
<1>5. ASSUME NEW h, Die(h)
      PROVE  CopyInv'
  BY <1>5 DEF Die, LockDies, CopyInv
<1>6. ASSUME NEW s \in Stops, Terminate(s)
      PROVE  CopyInv'
  <2>1. UNCHANGED copy
    BY <1>6 DEF Terminate, recVars
  <2>2. \A q \in Proc \ {s} : pc'[q] = "dead" \/ (pc'[q] = pc[q] /\ stage'[q] = stage[q])
    BY <1>6 DEF Terminate, Goto, LockDies, lockVars
  <2>3. copy[s] = NoRecord
    BY <1>6 DEF Terminate, CopyInv, FlowInv, Sections
  <2>4. QED
    BY <2>1, <2>2, <2>3 DEF CopyInv
<1>7. ASSUME \/ CreateRecord \/ StartChild \/ SpawnFails \/ PublishPid
             \/ \E p \in Waiters \cup Pollers : Look(p) \/ Probe(p)
             \/ \E w \in Waiters : BeginWait(w) \/ Wake(w) \/ GiveUp(w)
             \/ \E s \in Stops : BeginStop(s) \/ StopUnconfirmed(s)
      PROVE  CopyInv'
  <2>1. UNCHANGED <<copy, stage>>
    BY <1>7 DEF CreateRecord, StartChild, SpawnFails, PublishPid, Look, Probe, BeginWait, Wake,
                GiveUp, BeginStop, StopUnconfirmed, lockVars, recVars
  <2>2. \A q \in Proc : pc'[q] = pc[q] \/ pc[q] \notin {"beat", "flush", "dead"}
    <3>1. ASSUME CreateRecord \/ StartChild \/ SpawnFails \/ PublishPid
          PROVE  \A q \in Proc : pc'[q] = pc[q] \/ pc[q] \notin {"beat", "flush", "dead"}
      BY <3>1 DEF CreateRecord, StartChild, SpawnFails, PublishPid, Goto, FlowInv
    <3>2. ASSUME NEW p \in Waiters \cup Pollers, Look(p) \/ Probe(p)
          PROVE  \A q \in Proc : pc'[q] = pc[q] \/ pc[q] \notin {"beat", "flush", "dead"}
      BY <3>2 DEF Look, Probe, Resume, Goto
    <3>3. ASSUME NEW w \in Waiters, BeginWait(w) \/ Wake(w) \/ GiveUp(w)
          PROVE  \A q \in Proc : pc'[q] = pc[q] \/ pc[q] \notin {"beat", "flush", "dead"}
      BY <3>3 DEF BeginWait, Wake, GiveUp, Goto
    <3>4. ASSUME NEW s \in Stops, BeginStop(s) \/ StopUnconfirmed(s)
          PROVE  \A q \in Proc : pc'[q] = pc[q] \/ pc[q] \notin {"beat", "flush", "dead"}
      BY <3>4 DEF BeginStop, StopUnconfirmed, Goto
    <3>5. QED
      BY <1>7, <3>1, <3>2, <3>3, <3>4
  <2>3. QED
    BY <1>1, <2>1, <2>2 DEF CopyInv
<1>8. CASE UNCHANGED <<pc, copy, stage>>
  BY <1>8 DEF CopyInv
<1>9. CASE BeatsAge \/ LockFileAges \/ (\E w \in Waiters : LeaseLapses(w)) \/ UNCHANGED vars
  BY <1>8, <1>9 DEF BeatsAge, LockFileAges, LockAges, LeaseLapses, vars, lockVars, recVars
<1>10. QED
  BY NextCases, <1>2, <1>3, <1>4, <1>5, <1>6, <1>7, <1>9

(* The record says running from its creation until the child, or others     *)
(* once the child is gone, decide; only a published pid leads anybody to    *)
(* probe; nobody writes killed; and an orphan verdict in the making never meets a    *)
(* report, because its author read a running record of a process that was   *)
(* already gone.                                                            *)
LifeInv ==
    /\ pc[Spawner] = "new" => disk.status = "absent"
    /\ pc[Spawner] \in {"start", "publish"} =>
          disk.status = "running" /\ ~disk.pid /\ pc[Child] \in {"new", "work", "dead"}
    /\ \A p \in Proc : pc[p] \in {"probe", "orphan"} => Settled /\ disk.status # "absent"
    /\ pc[Child] \in {"work", "beat", "flush"} => disk.status = "running"
    /\ pc[Child] \in {"beat", "flush"} => copy[Child].status = "running"
    /\ pc[Child] = "finalize" /\ stage[Child] \notin {"leave", "denied"} => disk.status = "running"
    /\ disk.status # "killed"
    /\ \A p \in Proc : pc[p] = "orphan" /\ copy[p] # NoRecord => disk.status # "reported"

LEMMA InitLife == Init => LifeInv
<1> SUFFICES ASSUME Init
             PROVE  LifeInv
  OBVIOUS
<1>1. disk.status = "absent"
  BY DEF Init, NoRecord
<1>2. pc[Spawner] = "new" /\ pc[Child] = "new"
  BY DEF Init, Stops
<1>3. \A p \in Proc : pc[p] \in {"new", "ready", "idle"}
  BY DEF Init
<1>4. QED
  BY <1>1, <1>2, <1>3 DEF LifeInv

(* The two writes of a section, and what each of them finds.                *)
LEMMA SectionVerdicts ==
    ASSUME LifeScope, TypeInv, SoundInv, LifeInv, NEW p \in Proc, WriteInSection(p)
    PROVE  \/ /\ p = Child /\ pc[p] = "finalize"
              /\ disk.status = "running" /\ disk'.status = "reported"
           \/ /\ pc[p] = "orphan" /\ ChildGone
              /\ disk.status \in {"running", "orphaned"} /\ disk'.status = "orphaned"
<1> USE DEF TypeInv, TypeOK, LifeScope
<1>1. stage[p] = "in" /\ copy[p] # NoRecord /\ copy[p] \in Record /\ disk \in Record
  BY DEF WriteInSection
<1>2. pc[p] \in {"finalize", "orphan"}
  BY <1>1 DEF FlowInv, RoleInv, Sections, Stops
<1>3. CASE pc[p] = "finalize"
  <2>1. p = Child
    BY <1>3 DEF RoleInv, Stops
  <2>2. disk'.status = "reported"
    BY <1>1, <1>3 DEF WriteInSection, Outcome, Record
  <2>3. QED
    BY <1>1, <1>3, <2>1, <2>2 DEF LifeInv
<1>4. CASE pc[p] = "orphan"
  <2>1. disk'.status = "orphaned"
    BY <1>1, <1>4 DEF WriteInSection, Outcome, Record
  <2>2. ChildGone
    BY <1>4 DEF SoundInv, KnownInv
  <2>3. disk.status \in {"running", "orphaned"}
    BY <1>1, <1>4 DEF LifeInv, Record, Terminal
  <2>4. QED
    BY <1>4, <2>1, <2>2, <2>3
<1>5. QED
  BY <1>2, <1>3, <1>4

(* The spawner's steps: nobody has looked at the record before the pid.     *)
LEMMA LifeSpawner ==
    ASSUME LifeScope, TypeInv, LifeInv,
           CreateRecord \/ StartChild \/ SpawnFails \/ PublishPid
    PROVE  LifeInv'
<1> USE DEF TypeInv, TypeOK, LifeScope
<1>1. \A p \in Proc : pc[p] \notin {"probe", "orphan"}
  BY DEF LifeInv, CreateRecord, StartChild, SpawnFails, PublishPid, Settled
<1>2. CASE CreateRecord
  <2>1. disk'.status = "running" /\ ~disk'.pid
    BY <1>2 DEF CreateRecord, NewRecord, NoRecord
  <2>2. pc'[Spawner] = "start" /\ pc'[Child] = "new" /\ \A p \in Proc \ {Spawner} : pc'[p] = pc[p]
    BY <1>2 DEF CreateRecord, Goto, FlowInv
  <2>3. QED
    BY <1>1, <2>1, <2>2 DEF LifeInv
<1>3. CASE StartChild
  <2>1. /\ pc'[Spawner] = "publish" /\ pc'[Child] = "work"
        /\ \A p \in Proc \ {Spawner, Child} : pc'[p] = pc[p]
    BY <1>3 DEF StartChild
  <2>2. UNCHANGED disk
    BY <1>3 DEF StartChild, recVars
  <2>3. disk.status = "running" /\ ~disk.pid
    BY <1>3 DEF StartChild, LifeInv
  <2>4. QED
    BY <1>1, <2>1, <2>2, <2>3 DEF LifeInv
<1>4. CASE SpawnFails
  <2>1. /\ pc'[Spawner] = "ended" /\ pc'[Child] = "new"
        /\ \A p \in Proc \ {Spawner, Child} : pc'[p] = pc[p]
    BY <1>4 DEF SpawnFails, Goto, FlowInv
  <2>2. UNCHANGED <<disk, copy>>
    BY <1>4 DEF SpawnFails, recVars
  <2>3. QED
    BY <1>1, <2>1, <2>2 DEF LifeInv
<1>5. CASE PublishPid
  <2>1. /\ pc'[Spawner] = "ended" /\ pc'[Child] = pc[Child]
        /\ \A p \in Proc \ {Spawner, Child} : pc'[p] = pc[p]
    BY <1>5 DEF PublishPid, Goto
  <2>2. pc[Child] \in {"new", "work", "dead"}
    BY <1>5 DEF PublishPid, LifeInv
  <2>3. disk'.status = "running"
    BY <1>5 DEF PublishPid, NewRecord, NoRecord
  <2>4. QED
    BY <1>1, <2>1, <2>2, <2>3 DEF LifeInv
<1>6. QED
  BY <1>2, <1>3, <1>4, <1>5

(* The child's heartbeats read a running record and write it back.          *)
LEMMA LifeBeats ==
    ASSUME LifeScope, TypeInv, SoundInv, LifeInv,
           WriteBeat \/ \E l \in {"beat", "flush"} : BeginBeat(l)
    PROVE  /\ LifeInv'
           /\ disk'.status = disk.status
           /\ ChildAlive /\ ChildAlive'
<1> USE DEF TypeInv, TypeOK, LifeScope
<1>1. Settled
  BY DEF WriteBeat, BeginBeat, ChildRuns, LifeInv, FlowInv, RoleInv, Settled
<1>2. \A p \in Proc : pc[p] # "orphan"
  BY DEF WriteBeat, BeginBeat, SoundInv, KnownInv, ChildGone
<1>3. stage[Child] \in {"out", "dead"}
  BY DEF WriteBeat, BeginBeat, FlowInv, Sections
<1>4. disk.status = "running"
  BY DEF WriteBeat, BeginBeat, LifeInv
<1>5. /\ pc'[Child] \in {"work", "beat", "flush", "finalize"}
      /\ pc[Child] \in {"work", "beat", "flush", "finalize"}
      /\ \A p \in Proc \ {Child} : pc'[p] = pc[p]
  BY DEF WriteBeat, BeginBeat, Goto
<1>6. disk'.status = "running"
  <2>1. CASE WriteBeat
    BY <2>1 DEF WriteBeat, LifeInv, Record
  <2>2. QED
    BY <1>4, <2>1 DEF BeginBeat
<1>7. pc'[Child] \in {"beat", "flush"} => copy'[Child].status = "running"
  BY <1>4 DEF WriteBeat, BeginBeat, Goto
<1>8. LifeInv'
  BY <1>1, <1>2, <1>5, <1>6, <1>7 DEF LifeInv, Settled
<1>9. QED
  BY <1>4, <1>5, <1>6, <1>8 DEF ChildAlive

(* The lock moves nobody past the end of its section.                       *)
LEMMA LifeLock ==
    ASSUME TypeInv, LifeInv, NEW p \in Proc, EnterSection(p) \/ ContendSection(p)
    PROVE  LifeInv'
<1> USE DEF TypeInv, TypeOK, LockTypeOK
<1>1. UNCHANGED <<pc, disk, copy>>
  BY DEF EnterSection, ContendSection, recVars
<1>2. stage'[Child] \notin {"leave", "denied"} => stage[Child] \notin {"leave", "denied"}
  BY DEF EnterSection, ContendSection, TryLock, CreateLock, StatLock, BreakLock,
         RecreateLock, GoUnlocked
<1>3. QED
  BY <1>1, <1>2 DEF LifeInv, Settled

LEMMA LifeRead ==
    ASSUME TypeInv, LifeInv, NEW p \in Proc, ReadInSection(p)
    PROVE  LifeInv'
<1> USE DEF TypeInv, TypeOK, LockTypeOK
<1>1. UNCHANGED <<pc, disk>> /\ pc[p] \in Sections
  BY DEF ReadInSection, FlowInv
<1>2. \A q \in Proc : copy'[q] = copy[q] \/ (q = p /\ copy'[q] = disk /\ Applies(p, disk))
  BY DEF ReadInSection
<1>3. stage'[Child] \notin {"leave", "denied"} => stage[Child] \notin {"leave", "denied"}
  BY DEF ReadInSection, EndSection, lockVars
<1>4. pc[Child] \in {"beat", "flush"} => copy'[Child] = copy[Child]
  BY <1>1, <1>2 DEF Sections
<1>5. \A q \in Proc : pc[q] = "orphan" /\ copy'[q] # NoRecord => disk.status # "reported"
  BY <1>2 DEF LifeInv, Applies
<1>6. QED
  BY <1>1, <1>3, <1>4, <1>5 DEF LifeInv, Settled

LEMMA LifeWrite ==
    ASSUME LifeScope, TypeInv, SoundInv, LifeInv, NEW p \in Proc, WriteInSection(p)
    PROVE  LifeInv'
<1> USE DEF TypeInv, TypeOK, LockTypeOK
<1>1. UNCHANGED pc /\ pc[p] \in Sections
  BY DEF WriteInSection, FlowInv
<1>2. stage[p] = "in" /\ stage'[p] = "leave" /\ \A q \in Proc \ {p} : stage'[q] = stage[q] /\ copy'[q] = copy[q]
  BY DEF WriteInSection, EndSection
<1>3. CASE p = Child /\ pc[p] = "finalize" /\ disk'.status = "reported"
  <2>1. \A q \in Proc : pc[q] # "orphan"
    BY <1>3 DEF SoundInv, KnownInv, ChildGone, LifeScope
  <2>2. QED
    BY <1>1, <1>2, <1>3, <2>1 DEF LifeInv, Settled, FlowInv
<1>4. CASE pc[p] = "orphan" /\ ChildGone /\ disk'.status = "orphaned"
  <2>1. Settled
    BY <1>4 DEF LifeInv
  <2>2. QED
    BY <1>1, <1>4, <2>1 DEF LifeInv, Settled, ChildGone
<1>5. QED
  BY <1>3, <1>4, SectionVerdicts

LEMMA LifeLeave ==
    ASSUME LifeScope, TypeInv, LifeInv, NEW p \in Proc, LeaveSection(p)
    PROVE  LifeInv'
<1> USE DEF TypeInv, TypeOK, LockTypeOK, LifeScope
<1>1. UNCHANGED <<disk, copy>> /\ pc[p] \in Sections
  BY DEF LeaveSection, LeaveLock, FlowInv
<1>2. pc'[p] \in {"idle", "ended"} /\ \A q \in Proc \ {p} : pc'[q] = pc[q] /\ stage'[q] = stage[q]
  BY <1>1 DEF LeaveSection, LeaveLock, Resume, Goto, RoleInv
<1>3. p # Spawner /\ pc'[Spawner] = pc[Spawner]
  BY <1>1, <1>2 DEF RoleInv, Sections
<1>4. \/ p = Child /\ pc'[Child] \notin {"new", "work", "beat", "flush", "finalize"}
      \/ pc'[Child] = pc[Child] /\ stage'[Child] = stage[Child]
  BY <1>2
<1>5. pc[p] = "finalize" /\ p = Child => Settled
  BY <1>1 DEF LifeInv, FlowInv, RoleInv, Settled
<1>6. \A q \in Proc : pc'[q] \notin {"probe", "orphan"} \/ pc'[q] = pc[q]
  BY <1>2
<1>7. p = Child => pc[p] = "finalize"
  BY <1>1 DEF RoleInv, Sections
<1>8. QED
  BY <1>1, <1>3, <1>4, <1>5, <1>6, <1>7 DEF LifeInv, Settled

(* A reader probes only what has a pid, so the spawner is done with it.     *)
LEMMA LifeCheck ==
    ASSUME LifeScope, TypeInv, CopyInv, LifeInv,
           NEW p \in Waiters \cup Pollers, Look(p) \/ Probe(p)
    PROVE  LifeInv'
<1> USE DEF TypeInv, TypeOK, LifeScope
<1>1. UNCHANGED <<disk, copy, stage>>
  BY DEF Look, Probe, lockVars
<1>2. p \in Pollers /\ p # Child /\ p # Spawner
  OBVIOUS
<1>3. pc'[p] \in {"idle", "probe", "orphan"} /\ \A q \in Proc \ {p} : pc'[q] = pc[q]
  BY DEF Look, Probe, Resume, Goto
<1>4. pc'[p] \in {"probe", "orphan"} => Settled /\ disk.status # "absent"
  <2>1. CASE Look(p) /\ pc'[p] \in {"probe", "orphan"}
    <3>1. disk.status = "running" /\ disk.pid
      BY <2>1 DEF Look, Resume, Goto
    <3>2. QED
      BY <3>1 DEF LifeInv, Settled, RoleInv
  <2>2. CASE Probe(p)
    BY <2>2 DEF Probe, LifeInv
  <2>3. QED
    BY <2>1, <2>2
<1>5. copy[p] = NoRecord
  BY DEF Look, Probe, CopyInv, FlowInv, Sections
<1>6. QED
  BY <1>1, <1>2, <1>3, <1>4, <1>5 DEF LifeInv, Settled

LEMMA LifeDie ==
    ASSUME TypeInv, LifeInv, NEW h, Die(h)
    PROVE  LifeInv'
<1> USE DEF TypeInv, TypeOK, LockTypeOK
<1>1. UNCHANGED disk
  BY DEF Die
<1>2. \A q \in Proc : \/ pc'[q] = "dead"
                      \/ pc'[q] = pc[q] /\ copy'[q] = copy[q] /\ stage'[q] = stage[q]
  BY DEF Die, LockDies
<1>3. QED
  BY <1>1, <1>2 DEF LifeInv, Settled

LEMMA StepKeepsLife ==
    ASSUME LifeScope, TypeInv, SoundInv, CopyInv, LifeInv, [Next]_vars
    PROVE  LifeInv'
<1>1. ASSUME UNCHANGED <<pc, disk, copy, stage>>
      PROVE  LifeInv'
  BY <1>1 DEF LifeInv, Settled
<1>2. CASE BeatsAge \/ LockFileAges \/ (\E w \in Waiters : LeaseLapses(w)) \/ UNCHANGED vars
  BY <1>1, <1>2 DEF BeatsAge, LockFileAges, LockAges, LeaseLapses, vars, lockVars, recVars
<1>3. CASE Next
  BY NextCases, <1>2, <1>3, LifeSpawner, LifeBeats, LifeLock, LifeRead, LifeWrite, LifeLeave,
     LifeCheck, LifeDie DEF LifeScope
<1>4. QED
  BY <1>2, <1>3

(* How a step moves the verdict and the process: the abstract steps, or     *)
(* neither.                                                                 *)
LEMMA VerdictSteps ==
    ASSUME LifeScope, TypeInv, SoundInv, LifeInv, [Next]_vars
    PROVE  \/ /\ disk.status = "absent" /\ disk'.status = "running"
              /\ pc'[Child] = pc[Child]
           \/ /\ pc[Child] = "new" /\ pc'[Child] = "work"
              /\ disk.status = "running" /\ disk'.status = "running"
           \/ /\ ChildAlive /\ disk.status = "running" /\ disk'.status = "reported"
              /\ pc'[Child] = pc[Child]
           \/ /\ ChildGone /\ disk.status \in {"running", "orphaned"}
              /\ disk'.status = "orphaned" /\ pc'[Child] = pc[Child]
           \/ disk'.status = disk.status /\ ChildAlive /\ (ChildAlive \/ ChildGone)'
           \/ disk'.status = disk.status /\ pc'[Child] = pc[Child]
           \/ disk'.status = disk.status /\ ChildGone /\ ChildGone'
<1> USE DEF TypeInv, TypeOK, LifeScope
<1> DEFINE Still == disk'.status = disk.status /\ pc'[Child] = pc[Child]
           Lives == disk'.status = disk.status /\ ChildAlive /\ (ChildAlive \/ ChildGone)'
<1>1. CASE CreateRecord
  BY <1>1 DEF CreateRecord, Goto, NewRecord, NoRecord, LifeInv
<1>2. CASE StartChild
  BY <1>2 DEF StartChild, LifeInv, FlowInv, recVars
<1>3. CASE SpawnFails
  BY <1>3 DEF SpawnFails, Goto, recVars
<1>4. CASE PublishPid
  BY <1>4 DEF PublishPid, Goto, NewRecord, NoRecord, LifeInv
<1>5. CASE WriteBeat \/ \E l \in {"beat", "flush"} : BeginBeat(l)
  BY <1>5, LifeBeats
<1>6. ASSUME NEW p \in Proc, WriteInSection(p)
      PROVE  \/ /\ ChildAlive /\ disk.status = "running" /\ disk'.status = "reported"
                /\ pc'[Child] = pc[Child]
             \/ /\ ChildGone /\ disk.status \in {"running", "orphaned"}
                /\ disk'.status = "orphaned" /\ pc'[Child] = pc[Child]
  <2>1. UNCHANGED pc
    BY <1>6 DEF WriteInSection
  <2>2. QED
    BY <1>6, <2>1, SectionVerdicts DEF ChildAlive
<1>7. ASSUME NEW p \in Proc, EnterSection(p) \/ ContendSection(p) \/ ReadInSection(p)
      PROVE  Still
  BY <1>7 DEF EnterSection, ContendSection, ReadInSection, recVars
<1>8. ASSUME NEW p \in Proc, LeaveSection(p)
      PROVE  Still \/ Lives
  <2>1. pc[p] \in Sections /\ UNCHANGED disk
    BY <1>8 DEF LeaveSection, LeaveLock, FlowInv
  <2>2. CASE p = Child
    <3>1. pc[Child] = "finalize"
      BY <2>1, <2>2 DEF RoleInv, Sections
    <3>2. pc'[Child] = "ended"
      BY <1>8, <2>2, <3>1 DEF LeaveSection, Goto
    <3>3. QED
      BY <2>1, <3>1, <3>2 DEF ChildAlive, ChildGone
  <2>3. CASE p # Child
    BY <1>8, <2>1, <2>3 DEF LeaveSection, Resume, Goto
  <2>4. QED
    BY <2>2, <2>3
<1>9. ASSUME NEW p \in Pollers, Look(p) \/ Probe(p)
      PROVE  Still
  BY <1>9 DEF Look, Probe, Resume, Goto
<1>10. ASSUME NEW q \in Mortal, Die(Host[q])
       PROVE  Still \/ Lives \/ (disk'.status = disk.status /\ ChildGone /\ ChildGone')
  <2>1. UNCHANGED disk
    BY <1>10 DEF Die
  <2>2. CASE q = Child
    <3>1. \A p \in Proc : Host[p] = Host[q] => p = Child
      BY <2>2
    <3>2. pc[Child] # "new" /\ pc'[Child] = "dead"
      BY <1>10, <2>2, <3>1 DEF Die
    <3>3. QED
      BY <2>1, <3>2 DEF RoleInv, ChildAlive, ChildGone
  <2>3. CASE q # Child
    BY <1>10, <2>1, <2>3 DEF Die
  <2>4. QED
    BY <2>2, <2>3
<1>11. CASE BeatsAge \/ LockFileAges \/ (\E w \in Waiters : LeaseLapses(w)) \/ UNCHANGED vars
  BY <1>11 DEF BeatsAge, LockFileAges, LeaseLapses, vars, recVars
<1>12. QED
  BY NextCases, <1>1, <1>2, <1>3, <1>4, <1>5, <1>6, <1>7, <1>8, <1>9, <1>10, <1>11

(* Every step of the registry is a step of the lifecycle, or none.          *)
LEMMA StepImplements ==
    ASSUME LifeScope, TypeInv, SoundInv, LifeInv, [Next]_vars
    PROVE  [Lifecycle!Next]_<<disk.status, Process>>
<1> USE DEF Lifecycle!Next, Process, ChildAlive, ChildGone
<1>1. CASE disk.status = "absent" /\ disk'.status = "running" /\ pc'[Child] = pc[Child]
  BY <1>1 DEF Lifecycle!Create
<1>2. CASE /\ pc[Child] = "new" /\ pc'[Child] = "work"
           /\ disk.status = "running" /\ disk'.status = "running"
  BY <1>2 DEF Lifecycle!Start
<1>3. CASE /\ ChildAlive /\ disk.status = "running" /\ disk'.status = "reported"
           /\ pc'[Child] = pc[Child]
  BY <1>3 DEF Lifecycle!Report
<1>4. CASE /\ ChildGone /\ disk.status \in {"running", "orphaned"}
           /\ disk'.status = "orphaned" /\ pc'[Child] = pc[Child]
  BY <1>4 DEF Lifecycle!Orphan
<1>5. CASE disk'.status = disk.status /\ ChildAlive /\ (ChildAlive \/ ChildGone)'
  BY <1>5 DEF Lifecycle!End
<1>6. CASE disk'.status = disk.status /\ pc'[Child] = pc[Child]
  BY <1>6
<1>7. CASE disk'.status = disk.status /\ ChildGone /\ ChildGone'
  BY <1>7
<1>8. QED
  <2> HIDE DEF Lifecycle!Next, Process, ChildAlive, ChildGone
  <2> QED
    BY VerdictSteps, <1>1, <1>2, <1>3, <1>4, <1>5, <1>6, <1>7

LEMMA Living == LifeScope => (Spec => []LifeInv)
<1> SUFFICES ASSUME LifeScope
             PROVE  Spec => []LifeInv
  OBVIOUS
<1>1. Init => CopyInv /\ LifeInv
  BY InitLife DEF Init, CopyInv
<1>2. (TypeInv /\ SoundInv) /\ (CopyInv /\ LifeInv) /\ [Next]_vars => (CopyInv /\ LifeInv)'
  BY StepKeepsCopies, StepKeepsLife
<1>3. QED
  BY <1>1, <1>2, Soundness, PTL DEF Spec

(* Whatever the readers that reconcile, the deaths and the heartbeats: the  *)
(* verdict on a run that nobody waits for or stops is decided once.         *)
THEOREM RegistryImplementsLifecycle ==
    Waiters = {} /\ Stops = {} /\ ~SlowSpawn /\ ~Misjudges => (Spec => ImplementsLifecycle)
<1> SUFFICES ASSUME LifeScope
             PROVE  Spec => ImplementsLifecycle
  BY DEF LifeScope
<1>1. Init => Lifecycle!Init
  <2> SUFFICES ASSUME Init
               PROVE  Lifecycle!Init
    OBVIOUS
  <2>1. pc[Child] = "new" /\ disk.status = "absent"
    BY DEF Init, Stops, NoRecord
  <2>2. QED
    BY <2>1 DEF Lifecycle!Init, Process, ChildAlive, ChildGone
<1>2. (TypeInv /\ SoundInv) /\ LifeInv /\ [Next]_vars => [Lifecycle!Next]_<<disk.status, Process>>
  BY StepImplements
<1>3. Spec => []LifeInv
  BY Living
<1>4. QED
  BY <1>1, <1>2, <1>3, Soundness, PTL DEF Spec, ImplementsLifecycle, Lifecycle!Spec
=============================================================================
