------------------------- MODULE LocalRuntimeProofs -------------------------
(***************************************************************************)
(* Theorems about the machine connector, and about all parts of the local  *)
(* runtime together.                                                       *)
(*                                                                         *)
(* A behaviour of MCLocalRuntime follows one part while the others stay as *)
(* they begin, so a step of it is a step or a stutter of every part        *)
(* (PartsStep), and each part's inductive invariant is one of the whole.   *)
(* The parts' own theorems are in AgentLoopProofs, ProviderProofs and      *)
(* StoreProofs.                                                            *)
(***************************************************************************)
EXTENDS MCLocalRuntime, AgentLoopProofs, ProviderProofs, StoreProofs

LEMMA RunsTyped ==
  ASSUME MachineTypeOK
  PROVE  /\ Len(runs) \in Nat /\ DOMAIN runs = 1..Len(runs)
         /\ controller \in [Requests -> 0..Len(runs)]
         /\ \A r \in DOMAIN runs : runs[r] \in Run /\ runs[r].request \in Requests
         /\ \A r \in DOMAIN runs : \A later \in (r + 1)..Len(runs) : later \in DOMAIN runs
<1>1. runs \in Seq(Run) /\ controller \in [Requests -> 0..Len(runs)]
  BY DEF MachineTypeOK
<1>2. /\ Len(runs) \in Nat /\ DOMAIN runs = 1..Len(runs)
      /\ \A r \in DOMAIN runs : runs[r] \in Run
  BY <1>1
<1>3. \A k \in Run : k.request \in Requests
  BY DEF Run
<1> QED BY <1>1, <1>2, <1>3

(* Another version of one run leaves a sequence of runs. *)
LEMMA RunReplaced ==
  ASSUME MachineTypeOK, NEW r \in DOMAIN runs, NEW k \in Run,
         runs' = [runs EXCEPT ![r] = k]
  PROVE  /\ runs' \in Seq(Run) /\ Len(runs') = Len(runs) /\ DOMAIN runs' = DOMAIN runs
         /\ runs'[r] = k /\ \A t \in DOMAIN runs : t # r => runs'[t] = runs[t]
<1>1. runs \in Seq(Run)
  BY DEF MachineTypeOK
<1> QED BY <1>1

SessionSteps ==
  Greet \/ Locate \/ SocketOpens \/ SocketCloses \/ BeatFails \/ BeatStops \/ Reconnect

(* The steps of the session keep its types and leave the runs alone. *)
LEMMA SessionTyped ==
  ASSUME MachineTypeOK, SessionSteps
  PROVE  MachineTypeOK' /\ UNCHANGED runVars
<1> USE MachineAssumption DEF MachineTypeOK, Links, runVars
<1>1. UNCHANGED runVars
  BY DEF SessionSteps, Greet, Locate, SocketOpens, SocketCloses, BeatFails, BeatStops, Reconnect
<1>2. UNCHANGED <<runs, controller, sent, got>>
  BY <1>1
<1>3. /\ session' \in 1..MaxSessions /\ link' \in Links
      /\ beating' \in BOOLEAN /\ raced' \in BOOLEAN /\ verdict' \in {"again", "end"}
  <2>1. CASE Greet BY <2>1 DEF Greet
  <2>2. CASE Locate BY <2>2 DEF Locate, WindUp
  <2>3. CASE SocketOpens BY <2>3 DEF SocketOpens
  <2>4. CASE SocketCloses BY <2>4 DEF SocketCloses, WindUp
  <2>5. CASE BeatFails
    <3>1. CASE ~raced BY <2>5, <3>1 DEF BeatFails
    <3>2. CASE raced /\ link = "settling" BY <2>5, <3>2 DEF BeatFails
    <3>3. CASE raced /\ link # "settling" BY <2>5, <3>3 DEF BeatFails
    <3> QED BY <3>1, <3>2, <3>3
  <2>6. CASE BeatStops BY <2>6 DEF BeatStops
  <2>7. CASE Reconnect
    <3>1. session' \in 1..MaxSessions
      BY <2>7 DEF MachineAssumption, Reconnect
    <3>2. raced' \in BOOLEAN
      BY <2>7, Zenon DEF Reconnect
    <3> QED BY <2>7, <3>1, <3>2 DEF Reconnect
  <2> QED BY <2>1, <2>2, <2>3, <2>4, <2>5, <2>6, <2>7 DEF SessionSteps
<1> QED BY <1>1, <1>2, <1>3

(* A run frame adds one run at the end and registers it; of the others only *)
(* "alone" changes.                                                         *)
LEMMA DispatchAppends ==
  ASSUME MachineTypeOK, NEW q \in Requests, Dispatch(q)
  PROVE  /\ MachineTypeOK'
         /\ Len(runs') = Len(runs) + 1 /\ DOMAIN runs' = 1..(Len(runs) + 1)
         /\ \A r \in DOMAIN runs : /\ runs'[r].request = runs[r].request
                                   /\ runs'[r].outcome = runs[r].outcome
         /\ runs'[Len(runs) + 1].request = q
         /\ controller' = [controller EXCEPT ![q] = Len(runs) + 1]
<1> DEFINE n == Len(runs)
           mates == Mates(session)
           marked == [r \in DOMAIN runs |-> [runs[r] EXCEPT !.alone = @ /\ r \notin mates]]
           fresh == [request |-> q, session |-> session,
                     startIndex |-> Len(sent[session]), outcome |-> "running",
                     alone |-> mates = {}, cancelled |-> FALSE]
<1>1. runs \in Seq(Run) /\ n \in Nat /\ DOMAIN runs = 1..n
  BY DEF MachineTypeOK
<1>2. runs' = Append(marked, fresh) /\ controller' = [controller EXCEPT ![q] = Len(runs')]
  BY DEF Dispatch
<1>3. fresh \in Run
  <2>1. session \in 1..MaxSessions /\ sent[session] \in Seq(1..n)
    BY DEF MachineTypeOK
  <2>2. Len(sent[session]) \in Nat
    BY <2>1
  <2>3. (mates = {}) \in BOOLEAN
    OBVIOUS
  <2> HIDE DEF mates
  <2> QED BY <2>1, <2>2, <2>3 DEF Run
<1>4. \A r \in 1..n : /\ marked[r] \in Run
                      /\ marked[r].request = runs[r].request
                      /\ marked[r].outcome = runs[r].outcome
  <2> SUFFICES ASSUME NEW r \in 1..n
               PROVE  /\ marked[r] \in Run
                      /\ marked[r].request = runs[r].request
                      /\ marked[r].outcome = runs[r].outcome
    OBVIOUS
  <2>1. runs[r] \in Run
    BY <1>1
  <2>2. marked[r] = [runs[r] EXCEPT !.alone = @ /\ r \notin mates]
    BY <1>1
  <2>3. (runs[r].alone /\ r \notin mates) \in BOOLEAN
    OBVIOUS
  <2> HIDE DEF mates, marked
  <2> QED BY <2>1, <2>2, <2>3 DEF Run
<1>5. marked \in Seq(Run) /\ Len(marked) = n
  <2> HIDE DEF fresh, mates
  <2> QED BY <1>1, <1>4
<1> HIDE DEF marked, fresh, mates
<1>6. /\ runs' \in Seq(Run) /\ Len(runs') = n + 1 /\ DOMAIN runs' = 1..(n + 1)
      /\ runs'[n + 1] = fresh /\ \A r \in 1..n : runs'[r] = marked[r]
  BY <1>1, <1>2, <1>3, <1>5
<1>7. fresh.request = q
  BY DEF fresh
<1>8. controller' = [controller EXCEPT ![q] = n + 1] /\ controller' \in [Requests -> 0..(n + 1)]
  BY <1>1, <1>2, <1>6 DEF MachineTypeOK
<1>9. sent' \in [1..MaxSessions -> Seq(1..(n + 1))]
  <2>1. sent' = sent /\ sent \in [1..MaxSessions -> Seq(1..n)]
    BY DEF Dispatch, MachineTypeOK
  <2>2. \A s \in Seq(1..n) : s \in Seq(1..(n + 1))
    BY <1>1
  <2> QED BY <2>1, <2>2
<1>10. MachineTypeOK'
  BY <1>6, <1>8, <1>9 DEF Dispatch, MachineTypeOK, linkVars
<1> QED BY <1>1, <1>4, <1>6, <1>7, <1>8, <1>10

(* A cancel frame marks a run and changes nothing else of it. *)
LEMMA CancelMarks ==
  ASSUME MachineTypeOK, NEW q \in Requests, Cancel(q)
  PROVE  /\ MachineTypeOK' /\ UNCHANGED controller
         /\ DOMAIN runs' = DOMAIN runs /\ Len(runs') = Len(runs)
         /\ \A r \in DOMAIN runs : /\ runs'[r].request = runs[r].request
                                   /\ runs'[r].outcome = runs[r].outcome
<1> DEFINE r0 == controller[q]
           k == [runs[r0] EXCEPT !.cancelled = TRUE]
<1>1. r0 \in DOMAIN runs
  <2>1. r0 \in 0..Len(runs) /\ r0 # 0
    BY RunsTyped DEF Cancel
  <2> QED BY <2>1, RunsTyped
<1>2. runs' = [runs EXCEPT ![r0] = k]
  BY DEF Cancel
<1>20. k \in Run /\ k.request = runs[r0].request /\ k.outcome = runs[r0].outcome
  <2>1. runs[r0] \in Run BY <1>1, RunsTyped
  <2> HIDE DEF r0
  <2> QED BY <2>1 DEF Run
<1> HIDE DEF k, r0
<1>3. /\ runs' \in Seq(Run) /\ Len(runs') = Len(runs) /\ DOMAIN runs' = DOMAIN runs
      /\ \A r \in DOMAIN runs : /\ runs'[r].request = runs[r].request
                                /\ runs'[r].outcome = runs[r].outcome
  BY <1>1, <1>2, <1>20, RunReplaced
<1> QED BY <1>3 DEF Cancel, MachineTypeOK, linkVars

LEMMA AddNat == ASSUME NEW a \in Nat, NEW b \in Nat PROVE a + b \in Nat
OBVIOUS

(* What is counted of a list of messages is a number. *)
LEMMA FlushedTyped ==
  ASSUME MachineTypeOK, NEW reported \in Seq(Nat), NEW from \in Nat
  PROVE  Flushed(reported, from) \in [1..MaxRuns -> Nat]
<1> SUFFICES ASSUME NEW r \in 1..MaxRuns
             PROVE  got[r] + Cardinality({i \in (from + 1)..Len(reported) : reported[i] = r}) \in Nat
  BY DEF Flushed
<1>1. IsFiniteSet((from + 1)..Len(reported))
  BY FS_Interval
<1>2. IsFiniteSet({i \in (from + 1)..Len(reported) : reported[i] = r})
  BY <1>1, FS_Subset
<1>3. Cardinality({i \in (from + 1)..Len(reported) : reported[i] = r}) \in Nat
  BY <1>2, FS_CardinalityType
<1>4. got[r] \in Nat
  BY DEF MachineTypeOK
<1> QED BY <1>3, <1>4, AddNat

(* A run that ends stops running and takes back its own controller only. *)
LEMMA EndDeregisters ==
  ASSUME MachineTypeOK, NEW r \in DOMAIN runs, RunEnds(r)
  PROVE  /\ MachineTypeOK'
         /\ DOMAIN runs' = DOMAIN runs /\ Len(runs') = Len(runs)
         /\ \A s \in DOMAIN runs : /\ runs'[s].request = runs[s].request
                                   /\ s # r => runs'[s].outcome = runs[s].outcome
         /\ runs'[r].outcome # "running"
         /\ \A q \in Requests : controller[q] # r => controller'[q] = controller[q]
<1> DEFINE s == runs[r].session
           reported == Append(sent[s], r)
           over == IF SocketOpen(r) THEN "connected" ELSE "cutoff"
           k == [runs[r] EXCEPT !.outcome = over]
<1>1. runs[r] \in Run /\ r \in 1..Len(runs)
  BY RunsTyped
<1>2. s \in 1..MaxSessions /\ runs[r].startIndex \in Nat /\ runs[r].request \in Requests
  BY <1>1 DEF Run
<1>3. reported \in Seq(1..Len(runs)) /\ reported \in Seq(Nat)
  BY <1>1, <1>2 DEF MachineTypeOK
<1>4. /\ sent' = [sent EXCEPT ![s] = reported]
      /\ got' = IF SocketOpen(r) THEN Flushed(reported, runs[r].startIndex) ELSE got
      /\ runs' = [runs EXCEPT ![r] = k]
      /\ controller' = [controller EXCEPT ![runs[r].request] = IF @ = r THEN 0 ELSE @]
      /\ UNCHANGED linkVars
  BY DEF RunEnds
<1>5. over \in {"connected", "cutoff"}
  OBVIOUS
<1> HIDE DEF reported, over
<1>50. k \in Run /\ k.request = runs[r].request /\ k.outcome = over
  BY <1>1, <1>5 DEF Run
<1> HIDE DEF k
<1>6. /\ runs' \in Seq(Run) /\ Len(runs') = Len(runs) /\ DOMAIN runs' = DOMAIN runs
      /\ \A t \in DOMAIN runs : /\ runs'[t].request = runs[t].request
                                /\ t # r => runs'[t].outcome = runs[t].outcome
      /\ runs'[r].outcome = over
  BY <1>4, <1>50, RunReplaced
<1>7. got' \in [1..MaxRuns -> Nat]
  BY <1>2, <1>3, <1>4, FlushedTyped DEF MachineTypeOK
<1>8. controller' \in [Requests -> 0..Len(runs)]
  BY <1>1, <1>2, <1>4 DEF MachineTypeOK
<1>9. sent' \in [1..MaxSessions -> Seq(1..Len(runs))]
  BY <1>2, <1>3, <1>4 DEF MachineTypeOK
<1>10. MachineTypeOK'
  BY <1>4, <1>6, <1>7, <1>8, <1>9 DEF MachineTypeOK, linkVars
<1>11. \A q \in Requests : controller[q] # r => controller'[q] = controller[q]
  BY <1>2, <1>4 DEF MachineTypeOK
<1> QED BY <1>5, <1>6, <1>10, <1>11

-----------------------------------------------------------------------------
MachineInv == MachineTypeOK /\ LatestIsCancellable

LEMMA MachineStarts == MachineInit => MachineInv
<1> SUFFICES ASSUME MachineInit PROVE MachineInv
  OBVIOUS
<1>1. runs = <<>> /\ runs \in Seq(Run) /\ Len(runs) = 0 /\ DOMAIN runs = {}
  BY DEF MachineInit
<1>2. session \in 1..MaxSessions
  BY MachineAssumption DEF MachineAssumption, MachineInit
<1>20. link \in Links /\ beating \in BOOLEAN /\ raced \in BOOLEAN /\ verdict \in {"again", "end"}
  BY Zenon DEF MachineInit, Links
<1>3. /\ controller \in [Requests -> 0..0]
      /\ sent \in [1..MaxSessions -> Seq(1..0)] /\ got \in [1..MaxRuns -> Nat]
  BY DEF MachineInit
<1> QED BY <1>1, <1>2, <1>20, <1>3 DEF MachineInv, MachineTypeOK, LatestIsCancellable

LEMMA MachineStep == MachineInv /\ [MachineNext]_machineVars => MachineInv'
<1> SUFFICES ASSUME MachineInv, [MachineNext]_machineVars
             PROVE  MachineInv'
  OBVIOUS
<1> USE DEF MachineInv
<1>1. CASE SessionSteps
  BY <1>1, SessionTyped DEF LatestIsCancellable, Running, runVars
<1>2. ASSUME NEW q \in Requests, Dispatch(q)
      PROVE  MachineInv'
  <2>1. /\ Len(runs) \in Nat /\ DOMAIN runs = 1..Len(runs)
        /\ controller \in [Requests -> 0..Len(runs)]
        /\ \A r \in DOMAIN runs : runs[r].request \in Requests
    BY RunsTyped
  <2> SUFFICES ASSUME NEW r \in DOMAIN runs', runs'[r].outcome = "running",
                      \A later \in (r + 1)..Len(runs') : runs'[later].request # runs'[r].request
               PROVE  controller'[runs'[r].request] = r
    BY <1>2, DispatchAppends DEF LatestIsCancellable, Running
  <2>2. CASE r = Len(runs) + 1
    BY <1>2, <2>1, <2>2, DispatchAppends
  <2>3. CASE r \in DOMAIN runs
    <3>1. runs'[r].request # q
      BY <1>2, <2>1, <2>3, DispatchAppends
    <3>2. ASSUME NEW later \in (r + 1)..Len(runs)
          PROVE  runs[later].request # runs[r].request
      <4>1. later \in DOMAIN runs /\ later \in (r + 1)..(Len(runs) + 1)
        BY <2>1, <2>3
      <4>2. runs'[later].request # runs'[r].request
        BY <1>2, <4>1, DispatchAppends
      <4> QED BY <1>2, <2>3, <4>1, <4>2, DispatchAppends
    <3>3. controller[runs[r].request] = r
      BY <1>2, <2>3, <3>2, DispatchAppends DEF LatestIsCancellable, Running
    <3> QED BY <1>2, <2>1, <2>3, <3>1, <3>3, DispatchAppends
  <2> QED BY <1>2, <2>1, <2>2, <2>3, DispatchAppends
<1>3. ASSUME NEW q \in Requests, Cancel(q)
      PROVE  MachineInv'
  <2>1. \A r \in DOMAIN runs : \A later \in (r + 1)..Len(runs) : later \in DOMAIN runs
    BY RunsTyped
  <2> QED BY <1>3, <2>1, CancelMarks DEF LatestIsCancellable, Running
<1>4. ASSUME NEW r \in DOMAIN runs, RunEnds(r)
      PROVE  MachineInv'
  <2>1. /\ \A s \in DOMAIN runs : \A later \in (s + 1)..Len(runs) : later \in DOMAIN runs
        /\ \A s \in DOMAIN runs : runs[s].request \in Requests
    BY RunsTyped
  <2> SUFFICES ASSUME NEW s \in DOMAIN runs, runs'[s].outcome = "running",
                      \A later \in (s + 1)..Len(runs) : runs'[later].request # runs'[s].request
               PROVE  controller'[runs'[s].request] = s
    BY <1>4, EndDeregisters DEF LatestIsCancellable, Running
  <2>2. s # r
    BY <1>4, EndDeregisters
  <2>3. controller[runs[s].request] = s
    BY <1>4, <2>1, <2>2, EndDeregisters DEF LatestIsCancellable, Running
  <2> QED BY <1>4, <2>1, <2>2, <2>3, EndDeregisters
<1>5. CASE UNCHANGED machineVars
  BY <1>5 DEF machineVars, linkVars, runVars, MachineTypeOK, LatestIsCancellable, Running
<1> QED BY <1>1, <1>2, <1>3, <1>4, <1>5 DEF MachineNext, SessionSteps

(* While the run last dispatched under a request id is executing, a cancel  *)
(* frame finds it, for any number of runs, sessions and ids.                *)
THEOREM LatestRunCancellable == MachineSpec => []LatestIsCancellable
<1>1. MachineInv => LatestIsCancellable
  BY DEF MachineInv
<1> QED BY <1>1, MachineStarts, MachineStep, PTL DEF MachineSpec

-----------------------------------------------------------------------------
(* Results.  A run's result waits in the list of its session; what goes out *)
(* at the end of another run is the part of the list behind that run's      *)
(* start index.                                                             *)

Ended(r) == r \in DOMAIN runs /\ runs[r].outcome # "running"

(* A run belongs to a session that has been open, and a session that still  *)
(* is has cut off nobody.                                                   *)
Placed(r) ==
  /\ runs[r].session <= session
  /\ link \in {"greeting", "locating", "opening"} => runs[r].session # session
  /\ link = "open" /\ runs[r].session = session => runs[r].outcome # "cutoff"
  /\ runs[r].startIndex <= Len(sent[runs[r].session])

(* Nobody runs beside a run that has been alone so far.                     *)
Solitary(r) ==
  Running(r) /\ runs[r].alone
    => \A t \in DOMAIN runs : Running(t) /\ runs[t].session = runs[r].session => t = r

(* A list holds ended runs of its session; one that was alone lies before   *)
(* everything that a run still executing will send.                         *)
InList(s, i) ==
  /\ Ended(sent[s][i])
  /\ runs[sent[s][i]].session = s
  /\ runs[sent[s][i]].alone
       => \A t \in DOMAIN runs : Running(t) /\ runs[t].session = s => i <= runs[t].startIndex

Arrived(r) ==
  /\ runs[r].outcome = "connected" <=> got[r] > 0
  /\ runs[r].alone => got[r] <= 1

ArriveInv ==
  /\ Len(runs) <= MaxRuns
  /\ \A r \in DOMAIN runs : Placed(r) /\ Solitary(r) /\ Arrived(r)
  /\ \A s \in 1..MaxSessions : \A i \in 1..Len(sent[s]) : InList(s, i)
  /\ \A r \in 1..MaxRuns : r \notin DOMAIN runs => got[r] = 0

LEMMA ElementInSet ==
  ASSUME NEW S, NEW list \in Seq(S), NEW i \in 1..Len(list)
  PROVE  list[i] \in S
OBVIOUS

(* What a run has received more once a list is sent from an index on.       *)
LEMMA FlushedGains ==
  ASSUME MachineTypeOK, NEW reported \in Seq(Nat), NEW from \in Nat, NEW r \in 1..MaxRuns
  PROVE  /\ Flushed(reported, from)[r] \in Nat
         /\ (\A i \in (from + 1)..Len(reported) : reported[i] # r)
              => Flushed(reported, from)[r] = got[r]
         /\ (\E i \in (from + 1)..Len(reported) : reported[i] = r)
              => Flushed(reported, from)[r] > got[r]
         /\ \A i \in (from + 1)..Len(reported) :
              (reported[i] = r /\ \A j \in (from + 1)..Len(reported) : reported[j] = r => j = i)
                => Flushed(reported, from)[r] = got[r] + 1
<1> DEFINE I == {i \in (from + 1)..Len(reported) : reported[i] = r}
<1>1. IsFiniteSet(I)
  <2>1. IsFiniteSet((from + 1)..Len(reported))
    BY FS_Interval
  <2> QED BY <2>1, FS_Subset
<1>2. Cardinality(I) \in Nat /\ got[r] \in Nat
  BY <1>1, FS_CardinalityType DEF MachineTypeOK
<1>3. Flushed(reported, from)[r] = got[r] + Cardinality(I)
  BY DEF Flushed
<1>4. I = {} <=> Cardinality(I) = 0
  BY <1>1, FS_EmptySet
<1>5. (\A i \in (from + 1)..Len(reported) : reported[i] # r) <=> I = {}
  OBVIOUS
<1>6. ASSUME NEW i \in (from + 1)..Len(reported), reported[i] = r,
             \A j \in (from + 1)..Len(reported) : reported[j] = r => j = i
      PROVE  Cardinality(I) = 1
  <2>1. I = {i}
    BY <1>6
  <2> QED BY <2>1, FS_Singleton
<1> HIDE DEF I
<1>7. Flushed(reported, from)[r] \in Nat
  BY <1>2, <1>3
<1>8. ASSUME \A i \in (from + 1)..Len(reported) : reported[i] # r
      PROVE  Flushed(reported, from)[r] = got[r]
  BY <1>2, <1>3, <1>4, <1>5, <1>8
<1>9. ASSUME \E i \in (from + 1)..Len(reported) : reported[i] = r
      PROVE  Flushed(reported, from)[r] > got[r]
  <2>1. Cardinality(I) # 0
    BY <1>4, <1>5, <1>9
  <2> DEFINE c == Cardinality(I)
             g == got[r]
  <2>2. c \in Nat /\ g \in Nat /\ c # 0
    BY <1>2, <2>1
  <2> HIDE DEF c, g
  <2>3. g + c > g
    BY <2>2
  <2> QED BY <1>3, <2>3 DEF c, g
<1>10. ASSUME NEW i \in (from + 1)..Len(reported), reported[i] = r,
              \A j \in (from + 1)..Len(reported) : reported[j] = r => j = i
       PROVE  Flushed(reported, from)[r] = got[r] + 1
  BY <1>3, <1>6, <1>10
<1> QED BY <1>7, <1>8, <1>9, <1>10

(* The session's own steps: a new attempt has a number of its own, and the  *)
(* socket opens once an attempt.                                            *)
LEMMA SessionArrives ==
  ASSUME MachineTypeOK, ArriveInv, SessionSteps
  PROVE  ArriveInv'
<1>1. UNCHANGED <<runs, controller, sent, got>>
  BY SessionTyped DEF runVars
<1>2. session \in Nat /\ session' \in Nat /\ \A r \in DOMAIN runs : runs[r].session \in Nat
  <2>1. session \in 1..MaxSessions /\ session' \in 1..MaxSessions
    BY SessionTyped DEF MachineTypeOK
  <2>2. \A r \in DOMAIN runs : runs[r].session \in 1..MaxSessions
    BY RunsTyped DEF Run
  <2> QED BY <2>1, <2>2
<1>3. \/ /\ session' = session
         /\ link' \in {"greeting", "locating", "opening"}
               => link \in {"greeting", "locating", "opening"}
         /\ link' = "open" => link \in {"opening", "open"}
      \/ session' = session + 1 /\ link' = "greeting"
  <2>1. CASE Greet BY <2>1 DEF Greet
  <2>2. CASE Locate BY <2>2 DEF Locate, WindUp
  <2>3. CASE SocketOpens BY <2>3 DEF SocketOpens
  <2>4. CASE SocketCloses BY <2>4 DEF SocketCloses, WindUp
  <2>5. CASE BeatFails
    <3>1. CASE ~raced BY <2>5, <3>1 DEF BeatFails
    <3>2. CASE raced /\ link = "settling" BY <2>5, <3>2 DEF BeatFails
    <3>3. CASE raced /\ link # "settling" BY <2>5, <3>3 DEF BeatFails
    <3> QED BY <3>1, <3>2, <3>3
  <2>6. CASE BeatStops BY <2>6 DEF BeatStops
  <2>7. CASE Reconnect BY <2>7 DEF Reconnect
  <2> QED BY <2>1, <2>2, <2>3, <2>4, <2>5, <2>6, <2>7 DEF SessionSteps
<1>4. ASSUME NEW r \in DOMAIN runs
      PROVE  Placed(r)'
  BY <1>1, <1>2, <1>3 DEF ArriveInv, Placed
<1>5. \A r \in DOMAIN runs : Solitary(r)' /\ Arrived(r)'
  BY <1>1 DEF ArriveInv, Solitary, Arrived, Running
<1>6. \A s \in 1..MaxSessions : \A i \in 1..Len(sent[s]) : InList(s, i)'
  BY <1>1 DEF ArriveInv, InList, Ended, Running
<1> QED BY <1>1, <1>4, <1>5, <1>6 DEF ArriveInv

(* A cancel frame leaves all this alone.                                    *)
LEMMA CancelArrives ==
  ASSUME MachineTypeOK, ArriveInv, NEW q \in Requests, Cancel(q)
  PROVE  ArriveInv'
<1> DEFINE r0 == controller[q]
           k == [runs[r0] EXCEPT !.cancelled = TRUE]
<1>1. r0 \in DOMAIN runs
  <2>1. r0 \in 0..Len(runs) /\ r0 # 0
    BY RunsTyped DEF Cancel
  <2> QED BY <2>1, RunsTyped
<1>2. runs' = [runs EXCEPT ![r0] = k] /\ UNCHANGED <<session, link, sent, got>>
  BY DEF Cancel, linkVars
<1>3. /\ k \in Run /\ k.session = runs[r0].session /\ k.outcome = runs[r0].outcome
      /\ k.startIndex = runs[r0].startIndex /\ k.alone = runs[r0].alone
  <2>1. runs[r0] \in Run BY <1>1, RunsTyped
  <2> HIDE DEF r0
  <2> QED BY <2>1 DEF Run
<1> HIDE DEF k, r0
<1>4. DOMAIN runs' = DOMAIN runs /\ Len(runs') = Len(runs)
  BY <1>1, <1>2, <1>3, RunReplaced
<1>5. \A r \in DOMAIN runs : /\ runs'[r].session = runs[r].session
                             /\ runs'[r].outcome = runs[r].outcome
                             /\ runs'[r].startIndex = runs[r].startIndex
                             /\ runs'[r].alone = runs[r].alone
  BY <1>1, <1>2, <1>3, RunReplaced
<1>6. \A r \in DOMAIN runs : Placed(r)' /\ Arrived(r)'
  BY <1>2, <1>5 DEF ArriveInv, Placed, Arrived
<1>7. \A r \in DOMAIN runs : Solitary(r)'
  BY <1>4, <1>5 DEF ArriveInv, Solitary, Running
<1>8. \A s \in 1..MaxSessions : \A i \in 1..Len(sent[s]) : InList(s, i)'
  BY <1>2, <1>4, <1>5 DEF ArriveInv, InList, Ended, Running
<1> QED BY <1>2, <1>4, <1>6, <1>7, <1>8 DEF ArriveInv

(* What a run frame makes of the runs.                                      *)
LEMMA DispatchDetails ==
  ASSUME MachineTypeOK, NEW q \in Requests, Dispatch(q)
  PROVE  /\ UNCHANGED <<session, link, sent, got>> /\ link = "open" /\ Len(runs) < MaxRuns
         /\ DOMAIN runs = 1..Len(runs) /\ Len(runs') = Len(runs) + 1
         /\ DOMAIN runs' = 1..(Len(runs) + 1) /\ Len(runs) \in Nat
         /\ \A r \in DOMAIN runs : /\ runs'[r].session = runs[r].session
                                   /\ runs'[r].outcome = runs[r].outcome
                                   /\ runs'[r].startIndex = runs[r].startIndex
                                   /\ runs'[r].alone = (runs[r].alone /\ r \notin Mates(session))
         /\ runs'[Len(runs) + 1].session = session
         /\ runs'[Len(runs) + 1].outcome = "running"
         /\ runs'[Len(runs) + 1].startIndex = Len(sent[session])
         /\ runs'[Len(runs) + 1].alone = (Mates(session) = {})
<1> DEFINE n == Len(runs)
           mates == Mates(session)
           marked == [r \in DOMAIN runs |-> [runs[r] EXCEPT !.alone = @ /\ r \notin mates]]
           fresh == [request |-> q, session |-> session,
                     startIndex |-> Len(sent[session]), outcome |-> "running",
                     alone |-> mates = {}, cancelled |-> FALSE]
<1>1. runs \in Seq(Run) /\ n \in Nat /\ DOMAIN runs = 1..n
  BY DEF MachineTypeOK
<1>2. /\ runs' = Append(marked, fresh) /\ link = "open" /\ n < MaxRuns
      /\ UNCHANGED <<session, link, sent, got>>
  BY DEF Dispatch, linkVars
<1>3. \A r \in 1..n : /\ marked[r].session = runs[r].session
                      /\ marked[r].outcome = runs[r].outcome
                      /\ marked[r].startIndex = runs[r].startIndex
                      /\ marked[r].alone = (runs[r].alone /\ r \notin mates)
  <2> SUFFICES ASSUME NEW r \in 1..n
               PROVE  /\ marked[r].session = runs[r].session
                      /\ marked[r].outcome = runs[r].outcome
                      /\ marked[r].startIndex = runs[r].startIndex
                      /\ marked[r].alone = (runs[r].alone /\ r \notin mates)
    OBVIOUS
  <2>1. runs[r] \in Run
    BY <1>1
  <2>2. marked[r] = [runs[r] EXCEPT !.alone = @ /\ r \notin mates]
    BY <1>1
  <2> HIDE DEF mates, marked
  <2> QED BY <2>1, <2>2 DEF Run
<1>4. /\ fresh.session = session /\ fresh.outcome = "running"
      /\ fresh.startIndex = Len(sent[session]) /\ fresh.alone = (mates = {})
  <2> HIDE DEF mates
  <2> QED OBVIOUS
<1>5. /\ Len(runs') = n + 1 /\ DOMAIN runs' = 1..(n + 1)
      /\ runs'[n + 1] = fresh /\ \A r \in 1..n : runs'[r] = marked[r]
  <2>1. Len(marked) = n /\ DOMAIN marked = 1..n /\ marked \in Seq({marked[r] : r \in 1..n})
    <3> HIDE DEF fresh, mates
    <3> QED BY <1>1
  <2> HIDE DEF marked, fresh, mates
  <2> QED BY <1>1, <1>2, <2>1
<1> HIDE DEF marked, fresh
<1> QED BY <1>1, <1>2, <1>3, <1>4, <1>5

(* A run frame: a run beside others is not alone and nor are they; a run    *)
(* alone begins behind everything its session has collected.                *)
LEMMA DispatchArrives ==
  ASSUME MachineTypeOK, ArriveInv, NEW q \in Requests, Dispatch(q)
  PROVE  ArriveInv'
<1> DEFINE n == Len(runs)
<1>1. /\ UNCHANGED <<session, link, sent, got>> /\ link = "open" /\ n < MaxRuns
      /\ DOMAIN runs = 1..n /\ Len(runs') = n + 1 /\ DOMAIN runs' = 1..(n + 1) /\ n \in Nat
      /\ MaxRuns \in Nat
  BY DispatchDetails, MachineAssumption DEF MachineAssumption
<1>2. \A r \in 1..n : /\ runs'[r].session = runs[r].session
                      /\ runs'[r].outcome = runs[r].outcome
                      /\ runs'[r].startIndex = runs[r].startIndex
                      /\ runs'[r].alone = (runs[r].alone /\ r \notin Mates(session))
  BY DispatchDetails
<1>3. /\ runs'[n + 1].session = session /\ runs'[n + 1].outcome = "running"
      /\ runs'[n + 1].startIndex = Len(sent[session])
      /\ runs'[n + 1].alone = (Mates(session) = {})
  BY DispatchDetails
<1>4. session \in 1..MaxSessions /\ \A s \in 1..MaxSessions : Len(sent[s]) \in Nat
  <2>1. \A s \in 1..MaxSessions : sent[s] \in Seq(1..n)
    BY DEF MachineTypeOK
  <2> QED BY <2>1 DEF MachineTypeOK
<1>5. \A r \in 1..n : r \in Mates(session) <=> runs[r].outcome = "running" /\ runs[r].session = session
  BY <1>1 DEF Mates, Running
<1>6. \A r \in 1..(n + 1) : r \in 1..n \/ r = n + 1
  BY <1>1
<1> HIDE DEF n
<1>7. ASSUME NEW r \in 1..(n + 1)
      PROVE  Placed(r)'
  <2>1. CASE r \in 1..n
    BY <1>1, <1>2, <2>1 DEF ArriveInv, Placed
  <2>2. CASE r = n + 1
    BY <1>1, <1>3, <1>4, <2>2 DEF Placed
  <2> QED BY <1>6, <2>1, <2>2
<1>8. ASSUME NEW r \in 1..(n + 1)
      PROVE  Solitary(r)'
  <2> SUFFICES ASSUME runs'[r].outcome = "running", runs'[r].alone,
                      NEW t \in 1..(n + 1), runs'[t].outcome = "running",
                      runs'[t].session = runs'[r].session
               PROVE  t = r
    BY <1>1 DEF Solitary, Running
  <2>1. CASE r \in 1..n /\ t \in 1..n
    <3>1. /\ runs[r].outcome = "running" /\ runs[r].alone
          /\ runs[t].outcome = "running" /\ runs[t].session = runs[r].session
      BY <1>2, <2>1
    <3>2. Solitary(r)
      BY <1>1, <2>1 DEF ArriveInv
    <3> QED BY <1>1, <2>1, <3>1, <3>2 DEF Solitary, Running
  <2>2. CASE r \in 1..n /\ t = n + 1
    BY <1>2, <1>3, <1>5, <2>2
  <2>3. CASE r = n + 1 /\ t \in 1..n
    BY <1>2, <1>3, <1>5, <2>3
  <2> QED BY <1>6, <2>1, <2>2, <2>3
<1>9. ASSUME NEW r \in 1..(n + 1)
      PROVE  Arrived(r)'
  <2>1. CASE r \in 1..n
    BY <1>1, <1>2, <2>1 DEF ArriveInv, Arrived
  <2>2. CASE r = n + 1
    <3>1. r \in 1..MaxRuns /\ r \notin DOMAIN runs
      BY <1>1, <2>2
    <3>2. got[r] = 0
      BY <3>1 DEF ArriveInv
    <3> QED BY <1>1, <1>3, <2>2, <3>2 DEF Arrived
  <2> QED BY <1>6, <2>1, <2>2
<1>10. ASSUME NEW s \in 1..MaxSessions, NEW i \in 1..Len(sent[s])
       PROVE  InList(s, i)'
  <2> DEFINE x == sent[s][i]
  <2>1. /\ x \in 1..n /\ runs[x].outcome # "running" /\ runs[x].session = s
        /\ runs[x].alone
             => \A t \in 1..n : runs[t].outcome = "running" /\ runs[t].session = s
                                  => i <= runs[t].startIndex
    BY <1>1 DEF ArriveInv, InList, Ended, Running
  <2> HIDE DEF x
  <2>2. ASSUME runs'[x].alone, NEW t \in 1..(n + 1), runs'[t].outcome = "running",
               runs'[t].session = s
        PROVE  i <= runs'[t].startIndex
    <3>1. CASE t \in 1..n
      BY <1>2, <2>1, <2>2, <3>1
    <3>2. CASE t = n + 1
      BY <1>3, <2>2, <3>2
    <3> QED BY <1>6, <3>1, <3>2
  <2>3. x \in 1..(n + 1) /\ runs'[x].outcome # "running" /\ runs'[x].session = s
    BY <1>1, <1>2, <2>1
  <2> QED BY <1>1, <2>2, <2>3 DEF InList, Ended, Running, x
<1>11. \A r \in 1..MaxRuns : r \notin DOMAIN runs' => got'[r] = 0
  BY <1>1 DEF ArriveInv
<1> QED BY <1>1, <1>7, <1>8, <1>9, <1>10, <1>11 DEF ArriveInv

(* What the end of a run makes of the runs and the lists.                   *)
LEMMA EndDetails ==
  ASSUME MachineTypeOK, NEW r \in DOMAIN runs, RunEnds(r)
  PROVE  /\ UNCHANGED <<session, link>> /\ runs[r].outcome = "running"
         /\ DOMAIN runs' = DOMAIN runs /\ Len(runs') = Len(runs)
         /\ runs[r].session \in 1..MaxSessions /\ runs[r].startIndex \in Nat
         /\ \A t \in DOMAIN runs : /\ runs'[t].session = runs[t].session
                                   /\ runs'[t].startIndex = runs[t].startIndex
                                   /\ runs'[t].alone = runs[t].alone
                                   /\ t # r => runs'[t].outcome = runs[t].outcome
         /\ runs'[r].outcome = IF SocketOpen(r) THEN "connected" ELSE "cutoff"
         /\ sent' = [sent EXCEPT ![runs[r].session] = Append(@, r)]
         /\ got' = IF SocketOpen(r)
                   THEN Flushed(Append(sent[runs[r].session], r), runs[r].startIndex) ELSE got
<1> DEFINE over == IF SocketOpen(r) THEN "connected" ELSE "cutoff"
           k == [runs[r] EXCEPT !.outcome = over]
<1>1. runs[r] \in Run
  BY RunsTyped
<1>2. runs[r].session \in 1..MaxSessions /\ runs[r].startIndex \in Nat
  BY <1>1 DEF Run
<1>3. over \in {"connected", "cutoff"} /\ runs' = [runs EXCEPT ![r] = k]
  BY DEF RunEnds
<1> HIDE DEF over
<1>4. /\ k \in Run /\ k.session = runs[r].session /\ k.outcome = over
      /\ k.startIndex = runs[r].startIndex /\ k.alone = runs[r].alone
  BY <1>1, <1>3 DEF Run
<1> HIDE DEF k
<1>5. /\ DOMAIN runs' = DOMAIN runs /\ Len(runs') = Len(runs)
      /\ runs'[r] = k /\ \A t \in DOMAIN runs : t # r => runs'[t] = runs[t]
  BY <1>3, <1>4, RunReplaced
<1>6. sent' = [sent EXCEPT ![runs[r].session] = Append(@, r)]
  BY <1>2 DEF RunEnds, MachineTypeOK
<1> QED BY <1>2, <1>4, <1>5, <1>6 DEF RunEnds, Running, linkVars, over

(* The end of a run: what it sends are results of runs that ended while its *)
(* socket was open, and its own.                                            *)
LEMMA EndArrives ==
  ASSUME MachineTypeOK, ArriveInv, NEW r \in DOMAIN runs, RunEnds(r)
  PROVE  ArriveInv'
<1> DEFINE n == Len(runs)
           s == runs[r].session
           reported == Append(sent[s], r)
           from == runs[r].startIndex
<1>1. /\ UNCHANGED <<session, link>> /\ runs[r].outcome = "running" /\ r \in 1..n
      /\ DOMAIN runs = 1..n /\ DOMAIN runs' = 1..n /\ Len(runs') = n /\ n \in Nat /\ MaxRuns \in Nat
      /\ s \in 1..MaxSessions /\ from \in Nat /\ n <= MaxRuns
  BY EndDetails, RunsTyped, MachineAssumption DEF MachineAssumption, ArriveInv
<1>2. \A t \in 1..n : /\ runs'[t].session = runs[t].session
                      /\ runs'[t].startIndex = runs[t].startIndex
                      /\ runs'[t].alone = runs[t].alone
                      /\ t # r => runs'[t].outcome = runs[t].outcome
  BY <1>1, EndDetails
<1>3. runs'[r].outcome = IF SocketOpen(r) THEN "connected" ELSE "cutoff"
  BY EndDetails
<1>4. sent' = [sent EXCEPT ![s] = reported]
  BY EndDetails
<1>5. got' = IF SocketOpen(r) THEN Flushed(reported, from) ELSE got
  BY EndDetails
<1>6. /\ sent[s] \in Seq(1..n) /\ Len(sent[s]) \in Nat
      /\ reported \in Seq(1..n) /\ reported \in Seq(Nat)
      /\ Len(reported) = Len(sent[s]) + 1 /\ reported[Len(sent[s]) + 1] = r
      /\ \A i \in 1..Len(sent[s]) : reported[i] = sent[s][i] /\ i # Len(sent[s]) + 1
      /\ \A i \in 1..Len(reported) : /\ i \in 1..Len(sent[s]) \/ i = Len(sent[s]) + 1
                                    /\ reported[i] \in 1..n
      /\ \A i \in (from + 1)..Len(reported) : i \in 1..Len(reported)
  <2> DEFINE old == sent[s]
  <2>1. old \in Seq(1..n) /\ r \in 1..n /\ from \in Nat /\ n \in Nat
    BY <1>1 DEF MachineTypeOK
  <2>2. reported = Append(old, r)
    OBVIOUS
  <2> HIDE DEF old, n, reported, from, s
  <2>3. Len(old) \in Nat /\ reported \in Seq(1..n)
    BY <2>1, <2>2
  <2>4. reported \in Seq(Nat)
    BY <2>1, <2>3
  <2>5. /\ Len(reported) = Len(old) + 1 /\ reported[Len(old) + 1] = r
        /\ \A i \in 1..Len(old) : reported[i] = old[i] /\ i # Len(old) + 1
    BY <2>1, <2>2
  <2>6. \A i \in 1..Len(reported) : i \in 1..Len(old) \/ i = Len(old) + 1
    BY <2>3, <2>5
  <2>7. \A i \in 1..Len(reported) : reported[i] \in 1..n
    BY <2>3, ElementInSet
  <2>8. \A i \in (from + 1)..Len(reported) : i \in 1..Len(reported)
    BY <2>1, <2>3, <2>5
  <2> QED BY <2>1, <2>3, <2>4, <2>5, <2>6, <2>7, <2>8 DEF old
<1>7. from <= Len(sent[s])
  BY <1>1 DEF ArriveInv, Placed
<1>8. \A i \in 1..Len(sent[s]) : InList(s, i)
  BY <1>1 DEF ArriveInv
<1>9. \A i \in 1..Len(sent[s]) : sent[s][i] # r
  BY <1>1, <1>8 DEF InList, Ended
<1>10. /\ \A z \in 1..MaxSessions : z # s => sent'[z] = sent[z]
       /\ sent'[s] = reported
  BY <1>1, <1>4 DEF MachineTypeOK
<1>11. \A t \in 1..n : got[t] \in Nat
  BY <1>1 DEF MachineTypeOK
<1> HIDE DEF n, s, reported, from
<1>12. ASSUME NEW t \in 1..n
       PROVE  Placed(t)'
  <2>1. Placed(t)
    BY <1>1 DEF ArriveInv
  <2>2. runs'[t].startIndex <= Len(sent'[runs[t].session])
    <3>1. runs[t].session \in 1..MaxSessions /\ runs[t].startIndex \in Nat
      BY <1>1, RunsTyped DEF Run
    <3>2. runs[t].startIndex <= Len(sent[runs[t].session]) /\ runs'[t].startIndex = runs[t].startIndex
      BY <1>2, <2>1 DEF Placed
    <3>3. CASE runs[t].session = s
      BY <1>6, <1>10, <3>1, <3>2, <3>3
    <3>4. CASE runs[t].session # s
      <4>1. sent'[runs[t].session] = sent[runs[t].session]
        BY <1>10, <3>1, <3>4, Zenon
      <4> QED
        BY <3>2, <4>1
    <3> QED BY <3>3, <3>4
  <2>3. link = "open" /\ runs[t].session = session => runs'[t].outcome # "cutoff"
    <3>1. CASE t = r
      BY <1>3, <3>1 DEF SocketOpen
    <3>2. CASE t # r
      BY <1>2, <2>1, <3>2 DEF Placed
    <3> QED BY <3>1, <3>2
  <2> QED BY <1>1, <1>2, <2>1, <2>2, <2>3 DEF Placed
<1>13. ASSUME NEW t \in 1..n
       PROVE  Solitary(t)'
  <2>1. Solitary(t)
    BY <1>1 DEF ArriveInv
  <2>2. runs'[r].outcome # "running"
    BY <1>3
  <2> QED BY <1>1, <1>2, <2>1, <2>2 DEF Solitary, Running
<1>14. ASSUME NEW z \in 1..MaxSessions, NEW i \in 1..Len(sent[z])
       PROVE  /\ sent[z][i] \in 1..n
              /\ runs'[sent[z][i]].outcome # "running" /\ runs'[sent[z][i]].session = z
              /\ runs'[sent[z][i]].alone
                   => \A t \in 1..n : Running(t)' /\ runs'[t].session = z => i <= runs'[t].startIndex
  <2>1. InList(z, i)
    BY DEF ArriveInv
  <2> DEFINE x == sent[z][i]
  <2>2. x \in 1..n /\ x # r
    BY <1>1, <2>1 DEF InList, Ended
  <2>3. \A t \in 1..n : Running(t)' => Running(t)
    <3>1. runs'[r].outcome # "running"
      BY <1>3
    <3> QED BY <1>1, <1>2, <3>1 DEF Running
  <2>4. /\ runs[x].outcome # "running" /\ runs[x].session = z
        /\ runs[x].alone
             => \A t \in 1..n : Running(t) /\ runs[t].session = z => i <= runs[t].startIndex
    BY <1>1, <2>1 DEF InList, Ended
  <2> HIDE DEF x
  <2> SUFFICES /\ x \in 1..n /\ runs'[x].outcome # "running" /\ runs'[x].session = z
               /\ runs'[x].alone
                    => \A t \in 1..n : Running(t)' /\ runs'[t].session = z
                                         => i <= runs'[t].startIndex
    BY DEF x
  <2> QED BY <1>2, <2>2, <2>3, <2>4
<1>15. ASSUME NEW z \in 1..MaxSessions, NEW i \in 1..Len(sent'[z])
       PROVE  InList(z, i)'
  <2>1. CASE i \in 1..Len(sent[z]) /\ sent'[z][i] = sent[z][i]
    BY <1>1, <1>14, <2>1 DEF InList, Ended
  <2>3. CASE z = s /\ i = Len(sent[s]) + 1
    <3>1. sent'[z][i] = r
      BY <1>6, <1>10, <2>3
    <3>2. Ended(r)' /\ runs'[r].session = s
      BY <1>1, <1>2, <1>3 DEF Ended, s
    <3>3. ASSUME runs'[r].alone, NEW t \in 1..n, Running(t)', runs'[t].session = s
          PROVE  FALSE
      <4>1. t # r
        BY <1>3, <3>3 DEF Running
      <4>2. Running(t) /\ runs[t].session = s /\ runs[r].alone
        BY <1>1, <1>2, <3>3, <4>1 DEF Running
      <4>3. Solitary(r)
        BY <1>1 DEF ArriveInv
      <4> QED BY <1>1, <4>1, <4>2, <4>3 DEF Solitary, Running, s
    <3> QED BY <1>1, <2>3, <3>1, <3>2, <3>3 DEF InList
  <2>2. CASE z # s
    BY <1>10, <2>1, <2>2
  <2>4. CASE z = s
    <3>1. i \in 1..Len(reported)
      BY <1>10, <2>4
    <3>2. i \in 1..Len(sent[s]) => sent'[z][i] = sent[z][i]
      BY <1>6, <1>10, <2>4
    <3> QED BY <1>6, <2>1, <2>3, <2>4, <3>1, <3>2
  <2> QED BY <2>2, <2>4
<1>16. ASSUME NEW t \in 1..MaxRuns, SocketOpen(r)
       PROVE  /\ got'[t] \in Nat
              /\ (\A i \in (from + 1)..Len(reported) : reported[i] # t) => got'[t] = got[t]
              /\ (\E i \in (from + 1)..Len(reported) : reported[i] = t) => got'[t] > got[t]
              /\ \A i \in (from + 1)..Len(reported) :
                   (reported[i] = t /\ \A j \in (from + 1)..Len(reported) : reported[j] = t => j = i)
                     => got'[t] = got[t] + 1
  <2> DEFINE F == Flushed(reported, from)
  <2>1. got' = F
    BY <1>5, <1>16
  <2>2. /\ F[t] \in Nat
        /\ (\A i \in (from + 1)..Len(reported) : reported[i] # t) => F[t] = got[t]
        /\ (\E i \in (from + 1)..Len(reported) : reported[i] = t) => F[t] > got[t]
        /\ \A i \in (from + 1)..Len(reported) :
             (reported[i] = t /\ \A j \in (from + 1)..Len(reported) : reported[j] = t => j = i)
               => F[t] = got[t] + 1
    BY <1>1, <1>6, FlushedGains
  <2> HIDE DEF F
  <2> QED BY <2>1, <2>2
<1>17. ASSUME NEW t \in 1..n
       PROVE  Arrived(t)'
  <2>1. Arrived(t) /\ t \in 1..MaxRuns /\ got[t] \in Nat
    BY <1>1, <1>11 DEF ArriveInv
  <2>2. CASE ~SocketOpen(r)
    <3>1. got' = got /\ runs'[r].outcome = "cutoff"
      BY <1>3, <1>5, <2>2
    <3> QED BY <1>1, <1>2, <2>1, <3>1 DEF Arrived
  <2>3. CASE SocketOpen(r) /\ t = r
    <3>1. Len(reported) \in (from + 1)..Len(reported)
      BY <1>1, <1>6, <1>7
    <3>2. \A j \in (from + 1)..Len(reported) : reported[j] = r => j = Len(reported)
      <4>1. \A j \in (from + 1)..Len(reported) : j \in 1..Len(sent[s]) \/ j = Len(reported)
        BY <1>1, <1>6
      <4> QED BY <1>6, <1>9, <4>1
    <3>3. got'[r] = got[r] + 1
      BY <1>6, <1>16, <2>1, <2>3, <3>1, <3>2
    <3>4. got[r] = 0
      BY <1>1, <2>1, <2>3 DEF Arrived
    <3> QED BY <1>3, <2>3, <3>3, <3>4 DEF Arrived
  <2>4. CASE SocketOpen(r) /\ t # r /\ \E i \in (from + 1)..Len(reported) : reported[i] = t
    <3>1. PICK i \in (from + 1)..Len(reported) : reported[i] = t
      BY <2>4
    <3>2. i \in 1..Len(sent[s]) /\ sent[s][i] = t
      <4>1. i \in 1..Len(reported) /\ reported[i] # r
        BY <1>6, <2>4, <3>1
      <4> QED BY <1>6, <3>1, <4>1
    <3>3. InList(s, i)
      BY <1>8, <3>2
    <3>4. runs[t].outcome = "connected"
      <4>1. runs[t].outcome \in {"running", "connected", "cutoff"}
        BY <1>1, RunsTyped DEF Run
      <4>2. Placed(t) /\ s = session /\ link = "open"
        BY <1>1, <2>4 DEF ArriveInv, SocketOpen, s
      <4> QED BY <3>2, <3>3, <4>1, <4>2 DEF InList, Ended, Placed
    <3>5. ~runs[t].alone
      <4>1. ~(i <= from)
        BY <1>1, <1>6, <3>1
      <4>2. Running(r) /\ runs[r].session = s
        BY <1>1 DEF Running, s
      <4> QED BY <1>1, <3>2, <3>3, <4>1, <4>2 DEF InList, from
    <3>6. got'[t] > got[t] /\ got'[t] \in Nat
      BY <1>16, <2>1, <2>4
    <3>7. got'[t] > 0
      BY <2>1, <3>6
    <3> QED BY <1>2, <2>4, <3>4, <3>5, <3>7 DEF Arrived
  <2>5. CASE SocketOpen(r) /\ t # r /\ \A i \in (from + 1)..Len(reported) : reported[i] # t
    <3>1. got'[t] = got[t]
      BY <1>16, <2>1, <2>5
    <3> QED BY <1>2, <2>1, <2>5, <3>1 DEF Arrived
  <2> QED BY <2>2, <2>3, <2>4, <2>5
<1>18. ASSUME NEW t \in 1..MaxRuns, t \notin 1..n
       PROVE  got'[t] = 0
  <2>1. got[t] = 0
    BY <1>1, <1>18 DEF ArriveInv
  <2>2. \A i \in (from + 1)..Len(reported) : reported[i] # t
    BY <1>6, <1>18
  <2> QED BY <1>5, <1>16, <2>1, <2>2
<1> QED BY <1>1, <1>12, <1>13, <1>15, <1>17, <1>18 DEF ArriveInv

LEMMA ArriveStarts == MachineInit => ArriveInv
<1> SUFFICES ASSUME MachineInit PROVE ArriveInv
  OBVIOUS
<1>1. Len(runs) = 0 /\ DOMAIN runs = {} /\ MaxRuns \in Nat
  BY MachineAssumption DEF MachineAssumption, MachineInit
<1>2. \A s \in 1..MaxSessions : Len(sent[s]) = 0
  BY DEF MachineInit
<1>3. \A r \in 1..MaxRuns : got[r] = 0
  BY DEF MachineInit
<1> QED BY <1>1, <1>2, <1>3 DEF ArriveInv

LEMMA ArriveStep == MachineTypeOK /\ ArriveInv /\ [MachineNext]_machineVars => ArriveInv'
<1> SUFFICES ASSUME MachineTypeOK, ArriveInv, [MachineNext]_machineVars
             PROVE  ArriveInv'
  OBVIOUS
<1>1. CASE UNCHANGED machineVars
  BY <1>1 DEF machineVars, linkVars, runVars, ArriveInv, Placed, Solitary, InList, Arrived, Running,
              Ended
<1> QED BY <1>1, SessionArrives, DispatchArrives, CancelArrives, EndArrives DEF MachineNext, SessionSteps

(* The server gets the result of a run if and only if the socket it came    *)
(* through is still open at its end, and once if no other run of its        *)
(* session was under way - for any number of runs, sessions and ids.        *)
THEOREM ResultsReachTheServer == MachineSpec => []ResultsArrive
<1>1. ArriveInv => ResultsArrive
  BY DEF ArriveInv, Arrived, ResultsArrive
<1>2. MachineInv => MachineTypeOK
  BY DEF MachineInv
<1> QED BY <1>1, <1>2, MachineStarts, MachineStep, ArriveStarts, ArriveStep, PTL DEF MachineSpec

-----------------------------------------------------------------------------
(* The lock by itself. *)

LEMMA LockStarts == LockInit => LockTypeOK
BY DEF LockInit, LockTypeOK, Stage

LEMMA ContendTyped ==
  ASSUME LockTypeOK, NEW p \in Proc, Contend(p)
  PROVE  LockTypeOK'
BY LockAssumption DEF LockTypeOK, Stage, Contend, TryLock, CreateLock, GoUnlocked, StatLock,
                      BreakLock, RecreateLock, LeaveLock, EndSection

LEMMA LockStep == LockTypeOK /\ [LockNext]_lockVars => LockTypeOK'
<1> SUFFICES ASSUME LockTypeOK, [LockNext]_lockVars PROVE LockTypeOK'
  OBVIOUS
<1>1. ASSUME NEW p \in Proc, Contend(p) PROVE LockTypeOK'
  BY <1>1, ContendTyped
<1>2. ASSUME NEW p \in Mortal, LockDies({p}) PROVE LockTypeOK'
  BY <1>2 DEF LockTypeOK, Stage, LockDies
<1>3. CASE LockAges
  BY <1>3 DEF LockTypeOK, LockAges
<1>4. CASE UNCHANGED lockVars
  BY <1>4 DEF LockTypeOK, lockVars
<1> QED
  BY <1>1, <1>2, <1>3, <1>4 DEF LockNext

-----------------------------------------------------------------------------
(* All parts. *)

LEMMA PartsStart ==
  Init => /\ LoopInit /\ RetryInit /\ BrokerInit /\ ScanInit /\ LockInit /\ SyncInit
          /\ MachineInit /\ CursorInit
BY Zenon DEF Init

LEMMA PartsStep ==
  [Next]_vars => /\ [LoopNext]_loopVars /\ [RetryNext]_retryVars /\ [BrokerNext]_brokerVars
                 /\ [ScanNext]_iterVars /\ [LockNext]_lockVars /\ [SyncNext]_syncVars
                 /\ [MachineNext]_machineVars /\ [CursorNext]_cursorVars
BY Zenon DEF Next, LoopStep, vars

LoopInv == TalkInv /\ SentInv /\ RoundsInv /\ RunningInv /\ UsageInv /\ RequestTyped

LEMMA LoopStarts == LoopInit => LoopInv
BY TalkStarts, SentStarts, RoundsStarts, RunningStarts, UsageStarts, RequestStartsTyped, Zenon
   DEF LoopInv

LEMMA LoopGoesOn == LoopInv /\ [LoopNext]_loopVars => LoopInv'
BY TalkStep, SentStep, RoundsStep, RunningStep, UsageStep, RequestTypedStep, Zenon DEF LoopInv

(* The inductive invariants of the parts. *)
PartsInv ==
  /\ LoopInv
  /\ CountInv
  /\ BrokerInv
  /\ ScanInv
  /\ LockTypeOK
  /\ SyncInv /\ TimeInv
  /\ MachineInv
  /\ ExecInv /\ ReplyInv

LEMMA PartsBegin == Init => PartsInv
BY PartsStart, LoopStarts, CountStarts, BrokerStarts, ScanStarts, LockStarts, SyncInitInv,
   TimeStarts, MachineStarts, ExecStarts, ReplyStarts, Zenon DEF PartsInv

LEMMA PartsGoOn == PartsInv /\ [Next]_vars => PartsInv'
BY PartsStep, LoopGoesOn, CountGoesOn, BrokerStep, ScanStep, LockStep, SyncStep, TimeStep,
   MachineStep, ExecStep, ReplyStep, Zenon DEF PartsInv

LEMMA PartsMean == PartsInv => TypeOK
BY LoopMeans, CountMeans, BrokerMeans, ScanMeans, SyncMeans, StreamIsTyped, Zenon
   DEF PartsInv, LoopInv, MachineInv, TypeOK

(* Whichever part a behaviour follows, every variable keeps its type: no    *)
(* number leaves its range, no index its sequence, and every record in      *)
(* every list has its fields (localLoop.ts, localRuntimeFetchRetry.ts,      *)
(* localRuntimeAuthority.ts, agentRunControl.ts, machineWsSession.ts and    *)
(* cursorProvider.ts).                                                      *)
THEOREM LocalRuntimeTypes == Spec => []TypeOK
BY PartsBegin, PartsGoOn, PartsMean, PTL DEF Spec
=============================================================================
