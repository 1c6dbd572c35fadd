----------------------------- MODULE StoreProofs -----------------------------
(***************************************************************************)
(* What holds of the local store: of the merge rule and of a record beside *)
(* its servers, for any delivery and any changes of other devices          *)
(* (Tombstones, RecordSync); of the store shared through a broker, for any *)
(* number of processes, operations, faults and attempts (AuthorityBroker); *)
(* and of a scan through it, for any set of keys and any page size         *)
(* (BrokerIterator).                                                       *)
(***************************************************************************)
EXTENDS RecordSync, AuthorityBroker, BrokerIterator, SequenceFacts

-----------------------------------------------------------------------------
(* A record and its servers *)

(* Without restores the rule of tombstones.ts is a strict weak order, so    *)
(* versions may be merged in any order: of two one wins unless they are     *)
(* equally old, and what loses to a version that loses has lost.            *)
THEOREM RestoreFreeOrder ==
  ASSUME NEW a \in Versions(Nat), NEW b \in Versions(Nat), NEW c \in Versions(Nat),
         a.restored = 0, b.restored = 0, c.restored = 0
  PROVE  /\ ~(Beats(a, b) /\ Beats(b, a))
         /\ Beats(a, b) /\ Beats(b, c) => Beats(a, c)
         /\ Beats(a, c) => Beats(a, b) \/ Beats(b, c)
  BY SMT DEF Versions, Beats, Dead, RestoredAfter, Stamp

(* A deletion loses to nothing but a later restore and a later deletion,    *)
(* however recently the other version was changed.                          *)
LEMMA OnlyRestoreRevives ==
  ASSUME NEW v \in Versions(Nat), NEW gone \in Versions(Nat), Dead(gone), Beats(v, gone)
  PROVE  IF Dead(v) THEN v.deleted > gone.deleted ELSE v.restored > gone.deleted
  BY SMT DEF Versions, Beats, Dead, RestoredAfter, Stamp

-----------------------------------------------------------------------------
AnyVersion == Versions(Nat) \cup {NoRecord}
TaskType == [op : {"idle", "read", "wait", "edit", "restore", "remove", "purge"},
             copy : AnyVersion, ask : SUBSET Server, first : {"no", "asked", "failed"},
             got : [Server -> AnyVersion]]

(* An edit has read a record, and only what is under way asks. *)
Formed(k) == (k.op = "edit" => k.copy # NoRecord) /\ (k.op = "idle" => k.first = "no")

SyncTypes ==
  /\ local \in AnyVersion /\ served \subseteq Versions(Nat)
  /\ task \in [Tasks -> TaskType] /\ \A t \in Tasks : Formed(task[t])
  /\ now \in Nat \ {0} /\ wiped \in Nat
  /\ overlapped \in BOOLEAN /\ waited \in BOOLEAN

(* The record is gone since the deletion counted from. *)
GoneFor(v) == v # NoRecord /\ v.deleted >= wiped

(* While a deletion is to hold, whatever is under way has begun after it:   *)
(* it has read the tombstone and asks no server first.                      *)
Mourning == wiped # 0 /\ ~overlapped /\ ~waited
DeletionInv ==
  Mourning =>
    /\ GoneFor(local)
    /\ \A t \in Tasks : task[t].op # "idle" =>
         GoneFor(task[t].copy) /\ task[t].op # "wait" /\ task[t].first = "no"

SyncInv == SyncTypes /\ DeletionInv

-----------------------------------------------------------------------------
LEMMA NewVersions ==
  ASSUME NEW n \in Nat \ {0}
  PROVE  /\ Written(n) \in Versions(Nat) /\ ~Dead(Written(n))
         /\ Restored(n) \in Versions(Nat)
         /\ Tombstone(n) \in Versions(Nat) /\ Tombstone(n).deleted = n
  BY SMT DEF Written, Restored, Tombstone, Versions, Dead

(* Requests leave only versions with the servers, of the given times. *)
LEMMA TellKeeps ==
  ASSUME NEW T, 0 \in T, served \subseteq Versions(T), NEW what, NEW body, Tell(what, body),
         what = "write" => body \in Versions(T),
         what \in {"edit", "restore", "delete"} => body \in T,
         what \in {"write", "edit", "restore", "delete", "purge"}
  PROVE  served' \subseteq Versions(T)
<1>1. ASSUME NEW v \in served \cup {NoRecord}
      PROVE  Served(v, what, body) \subseteq Versions(T)
  <2>1. CASE what = "write" \/ what = "purge" \/ v = NoRecord
    BY <2>1 DEF Served
  <2>2. CASE what \in {"edit", "restore", "delete"} /\ v # NoRecord
    <3>1. v \in Versions(T) /\ body \in T
      BY <2>2
    <3>2. Changed(v, what, body) \in Versions(T)
      BY <2>2, <3>1, SMT DEF Changed, Restored, Tombstone, Versions
    <3> QED
      BY <2>2, <3>2 DEF Served
  <2> QED
    BY <2>1, <2>2
<1> QED
  BY <1>1 DEF Tell

LEMMA TellTyped ==
  ASSUME SyncTypes, NEW what, NEW body, Tell(what, body),
         what = "write" => body \in Versions(Nat),
         what \in {"edit", "restore", "delete"} => body \in Nat \ {0},
         what \in {"write", "edit", "restore", "delete", "purge"}
  PROVE  served' \subseteq Versions(Nat)
  BY TellKeeps DEF SyncTypes

LEMMA IdleTyped == Idle \in TaskType /\ Idle.op = "idle" /\ Formed(Idle)
<1>1. [s \in Server |-> NoRecord] \in [Server -> AnyVersion]
  BY DEF AnyVersion
<1>2. NoRecord \in AnyVersion
  BY DEF AnyVersion
<1> QED
  BY <1>1, <1>2 DEF Idle, TaskType, Formed

(* An action that ends leaves the others as they are. *)
LEMMA EndTyped ==
  ASSUME SyncTypes, NEW t \in Tasks, End(t)
  PROVE  /\ task' \in [Tasks -> TaskType] /\ \A u \in Tasks : Formed(task'[u])
         /\ task'[t].op = "idle"
         /\ \A u \in Tasks \ {t} : task'[u] = task[u]
  BY IdleTyped DEF End, SyncTypes

(* A record that is kept either leaves the deletion in force, or it was     *)
(* restored after it.                                                       *)
LEMMA KeepSound ==
  ASSUME SyncTypes, NEW v \in Versions(Nat), Keep(v),
         Dead(v) => v.deleted >= wiped, Alive(v) => v.restored > wiped
  PROVE  /\ local' \in AnyVersion /\ wiped' \in {0, wiped}
         /\ wiped' # 0 => v.deleted >= wiped'
<1>1. local' \in AnyVersion
  BY DEF Keep, AnyVersion
<1>2. v # NoRecord
  BY SyncAssumption
<1>3. Dead(v) \/ Alive(v)
  BY <1>2 DEF Alive
<1> QED
  BY <1>1, <1>3, SMT DEF Keep, Alive, Dead, SyncTypes, Versions

-----------------------------------------------------------------------------
LEMMA SyncInitInv == SyncInit => SyncInv
<1> SUFFICES ASSUME SyncInit PROVE SyncInv
  OBVIOUS
<1>1. Written(1) \in Versions(Nat)
  BY NewVersions
<1>2. task \in [Tasks -> TaskType] /\ \A t \in Tasks : Formed(task[t])
  BY IdleTyped DEF SyncInit
<1>3. local \in AnyVersion /\ served \subseteq Versions(Nat)
  BY <1>1 DEF SyncInit, AnyVersion
<1>4. now \in Nat \ {0} /\ wiped \in Nat
  BY SMT DEF SyncInit
<1>5. SyncTypes
  BY <1>2, <1>3, <1>4, Zenon DEF SyncInit, SyncTypes
<1> QED
  BY <1>5 DEF SyncInv, DeletionInv, Mourning, SyncInit

(* What is proved of each action: the types, and of a task that is under    *)
(* way that it has begun after the deletion.                                *)
Begun(k) == k.op # "idle" => GoneFor(k.copy) /\ k.op # "wait" /\ k.first = "no"

LEMMA EndInv ==
  ASSUME SyncInv, NEW t \in Tasks, End(t),
         local' \in AnyVersion, served' \subseteq Versions(Nat), wiped' \in {0, wiped},
         UNCHANGED <<now, overlapped, waited>>,
         Mourning' => GoneFor(local)'
  PROVE  SyncInv'
<1>1. /\ task' \in [Tasks -> TaskType] /\ \A u \in Tasks : Formed(task'[u])
      /\ task'[t].op = "idle" /\ \A u \in Tasks \ {t} : task'[u] = task[u]
  BY EndTyped DEF SyncInv
<1>2. SyncTypes'
  BY <1>1 DEF SyncInv, SyncTypes
<1>3. ASSUME Mourning', NEW u \in Tasks, task'[u].op # "idle"
      PROVE  GoneFor(task[u].copy)' /\ task'[u].op # "wait" /\ task'[u].first = "no"
  <2>1. Mourning /\ wiped' = wiped
    BY <1>3 DEF Mourning
  <2>2. task'[u] = task[u]
    BY <1>1, <1>3
  <2> QED
    BY <1>3, <2>1, <2>2 DEF SyncInv, DeletionInv, GoneFor
<1> QED
  BY <1>2, <1>3 DEF SyncInv, DeletionInv

LEMMA StartInv ==
  ASSUME SyncInv, NEW t \in Tasks, NEW preferred \in BOOLEAN,
         NEW action \in {"read", "wait", "edit", "restore", "remove", "purge"},
         StartAction(t, action, preferred)
  PROVE  SyncInv'
<1> DEFINE first == preferred /\ (action = "wait" \/ (action = "read" /\ local = NoRecord))
           fresh == [Idle EXCEPT !.op = action, !.copy = local,
                       !.first = IF first THEN "asked" ELSE "no",
                       !.ask = IF action \notin {"read", "wait"} THEN {}
                               ELSE IF first THEN {First} ELSE Server]
<1>1. task' = [task EXCEPT ![t] = fresh]
  BY DEF StartAction
<1>2. /\ fresh \in TaskType /\ fresh.op = action /\ fresh.copy = local
      /\ fresh.first = IF first THEN "asked" ELSE "no"
  BY SyncAssumption, IdleTyped DEF SyncInv, SyncTypes, TaskType, Idle
<1>7. Formed(fresh)
  BY <1>2 DEF Formed, StartAction
<1> HIDE DEF fresh
<1>3. task' \in [Tasks -> TaskType] /\ task'[t] = fresh
      /\ \A u \in Tasks \ {t} : task'[u] = task[u]
  BY <1>1, <1>2 DEF SyncInv, SyncTypes
<1>4. SyncTypes'
  BY <1>3, <1>7 DEF SyncInv, SyncTypes, StartAction
<1>5. ASSUME Mourning' PROVE Mourning /\ action # "wait" /\ GoneFor(local)'
  BY <1>5 DEF SyncInv, DeletionInv, Mourning, StartAction, GoneFor, SyncTypes
<1>6. ASSUME Mourning', NEW u \in Tasks, task'[u].op # "idle"
      PROVE  GoneFor(task[u].copy)' /\ task'[u].op # "wait" /\ task'[u].first = "no"
  <2>1. CASE u = t
    BY <1>2, <1>3, <1>5, <1>6, <2>1 DEF GoneFor, StartAction
  <2>2. CASE u # t
    BY <1>3, <1>5, <1>6, <2>2 DEF SyncInv, DeletionInv, GoneFor, StartAction
  <2> QED
    BY <2>1, <2>2
<1> QED
  BY <1>4, <1>5, <1>6 DEF SyncInv, DeletionInv

(* A step that only learns or asks more. *)
LEMMA AskInv ==
  ASSUME SyncInv, NEW t \in Tasks,
         (\E s \in Server : ServerAnswers(t, s)) \/ PreferredFails(t)
  PROVE  SyncInv'
<1> task[t] \in TaskType
  BY DEF SyncInv, SyncTypes
<1>1. PICK k \in TaskType :
        /\ task' = [task EXCEPT ![t] = k]
        /\ k.op = task[t].op /\ k.copy = task[t].copy
        /\ k.first = task[t].first \/ (task[t].first = "asked" /\ k.op # "idle")
  <2>1. CASE \E s \in Server : ServerAnswers(t, s)
    <3>1. PICK s \in Server, v \in served \cup {NoRecord} :
            task' = [task EXCEPT ![t].ask = @ \ {s}, ![t].got[s] = v]
      BY <2>1 DEF ServerAnswers
    <3>0. v \in AnyVersion
      BY <3>1 DEF SyncInv, SyncTypes, AnyVersion
    <3> DEFINE k == [task[t] EXCEPT !.ask = @ \ {s}, !.got[s] = v]
    <3>2. task' = [task EXCEPT ![t] = k]
      BY <3>1 DEF SyncInv, SyncTypes
    <3>3. /\ k \in TaskType /\ k.op = task[t].op /\ k.copy = task[t].copy
          /\ k.first = task[t].first
      BY <3>0 DEF TaskType
    <3> QED
      BY <3>2, <3>3
  <2>2. CASE PreferredFails(t)
    <3> DEFINE k == [task[t] EXCEPT !.first = "failed", !.ask = Server \ {First}]
    <3>1. task' = [task EXCEPT ![t] = k]
      BY <2>2 DEF PreferredFails, SyncInv, SyncTypes
    <3>2. k \in TaskType /\ k.op = task[t].op /\ k.copy = task[t].copy
      BY DEF TaskType
    <3> QED
      BY <2>2, <3>1, <3>2 DEF PreferredFails, SyncInv, SyncTypes, Formed
  <2> QED
    BY <2>1, <2>2
<1>2. UNCHANGED <<local, served, countVars, deleteVars>>
  BY DEF ServerAnswers, PreferredFails
<1>3. task' \in [Tasks -> TaskType] /\ task'[t] = k
      /\ \A u \in Tasks \ {t} : task'[u] = task[u]
  BY <1>1 DEF SyncInv, SyncTypes
<1>4. SyncTypes'
  BY <1>1, <1>2, <1>3 DEF SyncInv, SyncTypes, countVars, deleteVars, Formed
<1>5. ASSUME Mourning, NEW u \in Tasks, task'[u].op # "idle"
      PROVE  GoneFor(task'[u].copy) /\ task'[u].op # "wait" /\ task'[u].first = "no"
  BY <1>1, <1>3, <1>5 DEF SyncInv, DeletionInv
<1>6. (Mourning' <=> Mourning) /\ (GoneFor(local)' <=> GoneFor(local))
      /\ \A u \in Tasks : GoneFor(task[u].copy)' <=> GoneFor(task'[u].copy)
  BY <1>2 DEF Mourning, GoneFor, deleteVars
<1> QED
  BY <1>4, <1>5, <1>6 DEF SyncInv, DeletionInv

(* A read that settles replaces the tombstone it has read by nothing but a  *)
(* later deletion or a restore after it.                                    *)
LEMMA SettleInv == ASSUME SyncInv, NEW t \in Tasks, SettleRead(t) PROVE SyncInv'
<1> task[t] \in TaskType
  BY DEF SyncInv, SyncTypes
<1> DEFINE copy == task[t].copy
           action == task[t].op
<1>1. PICK best \in AnyVersion :
        /\ IF best # NoRecord /\ (copy = NoRecord \/ Newer(action, best, copy))
           THEN Keep(best) ELSE UNCHANGED <<local, deleteVars>>
        /\ (copy # NoRecord /\ Tell("write", copy)) \/ UNCHANGED served
  <2>1. PICK best \in {task[t].got[s] : s \in Server} \cup {NoRecord} :
          /\ IF best # NoRecord /\ (copy = NoRecord \/ Newer(action, best, copy))
             THEN Keep(best) ELSE UNCHANGED <<local, deleteVars>>
          /\ IF /\ best = NoRecord /\ copy # NoRecord
                /\ task[t].first = "failed" => Server # {First}
             THEN Tell("write", copy)
             ELSE UNCHANGED served
    BY Zenon DEF SettleRead
  <2>2. best \in AnyVersion
    BY DEF TaskType, AnyVersion
  <2> QED
    BY <2>1, <2>2
<1>2. End(t) /\ action \in {"read", "wait"} /\ UNCHANGED now
  BY DEF SettleRead, countVars
<1>3. served' \subseteq Versions(Nat)
  <2>1. CASE UNCHANGED served
    BY <2>1 DEF SyncInv, SyncTypes
  <2>2. CASE copy # NoRecord /\ Tell("write", copy)
    <3>1. copy \in Versions(Nat)
      BY <2>2 DEF TaskType, AnyVersion
    <3> QED
      BY <2>2, <3>1, TellTyped DEF SyncInv
  <2> QED
    BY <1>1, <2>1, <2>2
<1>4. CASE UNCHANGED <<local, deleteVars>>
  BY <1>2, <1>3, <1>4, EndInv DEF SyncInv, SyncTypes, DeletionInv, Mourning, GoneFor, deleteVars
<1>5. CASE /\ Keep(best) /\ best # NoRecord
           /\ copy = NoRecord \/ Newer(action, best, copy)
  <2>1. best \in Versions(Nat)
    BY <1>5 DEF AnyVersion
  <2>2. local' \in AnyVersion /\ wiped' \in {0, wiped} /\ UNCHANGED <<overlapped, waited>>
    BY <1>5, <2>1 DEF Keep, AnyVersion
  <2>3. ASSUME Mourning' PROVE GoneFor(local)'
    <3>1. Mourning /\ wiped' = wiped
      BY <2>2, <2>3 DEF Mourning
    <3>2. copy # NoRecord /\ copy.deleted >= wiped /\ action = "read"
      BY <1>2, <3>1 DEF SyncInv, DeletionInv, GoneFor
    <3>3. copy \in Versions(Nat) /\ wiped \in Nat \ {0}
      BY <3>1, <3>2 DEF TaskType, AnyVersion, SyncInv, SyncTypes, Mourning
    <3>4. Dead(copy) /\ copy.deleted \in Nat
      BY <3>2, <3>3, SMT DEF Dead, Versions
    <3>5. Beats(best, copy)
      BY <1>5, <3>2 DEF Newer
    <3>6. IF Dead(best) THEN best.deleted > copy.deleted ELSE best.restored > copy.deleted
      BY <2>1, <3>3, <3>4, <3>5, OnlyRestoreRevives
    <3>7. (Dead(best) => best.deleted >= wiped) /\ (Alive(best) => best.restored > wiped)
      BY <2>1, <3>2, <3>3, <3>4, <3>6, SMT DEF Alive, Versions
    <3> HIDE DEF copy, action
    <3>8. best.deleted >= wiped'
      BY <1>5, <2>1, <2>3, <3>7, KeepSound DEF SyncInv, Mourning
    <3> QED
      BY <1>5, <3>8 DEF Keep, GoneFor
  <2> QED
    BY <1>2, <1>3, <2>2, <2>3, EndInv
<1> QED
  BY <1>1, <1>4, <1>5

(* An edit keeps the deletion of the copy it has read. *)
LEMMA EditInv == ASSUME SyncInv, NEW t \in Tasks, PutEdit(t) PROVE SyncInv'
<1> DEFINE v == [task[t].copy EXCEPT !.updated = Later(task[t].copy)]
<1>1. task[t].copy \in Versions(Nat) /\ now \in Nat \ {0}
  BY DEF SyncInv, SyncTypes, TaskType, AnyVersion, Formed, PutEdit
<1>2. Later(task[t].copy) \in Nat \ {0}
  BY <1>1, SMT DEF Later, Versions
<1>3. v \in Versions(Nat) /\ v.deleted = task[t].copy.deleted
  BY <1>1, <1>2 DEF Versions
<1>4. Keep(v) /\ Tell("edit", Later(task[t].copy)) /\ End(t) /\ UNCHANGED now
  BY DEF PutEdit, countVars
<1>5. served' \subseteq Versions(Nat)
  BY <1>2, <1>4, TellTyped DEF SyncInv
<1> HIDE DEF v
<1>6. local' \in AnyVersion /\ wiped' \in {0, wiped} /\ UNCHANGED <<overlapped, waited>>
  BY <1>3, <1>4 DEF Keep, AnyVersion
<1>7. ASSUME Mourning' PROVE GoneFor(local)'
  <2>1. Mourning /\ wiped' = wiped
    BY <1>6, <1>7 DEF Mourning
  <2>2. task[t].copy.deleted >= wiped
    BY <2>1 DEF PutEdit, SyncInv, DeletionInv, GoneFor
  <2>3. v # NoRecord
    BY <1>3, SyncAssumption
  <2> QED
    BY <1>3, <1>4, <2>1, <2>2, <2>3 DEF Keep, GoneFor
<1> QED
  BY <1>4, <1>5, <1>6, <1>7, EndInv

(* After a removal nothing else is under way, or the deletion does not      *)
(* count.                                                                   *)
LEMMA RemoveInv == ASSUME SyncInv, NEW t \in Tasks, PutTombstone(t) PROVE SyncInv'
<1>1. now \in Nat \ {0}
  BY DEF SyncInv, SyncTypes
<1>2. Tombstone(now) \in Versions(Nat) /\ Tombstone(now).deleted = now
  BY <1>1, NewVersions
<1>3. served' \subseteq Versions(Nat)
  BY <1>1, TellTyped DEF PutTombstone, SyncInv
<1>4. /\ task' \in [Tasks -> TaskType] /\ \A u \in Tasks : Formed(task'[u])
      /\ task'[t].op = "idle"
      /\ \A u \in Tasks \ {t} : task'[u] = task[u]
  BY EndTyped DEF PutTombstone, SyncInv
<1>5. SyncTypes'
  BY <1>1, <1>2, <1>3, <1>4 DEF PutTombstone, SyncTypes, AnyVersion, Overlapped, countVars
<1>6. GoneFor(local)'
  BY <1>1, <1>2, SyncAssumption DEF PutTombstone, GoneFor
<1>7. ASSUME Mourning', NEW u \in Tasks PROVE task'[u].op = "idle"
  BY <1>4, <1>7 DEF Mourning, PutTombstone, Overlapped
<1> QED
  BY <1>5, <1>6, <1>7 DEF SyncInv, DeletionInv

(* What restores or replaces the record ends the deletion. *)
LEMMA ReplaceInv ==
  ASSUME SyncInv, NEW t \in Tasks,
         PreferredAnswers(t) \/ PutRestored(t) \/ Purge(t) \/ Abandon(t)
  PROVE  SyncInv'
<1> task[t] \in TaskType /\ now \in Nat \ {0}
  BY DEF SyncInv, SyncTypes
<1>1. CASE PreferredAnswers(t)
  <2>1. ~Mourning
    BY <1>1 DEF PreferredAnswers, SyncInv, SyncTypes, DeletionInv, Formed
  <2>2. task[t].got[First] \in AnyVersion
    BY SyncAssumption DEF TaskType
  <2> QED
    BY <1>1, <2>1, <2>2, EndInv
       DEF PreferredAnswers, Keep, countVars, Mourning, SyncInv, SyncTypes
<1>2. CASE PutRestored(t)
  BY <1>2, EndInv, NewVersions, TellTyped
     DEF PutRestored, countVars, Mourning, SyncInv, SyncTypes, AnyVersion
<1>3. CASE Purge(t)
  BY <1>3, EndInv, TellTyped DEF Purge, countVars, Mourning, SyncInv, SyncTypes, AnyVersion
<1>4. CASE Abandon(t)
  BY <1>4, EndInv
     DEF Abandon, countVars, deleteVars, Mourning, SyncInv, SyncTypes, DeletionInv, GoneFor
<1> QED
  BY <1>1, <1>2, <1>3, <1>4

LEMMA OthersInv ==
  ASSUME SyncInv, Write \/ (\E what \in {"edit", "restore", "delete"} : Foreign(what)) \/ Tick
  PROVE  SyncInv'
<1> now \in Nat \ {0}
  BY DEF SyncInv, SyncTypes
<1>1. CASE Write
  BY <1>1, NewVersions, TellTyped DEF Write, Mourning, SyncInv, SyncTypes, DeletionInv, AnyVersion
<1>2. ASSUME NEW what \in {"edit", "restore", "delete"}, Foreign(what) PROVE SyncInv'
  BY <1>2, TellTyped DEF Foreign, Mourning, SyncInv, SyncTypes, DeletionInv, GoneFor, deleteVars
<1>3. CASE Tick
  BY <1>3 DEF Tick, Mourning, SyncInv, SyncTypes, DeletionInv, GoneFor, deleteVars
<1> QED
  BY <1>1, <1>2, <1>3

LEMMA SyncStep == SyncInv /\ [SyncNext]_syncVars => SyncInv'
<1> SUFFICES ASSUME SyncInv, [SyncNext]_syncVars PROVE SyncInv'
  OBVIOUS
<1>1. CASE UNCHANGED syncVars
  BY <1>1 DEF syncVars, countVars, deleteVars, SyncInv, SyncTypes, DeletionInv, Mourning, GoneFor
<1>2. ASSUME NEW t \in Tasks, NEW action \in {"edit", "restore", "remove", "purge", "read", "wait"},
             NEW preferred \in BOOLEAN, StartAction(t, action, preferred)
      PROVE  SyncInv'
  BY <1>2, StartInv
<1>3. ASSUME NEW t \in Tasks, (\E s \in Server : ServerAnswers(t, s)) \/ PreferredFails(t)
      PROVE  SyncInv'
  BY <1>3, AskInv
<1>4. ASSUME NEW t \in Tasks,
             PreferredAnswers(t) \/ PutRestored(t) \/ Purge(t) \/ Abandon(t)
      PROVE  SyncInv'
  BY <1>4, ReplaceInv
<1>5. ASSUME NEW t \in Tasks, SettleRead(t) \/ PutEdit(t) \/ PutTombstone(t) PROVE SyncInv'
  BY <1>5, SettleInv, EditInv, RemoveInv
<1>6. CASE Write \/ (\E what \in {"edit", "restore", "delete"} : Foreign(what)) \/ Tick
  BY <1>6, OthersInv
<1> QED
  BY <1>1, <1>2, <1>3, <1>4, <1>5, <1>6 DEF SyncNext

(* removeAction leaves a tombstone so that no older version of the record   *)
(* comes back: whatever the servers answer and in which order, and whatever *)
(* is called here but readAndWait, the tombstone stays or a later one takes *)
(* its place, until the record is restored or written anew.                 *)
THEOREM DeletionStands == SyncSpec => []CalmDeletionHolds
<1>1. SyncInv => CalmDeletionHolds
  BY SMT DEF SyncInv, SyncTypes, DeletionInv, Mourning, GoneFor, CalmDeletionHolds, Dead,
             AnyVersion, Versions
<1> QED
  BY <1>1, SyncInitInv, SyncStep, PTL DEF SyncSpec

-----------------------------------------------------------------------------
(* The times of a record.  patchAction gives a change the time behind the   *)
(* one of the copy it has read, if that is not in the past; so the times    *)
(* may run ahead of the clock, by one for each patch put at most.           *)

Upto(n) == Versions(0..n) \cup {NoRecord}
Editing == {t \in Tasks : task[t].op = "edit"}
Ceiling == MaxTime + (actions - Cardinality(Editing))

TimesWithin(n) ==
  /\ local \in Upto(n) /\ served \subseteq Versions(0..n)
  /\ \A t \in Tasks : task[t].copy \in Upto(n) /\ \A s \in Server : task[t].got[s] \in Upto(n)

Counts ==
  /\ actions \in 0..MaxActions /\ foreign \in 0..MaxForeign
  /\ now \in 1..MaxTime /\ wiped \in 0..MaxTime
  /\ IsFiniteSet(Editing) /\ Cardinality(Editing) <= actions

TimeInv == Counts /\ TimesWithin(Ceiling)

LEMMA CeilingBounds ==
  ASSUME Counts
  PROVE  /\ Ceiling \in Nat /\ MaxTime \in Nat /\ MaxTime <= Ceiling
         /\ Ceiling <= MaxTime + MaxActions /\ 0 \in 0..Ceiling /\ now \in 0..Ceiling
         /\ Cardinality(Editing) \in Nat /\ MaxTime + MaxActions \in Nat
<1>1. Cardinality(Editing) \in Nat
  BY FS_CardinalityType DEF Counts
<1>2. MaxTime \in Nat /\ MaxActions \in Nat
  BY SyncAssumption DEF SyncAssumption
<1> QED
  BY <1>1, <1>2 DEF Counts, Ceiling

LEMMA UptoGrows ==
  ASSUME NEW m \in Nat, NEW n \in Nat, m <= n
  PROVE  Versions(0..m) \subseteq Versions(0..n) /\ Upto(m) \subseteq Upto(n)
<1>1. 0..m \subseteq 0..n
  OBVIOUS
<1> QED
  BY <1>1 DEF Versions, Upto

LEMMA NewWithin ==
  ASSUME NEW n \in Nat, NEW time \in 0..n
  PROVE  /\ Written(time) \in Versions(0..n) /\ Restored(time) \in Versions(0..n)
         /\ Tombstone(time) \in Versions(0..n)
<1>1. 0 \in 0..n
  OBVIOUS
<1> QED
  BY <1>1 DEF Written, Restored, Tombstone, Versions

(* Only a patch that is put lets the ceiling rise while an action ends.     *)
LEMMA EndRaises ==
  ASSUME SyncInv, TimeInv, NEW t \in Tasks, End(t), UNCHANGED countVars, wiped' \in 0..MaxTime
  PROVE  Counts' /\ Ceiling' = IF task[t].op = "edit" THEN Ceiling + 1 ELSE Ceiling
<1>1. \A u \in Tasks : task'[u].op = IF u = t THEN "idle" ELSE task[u].op
  BY EndTyped DEF SyncInv
<1>2. Editing' = Editing \ {t}
  BY <1>1 DEF Editing
<1>3. IsFiniteSet(Editing) /\ Cardinality(Editing) \in Nat /\ Cardinality(Editing) <= actions
  BY CeilingBounds DEF TimeInv, Counts
<1>4. /\ IsFiniteSet(Editing')
      /\ Cardinality(Editing') = IF task[t].op = "edit" THEN Cardinality(Editing) - 1
                                 ELSE Cardinality(Editing)
  <2>1. t \in Editing <=> task[t].op = "edit"
    BY DEF Editing
  <2>2. /\ IsFiniteSet(Editing \ {t})
        /\ Cardinality(Editing \ {t}) = IF t \in Editing THEN Cardinality(Editing) - 1
                                        ELSE Cardinality(Editing)
    BY <1>3, FS_RemoveElement
  <2> HIDE DEF Editing
  <2> QED
    BY <1>2, <2>1, <2>2
<1>5. actions' = actions /\ foreign' = foreign /\ now' = now
  BY DEF countVars
<1>6. actions \in Nat /\ MaxTime \in Nat
  BY SyncAssumption DEF SyncAssumption, TimeInv, Counts
<1>7. Ceiling' = MaxTime + (actions' - Cardinality(Editing'))
  BY DEF Ceiling
<1>8. Ceiling = MaxTime + (actions - Cardinality(Editing))
  BY DEF Ceiling
<1>9. Ceiling' = IF task[t].op = "edit" THEN Ceiling + 1 ELSE Ceiling
  BY <1>3, <1>4, <1>5, <1>6, <1>7, <1>8
<1>10. Cardinality(Editing') <= actions'
  BY <1>3, <1>4, <1>5, <1>6
<1> QED
  BY <1>4, <1>5, <1>9, <1>10 DEF TimeInv, Counts

LEMMA EndTimes ==
  ASSUME SyncInv, TimeInv, NEW t \in Tasks, End(t), UNCHANGED countVars, wiped' \in 0..MaxTime,
         NEW n \in Nat, n = IF task[t].op = "edit" THEN Ceiling + 1 ELSE Ceiling,
         local' \in Upto(n), served' \subseteq Versions(0..n)
  PROVE  TimeInv'
<1>1. Counts' /\ Ceiling' = n
  BY EndRaises
<1>2. Ceiling \in Nat /\ Ceiling <= n
  BY CeilingBounds DEF TimeInv
<1>3. Upto(Ceiling) \subseteq Upto(n) /\ NoRecord \in Upto(n)
  BY <1>2, UptoGrows DEF Upto
<1>4. /\ \A u \in Tasks \ {t} : task'[u] = task[u]
      /\ task'[t] = Idle
  BY EndTyped DEF SyncInv, SyncTypes, End
<1>5. Idle.copy = NoRecord /\ \A s \in Server : Idle.got[s] = NoRecord
  BY DEF Idle
<1>6. ASSUME NEW u \in Tasks
      PROVE  task'[u].copy \in Upto(n) /\ \A s \in Server : task'[u].got[s] \in Upto(n)
  <2>1. CASE u = t
    BY <1>3, <1>4, <1>5, <2>1
  <2>2. CASE u # t
    BY <1>3, <1>4, <2>2 DEF TimeInv, TimesWithin
  <2> QED
    BY <2>1, <2>2
<1>7. TimesWithin(n)'
  BY <1>6 DEF TimesWithin
<1> QED
  BY <1>1, <1>7 DEF TimeInv

(* A step of one action that goes on. *)
LEMMA GoOnTimes ==
  ASSUME SyncInv, TimeInv, NEW t \in Tasks, NEW k, task' = [task EXCEPT ![t] = k],
         k.op = "edit" <=> task[t].op = "edit",
         k.copy \in Upto(Ceiling), \A s \in Server : k.got[s] \in Upto(Ceiling),
         UNCHANGED <<local, served, countVars, wiped>>
  PROVE  TimeInv'
<1>1. task'[t] = k /\ \A u \in Tasks \ {t} : task'[u] = task[u]
  BY DEF SyncInv, SyncTypes
<1>2. Editing' = Editing
  BY <1>1 DEF Editing
<1>3. Ceiling' = Ceiling
  BY <1>2 DEF Ceiling, countVars
<1>4. Counts'
  BY <1>2 DEF TimeInv, Counts, countVars
<1>5. TimesWithin(Ceiling)'
  BY <1>1, <1>3 DEF TimeInv, TimesWithin
<1> QED
  BY <1>4, <1>5 DEF TimeInv

LEMMA StartTimes ==
  ASSUME SyncInv, TimeInv, NEW t \in Tasks, NEW action, NEW preferred,
         StartAction(t, action, preferred)
  PROVE  TimeInv'
<1>1. PICK k : /\ task' = [task EXCEPT ![t] = k] /\ k.op = action /\ k.copy = local
               /\ k.got = [s \in Server |-> NoRecord]
  <2> DEFINE first == preferred /\ (action = "wait" \/ (action = "read" /\ local = NoRecord))
             k == [Idle EXCEPT !.op = action, !.copy = local,
                       !.first = IF first THEN "asked" ELSE "no",
                       !.ask = IF action \notin {"read", "wait"} THEN {}
                               ELSE IF first THEN {First} ELSE Server]
  <2>1. task' = [task EXCEPT ![t] = k]
    BY DEF StartAction
  <2>2. k.op = action /\ k.copy = local /\ k.got = [s \in Server |-> NoRecord]
    BY DEF Idle
  <2> QED
    BY <2>1, <2>2
<1>2. /\ task[t].op = "idle" /\ actions < MaxActions /\ actions' = actions + 1
      /\ UNCHANGED <<local, served, now, foreign, wiped>>
  BY DEF StartAction
<1>3. task'[t] = k /\ \A u \in Tasks \ {t} : task'[u] = task[u]
  BY <1>1 DEF SyncInv, SyncTypes
<1>4. Editing' = IF action = "edit" THEN Editing \cup {t} ELSE Editing
  BY <1>1, <1>2, <1>3 DEF Editing
<1>5. /\ IsFiniteSet(Editing) /\ Cardinality(Editing) \in Nat /\ t \notin Editing
      /\ actions \in Nat /\ Cardinality(Editing) <= actions /\ MaxTime \in Nat
      /\ Ceiling \in Nat /\ MaxActions \in Nat
  BY <1>2, CeilingBounds, SyncAssumption DEF SyncAssumption, TimeInv, Counts, Editing
<1>6. /\ IsFiniteSet(Editing')
      /\ Cardinality(Editing') = IF action = "edit" THEN Cardinality(Editing) + 1
                                 ELSE Cardinality(Editing)
  <2>1. /\ IsFiniteSet(Editing \cup {t})
        /\ Cardinality(Editing \cup {t}) = Cardinality(Editing) + 1
    BY <1>5, FS_AddElement
  <2> HIDE DEF Editing
  <2> QED
    BY <1>4, <1>5, <2>1
<1>7. Ceiling' = MaxTime + (actions' - Cardinality(Editing'))
  BY DEF Ceiling
<1>8. Ceiling = MaxTime + (actions - Cardinality(Editing))
  BY DEF Ceiling
<1>9. Ceiling' \in Nat /\ Ceiling <= Ceiling' /\ Cardinality(Editing') <= actions'
  BY <1>2, <1>5, <1>6, <1>7, <1>8
<1>10. Counts'
  BY <1>2, <1>5, <1>6, <1>9 DEF TimeInv, Counts
<1> DEFINE n == Ceiling'
<1>11. /\ Upto(Ceiling) \subseteq Upto(n) /\ NoRecord \in Upto(n)
       /\ Versions(0..Ceiling) \subseteq Versions(0..n)
  BY <1>5, <1>9, UptoGrows DEF Upto
<1> HIDE DEF n
<1>12. ASSUME NEW u \in Tasks
       PROVE  task'[u].copy \in Upto(n) /\ \A s \in Server : task'[u].got[s] \in Upto(n)
  <2>1. CASE u = t
    BY <1>1, <1>3, <1>11, <2>1 DEF TimeInv, TimesWithin
  <2>2. CASE u # t
    BY <1>3, <1>11, <2>2 DEF TimeInv, TimesWithin
  <2> QED
    BY <2>1, <2>2
<1>13. local' \in Upto(n) /\ served' \subseteq Versions(0..n)
  BY <1>2, <1>11 DEF TimeInv, TimesWithin
<1>14. TimesWithin(Ceiling)'
  BY <1>12, <1>13 DEF TimesWithin, n
<1> QED
  BY <1>10, <1>14 DEF TimeInv

LEMMA AskTimes ==
  ASSUME SyncInv, TimeInv, NEW t \in Tasks,
         (\E s \in Server : ServerAnswers(t, s)) \/ PreferredFails(t)
  PROVE  TimeInv'
<1>1. task[t] \in TaskType /\ task[t].copy \in Upto(Ceiling)
      /\ \A s \in Server : task[t].got[s] \in Upto(Ceiling)
  BY DEF SyncInv, SyncTypes, TimeInv, TimesWithin
<1>2. UNCHANGED <<local, served, countVars, deleteVars>>
  BY DEF ServerAnswers, PreferredFails
<1>3. wiped' = wiped
  BY <1>2 DEF deleteVars
<1>4. CASE \E s \in Server : ServerAnswers(t, s)
  <2>1. PICK s \in Server, v \in served \cup {NoRecord} :
          task' = [task EXCEPT ![t].ask = @ \ {s}, ![t].got[s] = v]
    BY <1>4 DEF ServerAnswers
  <2> DEFINE k == [task[t] EXCEPT !.ask = @ \ {s}, !.got[s] = v]
  <2>2. task' = [task EXCEPT ![t] = k]
    BY <2>1 DEF SyncInv, SyncTypes
  <2>3. v \in Upto(Ceiling)
    BY <2>1 DEF TimeInv, TimesWithin, Upto
  <2>4. k.op = task[t].op /\ k.copy = task[t].copy
        /\ \A z \in Server : k.got[z] \in {v, task[t].got[z]}
    BY <1>1 DEF TaskType
  <2> HIDE DEF k
  <2>5. k.copy \in Upto(Ceiling) /\ \A z \in Server : k.got[z] \in Upto(Ceiling)
    BY <1>1, <2>3, <2>4
  <2> QED
    BY <1>2, <1>3, <2>2, <2>4, <2>5, GoOnTimes
<1>5. CASE PreferredFails(t)
  <2> DEFINE k == [task[t] EXCEPT !.first = "failed", !.ask = Server \ {First}]
  <2>1. task' = [task EXCEPT ![t] = k]
    BY <1>5 DEF PreferredFails, SyncInv, SyncTypes
  <2>2. k.op = task[t].op /\ k.copy = task[t].copy /\ k.got = task[t].got
    BY <1>1 DEF TaskType
  <2> HIDE DEF k
  <2> QED
    BY <1>1, <1>2, <1>3, <2>1, <2>2, GoOnTimes
<1> QED
  BY <1>4, <1>5

LEMMA PutTimes ==
  ASSUME SyncInv, TimeInv, NEW t \in Tasks,
         \/ PreferredAnswers(t) \/ SettleRead(t) \/ Abandon(t) \/ PutRestored(t)
         \/ PutTombstone(t) \/ Purge(t) \/ PutEdit(t)
  PROVE  TimeInv'
<1> DEFINE n == IF task[t].op = "edit" THEN Ceiling + 1 ELSE Ceiling
<1>1. End(t) /\ UNCHANGED countVars
  BY DEF PreferredAnswers, SettleRead, Abandon, PutRestored, PutTombstone, Purge, PutEdit
<1>2. /\ Ceiling \in Nat /\ n \in Nat /\ Ceiling <= n /\ MaxTime \in Nat
      /\ now \in 0..Ceiling /\ now \in 0..n /\ 0 \in 0..n /\ 0 \in 0..MaxTime
      /\ now \in 0..MaxTime /\ wiped \in 0..MaxTime
  BY CeilingBounds DEF TimeInv, Counts
<1>3. wiped' \in {0, wiped, now}
  BY DEF PreferredAnswers, SettleRead, Abandon, PutRestored, PutTombstone, Purge, PutEdit, Keep,
     deleteVars
<1> HIDE DEF n
<1>4. Upto(Ceiling) \subseteq Upto(n) /\ Versions(0..Ceiling) \subseteq Versions(0..n)
  BY <1>2, UptoGrows
<1>5. /\ local \in Upto(n) /\ served \subseteq Versions(0..n)
      /\ task[t].copy \in Upto(n) /\ \A s \in Server : task[t].got[s] \in Upto(n)
      /\ NoRecord \in Upto(n)
  BY <1>4 DEF TimeInv, TimesWithin, Upto
<1>6. /\ Written(now) \in Versions(0..n) /\ Restored(now) \in Versions(0..n)
      /\ Tombstone(now) \in Versions(0..n)
  BY <1>2, NewWithin
<1>7. \A v : v \in Versions(0..n) => v \in Upto(n)
  BY DEF Upto
<1>8. local' \in Upto(n) /\ served' \subseteq Versions(0..n)
  <2>1. CASE PreferredAnswers(t)
    BY <1>5, <2>1, SyncAssumption DEF SyncAssumption, PreferredAnswers, Keep
  <2>2. CASE SettleRead(t)
    <3>1. PICK best \in {task[t].got[s] : s \in Server} \cup {NoRecord} :
            /\ local' = best \/ local' = local
            /\ UNCHANGED served \/ (task[t].copy # NoRecord /\ Tell("write", task[t].copy))
      BY <2>2 DEF SettleRead, Keep
    <3>2. local' \in Upto(n)
      BY <1>5, <3>1
    <3>3. CASE task[t].copy # NoRecord /\ Tell("write", task[t].copy)
      <4>1. task[t].copy \in Versions(0..n)
        BY <1>5, <3>3 DEF Upto
      <4> QED
        BY <1>2, <1>5, <3>2, <3>3, <4>1, TellKeeps
    <3> QED
      BY <1>5, <3>1, <3>2, <3>3
  <2>3. CASE Abandon(t)
    BY <1>5, <2>3 DEF Abandon
  <2>4. CASE PutRestored(t)
    BY <1>2, <1>5, <1>6, <1>7, <2>4, TellKeeps DEF PutRestored
  <2>5. CASE PutTombstone(t)
    BY <1>2, <1>5, <1>6, <1>7, <2>5, TellKeeps DEF PutTombstone
  <2>6. CASE Purge(t)
    BY <1>2, <1>5, <2>6, TellKeeps DEF Purge
  <2>7. CASE PutEdit(t)
    <3> DEFINE at == Later(task[t].copy)
               v == [task[t].copy EXCEPT !.updated = at]
    <3>1. Keep(v) /\ Tell("edit", at) /\ task[t].op = "edit"
      BY <2>7 DEF PutEdit
    <3>2. task[t].copy \in Versions(0..Ceiling)
      <4>1. task[t].copy # NoRecord
        BY <3>1 DEF SyncInv, SyncTypes, Formed
      <4> QED
        BY <4>1 DEF TimeInv, TimesWithin, Upto
    <3>3. at \in 0..n
      <4>1. task[t].copy.updated \in 0..Ceiling /\ n = Ceiling + 1
        BY <3>1, <3>2 DEF Versions, n
      <4> QED
        BY <1>2, <4>1 DEF Later
    <3>4. v \in Versions(0..n)
      <4>1. task[t].copy \in Versions(0..n)
        BY <1>4, <3>2
      <4> HIDE DEF at
      <4> QED
        BY <3>3, <4>1 DEF Versions
    <3> HIDE DEF at, v
    <3>5. served' \subseteq Versions(0..n)
      BY <1>2, <1>5, <3>1, <3>3, TellKeeps
    <3> QED
      BY <1>7, <3>1, <3>4, <3>5 DEF Keep
  <2> QED
    BY <2>1, <2>2, <2>3, <2>4, <2>5, <2>6, <2>7
<1> QED
  BY <1>1, <1>2, <1>3, <1>8, EndTimes DEF n

LEMMA OtherTimes ==
  ASSUME SyncInv, TimeInv,
         Write \/ (\E what \in {"edit", "restore", "delete"} : Foreign(what)) \/ Tick
  PROVE  TimeInv'
<1>1. task' = task /\ Editing' = Editing
  BY DEF Write, Foreign, Tick, Editing
<1>2. /\ Ceiling \in Nat /\ MaxTime \in Nat /\ MaxActions \in Nat /\ MaxForeign \in Nat
      /\ 0 \in 0..Ceiling /\ now \in 0..Ceiling /\ Cardinality(Editing) \in Nat
      /\ actions \in Nat /\ foreign \in Nat
  BY CeilingBounds, SyncAssumption DEF SyncAssumption, TimeInv, Counts
<1>3. /\ actions' \in {actions, actions + 1} /\ actions' <= MaxActions
      /\ foreign' \in {foreign, foreign + 1} /\ foreign' <= MaxForeign
      /\ now' \in 1..MaxTime /\ wiped' \in {0, wiped}
  BY <1>2 DEF TimeInv, Counts, Write, Foreign, Tick, deleteVars
<1>4. Ceiling' = MaxTime + (actions' - Cardinality(Editing))
  BY <1>1 DEF Ceiling
<1>5. Ceiling = MaxTime + (actions - Cardinality(Editing))
  BY DEF Ceiling
<1>6. Ceiling' \in Nat /\ Ceiling <= Ceiling'
  BY <1>2, <1>3, <1>4, <1>5
<1>7. Counts'
  BY <1>1, <1>2, <1>3 DEF TimeInv, Counts
<1> DEFINE n == Ceiling'
<1>8. Upto(Ceiling) \subseteq Upto(n) /\ Versions(0..Ceiling) \subseteq Versions(0..n)
  BY <1>2, <1>6, UptoGrows
<1>9. now \in 0..n /\ 0 \in 0..n /\ n \in Nat
  BY <1>2, <1>6
<1> HIDE DEF n
<1>10. Written(now) \in Versions(0..n) /\ \A v \in Versions(0..n) : v \in Upto(n)
  BY <1>9, NewWithin DEF Upto
<1>11. /\ local \in Upto(n) /\ served \subseteq Versions(0..n)
       /\ \A t \in Tasks : task[t].copy \in Upto(n) /\ \A s \in Server : task[t].got[s] \in Upto(n)
  BY <1>8 DEF TimeInv, TimesWithin
<1>12. local' \in Upto(n)
  BY <1>10, <1>11 DEF Write, Foreign, Tick
<1>13. served' \subseteq Versions(0..n)
  <2>1. CASE Write
    <3>1. Tell("write", Written(now))
      BY <2>1 DEF Write
    <3> QED
      BY <1>9, <1>10, <1>11, <3>1, TellKeeps
  <2>2. ASSUME NEW what \in {"edit", "restore", "delete"}, Foreign(what)
        PROVE  served' \subseteq Versions(0..n)
    BY <1>9, <1>11, <2>2, TellKeeps DEF Foreign
  <2>3. CASE Tick
    BY <1>11, <2>3 DEF Tick
  <2> QED
    BY <2>1, <2>2, <2>3
<1>14. TimesWithin(Ceiling)'
  BY <1>1, <1>11, <1>12, <1>13 DEF TimesWithin, n
<1> QED
  BY <1>7, <1>14 DEF TimeInv

LEMMA TimeStarts == SyncInit => TimeInv
<1> SUFFICES ASSUME SyncInit PROVE TimeInv
  OBVIOUS
<1>1. \A t \in Tasks : task[t].op = "idle" /\ task[t].copy = NoRecord
                       /\ \A s \in Server : task[t].got[s] = NoRecord
  BY DEF SyncInit, Idle
<1>2. Editing = {}
  BY <1>1 DEF Editing
<1>3. Counts
  BY <1>2, FS_EmptySet, SyncAssumption DEF SyncAssumption, SyncInit, Counts
<1>4. /\ Ceiling \in Nat /\ 1 \in 0..Ceiling
  BY <1>3, CeilingBounds DEF SyncInit
<1>5. Written(1) \in Versions(0..Ceiling)
  BY <1>4, NewWithin
<1>6. TimesWithin(Ceiling)
  BY <1>1, <1>5 DEF SyncInit, TimesWithin, Upto
<1> QED
  BY <1>3, <1>6 DEF TimeInv

LEMMA TimeStep == SyncInv /\ TimeInv /\ [SyncNext]_syncVars => TimeInv'
<1> SUFFICES ASSUME SyncInv, TimeInv, [SyncNext]_syncVars PROVE TimeInv'
  OBVIOUS
<1>1. CASE UNCHANGED syncVars
  BY <1>1 DEF syncVars, countVars, deleteVars, TimeInv, Counts, TimesWithin, Ceiling, Editing
<1> QED
  BY <1>1, StartTimes, AskTimes, PutTimes, OtherTimes DEF SyncNext

LEMMA SyncMeans == SyncInv /\ TimeInv => SyncTypeOK
<1> SUFFICES ASSUME SyncInv, TimeInv PROVE SyncTypeOK
  OBVIOUS
<1>1. Ceiling \in Nat /\ MaxTime + MaxActions \in Nat /\ Ceiling <= MaxTime + MaxActions
  BY CeilingBounds DEF TimeInv
<1>2. Upto(Ceiling) \subseteq MaybeVersion /\ Versions(0..Ceiling) \subseteq Version
  BY <1>1, UptoGrows DEF Version, MaybeVersion, Upto
<1>3. local \in MaybeVersion /\ served \subseteq Version
  BY <1>2 DEF TimeInv, TimesWithin
<1>4. ASSUME NEW t \in Tasks
      PROVE  task[t] \in [op : {"idle", "read", "wait", "edit", "restore", "remove", "purge"},
                          copy : MaybeVersion, ask : SUBSET Server,
                          first : {"no", "asked", "failed"}, got : [Server -> MaybeVersion]]
  <2>1. task[t] \in TaskType
    BY DEF SyncInv, SyncTypes
  <2>2. task[t].copy \in MaybeVersion /\ \A s \in Server : task[t].got[s] \in MaybeVersion
    BY <1>2 DEF TimeInv, TimesWithin
  <2>3. task[t].got \in [Server -> MaybeVersion]
    BY <2>1, <2>2 DEF TaskType
  <2> QED
    BY <2>1, <2>2, <2>3 DEF TaskType
<1> QED
  BY <1>3, <1>4 DEF SyncTypeOK, SyncInv, SyncTypes, TimeInv, Counts

(* Every variable has its type.  The times of versions may run ahead of the *)
(* clock, since a patch takes the time behind that of the copy it has read; *)
(* but they exceed the last time of the clock by no more than the number of *)
(* actions that are not edits under way.                                    *)
THEOREM SyncTyped == SyncSpec => [](SyncTypeOK /\ TimesWithin(Ceiling))
<1>1. SyncInv /\ TimeInv => SyncTypeOK /\ TimesWithin(Ceiling)
  BY SyncMeans DEF TimeInv
<1> QED
  BY <1>1, SyncInitInv, SyncStep, TimeStarts, TimeStep, PTL DEF SyncSpec

-----------------------------------------------------------------------------
(* The broker: the lock, the port and the connections *)

(* A process that does anything runs, and only the one with the store binds *)
(* the port.                                                                *)
Abodes ==
  /\ alive \subseteq Procs /\ owner \in alive \cup {Nobody}
  /\ listener \in {owner, Nobody}
  /\ client \in [Procs -> Stages] /\ faults \in 0..MaxFaults
  /\ \A p \in Procs : /\ client[p] # "off" => p \in alive
                      /\ client[p] = "bind" => owner = p

Tries ==
  /\ round \in [Procs -> 0..Rounds]
  /\ left \in [Procs -> 0..(Attach + AttachAgain)]

Calls == [by : Procs, nr : 1..MaxOps, again : BOOLEAN, waits : BOOLEAN, done : BOOLEAN]

(* Operations are counted, and a process works on the last it began. *)
Counted ==
  /\ healed \in [Procs -> BOOLEAN]
  /\ op \in [Procs -> 0..MaxOps] /\ begun \in [Procs -> 0..MaxOps]
  /\ \A p \in Procs : /\ op[p] # 0 => op[p] = begun[p] /\ Op(p) \notin answered
                      /\ client[p] = "calling" => op[p] # 0
  /\ answered \subseteq Ops /\ timedOut \subseteq Ops
  /\ \A o \in answered : o.nr <= begun[o.by]

(* What the broker has of one request: its caller waits for it, or waits no *)
(* longer because it timed out, or has gone on to another operation or      *)
(* ended.  One whose operation is answered is done, or timed out.           *)
Known(c) ==
  /\ c.nr <= begun[c.by]
  /\ c.done => c.waits
  /\ c.waits => client[c.by] = "calling" /\ c.nr = op[c.by]
  /\ ~c.waits /\ c.nr = op[c.by] => OpOf(c) \in timedOut
  /\ ~c.done /\ OpOf(c) \in answered => OpOf(c) \in timedOut

Sendings ==
  /\ calls \subseteq Calls /\ log \in Seq(Effects)
  /\ calls # {} => listener # Nobody
  /\ \A c \in calls : Known(c)
  /\ \A c, d \in calls : c.waits /\ d.waits /\ c.by = d.by => c = d

BrokerInv == Abodes /\ Tries /\ Counted /\ Sendings

LEMMA BrokerStarts == BrokerInit => BrokerInv
<1> SUFFICES ASSUME BrokerInit PROVE BrokerInv
  OBVIOUS
<1> USE BrokerAssumption DEF BrokerInit
<1>1. Abodes
  BY DEF Abodes, Stages
<1>2. Tries
  BY DEF Tries
<1>3. Counted
  <2>1. healed \in [Procs -> BOOLEAN]
    BY Zenon
  <2> QED
    BY <2>1 DEF Counted
<1>4. Sendings
  BY DEF Sendings
<1> QED
  BY <1>1, <1>2, <1>3, <1>4 DEF BrokerInv

(* What the clients that are told and the processes that are gone do, when  *)
(* those told were waiting for an answer.                                   *)
LEMMA TellingIsSafe ==
  ASSUME NEW told, NEW gone, Unavailable(told, gone),
         Abodes, Tries, Counted,
         \A p \in told : p \in Procs /\ client[p] = "calling",
         gone \subseteq Procs, told \cap gone = {}
  PROVE  /\ client' \in [Procs -> Stages]
         /\ \A p \in Procs : /\ client'[p] # "off" => client[p] # "off" /\ p \notin gone
                             /\ client'[p] = "bind" => client[p] = "bind" /\ p \notin gone
                             /\ client'[p] = "calling" => p \notin told \cup gone
                             /\ p \in gone => op'[p] = 0
                             /\ op'[p] # 0 => op'[p] = op[p]
                             /\ p \notin told \cup gone => client'[p] = client[p] /\ op'[p] = op[p]
         /\ Tries' 
         /\ healed' \in [Procs -> BOOLEAN]
         /\ op' \in [Procs -> 0..MaxOps] /\ begun' = begun
         /\ \A o \in answered' : o \in answered \/ \E p \in told : o = Op(p) /\ op'[p] = 0
         /\ answered' \subseteq Ops
<1> DEFINE again == {p \in told : ~healed[p]}
           over == told \ again
<1>1. /\ healed' = [p \in Procs |-> healed[p] \/ p \in again]
      /\ client' = [p \in Procs |-> IF p \in again THEN "fast"
                                   ELSE IF p \in over THEN "ready"
                                   ELSE IF p \in gone THEN "off" ELSE client[p]]
      /\ round' = [p \in Procs |-> IF p \in again THEN 0 ELSE round[p]]
      /\ op' = [p \in Procs |-> IF p \in over \cup gone THEN 0 ELSE op[p]]
      /\ answered' = answered \cup {Op(p) : p \in over}
      /\ left' = left /\ begun' = begun
  BY DEF Unavailable
<1>2. told = again \cup over /\ told \subseteq Procs
  OBVIOUS
<1> HIDE DEF again, over
<1>3. healed' \in [Procs -> BOOLEAN]
  BY <1>1, Zenon
<1>4. client' \in [Procs -> Stages]
  BY <1>1 DEF Abodes, Stages
<1>5. op' \in [Procs -> 0..MaxOps]
  BY <1>1, BrokerAssumption DEF Counted
<1>6. Tries'
  BY <1>1, BrokerAssumption DEF Tries
<1>7. ASSUME NEW p \in Procs
      PROVE  /\ client'[p] # "off" => client[p] # "off" /\ p \notin gone
             /\ client'[p] = "bind" => client[p] = "bind" /\ p \notin gone
             /\ client'[p] = "calling" => p \notin told \cup gone
             /\ p \in gone => op'[p] = 0
             /\ op'[p] # 0 => op'[p] = op[p]
             /\ p \notin told \cup gone => client'[p] = client[p] /\ op'[p] = op[p]
  BY <1>1, <1>2
<1>8. \A o \in answered' : o \in answered \/ \E p \in told : o = Op(p) /\ op'[p] = 0
  BY <1>1, <1>2
<1>9. answered' \subseteq Ops
  BY <1>1, <1>2, BrokerAssumption DEF Counted, Op, Ops
<1> QED
  BY <1>1, <1>3, <1>4, <1>5, <1>6, <1>7, <1>8, <1>9

(* What the steps of a connection have in common: the operation that waits  *)
(* for it goes on, or ends in an error.                                     *)
Moves(p) ==
  /\ client[p] # "calling"
  /\ \A q \in Procs \ {p} : client'[q] = client[q]
  /\ \/ /\ UNCHANGED <<op, answered>>
        /\ client'[p] = "calling" => op[p] # 0
     \/ /\ op' = [op EXCEPT ![p] = 0] /\ client'[p] # "calling"
        /\ answered' = IF op[p] = 0 THEN answered ELSE answered \cup {Op(p)}
  /\ UNCHANGED <<calls, log, timedOut, begun, healed>>
  /\ calls # {} => listener' # Nobody

LEMMA MovesKeep ==
  ASSUME BrokerInv, NEW p \in Procs, Moves(p)
  PROVE  Counted' /\ Sendings'
<1> USE DEF BrokerInv
<1>1. /\ op' \in [Procs -> 0..MaxOps]
      /\ \A q \in Procs : op'[q] = op[q] \/ (q = p /\ op'[q] = 0)
  BY BrokerAssumption DEF Moves, Counted
<1>2. /\ answered \subseteq answered' /\ answered' \subseteq Ops
      /\ \A o \in answered' : o \in answered \/ (o = Op(p) /\ op[p] # 0 /\ op'[p] = 0)
  <2>1. op[p] # 0 => Op(p) \in Ops
    BY BrokerAssumption DEF Counted, Ops, Op
  <2>2. op' = [op EXCEPT ![p] = 0] => op'[p] = 0
    BY DEF Counted
  <2> QED
    BY <2>1, <2>2 DEF Moves, Counted
<1>3. Counted'
  <2>1. healed' \in [Procs -> BOOLEAN]
    BY Zenon DEF Moves, Counted
  <2>2. ASSUME NEW q \in Procs
        PROVE  /\ op'[q] # 0 => op'[q] = begun'[q] /\ (Op(q) \notin answered)'
               /\ client'[q] = "calling" => op'[q] # 0
    <3>1. op'[q] # 0 => op'[q] = op[q] /\ op[q] = begun[q] /\ Op(q) \notin answered
      BY <1>1 DEF Counted
    <3>2. ASSUME op'[q] # 0 PROVE [by |-> q, nr |-> op[q]] \notin answered'
      BY <1>1, <1>2, <3>1, <3>2 DEF Op
    <3>3. client'[q] = "calling" => op'[q] # 0
      BY DEF Moves, Counted
    <3> QED
      BY <3>1, <3>2, <3>3 DEF Moves, Op
  <2>3. \A o \in answered' : o.nr <= begun[o.by]
    BY <1>2, BrokerAssumption DEF Counted, Op
  <2> QED
    BY <1>1, <1>2, <2>1, <2>2, <2>3 DEF Counted, Moves
<1>4. ASSUME NEW c \in calls PROVE Known(c)'
  <2>1. Known(c) /\ c \in Calls
    BY DEF Sendings
  <2>2. c.by \in Procs /\ c.nr \in Nat /\ c.nr # 0
    BY <2>1, BrokerAssumption DEF Calls
  <2>3. c.waits => c.by # p
    BY <2>1 DEF Known, Moves
  <2>4. OpOf(c) \in answered' /\ OpOf(c) \notin answered => ~c.waits /\ c.nr = op[c.by]
    BY <1>2, <2>2, <2>3 DEF OpOf, Op
  <2> QED
    BY <1>1, <2>1, <2>2, <2>3, <2>4 DEF Known, OpOf, Moves
<1>5. Sendings'
  BY <1>4 DEF Sendings, Moves
<1> QED
  BY <1>3, <1>5

LEMMA ConnectionsMove ==
  ASSUME BrokerInv, NEW p \in Procs,
         Connect(p) \/ FastOpen(p) \/ TakeStore(p) \/ Bind(p) \/ OpenOwn(p) \/ AttachOpen(p)
  PROVE  Moves(p) /\ Abodes' /\ Tries'
<1> USE BrokerAssumption DEF BrokerInv, Abodes, Tries, Goto, Stages
<1>1. CASE Connect(p)
  BY <1>1 DEF Connect, Moves, opVars, faultVars, Sendings
<1>2. CASE FastOpen(p)
  <2>1. /\ client[p] = "fast" /\ KeepOp
        /\ UNCHANGED <<storeVars, calls, log, timedOut, round, left>>
        /\ \/ client' = [client EXCEPT ![p] = IF op[p] = 0 THEN "ready" ELSE "calling"]
           \/ client' = [client EXCEPT ![p] = "take"]
        /\ faults' \in 0..MaxFaults
    BY <1>2 DEF FastOpen, OpenAnswers, OpenFails, Connected
  <2>2. Moves(p)
    BY <2>1 DEF Moves, KeepOp, opVars, storeVars, Sendings
  <2> QED
    BY <2>1, <2>2 DEF storeVars
<1>3. CASE TakeStore(p)
  <2>1. Moves(p)
    BY <1>3 DEF TakeStore, Moves, opVars, faultVars, Sendings
  <2>2. Tries'
    BY <1>3 DEF TakeStore
  <2>3. Abodes'
    <3>1. CASE owner = Nobody
      BY <1>3, <3>1 DEF TakeStore, faultVars
    <3>2. CASE owner # Nobody
      BY <1>3, <3>2 DEF TakeStore, faultVars
    <3> QED
      BY <3>1, <3>2
  <2> QED
    BY <2>1, <2>2, <2>3
<1>4. CASE Bind(p)
  BY <1>4 DEF Bind, Moves, opVars, faultVars, Sendings
<1>5. ASSUME GiveUp(p), client[p] \in {"own", "attach"}, UNCHANGED <<storeVars, calls, log, timedOut>>,
             faults' \in 0..MaxFaults
      PROVE  Moves(p) /\ Abodes' /\ Tries'
  <2>1. Moves(p)
    BY <1>5 DEF GiveUp, Moves, storeVars, Sendings
  <2>2. Abodes' /\ Tries'
    BY <1>5 DEF GiveUp, storeVars
  <2> QED
    BY <2>1, <2>2
<1>6. ASSUME NextRound(p), client[p] \in {"own", "attach"}, UNCHANGED <<storeVars, calls, log, timedOut>>,
             faults' \in 0..MaxFaults
      PROVE  Moves(p) /\ Abodes' /\ Tries'
  <2>1. CASE round[p] < Rounds
    <3>1. Moves(p)
      BY <1>6, <2>1 DEF NextRound, KeepOp, opVars, Moves, storeVars, Sendings
    <3>2. Abodes' /\ Tries'
      BY <1>6, <2>1 DEF NextRound, storeVars
    <3> QED
      BY <3>1, <3>2
  <2>2. CASE ~(round[p] < Rounds)
    BY <1>5, <1>6, <2>2 DEF NextRound
  <2> QED
    BY <2>1, <2>2
<1>7. CASE OpenOwn(p)
  <2>1. CASE OpenAnswers(p, "own") /\ Connected(p) /\ KeepOp
    BY <1>7, <2>1 DEF OpenOwn, OpenAnswers, Connected, KeepOp, opVars, Moves, storeVars, Sendings
  <2>2. CASE OpenFails(p, "own") /\ (GiveUp(p) \/ NextRound(p))
    BY <1>5, <1>6, <1>7, <2>2 DEF OpenOwn, OpenFails
  <2> QED
    BY <1>7, <2>1, <2>2 DEF OpenOwn
<1>8. CASE AttachOpen(p)
  <2>1. CASE OpenAnswers(p, "attach") /\ Connected(p) /\ KeepOp
    BY <1>8, <2>1 DEF AttachOpen, OpenAnswers, Connected, KeepOp, opVars, Moves, storeVars, Sendings
  <2>2. CASE OpenFails(p, "attach") /\ left[p] > 1 /\ left' = [left EXCEPT ![p] = @ - 1]
             /\ UNCHANGED <<client, round>> /\ KeepOp
    <3>1. Moves(p)
      BY <1>8, <2>2 DEF AttachOpen, OpenFails, KeepOp, opVars, Moves, storeVars, Sendings
    <3>2. Abodes' /\ Tries'
      BY <1>8, <2>2 DEF AttachOpen, OpenFails, storeVars
    <3> QED
      BY <3>1, <3>2
  <2>3. CASE OpenFails(p, "attach") /\ NextRound(p)
    BY <1>6, <1>8, <2>3 DEF AttachOpen, OpenFails
  <2> QED
    BY <1>8, <2>1, <2>2, <2>3 DEF AttachOpen
<1> QED
  BY <1>1, <1>2, <1>3, <1>4, <1>7, <1>8
(* A new operation has a number that no request has. *)
LEMMA BeginKeeps ==
  ASSUME BrokerInv, NEW p \in Procs, Begin(p)
  PROVE  BrokerInv'
<1> USE BrokerAssumption DEF BrokerInv
<1>1. /\ client[p] = "ready" /\ begun[p] < MaxOps
      /\ begun' = [begun EXCEPT ![p] = @ + 1] /\ op' = [op EXCEPT ![p] = begun'[p]]
      /\ client' = [client EXCEPT ![p] = "calling"]
      /\ healed' = [healed EXCEPT ![p] = FALSE]
      /\ UNCHANGED <<storeVars, round, left, calls, log, answered, faultVars>>
  BY DEF Begin, Goto
<1>2. Abodes' /\ Tries'
  BY <1>1 DEF Abodes, Tries, Stages, storeVars, faultVars
<1>3. /\ begun' \in [Procs -> 0..MaxOps] /\ op' \in [Procs -> 0..MaxOps]
      /\ begun'[p] = begun[p] + 1 /\ op'[p] = begun[p] + 1 /\ begun[p] \in Nat
      /\ \A q \in Procs : /\ begun[q] \in Nat /\ begun'[q] \in Nat /\ begun[q] <= begun'[q]
                          /\ q # p => op'[q] = op[q] /\ begun'[q] = begun[q]
  BY <1>1 DEF Counted
<1>4. Counted'
  <2>1. healed' \in [Procs -> BOOLEAN]
    BY <1>1, Zenon DEF Counted
  <2>2. ASSUME NEW q \in Procs, op'[q] # 0
        PROVE  op'[q] = begun'[q] /\ [by |-> q, nr |-> op'[q]] \notin answered
    BY <1>3, <2>2 DEF Counted, Op
  <2>3. \A q \in Procs : client'[q] = "calling" => op'[q] # 0
    BY <1>1, <1>3 DEF Counted, Abodes
  <2>4. \A o \in answered : o.nr <= begun'[o.by]
    BY <1>3 DEF Counted, Ops
  <2> QED
    BY <1>1, <1>3, <2>1, <2>2, <2>3, <2>4 DEF Counted, Op, faultVars
<1>5. ASSUME NEW c \in calls PROVE Known(c)'
  <2>1. Known(c) /\ c.by \in Procs /\ c.nr \in Nat
    BY DEF Sendings, Calls
  <2>2. c.waits => c.by # p
    BY <1>1, <2>1 DEF Known
  <2>3. c.by = p => c.nr # op'[p]
    BY <1>3, <2>1 DEF Known
  <2>4. c.nr <= begun'[c.by] /\ (c.by # p => client'[c.by] = client[c.by])
    BY <1>1, <1>3, <2>1 DEF Known, Abodes
  <2> QED
    BY <1>1, <1>3, <2>1, <2>2, <2>3, <2>4 DEF Known, OpOf, faultVars
<1>6. Sendings'
  BY <1>1, <1>5 DEF Sendings, storeVars
<1> QED
  BY <1>2, <1>4, <1>6

(* What a request d is when clients are told and processes gone: the same,  *)
(* or nobody waits for it any more.                                         *)
Left(c, d, told, gone) ==
  /\ c \in Calls /\ c.by = d.by /\ c.nr = d.nr /\ c.done = d.done
  /\ c.done => c.waits
  /\ c.waits => c = d /\ d.by \notin told \cup gone
  /\ ~c.waits /\ d.waits => d.by \in told \cup gone

(* Clients are told that the broker is unavailable when it has nothing left *)
(* of them, or when their request has timed out.                            *)
LEMMA ToldKeeps ==
  ASSUME BrokerInv, NEW told, NEW gone, Unavailable(told, gone),
         \A p \in told : p \in Procs /\ client[p] = "calling",
         gone \subseteq Procs, told \cap gone = {},
         timedOut \subseteq timedOut', timedOut' \subseteq Ops, log' = log,
         calls' # {} => listener' # Nobody,
         calls' # {} => \A p \in told : Op(p) \in timedOut',
         \A c \in calls' : \E d \in calls : Left(c, d, told, gone)
  PROVE  Tries' /\ Counted' /\ Sendings'
<1> USE BrokerAssumption DEF BrokerInv
<1>1. /\ \A p \in Procs : /\ p \in gone => op'[p] = 0
                          /\ op'[p] # 0 => op'[p] = op[p]
                          /\ p \notin told \cup gone => client'[p] = client[p] /\ op'[p] = op[p]
                          /\ client'[p] = "calling" => p \notin told \cup gone
      /\ Tries' /\ healed' \in [Procs -> BOOLEAN]
      /\ op' \in [Procs -> 0..MaxOps] /\ begun' = begun
      /\ \A o \in answered' : o \in answered \/ \E p \in told : o = Op(p) /\ op'[p] = 0
      /\ answered' \subseteq Ops
  BY TellingIsSafe
<1>2. Counted'
  <2>1. ASSUME NEW q \in Procs, op'[q] # 0
        PROVE  op'[q] = begun'[q] /\ [by |-> q, nr |-> op'[q]] \notin answered'
    <3>1. op'[q] = op[q] /\ op[q] = begun[q] /\ [by |-> q, nr |-> op[q]] \notin answered
      BY <1>1, <2>1 DEF Counted, Op
    <3>2. ASSUME NEW p \in told, [by |-> q, nr |-> op[q]] = Op(p), op'[p] = 0 PROVE FALSE
      BY <2>1, <3>2 DEF Op
    <3> QED
      BY <1>1, <3>1, <3>2
  <2>2. \A q \in Procs : client'[q] = "calling" => op'[q] # 0
    BY <1>1 DEF Counted
  <2>3. \A o \in answered' : o.nr <= begun[o.by]
    <3>1. ASSUME NEW p \in told PROVE Op(p).nr <= begun[Op(p).by]
      <4>1. op[p] = begun[p] /\ begun[p] \in Nat
        BY <3>1 DEF Counted
      <4> QED
        BY <4>1 DEF Op
    <3> QED
      BY <1>1, <3>1 DEF Counted
  <2> QED
    BY <1>1, <2>1, <2>2, <2>3 DEF Counted, Op
<1>3. ASSUME NEW c \in calls'
      PROVE  Known(c)' /\ c \in Calls
  <2>1. PICK d \in calls : Left(c, d, told, gone)
    BY <1>3
  <2>2. Known(d) /\ c \in Calls /\ c.by \in Procs /\ c.nr \in Nat /\ c.nr # 0
    BY <2>1 DEF Left, Sendings, Calls
  <2>3. c.waits => client'[c.by] = "calling" /\ c.nr = op'[c.by]
    BY <1>1, <2>1, <2>2 DEF Left, Known
  <2>4. ASSUME ~c.waits, c.nr = op'[c.by] PROVE OpOf(c) \in timedOut'
    <3>1. op'[c.by] = op[c.by] /\ c.by \notin gone
      BY <1>1, <2>2, <2>4
    <3>2. CASE d.waits
      <4>1. c.by \in told
        BY <2>1, <2>4, <3>1, <3>2 DEF Left
      <4>2. Op(c.by) = OpOf(c)
        BY <2>4, <3>1 DEF Op, OpOf
      <4> QED
        BY <1>3, <4>1, <4>2
    <3>3. CASE ~d.waits
      BY <2>1, <2>2, <2>4, <3>1, <3>3 DEF Known, OpOf, Left
    <3> QED
      BY <3>2, <3>3
  <2>5. ASSUME ~c.done, OpOf(c) \in answered' PROVE OpOf(c) \in timedOut'
    <3>1. CASE OpOf(c) \in answered
      BY <2>1, <2>2, <2>5, <3>1 DEF Known, OpOf, Left
    <3>2. CASE \E p \in told : OpOf(c) = Op(p)
      BY <1>3, <3>2
    <3> QED
      BY <1>1, <2>5, <3>1, <3>2
  <2>6. c.nr <= begun'[c.by] /\ (c.done => c.waits)
    BY <1>1, <2>1, <2>2 DEF Known, Left
  <2> QED
    BY <2>2, <2>3, <2>4, <2>5, <2>6 DEF Known, OpOf
<1>4. Sendings'
  <2>1. ASSUME NEW c \in calls', c.waits PROVE c \in calls
    BY <2>1 DEF Left
  <2> QED
    BY <1>3, <2>1 DEF Sendings
<1> QED
  BY <1>1, <1>2, <1>4

LEMMA SendKeeps ==
  ASSUME BrokerInv, NEW p \in Procs, Send(p)
  PROVE  BrokerInv'
<1> USE BrokerAssumption DEF BrokerInv
<1>1. Abodes' /\ Tries' /\ Counted' /\ Sendings'
  <2>1. CASE listener = Nobody
    <3>1. Unavailable({p}, {}) /\ UNCHANGED <<calls, storeVars, log, faultVars>> /\ client[p] = "calling"
      BY <2>1 DEF Send
    <3>2. calls = {} /\ calls' = {} /\ log' = log /\ timedOut' = timedOut /\ timedOut \subseteq Ops
      BY <2>1, <3>1 DEF Sendings, Counted, faultVars
    <3>3. Tries' /\ Counted' /\ Sendings'
      BY <3>1, <3>2, ToldKeeps
    <3>4. Abodes'
      <4>1. /\ client' \in [Procs -> Stages]
            /\ \A q \in Procs : /\ client'[q] # "off" => client[q] # "off"
                                /\ client'[q] = "bind" => client[q] = "bind"
        BY <3>1, TellingIsSafe
      <4> QED
        BY <3>1, <4>1 DEF Abodes, storeVars, faultVars
    <3> QED
      BY <3>3, <3>4
  <2>2. CASE listener # Nobody
    <3> DEFINE c == [by |-> p, nr |-> op[p], again |-> healed[p], waits |-> TRUE, done |-> FALSE]
    <3>1. /\ client[p] = "calling" /\ Waiting(p) = {} /\ calls' = calls \cup {c}
          /\ UNCHANGED <<connVars, opVars, answered, storeVars, log, faultVars>>
      BY <2>2 DEF Send
    <3>2. Abodes' /\ Tries'
      BY <3>1 DEF Abodes, Tries, connVars, storeVars, faultVars
    <3>3. Counted'
      BY <3>1 DEF Counted, connVars, opVars, faultVars, Op
    <3>4. op[p] # 0 /\ op[p] \in 1..MaxOps /\ op[p] = begun[p] /\ Op(p) \notin answered
      BY <3>1 DEF Counted
    <3>5. c \in Calls
      <4>1. healed[p] \in BOOLEAN
        BY Zenon DEF Counted
      <4> QED
        BY <3>4, <4>1 DEF Calls
    <3>6. Known(c)
      BY <3>1, <3>4 DEF Known, OpOf, Op
    <3>7. ASSUME NEW d \in calls' PROVE Known(d)'
      <4>1. Known(d)
        BY <3>1, <3>6 DEF Sendings
      <4>2. /\ begun' = begun /\ client' = client /\ op' = op
            /\ timedOut' = timedOut /\ answered' = answered
        BY <3>1 DEF connVars, opVars, faultVars
      <4> HIDE DEF c
      <4> QED
        BY <4>1, <4>2 DEF Known, OpOf
    <3>8. \A d \in calls : d.waits => d.by # p
      BY <3>1 DEF Waiting
    <3>9. Sendings'
      <4>2. \A d \in calls' : Known(d)'
        BY <3>7
      <4>1. c.waits /\ c.by = p
        OBVIOUS
      <4> HIDE DEF c
      <4> QED
        BY <2>2, <3>1, <3>5, <3>8, <4>1, <4>2 DEF Sendings, storeVars
    <3> QED
      BY <3>2, <3>3, <3>9
  <2> QED
    BY <2>1, <2>2
<1> QED
  BY <1>1

(* The broker applies a request. *)
LEMMA ExecuteKeeps ==
  ASSUME BrokerInv, NEW c \in calls, Execute(c)
  PROVE  BrokerInv'
<1> USE BrokerAssumption DEF BrokerInv
<1>1. /\ UNCHANGED <<storeVars, connVars, opVars, answered, faultVars>>
      /\ ~c.done /\ log' = Append(log, Effect(c))
      /\ calls' = (calls \ {c}) \cup (IF c.waits THEN {[c EXCEPT !.done = TRUE]} ELSE {})
  BY DEF Execute
<1>2. Abodes' /\ Tries' /\ Counted'
  BY <1>1 DEF Abodes, Tries, Counted, storeVars, connVars, opVars, faultVars, Op
<1>3. c \in Calls /\ Known(c) /\ Effect(c) \in Effects
  BY DEF Sendings, Calls, Effect, Effects
<1>4. ASSUME NEW d \in calls'
      PROVE  d \in Calls /\ Known(d)' /\ \E e \in calls : e.by = d.by /\ e.waits = d.waits /\ (d # e => e = c)
  <2>1. d \in Calls /\ Known(d) /\ \E e \in calls : e.by = d.by /\ e.waits = d.waits /\ (d # e => e = c)
    <3>1. CASE d \in calls
      BY <3>1 DEF Sendings
    <3>2. CASE d \notin calls
      <4>1. c.waits /\ d = [c EXCEPT !.done = TRUE]
        BY <1>1, <1>4, <3>2
      <4>2. /\ d.by = c.by /\ d.nr = c.nr /\ d.waits = c.waits /\ d.done = TRUE
            /\ d \in Calls
        BY <1>3, <4>1 DEF Calls
      <4> QED
        BY <1>3, <4>1, <4>2 DEF Known, OpOf
    <3> QED
      BY <3>1, <3>2
  <2>2. /\ begun' = begun /\ client' = client /\ op' = op
        /\ timedOut' = timedOut /\ answered' = answered
    BY <1>1 DEF connVars, opVars, faultVars
  <2> QED
    BY <2>1, <2>2 DEF Known, OpOf
<1>5. \A d, e \in calls' : d.waits /\ e.waits /\ d.by = e.by => d = e
  BY <1>1, <1>3 DEF Sendings, Calls
<1>6. calls' # {} => listener' # Nobody
  BY <1>1 DEF Sendings, storeVars
<1>7. log' \in Seq(Effects)
  BY <1>1, <1>3 DEF Sendings
<1>8. calls' \subseteq Calls /\ \A d \in calls' : Known(d)'
  BY <1>4
<1>9. Sendings'
  BY <1>5, <1>6, <1>7, <1>8 DEF Sendings
<1> QED
  BY <1>2, <1>9

(* The caller gets its answer: it had no other request there that can still *)
(* be applied, unless one timed out.                                        *)
LEMMA ReplyKeeps ==
  ASSUME BrokerInv, NEW c \in calls, Reply(c)
  PROVE  BrokerInv'
<1> USE BrokerAssumption DEF BrokerInv
<1> DEFINE p == c.by
<1>1. /\ c.done /\ c.waits /\ calls' = calls \ {c}
      /\ client' = [client EXCEPT ![p] = "ready"] /\ op' = [op EXCEPT ![p] = 0]
      /\ answered' = answered \cup {Op(p)}
      /\ UNCHANGED <<storeVars, round, left, healed, begun, log, faultVars>>
  BY DEF Reply, Goto
<1>2. /\ p \in Procs /\ client[p] = "calling" /\ op[p] \in 1..MaxOps
      /\ op[p] = begun[p] /\ c.nr = op[p]
  BY <1>1 DEF Sendings, Calls, Known, Counted
<1> HIDE DEF p
<1>3. Abodes' /\ Tries'
  BY <1>1, <1>2 DEF Abodes, Tries, Stages, storeVars, faultVars
<1>4. /\ op' \in [Procs -> 0..MaxOps] /\ op'[p] = 0
      /\ \A q \in Procs \ {p} : op'[q] = op[q] /\ client'[q] = client[q]
      /\ client'[p] = "ready"
  BY <1>1, <1>2 DEF Counted, Abodes
<1>5. Counted'
  <2>1. healed' \in [Procs -> BOOLEAN]
    BY <1>1, Zenon DEF Counted
  <2>2. answered' \subseteq Ops /\ \A o \in answered' : o.nr <= begun'[o.by]
    <3>1. Op(p) \in Ops /\ Op(p).nr <= begun[Op(p).by]
      BY <1>2 DEF Ops, Op
    <3> QED
      BY <1>1, <3>1 DEF Counted
  <2>3. ASSUME NEW q \in Procs
        PROVE  /\ op'[q] # 0 => op'[q] = begun'[q] /\ [by |-> q, nr |-> op'[q]] \notin answered'
               /\ client'[q] = "calling" => op'[q] # 0
    BY <1>1, <1>4 DEF Counted, Op
  <2> QED
    BY <1>1, <1>4, <2>1, <2>2, <2>3 DEF Counted, Op, faultVars
<1>6. ASSUME NEW d \in calls' PROVE Known(d)'
  <2>1. d \in calls /\ d # c /\ Known(d) /\ d.by \in Procs /\ d.nr \in Nat /\ d.nr # 0
    BY <1>1 DEF Sendings, Calls
  <2>2. d.waits => d.by # p
    BY <1>1, <2>1 DEF Sendings, p
  <2>3. OpOf(d) = Op(p) => d.by = p /\ d.nr = op[p] /\ ~d.waits
    BY <2>2 DEF OpOf, Op
  <2>4. OpOf(d) \in answered' /\ ~d.done => OpOf(d) \in timedOut
    BY <1>1, <2>1, <2>3 DEF Known
  <2>5. timedOut' = timedOut /\ begun' = begun
    BY <1>1 DEF faultVars
  <2> QED
    BY <1>4, <2>1, <2>2, <2>4, <2>5 DEF Known, OpOf
<1>7. Sendings'
  BY <1>1, <1>6 DEF Sendings, storeVars
<1> QED
  BY <1>3, <1>5, <1>7

LEMMA TimeOutKeeps ==
  ASSUME BrokerInv, NEW c \in calls, TimeOut(c)
  PROVE  BrokerInv'
<1> USE BrokerAssumption DEF BrokerInv
<1>1. /\ c.waits /\ faults < MaxFaults /\ faults' = faults + 1
      /\ timedOut' = timedOut \cup {Op(c.by)}
      /\ calls' = (calls \ {c}) \cup (IF c.done THEN {} ELSE {[c EXCEPT !.waits = FALSE]})
      /\ Unavailable({c.by}, {}) /\ UNCHANGED <<storeVars, log>>
  BY DEF TimeOut
<1>2. /\ c \in Calls /\ c.by \in Procs /\ client[c.by] = "calling"
      /\ op[c.by] \in 1..MaxOps /\ c.nr = op[c.by]
  BY <1>1 DEF Sendings, Calls, Known, Counted
<1>3. Op(c.by) \in Ops
  BY <1>2 DEF Op, Ops
<1>4. ASSUME NEW d \in calls' PROVE \E e \in calls : Left(d, e, {c.by}, {})
  <2>1. CASE d \in calls
    <3>1. d # c /\ d \in Calls /\ (d.done => d.waits)
      BY <1>1, <1>2, <2>1 DEF Sendings, Known, Calls
    <3>2. d.waits => d.by # c.by
      BY <1>1, <2>1, <3>1 DEF Sendings
    <3> QED
      BY <2>1, <3>1, <3>2 DEF Left
  <2>2. CASE d \notin calls
    <3>1. ~c.done /\ d = [c EXCEPT !.waits = FALSE]
      BY <1>1, <1>4, <2>2
    <3>2. /\ d.by = c.by /\ d.nr = c.nr /\ d.done = c.done /\ ~d.waits
          /\ d \in Calls
      BY <1>2, <3>1 DEF Calls
    <3> QED
      BY <1>1, <3>1, <3>2 DEF Left
  <2> QED
    BY <2>1, <2>2
<1>5. calls' # {} => listener' # Nobody
  BY <1>1 DEF Sendings, storeVars
<1>6. timedOut \subseteq timedOut' /\ timedOut' \subseteq Ops /\ Op(c.by) \in timedOut'
  BY <1>1, <1>3 DEF Counted
<1>7. Tries' /\ Counted' /\ Sendings'
  BY <1>1, <1>2, <1>4, <1>5, <1>6, ToldKeeps
<1>8. Abodes'
  <2>1. /\ client' \in [Procs -> Stages]
        /\ \A q \in Procs : /\ client'[q] # "off" => client[q] # "off"
                            /\ client'[q] = "bind" => client[q] = "bind"
    BY <1>1, <1>2, TellingIsSafe
  <2> QED
    BY <1>1, <2>1 DEF Abodes, storeVars
<1> QED
  BY <1>7, <1>8

(* A process ends: with the broker its requests end too. *)
LEMMA CrashKeeps ==
  ASSUME BrokerInv, NEW p \in Procs, Crash(p)
  PROVE  BrokerInv'
<1> USE BrokerAssumption DEF BrokerInv
<1>1. /\ p \in alive /\ faults < MaxFaults
      /\ faults' = faults + 1 /\ alive' = alive \ {p}
      /\ owner' = IF owner = p THEN Nobody ELSE owner
      /\ listener' = IF listener = p THEN Nobody ELSE listener
      /\ log' = log /\ timedOut' = timedOut
  BY DEF Crash
<1> DEFINE told == IF listener = p THEN {q \in Procs \ {p} : Waiting(q) # {}} ELSE {}
<1>2. Unavailable(told, {p})
  BY DEF Crash
<1>3. \A q \in told : q \in Procs /\ client[q] = "calling"
  BY DEF Sendings, Known, Waiting
<1>4. {p} \subseteq Procs /\ told \cap {p} = {}
  OBVIOUS
<1>5. ASSUME NEW d \in calls' PROVE \E e \in calls : Left(d, e, told, {p})
  <2>1. /\ listener # p
        /\ calls' = {[c EXCEPT !.waits = @ /\ c.by # p] : c \in {e \in calls : e.by # p \/ ~e.done}}
    BY <1>5 DEF Crash
  <2>2. PICK e \in calls : (e.by # p \/ ~e.done) /\ d = [e EXCEPT !.waits = @ /\ e.by # p]
    BY <1>5, <2>1
  <2>3. e \in Calls /\ (e.done => e.waits)
    BY DEF Sendings, Known
  <2>4. CASE e.by = p
    <3>1. (e.waits /\ e.by # p) = FALSE
      BY <2>4
    <3>2. d = [e EXCEPT !.waits = FALSE] /\ ~e.done
      BY <2>2, <2>4, <3>1
    <3>3. /\ d.by = e.by /\ d.nr = e.nr /\ d.done = e.done /\ ~d.waits
          /\ d \in Calls
      BY <2>3, <3>2 DEF Calls
    <3> QED
      BY <2>4, <3>2, <3>3 DEF Left
  <2>5. CASE e.by # p
    <3>1. e.waits \in BOOLEAN
      BY <2>3, Zenon DEF Calls
    <3>2. (e.waits /\ e.by # p) = e.waits
      BY <2>5, <3>1
    <3>3. d = e
      BY <2>2, <2>3, <3>2 DEF Calls
    <3> QED
      BY <2>1, <2>3, <2>5, <3>3 DEF Left
  <2> QED
    BY <2>4, <2>5
<1>6. calls' # {} => listener' # Nobody /\ told = {}
  <2>1. calls' # {} => listener # p /\ calls # {}
    BY <1>5 DEF Crash
  <2> QED
    BY <1>1, <2>1 DEF Sendings
<1>7. timedOut \subseteq timedOut' /\ timedOut' \subseteq Ops
  BY <1>1 DEF Counted
<1> HIDE DEF told
<1>8. Tries' /\ Counted' /\ Sendings'
  BY <1>1, <1>2, <1>3, <1>4, <1>5, <1>6, <1>7, ToldKeeps
<1>9. Abodes'
  <2>1. /\ client' \in [Procs -> Stages]
        /\ \A q \in Procs : /\ client'[q] # "off" => client[q] # "off" /\ q \notin {p}
                            /\ client'[q] = "bind" => client[q] = "bind" /\ q \notin {p}
    BY <1>2, <1>3, <1>4, TellingIsSafe
  <2> QED
    BY <1>1, <2>1 DEF Abodes
<1> QED
  BY <1>8, <1>9

LEMMA BrokerStep == BrokerInv /\ [BrokerNext]_brokerVars => BrokerInv'
<1> SUFFICES ASSUME BrokerInv, [BrokerNext]_brokerVars PROVE BrokerInv'
  OBVIOUS
<1>1. ASSUME NEW p \in Procs, Connect(p) \/ Begin(p) \/ Step(p) \/ Crash(p)
      PROVE  BrokerInv'
  <2>1. CASE Begin(p) \/ Send(p) \/ Crash(p)
    BY <2>1, BeginKeeps, SendKeeps, CrashKeeps
  <2>2. CASE Connect(p) \/ FastOpen(p) \/ TakeStore(p) \/ Bind(p) \/ OpenOwn(p) \/ AttachOpen(p)
    <3>1. Moves(p) /\ Abodes' /\ Tries'
      BY <2>2, ConnectionsMove
    <3> QED
      BY <3>1, MovesKeep DEF BrokerInv
  <2> QED
    BY <1>1, <2>1, <2>2 DEF Step
<1>2. ASSUME NEW c \in calls, Execute(c) \/ Reply(c) \/ TimeOut(c)
      PROVE  BrokerInv'
  BY <1>2, ExecuteKeeps, ReplyKeeps, TimeOutKeeps
<1>3. CASE UNCHANGED brokerVars
  BY <1>3 DEF brokerVars, storeVars, connVars, opVars, faultVars, BrokerInv,
     Abodes, Tries, Counted, Sendings, Known, Op
<1> QED
  BY <1>1, <1>2, <1>3 DEF BrokerNext

LEMMA BrokerMeans == BrokerInv => BrokerTypeOK
BY DEF BrokerInv, Abodes, Tries, Counted, Sendings, Calls, BrokerTypeOK

(* Every variable has its type: in particular whoever holds the store or    *)
(* the port runs, and the port is held by the one with the store.           *)
THEOREM BrokerTypes == BrokerSpec => []BrokerTypeOK
  BY BrokerStarts, BrokerStep, BrokerMeans, PTL DEF BrokerSpec

(* What bounds the effects of an operation.  An effect belongs to a request *)
(* that was begun, and the repeat comes after the repair.                   *)
Spent(e) == e.nr <= begun[e.by] /\ (e.nr = op[e.by] /\ e.again => healed[e.by])
Current(e) == e.nr = op[e.by] /\ e.again = healed[e.by]

(* The request under way is waited for, requests differ in their effect, and *)
(* one that is not done has had none.                                       *)
Once ==
  /\ \A c \in calls : /\ Spent(Effect(c))
                      /\ Current(Effect(c)) => c.waits
                      /\ ~c.done => \A i \in DOMAIN log : log[i] # Effect(c)
  /\ \A c, d \in calls : Effect(c) = Effect(d) => c = d
  /\ \A i \in DOMAIN log : /\ Spent(log[i])
                           /\ Current(log[i]) => \E c \in calls : c.waits /\ Effect(c) = log[i]

(* What a step can do to the operation of process q: nothing, end it, mark  *)
(* it for the repeat, or begin the next one.                                *)
Unmoved(q) == op'[q] = op[q] /\ healed'[q] = healed[q] /\ begun'[q] = begun[q]
Fate(q) ==
  \/ Unmoved(q)
  \/ op'[q] = 0 /\ begun'[q] = begun[q]
  \/ op'[q] = op[q] /\ begun'[q] = begun[q] /\ ~healed[q] /\ healed'[q]
  \/ begun'[q] = begun[q] + 1 /\ op'[q] = begun[q] + 1 /\ ~healed'[q]

LEMMA Fades ==
  ASSUME BrokerInv, NEW e \in Effects, Spent(e), Fate(e.by)
  PROVE  Spent(e)' /\ (Current(e)' => Current(e) /\ Unmoved(e.by))
<1>1. e.by \in Procs /\ e.nr \in Nat /\ e.nr # 0 /\ begun[e.by] \in Nat /\ op[e.by] \in Nat
  BY BrokerAssumption DEF Effects, BrokerInv, Counted
<1>2. CASE Unmoved(e.by)
  BY <1>2 DEF Unmoved, Spent, Current
<1>3. CASE op'[e.by] = 0 /\ begun'[e.by] = begun[e.by]
  BY <1>1, <1>3 DEF Spent, Current
<1>4. CASE op'[e.by] = op[e.by] /\ begun'[e.by] = begun[e.by] /\ ~healed[e.by] /\ healed'[e.by]
  BY <1>4 DEF Spent, Current
<1>5. CASE begun'[e.by] = begun[e.by] + 1 /\ op'[e.by] = begun[e.by] + 1 /\ ~healed'[e.by]
  BY <1>1, <1>5 DEF Spent, Current
<1> QED
  BY <1>2, <1>3, <1>4, <1>5 DEF Fate

(* Steps that apply nothing and add no request.  A request is waited for    *)
(* as before unless its process has done with it, or has to repeat it.      *)
LEMMA OnceKept ==
  ASSUME BrokerInv, Once, log' = log,
         \A q \in Procs : Fate(q),
         \A c \in calls' : \E d \in calls : /\ Effect(c) = Effect(d) /\ c.done = d.done
                                            /\ Unmoved(d.by) => c.waits = d.waits,
         \A c, d \in calls' : Effect(c) = Effect(d) => c = d,
         \A d \in calls : d.waits /\ Unmoved(d.by) => d \in calls'
  PROVE  Once'
<1>1. \A c \in calls : c \in Calls /\ c.by \in Procs /\ Effect(c) \in Effects /\ Effect(c).by = c.by
  BY DEF BrokerInv, Sendings, Calls, Effect, Effects
<1>2. \A i \in DOMAIN log : log[i] \in Effects /\ log[i].by \in Procs
  <2>1. \A i \in DOMAIN log : log[i] \in Effects
    BY DEF BrokerInv, Sendings
  <2> QED
    BY <2>1 DEF Effects
<1>3. ASSUME NEW c \in calls'
      PROVE  /\ Spent(Effect(c))'
             /\ Current(Effect(c))' => c.waits
             /\ ~c.done => \A i \in DOMAIN log' : log'[i] # Effect(c)
  <2>1. PICK d \in calls : Effect(c) = Effect(d) /\ c.done = d.done /\ (Unmoved(d.by) => c.waits = d.waits)
    BY <1>3
  <2>2. Spent(Effect(d))' /\ (Current(Effect(d))' => Current(Effect(d)) /\ Unmoved(d.by))
    BY <1>1, Fades DEF Once
  <2>3. Spent(Effect(c))' /\ (Current(Effect(c))' => Current(Effect(d)) /\ Unmoved(d.by))
    BY <2>1, <2>2 DEF Spent, Current
  <2> QED
    BY <2>1, <2>3 DEF Once
<1>4. ASSUME NEW i \in DOMAIN log
      PROVE  /\ Spent(log[i])'
             /\ Current(log[i])' => \E c \in calls' : c.waits /\ Effect(c) = log[i]
  <2>1. i \in DOMAIN log /\ log[i] \in Effects /\ Spent(log[i]) /\ Fate(log[i].by)
    BY <1>2 DEF Once
  <2>2. Spent(log[i])' /\ (Current(log[i])' => Current(log[i]) /\ Unmoved(log[i].by))
    BY <2>1, Fades
  <2>3. Current(log[i]) /\ Unmoved(log[i].by) => \E c \in calls' : c.waits /\ Effect(c) = log[i]
    BY <1>1, <2>1 DEF Once
  <2> QED
    BY <2>2, <2>3 DEF Spent, Current
<1> QED
  BY <1>3, <1>4 DEF Once

LEMMA OnceMoves ==
  ASSUME BrokerInv, Once, NEW p \in Procs, Moves(p) \/ Begin(p)
  PROVE  Once'
<1>1. calls' = calls /\ log' = log
  BY DEF Moves, Begin
<1>2. ASSUME NEW q \in Procs PROVE Fate(q)
  <2>1. CASE Moves(p)
    BY <2>1 DEF Moves, Fate, Unmoved, BrokerInv, Counted
  <2>2. CASE Begin(p)
    BY <2>2 DEF Begin, Fate, Unmoved, BrokerInv, Counted
  <2> QED
    BY <2>1, <2>2
<1> QED
  BY <1>1, <1>2, OnceKept DEF Once

(* Who is told has to repeat the operation, or is done with it. *)
LEMMA ToldFate ==
  ASSUME BrokerInv, NEW told, NEW gone, Unavailable(told, gone),
         told \subseteq Procs, gone \subseteq Procs, told \cap gone = {},
         \A p \in told : op[p] # 0
  PROVE  \A q \in Procs : Fate(q) /\ (q \in told \/ (q \in gone /\ op[q] # 0) => ~Unmoved(q))
<1> DEFINE again == {p \in told : ~healed[p]}
           over == told \ again
<1>1. /\ healed' = [p \in Procs |-> healed[p] \/ p \in again]
      /\ op' = [p \in Procs |-> IF p \in over \cup gone THEN 0 ELSE op[p]]
      /\ begun' = begun
  BY DEF Unavailable
<1>2. told = again \cup over /\ again \cap gone = {} /\ again \cap over = {}
      /\ \A p \in again : ~healed[p]
  OBVIOUS
<1> HIDE DEF again, over
<1> TAKE q \in Procs
<1>3. healed[q] \in BOOLEAN
  BY Zenon DEF BrokerInv, Counted
<1>4. healed'[q] = (healed[q] \/ q \in again)
  BY <1>1
<1>5. q \notin again => healed'[q] = healed[q]
  BY <1>3, <1>4
<1>6. q \in again => healed'[q] /\ ~healed[q] /\ op'[q] = op[q] /\ begun'[q] = begun[q]
  BY <1>1, <1>2, <1>4
<1>7. q \notin again => begun'[q] = begun[q] /\ (op'[q] = 0 \/ op'[q] = op[q])
                        /\ (q \in over \cup gone => op'[q] = 0)
  BY <1>1
<1> QED
  BY <1>2, <1>5, <1>6, <1>7 DEF Fate, Unmoved

LEMMA OnceSend ==
  ASSUME BrokerInv, Once, NEW p \in Procs, Send(p)
  PROVE  Once'
<1>1. client[p] = "calling" /\ Waiting(p) = {} /\ log' = log /\ op[p] # 0
  BY DEF Send, BrokerInv, Counted
<1>2. CASE listener = Nobody
  <2>1. Unavailable({p}, {}) /\ calls' = {} /\ calls = {}
    BY <1>2 DEF Send, BrokerInv, Sendings
  <2>2. \A q \in Procs : Fate(q)
    BY <1>1, <2>1, ToldFate
  <2> QED
    BY <1>1, <2>1, <2>2, OnceKept
<1>3. CASE listener # Nobody
  <2> DEFINE c == [by |-> p, nr |-> op[p], again |-> healed[p], waits |-> TRUE, done |-> FALSE]
  <2>1. /\ calls' = calls \cup {c}
        /\ op' = op /\ healed' = healed /\ begun' = begun
    BY <1>3 DEF Send, opVars
  <2>2. /\ Effect(c).by = p /\ Effect(c).nr = op[p] /\ Effect(c).again = healed[p]
        /\ c.waits /\ c.by = p
    BY DEF Effect
  <2>3. op[p] <= begun[p]
    BY <1>1, BrokerAssumption DEF BrokerInv, Counted
  <2> HIDE DEF c
  <2>4. Spent(Effect(c)) /\ Current(Effect(c))
    BY <2>2, <2>3 DEF Spent, Current
  <2>5. \A d \in calls : Effect(d) # Effect(c)
    <3>1. ASSUME NEW d \in calls, Effect(d) = Effect(c) PROVE FALSE
      <4>1. d.waits
        BY <2>4, <3>1 DEF Once
      <4>2. d.by = p
        BY <2>2, <3>1 DEF Effect
      <4> QED
        BY <1>1, <3>1, <4>1, <4>2 DEF Waiting
    <3> QED
      BY <3>1
  <2>6. \A i \in DOMAIN log : log[i] # Effect(c)
    <3>1. ASSUME NEW i \in DOMAIN log, log[i] = Effect(c) PROVE FALSE
      <4>1. PICK d \in calls : d.waits /\ Effect(d) = log[i]
        BY <2>4, <3>1 DEF Once
      <4> QED
        BY <2>5, <3>1, <4>1
    <3> QED
      BY <3>1
  <2> QED
    BY <1>1, <2>1, <2>2, <2>4, <2>5, <2>6 DEF Once, Spent, Current, Effect
<1> QED
  BY <1>2, <1>3

LEMMA OnceExecute ==
  ASSUME BrokerInv, Once, NEW c \in calls, Execute(c)
  PROVE  /\ Once'
         /\ log' = Append(log, Effect(c)) /\ ~c.done
<1>1. /\ ~c.done /\ log' = Append(log, Effect(c))
      /\ calls' = (calls \ {c}) \cup (IF c.waits THEN {[c EXCEPT !.done = TRUE]} ELSE {})
      /\ op' = op /\ healed' = healed /\ begun' = begun
  BY DEF Execute, opVars
<1>2. log \in Seq(Effects) /\ c \in Calls
  BY DEF BrokerInv, Sendings
<1>3. /\ DOMAIN log' = DOMAIN log \cup {Len(log) + 1}
      /\ log'[Len(log) + 1] = Effect(c)
      /\ \A i \in DOMAIN log : log'[i] = log[i] /\ i # Len(log) + 1
  BY <1>1, <1>2
<1> DEFINE d == [c EXCEPT !.done = TRUE]
<1>4. d.waits = c.waits /\ d.done /\ Effect(d) = Effect(c)
  BY <1>2 DEF Calls, Effect
<1>5. calls' \subseteq (calls \ {c}) \cup {d} /\ calls \ {c} \subseteq calls'
      /\ (d \in calls' => c.waits \/ d \in calls \ {c}) /\ (c.waits => d \in calls')
  BY <1>1
<1> HIDE DEF d
<1>6. ASSUME NEW e \in calls'
      PROVE  /\ Spent(Effect(e)) /\ (Current(Effect(e)) => e.waits)
             /\ ~e.done => \A i \in DOMAIN log' : log'[i] # Effect(e)
  <2>1. CASE e = d
    BY <1>4, <2>1, <1>5 DEF Once
  <2>2. CASE e \in calls /\ e # c
    <3>1. Effect(e) # Effect(c)
      BY <2>2 DEF Once
    <3> QED
      BY <1>3, <2>2, <3>1 DEF Once
  <2> QED
    BY <1>5, <2>1, <2>2
<1>7. \A e, f \in calls' : Effect(e) = Effect(f) => e = f
  <2>1. \A e \in calls' : e = d \/ (e \in calls /\ e # c /\ Effect(e) # Effect(c))
    BY <1>5 DEF Once
  <2> QED
    BY <1>4, <2>1 DEF Once
<1>8. \A f \in calls : f.waits => \E e \in calls' : e.waits /\ Effect(e) = Effect(f)
  BY <1>4, <1>5
<1>9. ASSUME NEW i \in DOMAIN log'
      PROVE  /\ Spent(log'[i])
             /\ Current(log'[i]) => \E e \in calls' : e.waits /\ Effect(e) = log'[i]
  <2>1. CASE i = Len(log) + 1
    BY <1>3, <1>8, <2>1 DEF Once
  <2>2. CASE i \in DOMAIN log
    <3>1. Spent(log[i]) /\ (Current(log[i]) => \E f \in calls : f.waits /\ Effect(f) = log[i])
      BY <2>2 DEF Once
    <3> QED
      BY <1>3, <1>8, <2>2, <3>1
  <2> QED
    BY <1>3, <2>1, <2>2
<1>10. Once'
  BY <1>1, <1>6, <1>7, <1>9 DEF Once, Spent, Current
<1> QED
  BY <1>1, <1>10

LEMMA OnceReply ==
  ASSUME BrokerInv, Once, NEW c \in calls, Reply(c)
  PROVE  Once'
<1>1. c.waits /\ calls' = calls \ {c} /\ log' = log
      /\ op' = [op EXCEPT ![c.by] = 0] /\ healed' = healed /\ begun' = begun
  BY DEF Reply
<1>2. c.by \in Procs /\ op[c.by] # 0
  BY <1>1 DEF BrokerInv, Sendings, Known, Counted, Calls
<1>3. \A q \in Procs : Fate(q)
  BY <1>1, <1>2 DEF Fate, Unmoved, BrokerInv, Counted
<1>4. ~Unmoved(c.by)
  BY <1>1, <1>2 DEF Unmoved, BrokerInv, Counted
<1> QED
  BY <1>1, <1>3, <1>4, OnceKept DEF Once

LEMMA OnceTimeOut ==
  ASSUME BrokerInv, Once, NEW c \in calls, TimeOut(c)
  PROVE  Once'
<1>1. /\ c.waits /\ log' = log /\ Unavailable({c.by}, {})
      /\ calls' = (calls \ {c}) \cup (IF c.done THEN {} ELSE {[c EXCEPT !.waits = FALSE]})
  BY DEF TimeOut
<1>2. c \in Calls /\ c.by \in Procs /\ op[c.by] # 0
  BY <1>1 DEF BrokerInv, Sendings, Known, Counted, Calls
<1>3. (\A q \in Procs : Fate(q)) /\ ~Unmoved(c.by)
  BY <1>1, <1>2, ToldFate
<1> DEFINE f == [c EXCEPT !.waits = FALSE]
<1>4. Effect(f) = Effect(c) /\ f.done = c.done
  BY <1>2 DEF Calls, Effect
<1>5. \A e \in calls' : e = f \/ (e \in calls /\ e # c)
  BY <1>1
<1> HIDE DEF f
<1>6. \A e \in calls' : \E d \in calls : /\ Effect(e) = Effect(d) /\ e.done = d.done
                                         /\ Unmoved(d.by) => e.waits = d.waits
  BY <1>3, <1>4, <1>5
<1>7. \A d, e \in calls' : Effect(d) = Effect(e) => d = e
  BY <1>4, <1>5 DEF Once
<1>8. \A d \in calls : d.waits /\ Unmoved(d.by) => d \in calls'
  BY <1>1, <1>3
<1> QED
  BY <1>1, <1>3, <1>6, <1>7, <1>8, OnceKept

LEMMA OnceCrash ==
  ASSUME BrokerInv, Once, NEW p \in Procs, Crash(p)
  PROVE  Once'
<1> DEFINE told == IF listener = p THEN {q \in Procs \ {p} : Waiting(q) # {}} ELSE {}
<1>1. log' = log /\ Unavailable(told, {p})
  BY DEF Crash
<1>2. \A d \in calls : d \in Calls /\ d.by \in Procs /\ (d.waits => op[d.by] # 0)
  BY DEF BrokerInv, Sendings, Known, Counted, Calls
<1>3. \A q \in told : q \in Procs /\ op[q] # 0
  BY <1>2 DEF Waiting
<1>4. \A q \in Procs : Fate(q) /\ (q \in told \/ (q = p /\ op[q] # 0) => ~Unmoved(q))
  BY <1>1, <1>3, ToldFate
<1>5. CASE listener = p
  <2>1. calls' = {}
    BY <1>5 DEF Crash
  <2>2. \A d \in calls : d.waits => d.by \in told \/ d.by = p
    BY <1>2, <1>5 DEF Waiting
  <2> QED
    BY <1>1, <1>2, <1>4, <2>1, <2>2, OnceKept
<1>6. CASE listener # p
  <2>1. calls' = {[c EXCEPT !.waits = @ /\ c.by # p] : c \in {d \in calls : d.by # p \/ ~d.done}}
    BY <1>6 DEF Crash
  <2> DEFINE Survivor(d) == [d EXCEPT !.waits = @ /\ d.by # p]
  <2>2. ASSUME NEW d \in calls
        PROVE  /\ Effect(Survivor(d)) = Effect(d) /\ Survivor(d).done = d.done
               /\ Survivor(d).waits <=> d.waits /\ d.by # p
               /\ d.by # p => Survivor(d) = d
    <3>1. d.waits \in BOOLEAN
      BY <1>2, Zenon DEF Calls
    <3>2. d.by # p => (d.waits /\ d.by # p) = d.waits
      BY <3>1
    <3> QED
      BY <1>2, <3>1, <3>2 DEF Calls, Effect
  <2>3. \A e \in calls' : \E d \in calls : Effect(e) = Effect(d) /\ e = Survivor(d)
    <3> TAKE e \in calls'
    <3>1. PICK d \in {c \in calls : c.by # p \/ ~c.done} : e = Survivor(d)
      BY <2>1
    <3>2. Effect(Survivor(d)) = Effect(d)
      BY <2>2
    <3> HIDE DEF Survivor
    <3> QED
      BY <3>1, <3>2
  <2>4. \A d \in calls : d.waits /\ Unmoved(d.by) => d.by # p
    BY <1>2, <1>4
  <2>5. \A e \in calls' : \E d \in calls : /\ Effect(e) = Effect(d) /\ e.done = d.done
                                           /\ Unmoved(d.by) => e.waits = d.waits
    <3> TAKE e \in calls'
    <3>1. PICK d \in {c \in calls : c.by # p \/ ~c.done} : e = [d EXCEPT !.waits = @ /\ d.by # p]
      BY <2>1
    <3>2. /\ Effect(e) = Effect(d) /\ e.done = d.done
          /\ (e.waits <=> d.waits /\ d.by # p) /\ (d.by # p => e = d)
      BY <2>2, <3>1
    <3>3. CASE d.by # p
      BY <3>1, <3>2, <3>3
    <3>4. CASE d.by = p /\ d.waits
      BY <2>4, <3>1, <3>2, <3>4
    <3>5. CASE d.by = p /\ ~d.waits
      <4>1. d.waits = FALSE /\ e.waits = FALSE
        <5>1. d.waits \in BOOLEAN
          BY <1>2, <3>1, Zenon DEF Calls
        <5>2. e.waits = (d.waits /\ d.by # p)
          BY <1>2, <3>1 DEF Calls
        <5> QED
          BY <3>5, <5>1, <5>2
      <4> QED
        BY <3>1, <3>2, <4>1
    <3> QED
      BY <3>3, <3>4, <3>5
  <2>6. \A e, f \in calls' : Effect(e) = Effect(f) => e = f
    <3> TAKE e, f \in calls'
    <3> HIDE DEF Survivor
    <3>1. PICK c \in calls : Effect(e) = Effect(c) /\ e = Survivor(c)
      BY <2>3
    <3>2. PICK d \in calls : Effect(f) = Effect(d) /\ f = Survivor(d)
      BY <2>3
    <3>3. Effect(c) = Effect(d) => c = d
      BY DEF Once
    <3> QED
      BY <3>1, <3>2, <3>3
  <2>7. \A d \in calls : d.waits /\ Unmoved(d.by) => d \in calls'
    <3> TAKE d \in calls
    <3>1. d.by # p => [d EXCEPT !.waits = @ /\ d.by # p] \in calls'
      BY <2>1
    <3> QED
      BY <2>2, <2>4, <3>1
  <2> QED
    BY <1>1, <1>4, <2>5, <2>6, <2>7, OnceKept
<1> QED
  BY <1>5, <1>6

LEMMA OnceHolds == BrokerInv /\ Once /\ [BrokerNext]_brokerVars => Once'
<1> SUFFICES ASSUME BrokerInv, Once, [BrokerNext]_brokerVars PROVE Once'
  OBVIOUS
<1>1. ASSUME NEW p \in Procs, Connect(p) \/ Begin(p) \/ Step(p) \/ Crash(p)
      PROVE  Once'
  <2>1. CASE Connect(p) \/ FastOpen(p) \/ TakeStore(p) \/ Bind(p) \/ OpenOwn(p) \/ AttachOpen(p)
    BY <2>1, ConnectionsMove, OnceMoves
  <2> QED
    BY <1>1, <2>1, OnceMoves, OnceSend, OnceCrash DEF Step
<1>2. ASSUME NEW c \in calls, Execute(c) \/ Reply(c) \/ TimeOut(c)
      PROVE  Once'
  BY <1>2, OnceExecute, OnceReply, OnceTimeOut
<1>3. CASE UNCHANGED brokerVars
  BY <1>3 DEF brokerVars, opVars, Once, Spent, Current
<1> QED
  BY <1>1, <1>2, <1>3 DEF BrokerNext

(* Only the broker writes, never twice for one request, and never for an    *)
(* operation whose end is known, unless a request of it timed out.          *)
LEMMA EffectsInTime ==
  ASSUME BrokerInv, Once, [BrokerNext]_brokerVars, log' # log
  PROVE  LET e == log'[Len(log')]
         IN  /\ \A i \in DOMAIN log : log[i] # e
             /\ OpOf(e) \in answered => OpOf(e) \in timedOut
<1>1. PICK c \in calls : Execute(c)
  BY DEF BrokerNext, Connect, Begin, Step, FastOpen, TakeStore, Bind, OpenOwn, AttachOpen,
     Send, Crash, Reply, TimeOut, brokerVars
<1>2. log' = Append(log, Effect(c)) /\ ~c.done
  BY <1>1, OnceExecute
<1>3. log \in Seq(Effects) /\ Known(c)
  BY DEF BrokerInv, Sendings
<1>4. log'[Len(log')] = Effect(c)
  BY <1>2, <1>3
<1>5. OpOf(Effect(c)) = OpOf(c)
  BY DEF OpOf, Effect
<1> QED
  BY <1>2, <1>3, <1>4, <1>5 DEF Once, Known

(* However many processes die, take over and repeat, and whatever times     *)
(* out: an operation takes effect once at most by its request and once by   *)
(* its repeat, and none of them once its caller knows how it ended, unless  *)
(* one of them timed out.                                                   *)
THEOREM NoLateEffects == BrokerSpec => EffectsPrecedeAnswers
<1>1. BrokerInit => Once
  BY DEF BrokerInit, Once
<1>2. BrokerInv /\ Once /\ [BrokerNext]_brokerVars =>
        [log' # log =>
           LET e == log'[Len(log')]
           IN /\ \A i \in DOMAIN log : log[i] # e
              /\ OpOf(e) \in answered => OpOf(e) \in timedOut]_brokerVars
  BY EffectsInTime
<1> QED
  BY <1>1, <1>2, BrokerStarts, BrokerStep, OnceHolds, PTL DEF BrokerSpec, EffectsPrecedeAnswers
-----------------------------------------------------------------------------
(* The scan *)

Ascending(s) == \A i, j \in DOMAIN s : i < j => Before(s[i], s[j])

Listed(s) == {s[i] : i \in DOMAIN s}

(* Every variable has its type; a scan that is done has nothing to yield    *)
(* and nothing to fetch.                                                    *)
ScanTypes ==
  /\ steady \subseteq rows /\ rows \subseteq Keys
  /\ bound \in Keys \cup {NoKey} /\ cursor \in Keys \cup {NoKey}
  /\ reverse \in BOOLEAN /\ skip \in BOOLEAN /\ last \in BOOLEAN
  /\ recovered \in BOOLEAN /\ lostCursor \in BOOLEAN
  /\ page \in Seq(Keys) /\ yielded \in Seq(Keys)
  /\ scan \in {"running", "done", "failed"} /\ writes \in 0..MaxWrites
  /\ scan = "done" => page = <<>> /\ last

(* The cursor is the last row of the page; between two pages it is the last *)
(* row yielded, or the scan begins behind that one.  A forward scan that    *)
(* begins anew meets it again and is to pass over it.                       *)
PagesMeet ==
  /\ Ascending(page)
  /\ page # <<>> => cursor = page[Len(page)]
  /\ page = <<>> /\ ~last =>
       IF cursor # NoKey THEN cursor = LastYielded
       ELSE bound = LastYielded /\ (bound # NoKey /\ ~reverse => skip)
  /\ cursor # NoKey => InRange(cursor) /\ (cursor \in rows \/ lostCursor)

(* What was yielded is in order, and the page goes on from there. *)
InOrder ==
  \/ lostCursor
  \/ /\ Ascending(yielded)
     /\ yielded # <<>> /\ page # <<>> =>
          Before(LastYielded, page[1]) \/ (skip /\ page[1] = LastYielded)

(* A row that was there all along is yielded, in the page, or ahead. *)
Ahead(k) == ~last /\ InRange(k) /\ (cursor # NoKey => Before(cursor, k))
NoneLost == \A k \in steady : k \in Listed(yielded) \/ k \in Listed(page) \/ Ahead(k)

ScanInv == ScanTypes /\ PagesMeet /\ InOrder /\ NoneLost

-----------------------------------------------------------------------------
(* Rows in order.  Ordered says which sequence it means; that there is one  *)
(* follows by induction on the number of rows.                              *)

Enumerates(s, n, S) ==
  /\ s \in [1..n -> S] /\ \A i, j \in 1..n : i < j => s[i] < s[j]

LEMMA Enumerable ==
  ASSUME NEW S \in SUBSET Nat, IsFiniteSet(S)
  PROVE  \E s : Enumerates(s, Cardinality(S), S)
<1> DEFINE P(n) == \A T \in SUBSET Nat :
                     IsFiniteSet(T) /\ Cardinality(T) = n => \E s : Enumerates(s, n, T)
           Q == {n \in Nat : P(n)}
<1>1. 0 \in Q
  <2> SUFFICES ASSUME NEW T \in SUBSET Nat, IsFiniteSet(T), Cardinality(T) = 0
               PROVE  \E s : Enumerates(s, 0, T)
    OBVIOUS
  <2>1. Enumerates([i \in 1..0 |-> i], 0, T)
    BY DEF Enumerates
  <2> QED
    BY <2>1
<1>2. ASSUME NEW n \in Nat, n \in Q PROVE n + 1 \in Q
  <2>0. n + 1 \in Nat
    OBVIOUS
  <2> SUFFICES ASSUME NEW T \in SUBSET Nat, IsFiniteSet(T), Cardinality(T) = n + 1
               PROVE  \E s : Enumerates(s, n + 1, T)
    BY <2>0, Zenon
  <2>1. T # {}
    BY FS_EmptySet
  <2>2. PICK m \in T : \A k \in T : ~(k < m)
    BY <2>1, LeastNumber
  <2>3. IsFiniteSet(T \ {m}) /\ Cardinality(T \ {m}) = n
    <3>1. IsFiniteSet(T \ {m}) /\ Cardinality(T \ {m}) = Cardinality(T) - 1
      BY FS_RemoveElement, Zenon
    <3> QED
      BY <3>1
  <2>4. PICK t : Enumerates(t, n, T \ {m})
    BY <1>2, <2>3
  <2> DEFINE s == [i \in 1..(n + 1) |-> IF i = 1 THEN m ELSE t[i - 1]]
  <2>5. \A i \in 1..(n + 1) : i # 1 => i - 1 \in 1..n /\ s[i] = t[i - 1] /\ s[i] \in T \ {m}
    BY <2>4 DEF Enumerates
  <2>6. s \in [1..(n + 1) -> T]
    BY <2>5
  <2>7. ASSUME NEW i \in 1..(n + 1), NEW j \in 1..(n + 1), i < j PROVE s[i] < s[j]
    <3>1. j # 1 /\ s[j] \in T \ {m} /\ j - 1 \in 1..n /\ s[j] = t[j - 1]
      BY <2>5, <2>7
    <3>2. CASE i = 1
      <4>1. s[i] = m
        BY <3>2
      <4>2. ~(s[j] < m) /\ s[j] # m /\ m \in Nat /\ s[j] \in Nat
        BY <2>2, <3>1
      <4> HIDE DEF s
      <4> QED
        BY <4>1, <4>2
    <3>3. CASE i # 1
      <4>1. i - 1 \in 1..n /\ s[i] = t[i - 1] /\ i - 1 < j - 1
        BY <2>5, <2>7, <3>3
      <4> QED
        BY <2>4, <3>1, <4>1 DEF Enumerates
    <3> QED
      BY <3>2, <3>3
  <2> QED
    BY <2>6, <2>7 DEF Enumerates
<1>3. Nat \subseteq Q
  <2> HIDE DEF Q
  <2> QED
    BY <1>1, <1>2, NumbersInduct
<1>4. Cardinality(S) \in Nat
  BY FS_CardinalityType
<1> QED
  BY <1>3, <1>4

(* What Ordered gives: each row, in the order of the scan. *)
LEMMA OrderedLists ==
  ASSUME NEW S \in SUBSET Keys
  PROVE  /\ Ordered(S) \in Seq(S)
         /\ Ascending(Ordered(S)) /\ Listed(Ordered(S)) = S
<1> DEFINE n == Cardinality(S)
           Fits(s) == \A i, j \in DOMAIN s : i < j => Before(s[i], s[j])
<1>1. IsFiniteSet(S) /\ n \in Nat /\ S \in SUBSET Nat
  BY ScanAssumption, FS_Subset, FS_CardinalityType
<1>2. PICK t : Enumerates(t, n, S)
  BY <1>1, Enumerable
<1> HIDE DEF n
<1>3. \E s \in [1..n -> S] : Fits(s)
  <2>1. CASE ~reverse
    BY <1>1, <1>2, <2>1 DEF Enumerates, Before
  <2>2. CASE reverse
    <3> DEFINE s == [i \in 1..n |-> t[n + 1 - i]]
    <3>1. \A i \in 1..n : n + 1 - i \in 1..n
      BY <1>1
    <3>2. s \in [1..n -> S]
      BY <1>2, <3>1 DEF Enumerates
    <3>3. ASSUME NEW i \in 1..n, NEW j \in 1..n, i < j PROVE Before(s[i], s[j])
      <4>1. n + 1 - j < n + 1 - i
        BY <1>1, <3>3
      <4>2. s[j] < s[i] /\ s[i] \in Nat /\ s[j] \in Nat
        BY <1>1, <1>2, <3>1, <3>2, <4>1 DEF Enumerates
      <4> QED
        BY <2>2, <4>2 DEF Before
    <3> QED
      BY <3>2, <3>3
  <2> QED
    BY <2>1, <2>2
<1>4. Ordered(S) = CHOOSE s \in [1..n -> S] : Fits(s)
  BY DEF Ordered, n
<1>5. Ordered(S) \in [1..n -> S] /\ Fits(Ordered(S))
  <2> HIDE DEF Fits
  <2> QED
    BY <1>3, <1>4
<1>6. Ordered(S) \in Seq(S) /\ Ascending(Ordered(S))
  BY <1>1, <1>5 DEF Ascending
<1>7. Listed(Ordered(S)) = S
  <2> DEFINE o == Ordered(S)
  <2>0. o \in [1..n -> S] /\ DOMAIN o = 1..n
    BY <1>5
  <2> HIDE DEF o
  <2>1. ASSUME NEW i \in 1..n, NEW j \in 1..n, o[i] = o[j] PROVE i = j
    <3>0. o[i] \in Nat /\ o[j] \in Nat
      BY <1>1, <2>0
    <3>1. Before(o[i], o[j]) => o[i] # o[j]
      BY <3>0 DEF Before
    <3>2. Before(o[j], o[i]) => o[i] # o[j]
      BY <3>0 DEF Before
    <3>3. (i < j => Before(o[i], o[j])) /\ (j < i => Before(o[j], o[i]))
      BY <1>5, <2>0 DEF o
    <3> QED
      BY <1>1, <2>1, <3>1, <3>2, <3>3
  <2>2. o \in Injection(1..n, S)
    BY <2>0, <2>1 DEF Injection, IsInjective
  <2>3. Cardinality(1..n) = n
    BY <1>1, FS_Interval
  <2>4. o \in Surjection(1..n, S)
    BY <1>1, <2>2, <2>3, FS_Injection DEF n
  <2> QED
    BY <2>0, <2>4 DEF Listed, Surjection, o
<1> QED
  BY <1>6, <1>7
LEMMA BeforeIsAnOrder ==
  ASSUME NEW k \in Keys, NEW l \in Keys, NEW m \in Keys
  PROVE  /\ Before(k, l) /\ Before(l, m) => Before(k, m)
         /\ Before(k, l) => k # l /\ ~Before(l, k)
         /\ k # NoKey
BY ScanAssumption DEF Before, NoKey

LEMMA LastYieldedIs ==
  ASSUME yielded \in Seq(Keys)
  PROVE  /\ yielded = <<>> => LastYielded = NoKey
         /\ yielded # <<>> => LastYielded = yielded[Len(yielded)] /\ LastYielded \in Listed(yielded)
                              /\ LastYielded \in Keys
BY DEF LastYielded, Listed

LEMMA ScanStarts == ScanInit => ScanInv
<1> SUFFICES ASSUME ScanInit PROVE ScanInv
  OBVIOUS
<1> USE ScanAssumption DEF ScanInit
<1>1. ScanTypes
  <2>1. skip \in BOOLEAN /\ last \in BOOLEAN /\ recovered \in BOOLEAN /\ lostCursor \in BOOLEAN
    BY Zenon
  <2>2. NoKey \notin Keys /\ page \in Seq(Keys) /\ yielded \in Seq(Keys)
    BY DEF NoKey
  <2> QED
    BY <2>1, <2>2 DEF ScanTypes
<1>2. PagesMeet
  BY DEF PagesMeet, Ascending, LastYielded
<1>3. InOrder
  BY DEF InOrder, Ascending
<1>4. NoneLost
  BY DEF NoneLost, Ahead, InRange
<1> QED
  BY <1>1, <1>2, <1>3, <1>4 DEF ScanInv

(* A page: rows of the range in order, behind the cursor if that is still   *)
(* there; and what it leaves out of the rest is behind its last row.        *)
LEMMA PageIs ==
  ASSUME ScanTypes, FetchPage
  PROVE  /\ page' \in Seq(Keys) /\ Ascending(page)'
         /\ page' = <<>> => cursor' = NoKey /\ last'
         /\ page' # <<>> => cursor' = page'[Len(page')]
         /\ \A k \in Listed(page') : /\ k \in rows /\ InRange(k)
                                     /\ cursor \in rows /\ InRange(cursor) /\ cursor # NoKey
                                          => Before(cursor, k)
         /\ \A k \in rows : /\ InRange(k)
                            /\ cursor # NoKey => Before(cursor, k)
                            => k \in Listed(page') \/ (~last' /\ cursor' # NoKey /\ Before(cursor', k))
<1> DEFINE R == {k \in rows : InRange(k)}
           s == Ordered(R)
           st == StartIndex(s)
           e == Entries(s)
<1>1. /\ page' = e /\ last' = (e = <<>> \/ st + Len(e) >= Len(s))
      /\ cursor' = (IF e = <<>> THEN NoKey ELSE e[Len(e)]) /\ UNCHANGED <<reverse, rows, bound>>
  BY DEF FetchPage
<1>2. R \in SUBSET Keys
  BY DEF ScanTypes
<1>3. s \in Seq(R) /\ Ascending(s) /\ Listed(s) = R /\ s \in Seq(Keys)
  BY <1>2, OrderedLists
<1> HIDE DEF s
<1>4. /\ st \in 0..Len(s) /\ (st # 0 => cursor # NoKey /\ s[st] = cursor)
      /\ cursor # NoKey /\ cursor \in R => st # 0
  <2> DEFINE T == {i \in DOMAIN s : s[i] = cursor}
  <2>1. cursor \in R => T # {}
    BY <1>3 DEF Listed
  <2>2. st = IF cursor = NoKey THEN 0 ELSE
             IF cursor \in Listed(s) THEN CHOOSE i \in DOMAIN s : s[i] = cursor ELSE 0
    BY DEF StartIndex, Row, Listed
  <2> HIDE DEF st
  <2>3. CASE cursor # NoKey /\ cursor \in R
    <3>1. \E i \in DOMAIN s : s[i] = cursor
      BY <2>1, <2>3
    <3>2. st \in DOMAIN s /\ s[st] = cursor
      BY <1>3, <2>2, <2>3, <3>1
    <3> QED
      BY <1>3, <2>3, <3>2
  <2>4. CASE ~(cursor # NoKey /\ cursor \in R)
    BY <1>3, <2>2, <2>4
  <2> QED
    BY <2>3, <2>4
<1> HIDE DEF st
<1> DEFINE end == IF st + PageSize < Len(s) THEN st + PageSize ELSE Len(s)
<1>5. /\ e = SubSeq(s, st + 1, end)
      /\ end \in st..Len(s) /\ (end = st => st = Len(s))
  BY <1>3, <1>4, ScanAssumption DEF Entries, st
<1> HIDE DEF e, end
<1>6. /\ e \in Seq(Keys) /\ Len(e) = end - st
      /\ \A i \in 1..Len(e) : e[i] = s[st + i] /\ st + i \in 1..Len(s)
  BY <1>3, <1>4, <1>5
<1>7. Ascending(page)'
  <2>1. ASSUME NEW i \in 1..Len(e), NEW j \in 1..Len(e), i < j
        PROVE  Before(e[i], e[j])
    <3>1. st + i < st + j /\ st + i \in DOMAIN s /\ st + j \in DOMAIN s
      BY <1>3, <1>4, <1>6, <2>1
    <3> QED
      BY <1>3, <1>6, <3>1 DEF Ascending
  <2> QED
    BY <1>1, <1>6, <2>1 DEF Ascending, Before
<1>8. ASSUME NEW k \in Listed(page')
      PROVE  /\ k \in R
             /\ cursor \in R /\ cursor # NoKey => Before(cursor, k)
  <2>1. PICK i \in 1..Len(e) : k = e[i]
    BY <1>1, <1>6 DEF Listed
  <2>2. k = s[st + i] /\ st + i \in 1..Len(s) /\ st < st + i
    BY <1>4, <1>6, <2>1
  <2>3. k \in R
    BY <1>3, <2>2
  <2>4. st # 0 => Before(s[st], k)
    BY <1>3, <1>4, <2>2 DEF Ascending
  <2> QED
    BY <1>4, <2>3, <2>4
<1>9. ASSUME NEW k \in R, cursor # NoKey => Before(cursor, k)
      PROVE  k \in Listed(page') \/ (~last' /\ cursor' # NoKey /\ Before(cursor', k))
  <2>1. PICK j \in 1..Len(s) : k = s[j]
    BY <1>3 DEF Listed
  <2>2. st < j
    <3> SUFFICES ASSUME j <= st PROVE FALSE
      BY <1>4, <2>1
    <3>1. st # 0 /\ cursor # NoKey /\ s[st] = cursor /\ st \in 1..Len(s)
      BY <1>4, <2>1
    <3>2. cursor \in Keys /\ k \in Keys /\ Before(cursor, k)
      BY <1>2, <1>3, <1>9, <3>1
    <3>3. j = st \/ Before(k, cursor)
      BY <1>3, <2>1, <3>1 DEF Ascending
    <3> QED
      BY <2>1, <3>1, <3>2, <3>3, BeforeIsAnOrder
  <2>3. CASE j <= end
    <3>1. j - st \in 1..Len(e) /\ st + (j - st) = j
      BY <1>4, <1>5, <1>6, <2>1, <2>2, <2>3
    <3>2. e[j - st] = k
      BY <1>6, <2>1, <3>1
    <3> QED
      BY <1>1, <1>6, <3>1, <3>2 DEF Listed
  <2>4. CASE end < j
    <3>0. Len(s) \in Nat /\ Len(e) \in Nat
      BY <1>3, <1>6
    <3>1. end < Len(s) /\ st < end /\ Len(e) # 0 /\ st + Len(e) = end
      BY <1>4, <1>5, <1>6, <2>1, <2>2, <2>4, <3>0
    <3>2. e # <<>> /\ e[Len(e)] = s[end] /\ end \in 1..Len(s)
      BY <1>4, <1>5, <1>6, <3>1
    <3>3. Before(s[end], k) /\ s[end] \in Keys
      BY <1>3, <2>1, <2>4, <3>2 DEF Ascending
    <3>4. ~(st + Len(e) >= Len(s))
      BY <1>4, <1>5, <3>0, <3>1
    <3>5. ~last' /\ cursor' = s[end]
      BY <1>1, <3>2, <3>4
    <3> QED
      BY <3>3, <3>5, ScanAssumption DEF NoKey
  <2> QED
    BY <1>5, <2>1, <2>3, <2>4
<1> QED
  BY <1>1, <1>6, <1>7, <1>8, <1>9

LEMMA FetchKeeps == ScanInv /\ FetchPage => ScanInv'
<1> SUFFICES ASSUME ScanInv, FetchPage PROVE ScanInv'
  OBVIOUS
<1> USE DEF ScanInv
<1>1. /\ scan = "running" /\ page = <<>> /\ ~last
      /\ UNCHANGED <<bound, skip, yielded, recovered, scan, rows, reverse, writes, steady, lostCursor>>
  BY DEF FetchPage
<1>2. /\ page' \in Seq(Keys) /\ Ascending(page)'
      /\ page' = <<>> => cursor' = NoKey /\ last'
      /\ page' # <<>> => cursor' = page'[Len(page')]
      /\ \A k \in Listed(page') : /\ k \in rows /\ InRange(k)
                                  /\ cursor \in rows /\ InRange(cursor) /\ cursor # NoKey
                                       => Before(cursor, k)
      /\ \A k \in rows : /\ InRange(k)
                         /\ cursor # NoKey => Before(cursor, k)
                         => k \in Listed(page') \/ (~last' /\ cursor' # NoKey /\ Before(cursor', k))
  BY PageIs
<1>3. page' # <<>> => cursor' \in Listed(page') /\ page'[1] \in Listed(page')
  BY <1>2 DEF Listed
<1>4. cursor' # NoKey => page' # <<>> /\ cursor' \in rows /\ cursor' \in Keys /\ InRange(cursor')
  BY <1>2, <1>3 DEF ScanTypes
<1>5. ScanTypes'
  <2>1. last' \in BOOLEAN
    BY Zenon DEF FetchPage
  <2> QED
    BY <1>1, <1>2, <1>4, <2>1 DEF ScanTypes
<1>6. PagesMeet'
  <2>1. cursor' # NoKey => InRange(cursor)' /\ cursor' \in rows'
    BY <1>1, <1>4 DEF InRange, Before
  <2>2. ~(page' = <<>> /\ ~last')
    BY <1>2
  <2> QED
    BY <1>2, <2>1, <2>2 DEF PagesMeet
<1>7. InOrder'
  <2> SUFFICES ASSUME ~lostCursor, yielded # <<>>, page' # <<>>
               PROVE  Before(LastYielded, page'[1]) \/ (skip /\ page'[1] = LastYielded)
    BY <1>1 DEF InOrder, Ascending, Before, LastYielded
  <2>1. LastYielded \in Keys /\ LastYielded # NoKey
    BY LastYieldedIs, BeforeIsAnOrder DEF ScanTypes
  <2>2. CASE cursor # NoKey
    BY <1>1, <1>2, <1>3, <2>2 DEF PagesMeet
  <2>3. CASE cursor = NoKey
    <3>1. bound = LastYielded /\ (~reverse => skip) /\ InRange(page'[1])
      BY <1>1, <1>2, <1>3, <2>1, <2>3 DEF PagesMeet
    <3> QED
      BY <2>1, <3>1 DEF InRange
  <2> QED
    BY <2>2, <2>3
<1>8. NoneLost'
  <2>1. ASSUME NEW k \in steady
        PROVE  k \in Listed(yielded) \/ k \in Listed(page')
               \/ (~last' /\ InRange(k) /\ Before(cursor', k))
    BY <1>1, <1>2 DEF NoneLost, Ahead, Listed, ScanTypes
  <2>2. ASSUME NEW k \in steady, ~last', InRange(k), Before(cursor', k) PROVE Ahead(k)'
    BY <1>1, <2>2 DEF Ahead, InRange, Before
  <2> QED
    BY <1>1, <2>1, <2>2 DEF NoneLost, Listed
<1> QED
  BY <1>5, <1>6, <1>7, <1>8

LEMMA YieldKeeps == ScanInv /\ Yield => ScanInv'
<1> SUFFICES ASSUME ScanInv, Yield PROVE ScanInv'
  OBVIOUS
<1> USE DEF ScanInv
<1> DEFINE h == page[1]
           over == skip /\ h = LastYielded
<1>1. /\ scan = "running" /\ page # <<>> /\ page' = Tail(page) /\ skip' = FALSE
      /\ yielded' = IF over THEN yielded ELSE Append(yielded, h)
      /\ UNCHANGED <<bound, cursor, last, recovered, scan, rows, reverse, writes, steady, lostCursor>>
  BY DEF Yield
<1>2. /\ page \in Seq(Keys) /\ yielded \in Seq(Keys) /\ h \in Keys /\ cursor \in Keys /\ cursor # NoKey
      /\ cursor = page[Len(page)]
  BY <1>1, BeforeIsAnOrder DEF ScanTypes, PagesMeet
<1>3. /\ page' \in Seq(Keys) /\ Len(page') = Len(page) - 1 /\ Len(page) \in Nat /\ Len(page) # 0
      /\ \A i \in 1..Len(page') : page'[i] = page[i + 1] /\ i + 1 \in 1..Len(page)
  BY <1>1, <1>2
<1>4. yielded' \in Seq(Keys) /\ yielded' # <<>> /\ yielded'[Len(yielded')] = h /\ h \in Listed(yielded')
  <2>1. CASE over
    <3>1. LastYielded = h /\ h # NoKey
      BY <1>2, <2>1, BeforeIsAnOrder
    <3>2. yielded # <<>>
      BY <1>2, <3>1, LastYieldedIs
    <3> QED
      BY <1>1, <1>2, <2>1, <3>1, <3>2, LastYieldedIs
  <2>2. CASE ~over
    <3>1. yielded' = Append(yielded, h)
      BY <1>1, <2>2
    <3> HIDE DEF h, over
    <3>2. /\ yielded' \in Seq(Keys) /\ Len(yielded') = Len(yielded) + 1 /\ Len(yielded) \in Nat
          /\ yielded'[Len(yielded) + 1] = h
      BY <1>2, <3>1
    <3>3. Len(yielded') \in DOMAIN yielded' /\ yielded'[Len(yielded')] = h
      BY <3>2
    <3> QED
      BY <3>2, <3>3 DEF Listed
  <2> QED
    BY <2>1, <2>2
<1>5. LastYielded' = h
  BY <1>4 DEF LastYielded
<1>6. Listed(yielded) \subseteq Listed(yielded')
  BY <1>1, <1>2 DEF Listed
<1> HIDE DEF h, over
<1>7. ScanTypes'
  <2>1. skip' \in BOOLEAN
    BY <1>1, Zenon
  <2> QED
    BY <1>1, <1>3, <1>4, <2>1 DEF ScanTypes
<1>8. PagesMeet'
  <2>1. Ascending(page)'
    <3>1. ASSUME NEW i \in 1..Len(page'), NEW j \in 1..Len(page'), i < j
          PROVE  Before(page'[i], page'[j])
      <4>1. i + 1 < j + 1 /\ i + 1 \in DOMAIN page /\ j + 1 \in DOMAIN page
        BY <1>2, <1>3, <3>1
      <4> QED
        BY <1>3, <3>1, <4>1 DEF PagesMeet, Ascending
    <3> QED
      BY <1>1, <1>3, <3>1 DEF Ascending, Before
  <2>2. page' # <<>> => page'[Len(page')] = cursor
    BY <1>2, <1>3
  <2>3. page' = <<>> => Len(page) = 1 /\ cursor = h
    <3>1. page' = <<>> => Len(page) = 1
      BY <1>3
    <3> QED
      BY <1>2, <3>1 DEF h
  <2>4. InRange(cursor)' /\ (cursor' \in rows' \/ lostCursor')
    BY <1>1, <1>2 DEF PagesMeet, InRange, Before
  <2> QED
    BY <1>1, <1>2, <1>5, <2>1, <2>2, <2>3, <2>4 DEF PagesMeet
<1>9. InOrder'
  <2> SUFFICES ASSUME ~lostCursor
               PROVE  Ascending(yielded)' /\ (page' # <<>> => Before(h, page'[1]))
    <3>1. page' # <<>> /\ Before(h, page'[1]) => Before(LastYielded, page[1])'
      BY <1>1, <1>5 DEF Before
    <3>2. lostCursor' = lostCursor
      BY <1>1
    <3> QED
      BY <3>1, <3>2 DEF InOrder
  <2>1. Ascending(yielded) /\ (yielded # <<>> => Before(LastYielded, h) \/ over)
    BY <1>1 DEF InOrder, h, over
  <2>2. page' # <<>> => Before(h, page'[1])
    <3>1. page' # <<>> => page'[1] = page[2] /\ 1 \in DOMAIN page /\ 2 \in DOMAIN page
      BY <1>2, <1>3
    <3> QED
      BY <1>1, <3>1 DEF PagesMeet, Ascending, h
  <2>3. ASSUME NEW i \in 1..Len(yielded'), NEW j \in 1..Len(yielded'), i < j
        PROVE  Before(yielded'[i], yielded'[j])
    <3>1. CASE over
      BY <1>1, <2>1, <2>3, <3>1 DEF Ascending
    <3>2. CASE ~over /\ j <= Len(yielded)
      <4>1. i \in DOMAIN yielded /\ j \in DOMAIN yielded /\ yielded'[i] = yielded[i] /\ yielded'[j] = yielded[j]
        BY <1>1, <1>2, <2>3, <3>2
      <4> QED
        BY <2>1, <2>3, <4>1 DEF Ascending
    <3>3. CASE ~over /\ j > Len(yielded)
      <4>0. /\ yielded' = Append(yielded, h) /\ Len(yielded) \in Nat
            /\ Len(yielded') = Len(yielded) + 1
        BY <1>1, <1>2, <3>3
      <4>5. j = Len(yielded) + 1 /\ i \in 1..Len(yielded)
        BY <2>3, <3>3, <4>0
      <4>1. i \in 1..Len(yielded) /\ yielded'[i] = yielded[i] /\ yielded'[j] = h /\ yielded # <<>>
        BY <1>2, <4>0, <4>5
      <4>2. Before(LastYielded, h) /\ LastYielded = yielded[Len(yielded)] /\ LastYielded \in Keys
        BY <1>2, <2>1, <3>3, <4>1, LastYieldedIs
      <4>3. i = Len(yielded) \/ Before(yielded[i], yielded[Len(yielded)])
        BY <1>2, <2>1, <4>1 DEF Ascending
      <4>4. yielded[i] \in Keys
        BY <1>2, <4>1
      <4> QED
        BY <1>2, <4>1, <4>2, <4>3, <4>4, BeforeIsAnOrder
    <3> QED
      BY <1>2, <2>3, <3>1, <3>2, <3>3
  <2>4. Ascending(yielded)'
    BY <1>1, <1>4, <2>3 DEF Ascending, Before
  <2> QED
    BY <2>2, <2>4
<1>10. NoneLost'
  <2>1. ASSUME NEW k \in Listed(page) PROVE k = h \/ k \in Listed(page')
    <3>1. PICK i \in 1..Len(page) : k = page[i]
      BY <1>2 DEF Listed
    <3>2. CASE i = 1
      BY <3>1, <3>2 DEF h
    <3>3. CASE i # 1
      <4>1. i - 1 \in 1..Len(page') /\ (i - 1) + 1 = i
        BY <1>3, <3>1, <3>3
      <4>2. page'[i - 1] = k
        BY <1>3, <3>1, <4>1
      <4> QED
        BY <1>3, <4>1, <4>2 DEF Listed
    <3> QED
      BY <3>2, <3>3
  <2>2. ASSUME NEW k, Ahead(k) PROVE Ahead(k)'
    BY <1>1, <2>2 DEF Ahead, InRange, Before
  <2>3. ASSUME NEW k \in steady
        PROVE  k \in Listed(yielded') \/ k \in Listed(page') \/ Ahead(k)'
    BY <1>4, <1>6, <2>1, <2>2 DEF NoneLost
  <2> QED
    BY <1>1, <2>3 DEF NoneLost, Listed
<1> QED
  BY <1>7, <1>8, <1>9, <1>10

(* A scan that is interrupted between two pages begins anew behind the last *)
(* row it yielded, once.                                                    *)
LEMMA InterruptedKeeps == ScanInv /\ Interrupted => ScanInv'
<1> SUFFICES ASSUME ScanInv, Interrupted PROVE ScanInv'
  OBVIOUS
<1> USE DEF ScanInv
<1>1. /\ scan = "running" /\ page = <<>> /\ ~last
      /\ UNCHANGED <<page, last, yielded, rows, reverse, writes, steady, lostCursor>>
  BY DEF Interrupted
<1>2. CASE recovered
  <2>1. scan' = "failed" /\ UNCHANGED <<recovered, bound, skip, cursor>>
    BY <1>2 DEF Interrupted
  <2> QED
    BY <1>1, <2>1 DEF ScanTypes, PagesMeet, InOrder, NoneLost, Ahead, Ascending, Listed,
       InRange, Before, LastYielded
<1>3. CASE ~recovered
  <2>1. /\ recovered' = TRUE /\ cursor' = NoKey /\ bound' = LastYielded /\ scan' = scan
        /\ skip' = (LastYielded # NoKey /\ ~reverse)
    BY <1>3 DEF Interrupted
  <2>2. /\ LastYielded \in Keys \cup {NoKey}
        /\ cursor # NoKey => cursor = LastYielded
        /\ cursor = NoKey => bound = LastYielded
    BY <1>1, LastYieldedIs DEF ScanTypes, PagesMeet
  <2>3. ScanTypes'
    <3>1. skip' \in BOOLEAN /\ recovered' \in BOOLEAN
      BY <2>1, Zenon
    <3> QED
      BY <1>1, <2>1, <2>2, <3>1 DEF ScanTypes
  <2>4. PagesMeet'
    <3>1. Ascending(page)'
      BY <1>1 DEF PagesMeet, Ascending, Before
    <3>2. bound' = LastYielded' /\ page' = <<>> /\ cursor' = NoKey
      BY <1>1, <2>1 DEF LastYielded
    <3>3. bound' # NoKey /\ ~reverse' => skip'
      BY <1>1, <2>1, Zenon
    <3> QED
      BY <3>1, <3>2, <3>3 DEF PagesMeet
  <2>5. InOrder'
    BY <1>1 DEF InOrder, Ascending, Before
  <2>6. ASSUME NEW k \in steady, Ahead(k) PROVE Ahead(k)'
    BY <1>1, <2>1, <2>2, <2>6 DEF Ahead, InRange, Before
  <2>7. NoneLost'
    BY <1>1, <2>6 DEF NoneLost, Listed
  <2> QED
    BY <2>3, <2>4, <2>5, <2>7
<1> QED
  BY <1>2, <1>3

(* What others write changes the store under the scan, which notices only   *)
(* a cursor that is gone.                                                   *)
LEMMA WritesKeep ==
  ASSUME ScanInv, NEW k \in Keys, Insert(k) \/ Delete(k)
  PROVE  ScanInv'
<1> USE DEF ScanInv
<1>1. /\ UNCHANGED <<bound, skip, cursor, page, last, yielded, recovered, scan, reverse>>
      /\ scan = "running" /\ writes < MaxWrites /\ writes' = writes + 1
  BY DEF Insert, Delete, scanVars
<1>2. /\ steady' \subseteq rows' /\ rows' \subseteq Keys /\ steady' \subseteq steady
      /\ cursor \in rows => cursor \in rows' \/ lostCursor'
      /\ lostCursor => lostCursor'
      /\ lostCursor' \in BOOLEAN
  <2>1. CASE Insert(k)
    BY <2>1 DEF Insert, ScanTypes
  <2>2. CASE Delete(k)
    <3>1. lostCursor' \in BOOLEAN
      BY <2>2, Zenon DEF Delete
    <3> QED
      BY <2>2, <3>1 DEF Delete, ScanTypes
  <2> QED
    BY <2>1, <2>2
<1>3. ScanTypes'
  BY <1>1, <1>2, ScanAssumption DEF ScanTypes
<1>4. PagesMeet'
  BY <1>1, <1>2 DEF PagesMeet, Ascending, Before, InRange, LastYielded
<1>5. InOrder'
  BY <1>1, <1>2 DEF InOrder, Ascending, Before, LastYielded
<1>6. NoneLost'
  BY <1>1, <1>2 DEF NoneLost, Listed, Ahead, InRange, Before
<1> QED
  BY <1>3, <1>4, <1>5, <1>6

LEMMA ScanStep == ScanInv /\ [ScanNext]_iterVars => ScanInv'
<1> SUFFICES ASSUME ScanInv, [ScanNext]_iterVars PROVE ScanInv'
  OBVIOUS
<1>1. CASE EndScan
  BY <1>1 DEF EndScan, ScanInv, ScanTypes, PagesMeet, InOrder, NoneLost, Ahead, Ascending,
     Listed, InRange, Before, LastYielded
<1>2. CASE UNCHANGED iterVars
  BY <1>2 DEF iterVars, scanVars, ScanInv, ScanTypes, PagesMeet, InOrder, NoneLost, Ahead,
     Ascending, Listed, InRange, Before, LastYielded
<1> QED
  BY <1>1, <1>2, FetchKeeps, YieldKeeps, InterruptedKeeps, WritesKeep DEF ScanNext

LEMMA ScanMeans == ScanInv => ScanTypeOK /\ EachRowOnce /\ NoRowSkipped
<1> SUFFICES ASSUME ScanInv PROVE ScanTypeOK /\ EachRowOnce /\ NoRowSkipped
  OBVIOUS
<1>1. ScanTypeOK
  BY DEF ScanInv, ScanTypes, ScanTypeOK
<1>2. EachRowOnce
  BY DEF ScanInv, InOrder, Ascending, EachRowOnce
<1>3. NoRowSkipped
  BY DEF ScanInv, ScanTypes, NoneLost, Ahead, Listed, NoRowSkipped
<1> QED
  BY <1>1, <1>2, <1>3

(* Every variable of a scan has its type. *)
THEOREM ScanTyped == ScanSpec => []ScanTypeOK
  BY ScanStarts, ScanStep, ScanMeans, PTL DEF ScanSpec

(* For any keys, page size and writes of others, in both directions: the    *)
(* caller gets the rows in order, each once, also across a change of the    *)
(* broker - unless the row a page ended with was deleted.                   *)
THEOREM RowsComeOnce == ScanSpec => []EachRowOnce
  BY ScanStarts, ScanStep, ScanMeans, PTL DEF ScanSpec

(* A scan that ends has yielded every row that was there all along, even    *)
(* when a page's last row was deleted or the broker changed.                *)
THEOREM RowsAreAllThere == ScanSpec => []NoRowSkipped
  BY ScanStarts, ScanStep, ScanMeans, PTL DEF ScanSpec

=============================================================================
