----------------------------- MODULE RecordSync -----------------------------
(***************************************************************************)
(* One record as this device and its servers keep it, under the actions of *)
(* src/database/actions: read, readAndWait, write, patch, remove, purge.   *)
(* Each reads and writes the local store in steps between which others     *)
(* run.  What it tells the servers is sent once to each and may arrive     *)
(* late, in another order or not at all, and other devices change the      *)
(* record there too; so of the servers only the versions are kept that one *)
(* may hold at some time.  Left out: files, tenants, the choice of servers *)
(* beyond "a preferred one is asked first", and the cool-downs of reads.   *)
(***************************************************************************)
EXTENDS Tombstones, Sequences, FiniteSets, SequencesExt

CONSTANTS
  Server,      \* the servers
  First,       \* the one that is asked first
  Tasks,       \* bound: actions of this device at a time
  MaxTime,     \* bound: the clock
  MaxActions,  \* bound: actions of this device
  MaxForeign   \* bound: changes by other devices

ASSUME SyncAssumption ==
  /\ First \in Server /\ IsFiniteSet(Server)
  /\ MaxTime \in Nat \ {0} /\ {MaxActions, MaxForeign} \subseteq Nat
  /\ NoRecord \notin Versions(Nat)

VARIABLES
  local,      \* the record in this device's store
  served,     \* the versions a server may hold
  task,       \* the actions under way
  now,        \* the time, which all share
  actions, foreign,   \* so many so far
  wiped,      \* when this device last deleted a record that nobody restored
  overlapped, \* another action was under way as it did
  waited      \* readAndWait was called since

deleteVars == <<wiped, overlapped, waited>>
countVars == <<now, actions, foreign>>
syncVars == <<local, served, task, countVars, deleteVars>>

Version == Versions(0..MaxTime + MaxActions)
MaybeVersion == Version \cup {NoRecord}

Idle == [op |-> "idle", copy |-> NoRecord, ask |-> {}, first |-> "no",
         got |-> [s \in Server |-> NoRecord]]

SyncInit ==
  /\ local \in {NoRecord, Written(1)} /\ served \in {{}, {Written(1)}}
  /\ task = [t \in Tasks |-> Idle]
  /\ now = 1 /\ actions = 0 /\ foreign = 0
  /\ wiped = 0 /\ overlapped = FALSE /\ waited = FALSE

End(t) == task' = [task EXCEPT ![t] = Idle]

(* What a server that holds v makes of a request: external. *)
Changed(v, what, body) ==
  IF what = "edit" THEN [v EXCEPT !.updated = body]
  ELSE IF what = "restore" THEN Restored(body)
  ELSE IF Dead(v) THEN v ELSE Tombstone(body)

Served(v, what, body) ==
  IF what = "write" THEN {body}
  ELSE IF what = "purge" \/ v = NoRecord THEN {} ELSE {Changed(v, what, body)}

Tell(what, body) ==
  served' = served \cup UNION {Served(v, what, body) : v \in served \cup {NoRecord}}

(* The deletion is over when the record comes back restored. *)
Keep(v) ==
  /\ local' = v
  /\ wiped' = IF Alive(v) /\ v.restored > wiped THEN 0 ELSE wiped
  /\ UNCHANGED <<overlapped, waited>>

-----------------------------------------------------------------------------
(* The actions of this device *)

(* The local record is read.  A read that finds it asks all servers, in     *)
(* the background; else, and in readAndWait always, a preferred server is   *)
(* asked before the others.                                                 *)
StartAction(t, op, preferred) ==
  /\ task[t].op = "idle" /\ actions < MaxActions
  /\ op \in {"edit", "restore"} => local # NoRecord
  /\ op = "purge" => ~Alive(local)
  /\ LET first == preferred /\ (op = "wait" \/ (op = "read" /\ local = NoRecord))
     IN task' = [task EXCEPT ![t] =
          [Idle EXCEPT !.op = op, !.copy = local, !.first = IF first THEN "asked" ELSE "no",
             !.ask = IF op \notin {"read", "wait"} THEN {}
                     ELSE IF first THEN {First} ELSE Server]]
  /\ actions' = actions + 1
  /\ waited' = (waited \/ op = "wait")
  /\ UNCHANGED <<local, served, now, foreign, wiped, overlapped>>

(* A server answers, or cannot be reached in time. *)
ServerAnswers(t, s) ==
  /\ s \in task[t].ask
  /\ \E v \in served \cup {NoRecord} :
       task' = [task EXCEPT ![t].ask = @ \ {s}, ![t].got[s] = v]
  /\ UNCHANGED <<local, served, countVars, deleteVars>>

(* The record of the preferred server is kept whatever is here. *)
PreferredAnswers(t) ==
  /\ task[t].first = "asked" /\ task[t].ask = {} /\ task[t].got[First] # NoRecord
  /\ Keep(task[t].got[First]) /\ End(t)
  /\ UNCHANGED <<served, countVars>>

PreferredFails(t) ==
  /\ task[t].first = "asked" /\ task[t].ask = {} /\ task[t].got[First] = NoRecord
  /\ task' = [task EXCEPT ![t].first = "failed", ![t].ask = Server \ {First}]
  /\ UNCHANGED <<local, served, countVars, deleteVars>>

(* readAndWait compares the times of change only. *)
Newer(op, next, cur) ==
  IF op = "wait" THEN next.updated > cur.updated ELSE Beats(next, cur)

(* pickBestSettledRemoteRecord: the first of the best, NoRecord without any *)
Best(op, got) ==
  FoldLeft(LAMBDA best, s : IF got[s] # NoRecord /\ (best = NoRecord \/ Newer(op, got[s], best))
                            THEN got[s] ELSE best,
           NoRecord, <<First>> \o SetToSeq(Server \ {First}))

(* All have answered.  The best record replaces the local one if it beats   *)
(* what was read of it at the beginning; without any, that copy is written  *)
(* to the servers, unless none but the preferred one was asked.             *)
SettleRead(t) ==
  LET op == task[t].op
      copy == task[t].copy
      got == task[t].got
  IN /\ op \in {"read", "wait"} /\ task[t].first # "asked" /\ task[t].ask = {}
     /\ \E best \in {got[s] : s \in Server} \cup {NoRecord} :
          /\ best = Best(op, got)
          /\ IF best # NoRecord /\ (copy = NoRecord \/ Newer(op, best, copy))
             THEN Keep(best)
             ELSE UNCHANGED <<local, deleteVars>>
          /\ IF /\ best = NoRecord /\ copy # NoRecord
                /\ task[t].first = "failed" => Server # {First}
             THEN Tell("write", copy)
             ELSE UNCHANGED served
     /\ End(t) /\ UNCHANGED countVars

(* The caller of a read that waits for the network gives up. *)
Abandon(t) ==
  /\ task[t].op = "read" /\ task[t].copy = NoRecord
  /\ End(t)
  /\ UNCHANGED <<local, served, countVars, deleteVars>>

Later(v) == IF now > v.updated THEN now ELSE v.updated + 1

(* patchAction merges the change into the copy it has read: a deleted one   *)
(* stays deleted.                                                           *)
PutEdit(t) ==
  /\ task[t].op = "edit"
  /\ LET at == Later(task[t].copy)
     IN Keep([task[t].copy EXCEPT !.updated = at]) /\ Tell("edit", at)
  /\ End(t) /\ UNCHANGED countVars

PutRestored(t) ==
  /\ task[t].op = "restore"
  /\ local' = Restored(now) /\ Tell("restore", now)
  /\ wiped' = 0 /\ UNCHANGED <<overlapped, waited>>
  /\ End(t) /\ UNCHANGED countVars

(* writeAction *)
Write ==
  /\ actions < MaxActions /\ actions' = actions + 1
  /\ local' = Written(now)
  /\ Tell("write", local')
  /\ wiped' = 0 /\ UNCHANGED <<overlapped, waited>>
  /\ UNCHANGED <<task, now, foreign>>

Overlapped(t) == \E u \in Tasks \ {t} : task[u].op # "idle"

(* removeAction leaves a tombstone even where it has found nothing. *)
PutTombstone(t) ==
  /\ task[t].op = "remove"
  /\ local' = Tombstone(now) /\ Tell("delete", now)
  /\ wiped' = now /\ overlapped' = Overlapped(t) /\ waited' = FALSE
  /\ End(t) /\ UNCHANGED countVars

(* purgeAction *)
Purge(t) ==
  /\ task[t].op = "purge"
  /\ local' = NoRecord /\ Tell("purge", NoRecord)
  /\ wiped' = 0 /\ UNCHANGED <<overlapped, waited>>
  /\ End(t) /\ UNCHANGED countVars

-----------------------------------------------------------------------------
(* The other devices *)

Foreign(what) ==
  /\ foreign < MaxForeign /\ foreign' = foreign + 1
  /\ Tell(what, now)
  /\ UNCHANGED <<local, task, now, actions, deleteVars>>

Tick ==
  /\ now < MaxTime /\ now' = now + 1
  /\ UNCHANGED <<local, served, task, actions, foreign, deleteVars>>

SyncNext ==
  \/ \E t \in Tasks :
       \/ \E op \in {"edit", "restore", "remove", "purge"} : StartAction(t, op, FALSE)
       \/ \E op \in {"read", "wait"}, preferred \in BOOLEAN : StartAction(t, op, preferred)
       \/ \E s \in Server : ServerAnswers(t, s)
       \/ PreferredAnswers(t) \/ PreferredFails(t) \/ SettleRead(t) \/ Abandon(t)
       \/ PutEdit(t) \/ PutRestored(t) \/ PutTombstone(t) \/ Purge(t)
  \/ Write
  \/ \E what \in {"edit", "restore", "delete"} : Foreign(what)
  \/ Tick

SyncSpec == SyncInit /\ [][SyncNext]_syncVars

-----------------------------------------------------------------------------
(* Every variable has its type. *)
SyncTypeOK ==
  /\ local \in MaybeVersion /\ served \subseteq Version
  /\ task \in [Tasks -> [op : {"idle", "read", "wait", "edit", "restore", "remove", "purge"},
                         copy : MaybeVersion, ask : SUBSET Server, first : {"no", "asked", "failed"},
                         got : [Server -> MaybeVersion]]]
  /\ now \in 1..MaxTime /\ actions \in 0..MaxActions /\ foreign \in 0..MaxForeign
  /\ wiped \in 0..MaxTime /\ {overlapped, waited} \subseteq BOOLEAN

(* removeAction leaves a tombstone so that no older version of the record   *)
(* comes back with a later read: what this device deleted stays deleted     *)
(* here until somebody restores it or it is written anew.  It holds where   *)
(* no other action was under way at the deletion and readAndWait was not    *)
(* called since.                                                            *)
CalmDeletionHolds ==
  wiped # 0 /\ ~overlapped /\ ~waited => local # NoRecord /\ Dead(local)

(* The same with readAndWait, as the comment on the tombstone says. *)
DeletionHolds ==
  wiped # 0 /\ ~overlapped => local # NoRecord /\ Dead(local)
=============================================================================
