--------------------------- MODULE RunRecordLock ---------------------------
(***************************************************************************)
(* The best-effort lock file around a run record's read-modify-write:      *)
(* withRunRecordLock of agentRunControl.ts.  Every file-system call of the *)
(* function is a step, because the processes that contend for the lock     *)
(* (the run's own child, a TUI, other CLI processes) interleave there.     *)
(*                                                                         *)
(* The lock file lives at `<runs>/<runId>.json.lock`; one run is modelled, *)
(* so there is one file.  The callback is the stage "in" of its caller.    *)
(***************************************************************************)
CONSTANTS Proc,      \* the contenders
          None,      \* no process
          Mortal,    \* those that may be killed at any instruction
          Suspend    \* may a live holder be stopped for LOCK_STALE_MS?

ASSUME LockAssumption ==
    None \notin Proc /\ Mortal \subseteq Proc /\ Suspend \in BOOLEAN

VARIABLES lockFile,  \* the creator of the lock file, or None: no such file
          stale,     \* the lock file is older than LOCK_STALE_MS
          stage,     \* where each process is in withRunRecordLock
          held,      \* each process's local `held`
          strict     \* each process's opts.strict

lockVars == <<lockFile, stale, stage, held, strict>>

Stage == {"out", "stat", "break", "recreate", "in", "leave", "denied", "dead"}

LockTypeOK ==
    /\ lockFile \in Proc \cup {None}
    /\ stale \in BOOLEAN
    /\ stage \in [Proc -> Stage]
    /\ held \in [Proc -> BOOLEAN]
    /\ strict \in [Proc -> BOOLEAN]

LockInit ==
    /\ lockFile = None
    /\ stale = FALSE
    /\ stage = [p \in Proc |-> "out"]
    /\ held = [p \in Proc |-> FALSE]
    /\ strict = [p \in Proc |-> FALSE]

(* writeFileSync(lockPath, pid, {flag: "wx"}) has created the file for p.   *)
CreateLock(p) ==
    /\ lockFile = None
    /\ lockFile' = p
    /\ stale' = FALSE
    /\ held' = [held EXCEPT ![p] = TRUE]
    /\ stage' = [stage EXCEPT ![p] = "in"]

(* The lock was not taken: a strict caller gets undefined, any other runs   *)
(* its callback all the same.                                               *)
GoUnlocked(p) ==
    /\ stage' = [stage EXCEPT ![p] = IF strict[p] THEN "denied" ELSE "in"]
    /\ UNCHANGED <<lockFile, stale, held>>

(* The first exclusive create.                                              *)
TryLock(p, isStrict) ==
    /\ stage[p] = "out"
    /\ strict' = [strict EXCEPT ![p] = isStrict]
    /\ \/ CreateLock(p)
       \/ /\ lockFile # None
          /\ stage' = [stage EXCEPT ![p] = "stat"]
          /\ UNCHANGED <<lockFile, stale, held>>

(* Mutant of StatLock: the age of the lock file is not looked at.           *)
StatLockBreaksAny(p) ==
    /\ stage[p] = "stat"
    /\ stage' = [stage EXCEPT ![p] = "break"]
    /\ UNCHANGED <<lockFile, stale, held, strict>>

(* Mutant of StatLock: a lock that exists is always respected.              *)
StatLockBreaksNone(p) ==
    /\ stage[p] = "stat"
    /\ GoUnlocked(p)
    /\ UNCHANGED strict

(* statSync throws on a file that is gone; only an old lock is broken.      *)
StatLock(p) ==
    /\ stage[p] = "stat"
    /\ \/ /\ lockFile # None /\ stale
          /\ stage' = [stage EXCEPT ![p] = "break"]
          /\ UNCHANGED <<lockFile, stale, held>>
       \/ /\ lockFile = None \/ ~stale
          /\ GoUnlocked(p)
    /\ UNCHANGED strict

(* unlinkSync removes whatever file is there now, whoever created it.       *)
BreakLock(p) ==
    /\ stage[p] = "break"
    /\ \/ /\ lockFile # None
          /\ lockFile' = None
          /\ stale' = FALSE
          /\ stage' = [stage EXCEPT ![p] = "recreate"]
          /\ UNCHANGED held
       \/ lockFile = None /\ GoUnlocked(p)
    /\ UNCHANGED strict

(* The second exclusive create, after the break.                            *)
RecreateLock(p) ==
    /\ stage[p] = "recreate"
    /\ \/ CreateLock(p)
       \/ lockFile # None /\ GoUnlocked(p)
    /\ UNCHANGED strict

(* The finally block: a holder unlinks the lock path, whoever's file it is. *)
LeaveLock(p) ==
    /\ stage[p] \in {"leave", "denied"}
    /\ lockFile' = IF held[p] THEN None ELSE lockFile
    /\ stale' = IF held[p] THEN FALSE ELSE stale
    /\ held' = [held EXCEPT ![p] = FALSE]
    /\ stage' = [stage EXCEPT ![p] = "out"]
    /\ strict' = [strict EXCEPT ![p] = FALSE]

(* The callback has returned.                                               *)
EndSection(p) ==
    /\ stage[p] = "in"
    /\ stage' = [stage EXCEPT ![p] = "leave"]
    /\ UNCHANGED <<lockFile, stale, held, strict>>

(* LOCK_STALE_MS go by.  A section takes microseconds, so this finds a lock *)
(* file only when its creator died or, with Suspend, was stopped in it.     *)
LockAges ==
    /\ lockFile # None /\ ~stale
    /\ Suspend \/ stage[lockFile] = "dead"
    /\ stale' = TRUE
    /\ UNCHANGED <<lockFile, stage, held, strict>>

(* The processes of D die at once; a lock file they created stays.          *)
LockDies(D) ==
    /\ stage' = [p \in Proc |-> IF p \in D THEN "dead" ELSE stage[p]]
    /\ held' = [p \in Proc |-> p \notin D /\ held[p]]
    /\ UNCHANGED <<lockFile, stale, strict>>

-----------------------------------------------------------------------------
(* The lock by itself: any process asks for it again and again, strictly or *)
(* not, and its callback does nothing to the lock.                          *)

Contend(p) ==
    \/ \E isStrict \in BOOLEAN : TryLock(p, isStrict)
    \/ StatLock(p)
    \/ BreakLock(p)
    \/ RecreateLock(p)
    \/ EndSection(p)
    \/ LeaveLock(p)

LockNext ==
    \/ \E p \in Proc : Contend(p)
    \/ \E p \in Mortal : stage[p] # "dead" /\ LockDies({p})
    \/ LockAges

(* A process that is alive goes on executing, and time goes on.             *)
LockFairness ==
    /\ \A p \in Proc : WF_lockVars(Contend(p))
    /\ WF_lockVars(LockAges)

LockSpec == LockInit /\ [][LockNext]_lockVars /\ LockFairness

-----------------------------------------------------------------------------
Holders == {p \in Proc : held[p]}

(* As long as no contender has died and none can be stopped in a section,   *)
(* the lock is exclusive: `wx` arbitrates and no live lock is ever broken.   *)
ExclusiveWhileAllLive ==
    (~Suspend /\ \A p \in Proc : stage[p] # "dead")
        => \A p, q \in Holders : p = q

(* "a dead process can never wedge the registry permanently"                *)
(* (agentRunControl.ts:206): the lock file a dead holder left is removed as  *)
(* long as somebody alive still asks for the lock.                          *)
DeadHolderNeverWedges ==
    \A p \in Mortal :
        (lockFile = p /\ stage[p] = "dead" /\ \E q \in Proc : stage[q] # "dead")
            ~> (lockFile # p \/ \A q \in Proc : stage[q] = "dead")
=============================================================================
