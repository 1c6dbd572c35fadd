------------------------------ MODULE RunWake ------------------------------
(***************************************************************************)
(* How a dialog learns that the background runs it started have ended:     *)
(* the docked panel (src/tui/runDock.ts), the poller that reads the record *)
(* of every docked run each second (src/tui/runRegistryPoller.ts) and the  *)
(* watcher that turns "active, then ended" into one wake-up                *)
(* (src/tui/runCompletionWatcher.ts).  Everything runs on one event loop;  *)
(* the records change under it (module RunRegistry), reduced here to a     *)
(* status, a lease and a final acknowledgement.  All runs carry the id of  *)
(* one dialog as their parent; a run started in the very first turn of a   *)
(* new dialog carries none, is never this dialog's news, and is left out,  *)
(* as is the 64-entry bound of the retired list.                           *)
(***************************************************************************)
EXTENDS Integers, FiniteSets

CONSTANTS
  Runs,       \* the runs of the dialog
  OldRuns,    \* those started before this session
  Claims,     \* whether a wait may claim a run
  Switching,  \* whether the user may open other dialogs
  Silence     \* whether a docked run may show no change for RUN_DOCK_STALE_MS

ASSUME WakeAssumption ==
  /\ OldRuns \subseteq Runs
  /\ Claims \in BOOLEAN /\ Switching \in BOOLEAN /\ Silence \in BOOLEAN

VARIABLES
  status,    \* status on disk: "absent", "active", "ended"
  lease,     \* ackLease on disk: "none", "held", "expired"
  ack,       \* runs with ack on disk
  reply,     \* status in a tool result on its way to the panel, or "none"
  dock,      \* panel: "off", "active", "ended", "retired"
  emitted,   \* lastEmitted of the poller, "none" when absent
  polling,   \* whether the poller's interval is set
  last,      \* lastStatusByRunId of the watcher, "unseen" when absent
  notified,  \* notifiedRunIds
  home,      \* whether the open dialog is the runs' parent
  woken,     \* how many wake-ups have named the run
  told,      \* runs whose end a tool result has given to the model
  disturbed  \* runs once claimed, pruned as silent, or polled-from-away

diskVars == <<status, lease, ack>>
pollVars == <<emitted, polling>>
watchVars == <<last, notified, woken>>
wakeVars == <<diskVars, reply, dock, pollVars, watchVars, home, told, disturbed>>

WakeInit ==
  /\ status \in [Runs -> {"absent", "active", "ended"}]
  /\ \A r \in Runs : status[r] = "absent" <=> r \notin OldRuns
  /\ lease = [r \in Runs |-> "none"] /\ ack = {}
  /\ reply = [r \in Runs |-> "none"]
  /\ dock = [r \in Runs |-> "off"]
  /\ emitted = [r \in Runs |-> "none"]
  /\ polling = FALSE
  /\ last = [r \in Runs |-> "unseen"]
  /\ notified = {}
  /\ home \in BOOLEAN /\ (~Switching => home)
  /\ woken = [r \in Runs |-> 0]
  /\ told = {}
  /\ disturbed = IF home THEN {} ELSE Runs

-----------------------------------------------------------------------------
(* The records, as this session sees them change *)

StartRun(r) ==
  /\ status[r] = "absent"
  /\ status' = [status EXCEPT ![r] = "active"]
  /\ reply' = [reply EXCEPT ![r] = "active"]
  /\ UNCHANGED <<lease, ack, dock, pollVars, watchVars, home, told, disturbed>>

EndRun(r) ==
  /\ status[r] = "active"
  /\ status' = [status EXCEPT ![r] = "ended"]
  /\ UNCHANGED <<lease, ack, reply, dock, pollVars, watchVars, home, told, disturbed>>

(* isRunRecordClaimed *)
Acked(r) == r \in ack /\ lease[r] = "none"
Claimed(r) == Acked(r) \/ lease[r] = "held"

ClaimRun(r) ==
  /\ Claims /\ status[r] # "absent" /\ ~Claimed(r)
  /\ lease' = [lease EXCEPT ![r] = "held"]
  /\ ack' = ack \cup {r}
  /\ disturbed' = disturbed \cup {r}
  /\ UNCHANGED <<status, reply, dock, pollVars, watchVars, home, told>>

(* A wait that sees the end commits its claim and answers with it. *)
CommitClaim(r) ==
  /\ lease[r] \in {"held", "expired"} /\ status[r] = "ended" /\ reply[r] = "none"
  /\ lease' = [lease EXCEPT ![r] = "none"]
  /\ reply' = [reply EXCEPT ![r] = "ended"]
  /\ UNCHANGED <<status, ack, dock, pollVars, watchVars, home, told, disturbed>>

(* A wait that gives up releases it. *)
ReleaseClaim(r) ==
  /\ lease[r] \in {"held", "expired"}
  /\ lease' = [lease EXCEPT ![r] = "none"]
  /\ ack' = ack \ {r}
  /\ UNCHANGED <<status, reply, dock, pollVars, watchVars, home, told, disturbed>>

(* A wait that was killed, or outlives its lease. *)
LeaseExpires(r) ==
  /\ lease[r] = "held"
  /\ lease' = [lease EXCEPT ![r] = "expired"]
  /\ UNCHANGED <<status, ack, reply, dock, pollVars, watchVars, home, told, disturbed>>

-----------------------------------------------------------------------------
(* Panel *)

(* The model asks for a run's status; the record is read here. *)
AskStatus(r) ==
  /\ status[r] # "absent" /\ reply[r] = "none"
  /\ reply' = [reply EXCEPT ![r] = status[r]]
  /\ UNCHANGED <<diskVars, dock, pollVars, watchVars, home, told, disturbed>>

(* update of the panel; a retired run does not come back. *)
Docked(r, s) == IF dock[r] = "retired" THEN "retired" ELSE s

(* Mutant of DeliverReply: docks without ensureRunning. *)
DeliverUnpolled(r) ==
  /\ reply[r] # "none"
  /\ reply' = [reply EXCEPT ![r] = "none"]
  /\ dock' = [dock EXCEPT ![r] = Docked(r, reply[r])]
  /\ told' = IF reply[r] = "ended" THEN told \cup {r} ELSE told
  /\ UNCHANGED <<diskVars, pollVars, watchVars, home, disturbed>>

(* The tool result arrives: onAgentRunStatus docks the run and makes sure   *)
(* that the poller runs.                                                    *)
DeliverReply(r) ==
  /\ reply[r] # "none"
  /\ reply' = [reply EXCEPT ![r] = "none"]
  /\ dock' = [dock EXCEPT ![r] = Docked(r, reply[r])]
  /\ polling' = TRUE
  /\ told' = IF reply[r] = "ended" THEN told \cup {r} ELSE told
  /\ UNCHANGED <<diskVars, emitted, watchVars, home, disturbed>>

(* prune: an ended run retires after RUN_DOCK_LINGER_MS ... *)
Retire(r) ==
  /\ dock[r] = "ended"
  /\ dock' = [dock EXCEPT ![r] = "retired"]
  /\ UNCHANGED <<diskVars, reply, pollVars, watchVars, home, told, disturbed>>

(* ... and one that no update has reached for RUN_DOCK_STALE_MS goes.  The  *)
(* poller has no update for a record that looks as when last emitted.       *)
PruneSilent(r) ==
  /\ Silence
  /\ dock[r] = "active" /\ emitted[r] = status[r]
  /\ dock' = [dock EXCEPT ![r] = "off"]
  /\ disturbed' = disturbed \cup {r}
  /\ UNCHANGED <<diskVars, reply, pollVars, watchVars, home, told>>

-----------------------------------------------------------------------------
(* Poller and watcher *)

(* The runs a tick reads: docked and not known to have ended. *)
Active == {r \in Runs : dock[r] = "active"}

(* Mutant of Finished: no memory of what has been seen and named. *)
FinishedByStatus(read) == {r \in read : home /\ ~Claimed(r) /\ status[r] = "ended"}

(* Mutant of Finished: a claim is not respected. *)
FinishedThoughClaimed(read) ==
  {r \in read \ notified :
     /\ home
     /\ status[r] = "ended" /\ last[r] # "ended"
     /\ last[r] = "unseen" => r \notin OldRuns}

(* Mutant of Finished: a run never seen active is taken for an old one. *)
FinishedIfSeen(read) ==
  {r \in read \ notified :
     /\ home /\ ~Claimed(r)
     /\ status[r] = "ended" /\ last[r] = "active"}

(* observe: the runs this tick's wake-up names.  One already seen ended, or *)
(* first seen ended and started before the watcher, is not news.            *)
Finished(read) ==
  {r \in read \ notified :
     /\ home /\ ~Claimed(r)
     /\ status[r] = "ended" /\ last[r] # "ended"
     /\ last[r] = "unseen" => r \notin OldRuns}

(* A claimed run keeps the status it had; only "active" is recorded. *)
Recorded(read) ==
  {r \in read \ notified : home /\ (Claimed(r) => status[r] = "active")}

Observe(read) ==
  /\ notified' = notified \cup Finished(read)
  /\ woken' = [r \in Runs |-> IF r \in Finished(read) THEN woken[r] + 1 ELSE woken[r]]
  /\ last' = [r \in Runs |-> IF r \in Recorded(read) THEN status[r] ELSE last[r]]

(* A tick: update the panel where the record looks new, then the watcher.   *)
Poll ==
  /\ polling /\ Active # {}
  /\ dock' = [r \in Runs |->
                IF r \in Active /\ emitted[r] # status[r] THEN status[r] ELSE dock[r]]
  /\ emitted' = [r \in Runs |-> IF r \in Active THEN status[r] ELSE "none"]
  /\ Observe(Active)
  /\ UNCHANGED <<diskVars, reply, polling, home, told, disturbed>>

StopPolling ==
  /\ polling /\ Active = {}
  /\ polling' = FALSE
  /\ emitted' = [r \in Runs |-> "none"]
  /\ UNCHANGED <<diskVars, reply, dock, watchVars, home, told, disturbed>>

(* The user opens another dialog (/new, a pick, the copy that /compact forks *)
(* off), or comes back. *)
SwitchDialog ==
  /\ Switching
  /\ home' = ~home
  /\ disturbed' = Runs
  /\ UNCHANGED <<diskVars, reply, dock, pollVars, watchVars, told>>

-----------------------------------------------------------------------------
RunStep(r) ==
  \/ StartRun(r) \/ EndRun(r)
  \/ ClaimRun(r) \/ CommitClaim(r) \/ ReleaseClaim(r) \/ LeaseExpires(r)
  \/ AskStatus(r) \/ DeliverReply(r)
  \/ Retire(r) \/ PruneSilent(r)

WakeNext == (\E r \in Runs : RunStep(r)) \/ Poll \/ StopPolling \/ SwitchDialog

(* The interval fires again and again, and tool results reach the panel. *)
WakeFairness == WF_wakeVars(Poll) /\ \A r \in Runs : WF_wakeVars(DeliverReply(r))

WakeSpec == WakeInit /\ [][WakeNext]_wakeVars /\ WakeFairness

-----------------------------------------------------------------------------
(* Type invariant. *)
WakeTypeOK ==
  /\ status \in [Runs -> {"absent", "active", "ended"}]
  /\ lease \in [Runs -> {"none", "held", "expired"}]
  /\ ack \subseteq Runs
  /\ reply \in [Runs -> {"none", "active", "ended"}]
  /\ dock \in [Runs -> {"off", "active", "ended", "retired"}]
  /\ emitted \in [Runs -> {"none", "active", "ended"}]
  /\ polling \in BOOLEAN /\ home \in BOOLEAN
  /\ last \in [Runs -> {"unseen", "active", "ended"}]
  /\ notified \subseteq Runs /\ told \subseteq Runs /\ disturbed \subseteq Runs
  /\ woken \in [Runs -> Nat]

(* A run wakes the dialog at most once, however often the panel, the poller *)
(* and the model's own queries bring it back                                *)
(* (src/tui/runCompletionWatcher.ts:15).                                    *)
WakesOnce == \A r \in Runs : woken[r] <= 1

(* A run whose end a wait holds or has collected wakes nobody               *)
(* (src/tui/runCompletionWatcher.ts:16).                                    *)
ClaimedStaysSilent ==
  [][\A r \in Runs : woken'[r] # woken[r] => ~Claimed(r) /\ r \notin notified]_wakeVars

(* Somebody still looks at the run: the poller reads it and the watcher     *)
(* would take its end for news.                                             *)
Watched(r) == dock[r] = "active" /\ polling /\ last[r] # "ended" /\ r \notin notified

(* The dialog that is open has been given the end of its run, or will be:   *)
(* the run is watched, or a tool result about it is on its way.             *)
Heeded(r) ==
  home /\ status[r] = "ended" /\ r \notin OldRuns
    => woken[r] > 0 \/ r \in told \/ Watched(r) \/ reply[r] # "none"

(* Coming back to the dialog lets the wake-up happen (src/tui/              *)
(* runCompletionWatcher.ts:18), so no end is forgotten.                     *)
NoEndForgotten == \A r \in Runs : Heeded(r)

(* An end is forgotten only if the run was once claimed or silent for long, *)
(* or the user has been in another dialog.                                  *)
UndisturbedHeeded == \A r \in Runs \ disturbed : Heeded(r)

(* The undisturbed dialog does get the end of every run it started. *)
UndisturbedWakes ==
  \A r \in Runs \ OldRuns :
    status[r] = "ended" ~> woken[r] > 0 \/ r \in told \/ r \in disturbed

=============================================================================
