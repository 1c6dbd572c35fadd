------------------------------ MODULE MCTerminal ------------------------------
(***************************************************************************)
(* The interactive terminal for TLC: the composer with its queue of        *)
(* follow-ups, and the way the end of a background run reaches the dialog. *)
(* They meet only in the wake-up message, which TuiSession takes as coming *)
(* at any time; so a behaviour follows one of them while the other stays   *)
(* as it began.                                                            *)
(***************************************************************************)
EXTENDS TuiSession, RunWake

VARIABLE part    \* the one a behaviour follows

vars == <<part, sessionVars, wakeVars>>

Init ==
  /\ part \in {"session", "wake"}
  /\ SessionInit /\ WakeInit
  /\ part = "session" => home /\ \A r \in OldRuns : status[r] = "ended"

Next ==
  /\ UNCHANGED part
  /\ \/ part = "session" /\ SessionNext
     \/ part # "session" /\ UNCHANGED sessionVars
  /\ \/ part = "wake" /\ WakeNext
     \/ part # "wake" /\ UNCHANGED wakeVars

(* SessionFairness and WakeFairness, for the part that is followed. *)
Fairness ==
  /\ WF_sessionVars(part = "session" /\ \E req \in prep : ImagesRead(req))
  /\ WF_sessionVars(part = "session" /\ SettleStopped)
  /\ WF_wakeVars(part = "wake" /\ Poll)
  /\ \A r \in Runs : WF_wakeVars(part = "wake" /\ DeliverReply(r))

Spec == Init /\ [][Next]_vars /\ Fairness

-----------------------------------------------------------------------------
(* Every variable of the two has its type. *)
TypeOK == SessionTypeOK /\ WakeTypeOK
=============================================================================
