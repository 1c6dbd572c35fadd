---------------------------- MODULE RunLifecycle ----------------------------
(***************************************************************************)
(* What the registry promises about a run that nobody stops: its verdict   *)
(* is decided once, by the run itself while it is alive or by a reader     *)
(* once it is gone without a word, and the decision is never taken back.   *)
(***************************************************************************)
VARIABLES verdict,   \* what the record says
          process    \* what the operating system knows

Init == verdict = "absent" /\ process = "unborn"

Create == verdict = "absent" /\ verdict' = "running" /\ UNCHANGED process

Start == /\ process = "unborn" /\ verdict = "running"
         /\ process' = "alive"
         /\ UNCHANGED verdict

(* done, failed or timeout, by the process itself and only once.           *)
Report == /\ process = "alive" /\ verdict = "running"
          /\ verdict' = "reported"
          /\ UNCHANGED process

End == process = "alive" /\ process' = "gone" /\ UNCHANGED verdict

(* What a reader infers from the death of a run that did not report.       *)
Orphan == /\ process = "gone" /\ verdict = "running"
          /\ verdict' = "orphaned"
          /\ UNCHANGED process

Next == Create \/ Start \/ Report \/ End \/ Orphan

Spec == Init /\ [][Next]_<<verdict, process>>
=============================================================================
