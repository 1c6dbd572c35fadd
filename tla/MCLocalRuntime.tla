--------------------------- MODULE MCLocalRuntime ---------------------------
(***************************************************************************)
(* The parts of the local runtime that work beside each other without      *)
(* sharing state: a dialog's turns, one provider call with its retries,    *)
(* the broker of the shared store, a scan through it, the lock of a run    *)
(* record, a record beside its servers, the machine connector, and a call  *)
(* of the Cursor provider.  A behaviour follows one of them, the others    *)
(* stay as they begin; so the run has the sum of their states and not the  *)
(* product.                                                                *)
(***************************************************************************)
EXTENDS AgentLoop, ProviderRetry, AuthorityBroker, BrokerIterator, RunRecordLock,
        RecordSync, MachineSession, CursorStream

CONSTANTS
  ToolA, ToolB,
  LastFull       \* bound: turns after it go no further than their first request

VARIABLE part    \* the one a behaviour follows

Parts == {"loop", "retry", "broker", "scan", "lock", "sync", "machine",
          "cursor"}

(* Two agents, one of which lacks a tool of the other. *)
AgentSets == {{ToolA, ToolB}, {ToolB}}

vars == <<part, loopVars, retryVars, brokerVars, iterVars, lockVars, syncVars,
          machineVars, cursorVars>>

(* Where a part that is not followed stays. *)
Resting ==
  /\ part # "loop" => agent = {ToolB}
  /\ part # "retry" => transport = "direct"
  /\ part # "scan" => rows = {} /\ ~reverse
  /\ part # "sync" => local = NoRecord /\ served = {}
  /\ part # "cursor" => ~bridged

Init ==
  /\ part \in Parts
  /\ LoopInit /\ RetryInit /\ BrokerInit /\ ScanInit /\ LockInit /\ SyncInit
  /\ MachineInit /\ CursorInit
  /\ Resting

LoopStep ==
  /\ turn > LastFull => mode # "asking"
  /\ LoopNext
  /\ turn' > LastFull => ~aborted'

Next ==
  /\ UNCHANGED part
  /\ \/ part = "loop" /\ LoopStep
     \/ part # "loop" /\ UNCHANGED loopVars
  /\ \/ part = "retry" /\ RetryNext
     \/ part # "retry" /\ UNCHANGED retryVars
  /\ \/ part = "broker" /\ BrokerNext
     \/ part # "broker" /\ UNCHANGED brokerVars
  /\ \/ part = "scan" /\ ScanNext
     \/ part # "scan" /\ UNCHANGED iterVars
  /\ \/ part = "lock" /\ LockNext
     \/ part # "lock" /\ UNCHANGED lockVars
  /\ \/ part = "sync" /\ SyncNext
     \/ part # "sync" /\ UNCHANGED syncVars
  /\ \/ part = "machine" /\ MachineNext
     \/ part # "machine" /\ UNCHANGED machineVars
  /\ \/ part = "cursor" /\ CursorNext
     \/ part # "cursor" /\ UNCHANGED cursorVars

(* The fairness of each part, for the part that is followed. *)
Fairness ==
  /\ WF_loopVars(part = "loop" /\ Settle)
  /\ WF_mode(part = "loop" /\ MoveOn)
  /\ \A p \in Procs : /\ WF_brokerVars(part = "broker" /\ Step(p))
                      /\ WF_brokerVars(part = "broker" /\ Serve(p))
  /\ \A p \in Proc : WF_lockVars(part = "lock" /\ Contend(p))
  /\ WF_lockVars(part = "lock" /\ LockAges)

Spec == Init /\ [][Next]_vars /\ Fairness

-----------------------------------------------------------------------------
(* Every variable of the parts has its type. *)
TypeOK ==
  LoopTypeOK /\ RetryTypeOK /\ BrokerTypeOK /\ ScanTypeOK /\ LockTypeOK /\ SyncTypeOK
  /\ MachineTypeOK /\ CursorTypeOK
=============================================================================
