--------------------------- MODULE MCRunRegistry ---------------------------
(* Small instances of RunRegistry: who lives in which process.             *)
EXTENDS RunRegistry

CONSTANTS tui

(* Every actor is a process of its own.                                     *)
OwnHosts == [p \in Proc |-> p]

(* The child apart, everybody lives in one TUI.                             *)
OneTui == [p \in Proc |-> IF p = Child THEN Child ELSE tui]
=============================================================================
