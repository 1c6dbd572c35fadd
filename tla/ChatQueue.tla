----------------------------- MODULE ChatQueue -----------------------------
(***************************************************************************)
(* The pure queue machine of src/core/chat/chatQueueMachine.ts that every  *)
(* client shares: follow-ups typed while a turn runs are staged and fed to *)
(* the next turns.  A turn request is the set of messages it carries (one, *)
(* or several after a flush has merged them).  lastDrainError is display   *)
(* only, and drainPaused is set by no terminal client; both are left out.  *)
(***************************************************************************)
EXTENDS Integers, Sequences

Requests(ids) == (SUBSET ids) \ {{}}

ChatQueueState(ids) == [running: BOOLEAN, queue: Seq(Requests(ids))]

EmptyQueue == [running |-> FALSE, queue |-> <<>>]

(* Mutant of Enqueue: the newest follow-up first. *)
EnqueueFront(q, req) == [q EXCEPT !.queue = <<req>> \o @]

(* Mutant of Dequeue: the head stays queued when its turn begins. *)
DequeueNothing(q) == q

(* reduceChatQueue, one operator per event *)
TurnStart(q) == [q EXCEPT !.running = TRUE]
Enqueue(q, req) == [q EXCEPT !.queue = Append(@, req)]
Dequeue(q) == [q EXCEPT !.queue = Tail(@)]
Clear(q) == [q EXCEPT !.queue = <<>>]

(* An abort abandons the follow-ups unless the client has reinterpreted it. *)
TurnEnd(q, outcome) ==
  [running |-> FALSE, queue |-> IF outcome.aborted THEN <<>> ELSE q.queue]

ShouldDrain(q, clean) == clean /\ ~q.running /\ q.queue # <<>>

(* The messages staged in a queue. *)
Staged(q) == UNION {q.queue[i] : i \in DOMAIN q.queue}

=============================================================================
