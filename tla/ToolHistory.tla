---------------------------- MODULE ToolHistory ----------------------------
(***************************************************************************)
(* What a provider is shown of a dialog: the operators that keep every     *)
(* tool call next to its result.  sanitizeToolCallPairing                  *)
(* (src/agent-runtime/toolCallPairing.ts) runs on every request of the     *)
(* local loop, sanitizeOutboundHistory (outboundHistorySanitize.ts) inside *)
(* the OpenAI-compatible and platform providers, and                       *)
(* guardToolChainBoundary (src/ai/context/planCompression.ts) where a      *)
(* summary replaces the head of a dialog.                                  *)
(*                                                                         *)
(* A message keeps what these functions look at: its role, whether it has  *)
(* any visible content, the calls it declares, the call it answers, and    *)
(* the calls and results that were turned into text of it.                 *)
(***************************************************************************)
EXTENDS SequencesExt

NoId == 0                \* a call or an answer without an id

User == [role |-> "user", text |-> TRUE, calls |-> <<>>, id |-> NoId, notes |-> {}]
Assistant(text, calls) == [User EXCEPT !.role = "assistant", !.text = text, !.calls = calls]
Answer(id) == [User EXCEPT !.role = "tool", !.id = id]
Note(kind, id) == [kind |-> kind, id |-> id]

IdsOf(calls) == {calls[k].id : k \in DOMAIN calls}
Declares(m, id) == m.role = "assistant" /\ id # NoId /\ id \in IdsOf(m.calls)
Answers(m, id) == m.role = "tool" /\ id # NoId /\ m.id = id

-----------------------------------------------------------------------------
(* sanitizeToolCallPairing *)

FirstDeclarer(h, id) == SelectInSeq(h, LAMBDA m : Declares(m, id))
FirstAnswer(h, id) == SelectInSeq(h, LAMBDA m : Answers(m, id))

(* A filter: the calls at the places in keep, in their order. *)
Picked(calls, keep) ==
  [n \in 1..Cardinality(keep) |->
     calls[CHOOSE k \in keep : Cardinality({l \in keep : l <= k}) = n]]

(* The calls of message i that it keeps: answered somewhere, first declared *)
(* here, and not a second time in this very message.                        *)
Matched(h, i) ==
  LET calls == h[i].calls
      keep == {k \in DOMAIN calls :
                 /\ calls[k].id # NoId
                 /\ FirstAnswer(h, calls[k].id) # 0
                 /\ FirstDeclarer(h, calls[k].id) = i
                 /\ \A l \in 1..(k - 1) : calls[l].id # calls[k].id}
  IN  Picked(calls, keep)

(* What becomes of message i, with the answers moved up behind it. *)
PairedAt(h, i) ==
  LET m == h[i]
      matched == Matched(h, i)
  IN  CASE m.role = "tool" -> <<>>
        [] m.role # "tool" /\ m.calls = <<>> -> <<m>>
        [] m.calls # <<>> /\ matched # <<>> ->
             <<[m EXCEPT !.calls = matched]>>
               \o [n \in DOMAIN matched |-> h[FirstAnswer(h, matched[n].id)]]
        [] m.calls # <<>> /\ matched = <<>> ->
             IF m.text THEN <<[m EXCEPT !.calls = <<>>]>> ELSE <<>>

PairToolCalls(h) == FlattenSeq([i \in DOMAIN h |-> PairedAt(h, i)])

-----------------------------------------------------------------------------
(* sanitizeOutboundHistory: calls the request does not declare, and calls   *)
(* nobody answered, are turned into text, and so are answers to them.       *)

AllCalls(h) == UNION {{h[i].calls[k] : k \in DOMAIN h[i].calls} : i \in DOMAIN h}

KeptIdsUndeclared(h, declared) ==   \* mutant: asks only for an answered call
  {id \in {h[i].id : i \in DOMAIN h} \ {NoId} :
     /\ \E i \in DOMAIN h : Answers(h[i], id)
     /\ \E call \in AllCalls(h) : call.id = id}

KeptIds(h, declared) ==
  {id \in {h[i].id : i \in DOMAIN h} \ {NoId} :
     /\ \E i \in DOMAIN h : Answers(h[i], id)
     /\ \E c \in AllCalls(h) : c.id = id /\ c.tool \in declared}

OutboundAtDropping(m, kept, declared) ==   \* mutant: an orphan result is lost
  IF m.role = "tool" /\ m.id \notin kept THEN Assistant(TRUE, <<>>) ELSE m

OutboundAt(m, kept, declared) ==
  LET Structural(c) == c.tool \in declared /\ c.id \in kept
      dropped == {c \in AllCalls(<<m>>) : ~Structural(c)}
  IN  CASE m.role = "user" -> m
        [] m.role = "assistant" ->
             [m EXCEPT !.calls = Picked(@, {k \in DOMAIN m.calls : Structural(m.calls[k])}),
                       !.text = @ \/ dropped # {},
                       !.notes = @ \cup {Note("call", c.id) : c \in dropped}]
        [] m.role = "tool" /\ m.id \in kept -> m
        [] m.role = "tool" /\ m.id \notin kept ->
             [Assistant(TRUE, <<>>) EXCEPT !.notes = {Note("result", m.id)}]

Outbound(h, declared) ==
  [i \in DOMAIN h |-> OutboundAt(h[i], KeptIds(h, declared), declared)]

-----------------------------------------------------------------------------
(* guardToolChainBoundary: how many of the pending messages a summary may   *)
(* stand for when n would fit the budget.                                   *)

GuardBoundaryForward(pending, n) ==   \* mutant: does not walk back over answers
  IF n > 0 /\ pending[n].calls # <<>> THEN n - 1 ELSE n

GuardBoundary(pending, n) ==
  LET cut == IF n \in 1..(Len(pending) - 1)
             THEN CHOOSE c \in 0..n :
                    /\ c = 0 \/ pending[c + 1].role # "tool"
                    /\ \A d \in (c + 1)..n : pending[d + 1].role = "tool"
             ELSE n
  IN  IF cut > 0 /\ pending[cut].calls # <<>> THEN cut - 1 ELSE cut

-----------------------------------------------------------------------------
(* The pairing contract of the wire (head comment of toolCallPairing.ts):   *)
(* an assistant message with calls is followed at once by the answer to     *)
(* each, and there is no other answer.                                      *)

AnsweredInPlace(h, i) ==
  LET n == Len(h[i].calls)
  IN  /\ i + n <= Len(h)
      /\ \A j \in (i + 1)..(i + n) : h[j].role = "tool"
      /\ {h[j].id : j \in (i + 1)..(i + n)} = IdsOf(h[i].calls) \ {NoId}
      /\ Cardinality(IdsOf(h[i].calls)) = n

Expected(h, j) ==
  \E i \in 1..(j - 1) : j - i <= Len(h[i].calls) /\ h[j].id \in IdsOf(h[i].calls)

Paired(h) ==
  /\ \A i \in DOMAIN h : h[i].calls # <<>> => AnsweredInPlace(h, i)
  /\ \A j \in DOMAIN h : h[j].role = "tool" => Expected(h, j)
  /\ \A i, j \in DOMAIN h : i # j => IdsOf(h[i].calls) \cap IdsOf(h[j].calls) = {}

(* What a reader of h learns of: the results it sees, as answers or as text. *)
ResultsSeen(h) ==
  {h[i].id : i \in {j \in DOMAIN h : h[j].role = "tool"}}
    \cup {n.id : n \in {o \in UNION {h[i].notes : i \in DOMAIN h} : o.kind = "result"}}
=============================================================================
