--------------------------- MODULE CursorStream ---------------------------
(***************************************************************************)
(* One call of the Cursor provider (src/agent-runtime/cursor): the server  *)
(* streams text and thoughts, and asks in the same stream for tools to be  *)
(* run, whose results go back to it before it goes on.  streamCursorChat   *)
(* hands the frames of a chunk out as they come and lets the exec messages *)
(* wait in dispatchChain, one behind the other; the loop turns the blocks  *)
(* it returns into messages (blocksToOpenAiMessages).                      *)
(*                                                                         *)
(* A frame is known by its number.  Node finishes the frames of a chunk    *)
(* before any callback of a promise, and all of those before the next      *)
(* chunk, the end of a tool or of the stream: Quiet.                       *)
(***************************************************************************)
EXTENDS SequencesExt

CONSTANT MaxFrames   \* bound: frames the server sends
ASSUME CursorAssumption == MaxFrames \in Nat

VARIABLES
  bridged,     \* ctx.executeTool is there
  wire,        \* open; chunk: frames of one are being handed out; closed
  received,    \* the kinds of the frames so far
  blocks,      \* state.blocks
  openBlock,     \* currentTextBlock or currentThinkingBlock, as <<block>>, or <<>>
  dispatches,  \* dispatchChain: frames whose handler has not begun
  executing,   \* frames whose tool runs
  replies,     \* frames answered, in order
  completion,  \* h2Completion
  outcome      \* of streamCursorChat

cursorVars == <<bridged, wire, received, blocks, openBlock, dispatches, executing,
                replies, completion, outcome>>

(* thoughtEnds: thinkingCompleted; context: an exec message that is answered *)
(* without a tool; unknown: one that is not answered at all.                 *)
Deltas == {"text", "thought"}
Execs == {"tool", "context", "unknown"}
FrameKinds == Deltas \cup Execs \cup {"thoughtEnds", "turnEnded"}

Piece(kind, f) == [kind |-> kind, frames |-> <<f>>, result |-> "none"]

CursorInit ==
  /\ bridged \in BOOLEAN
  /\ wire = "open" /\ received = <<>>
  /\ blocks = <<>> /\ openBlock = <<>>
  /\ dispatches = <<>> /\ executing = {} /\ replies = <<>>
  /\ completion = "pending" /\ outcome = "none"

-----------------------------------------------------------------------------
Settled == completion = "rejected"
             \/ (completion = "resolved" /\ dispatches = <<>> /\ executing = {})

(* No callback of a promise is due. *)
Quiet ==
  /\ wire # "chunk"
  /\ dispatches = <<>> \/ executing # {}
  /\ outcome # "none" \/ ~Settled

(* A frame of the chunk at hand or the first of a new one.  (external: the  *)
(* server sends nothing behind turnEnded.)                                  *)
Receive(kind) ==
  /\ wire = "chunk" \/ (wire = "open" /\ Quiet)
  /\ Len(received) < MaxFrames /\ ~Contains(received, "turnEnded")
  /\ received' = Append(received, kind) /\ wire' = "chunk"

(* textDelta and thinkingDelta: the open block goes on or gives way to one  *)
(* of the other kind.                                                       *)
Delta ==
  \E kind \in Deltas :
    /\ Receive(kind)
    /\ IF openBlock # <<>> /\ openBlock[1].kind = kind
       THEN /\ openBlock' = <<[openBlock[1] EXCEPT !.frames = Append(@, Len(received'))]>>
            /\ UNCHANGED blocks
       ELSE /\ openBlock' = <<Piece(kind, Len(received'))>>
            /\ blocks' = blocks \o openBlock
    /\ UNCHANGED <<bridged, dispatches, executing, replies, completion, outcome>>

ThoughtEnds ==
  /\ Receive("thoughtEnds")
  /\ IF openBlock # <<>> /\ openBlock[1].kind = "thought"
     THEN blocks' = blocks \o openBlock /\ openBlock' = <<>>
     ELSE UNCHANGED <<blocks, openBlock>>
  /\ UNCHANGED <<bridged, dispatches, executing, replies, completion, outcome>>

(* An exec message, or turnEnded, waits behind those before it. *)
Enqueue ==
  /\ \E kind \in Execs \cup {"turnEnded"} : Receive(kind)
  /\ dispatches' = Append(dispatches, Len(received'))
  /\ UNCHANGED <<bridged, blocks, openBlock, executing, replies, completion, outcome>>

ChunkEnds ==
  /\ wire = "chunk" /\ wire' = "open"
  /\ UNCHANGED <<bridged, received, blocks, openBlock, dispatches, executing,
                 replies, completion, outcome>>

-----------------------------------------------------------------------------
ReplyTo(f) == replies' = Append(replies, f)

(* synthesizeCursorExecToolCall, with the result if there is one already. *)
PushToolCall(f, result) ==
  /\ blocks' = (blocks \o openBlock) \o <<[Piece("tool", f) EXCEPT !.result = result]>>
  /\ openBlock' = <<>>

Handle(f) ==
  LET kind == received[f] IN
  \/ /\ kind = "turnEnded"
     /\ completion' = IF completion = "pending" THEN "resolved" ELSE completion
     /\ UNCHANGED <<blocks, openBlock, executing, replies>>
  \/ /\ kind = "context" /\ ReplyTo(f)
     /\ UNCHANGED <<blocks, openBlock, executing, completion>>
  \/ /\ kind = "unknown" /\ UNCHANGED <<blocks, openBlock, executing, replies, completion>>
  \/ /\ kind = "tool" /\ bridged
     /\ PushToolCall(f, "none") /\ executing' = executing \cup {f}
     /\ UNCHANGED <<replies, completion>>
  \/ /\ kind = "tool" /\ ~bridged
     /\ PushToolCall(f, "error") /\ ReplyTo(f)
     /\ UNCHANGED <<executing, completion>>

DispatchExecAtOnce ==   \* mutant: handlers do not wait for each other
  /\ wire # "chunk" /\ dispatches # <<>>
  /\ dispatches' = Tail(dispatches) /\ Handle(Head(dispatches))
  /\ UNCHANGED <<bridged, wire, received, outcome>>

(* The next handler of the chain. *)
DispatchExec ==
  /\ wire # "chunk" /\ dispatches # <<>> /\ executing = {}
  /\ dispatches' = Tail(dispatches) /\ Handle(Head(dispatches))
  /\ UNCHANGED <<bridged, wire, received, outcome>>

(* executeTool returns, or throws, or what it returned cannot be converted. *)
ExecEnds ==
  /\ Quiet
  /\ \E f \in executing, result \in {"ok", "error"} :
       /\ executing' = executing \ {f}
       /\ blocks' = [b \in DOMAIN blocks |->
                       IF blocks[b].frames = <<f>>
                       THEN [blocks[b] EXCEPT !.result = result] ELSE blocks[b]]
       /\ ReplyTo(f)
  /\ UNCHANGED <<bridged, wire, received, openBlock, dispatches, completion, outcome>>

(* The stream ends, with or without an error frame before it, or breaks. *)
StreamCloses ==
  /\ wire = "open" /\ Quiet
  /\ wire' = "closed"
  /\ \E how \in {"resolved", "rejected"} :
       completion' = IF completion = "pending" THEN how ELSE completion
  /\ UNCHANGED <<bridged, received, blocks, openBlock, dispatches, executing, replies,
                 outcome>>

ReturnReplyAtEnd ==   \* mutant: dispatchChain is not awaited
  /\ wire # "chunk" /\ outcome = "none" /\ completion = "resolved"
  /\ outcome' = "returned" /\ wire' = "closed"
  /\ blocks' = blocks \o openBlock /\ openBlock' = <<>>
  /\ UNCHANGED <<bridged, received, dispatches, executing, replies, completion>>

(* streamCursorChat goes on once the stream is complete and every exec      *)
(* message was handled, and closes the stream.                              *)
ReturnReply ==
  /\ wire # "chunk" /\ outcome = "none" /\ completion = "resolved"
  /\ dispatches = <<>> /\ executing = {}
  /\ outcome' = "returned" /\ wire' = "closed"
  /\ blocks' = blocks \o openBlock /\ openBlock' = <<>>
  /\ UNCHANGED <<bridged, received, dispatches, executing, replies, completion>>

(* It throws at once; what is in dispatchChain goes on. *)
FailCall ==
  /\ wire # "chunk" /\ outcome = "none" /\ completion = "rejected"
  /\ outcome' = "failed" /\ wire' = "closed"
  /\ UNCHANGED <<bridged, received, blocks, openBlock, dispatches, executing, replies,
                 completion>>

CursorNext ==
  \/ Delta \/ ThoughtEnds \/ Enqueue \/ ChunkEnds
  \/ DispatchExec \/ ExecEnds \/ StreamCloses \/ ReturnReply \/ FailCall

CursorSpec == CursorInit /\ [][CursorNext]_cursorVars

-----------------------------------------------------------------------------
(* blocksToOpenAiMessages: an assistant's message for a stretch of text and  *)
(* the calls behind it, then the answers; the next text begins another one.  *)

NoSegment == [out |-> <<>>, text |-> <<>>, thought |-> <<>>, calls |-> <<>>]

FlushSegment(s) ==
  IF s.text \o s.thought \o s.calls = <<>> THEN s
  ELSE [NoSegment EXCEPT !.out =
          Append(s.out, [role |-> "assistant", text |-> s.text, calls |-> s.calls])
            \o [k \in DOMAIN s.calls |->
                  [role |-> "tool", text |-> <<>>, calls |-> <<s.calls[k]>>]]]

TakeBlock(s, b) ==
  CASE b.kind = "text" ->
         LET before == IF s.calls # <<>> THEN FlushSegment(s) ELSE s
         IN  [before EXCEPT !.text = @ \o b.frames]
    [] b.kind = "thought" -> [s EXCEPT !.thought = @ \o b.frames]
    [] b.kind = "tool" -> [s EXCEPT !.calls = @ \o b.frames]

Segments[k \in 0..Len(blocks)] ==   \* after k blocks
  IF k = 0 THEN NoSegment ELSE TakeBlock(Segments[k - 1], blocks[k])

OpenAiMessages == FlushSegment(Segments[Len(blocks)]).out

-----------------------------------------------------------------------------
(* Properties *)

Numbers(kinds) == {f \in DOMAIN received : received[f] \in kinds}

CursorTypeOK ==
  /\ bridged \in BOOLEAN /\ wire \in {"open", "chunk", "closed"}
  /\ received \in Seq(FrameKinds) /\ Len(received) <= MaxFrames
  /\ \A b \in ToSet(blocks \o openBlock) :
       /\ b.kind \in Deltas \cup {"tool"} /\ b.result \in {"none", "ok", "error"}
       /\ ToSet(b.frames) \subseteq DOMAIN received /\ b.frames # <<>>
  /\ Len(openBlock) <= 1
  /\ ToSet(dispatches \o replies) \cup executing \subseteq DOMAIN received
  /\ completion \in {"pending", "resolved", "rejected"}
  /\ outcome \in {"none", "returned", "failed"}

(* Each exec message that can be answered is answered once, and in the      *)
(* order they came in, whatever fails or breaks meanwhile: "so exec replies *)
(* (async) preserve order" (dispatchChain).                                 *)
ExecRepliesInOrder ==
  /\ \A i, j \in DOMAIN replies : i < j => replies[i] < replies[j]
  /\ \A f \in ToSet(replies) :
       /\ f \in Numbers({"tool", "context"})
       /\ \A g \in Numbers({"tool", "context"}) : g < f => g \in ToSet(replies)

(* A call that returns has run every tool it was asked for, and the         *)
(* messages the loop makes of it have each text and each call once, a call  *)
(* with its result, in the order in which they came - except that text      *)
(* which came while a tool was waiting or running stands before a tool that *)
(* had not begun.                                                           *)
Line(m) == IF m.role = "tool" THEN <<>> ELSE m.text \o m.calls
Spoken == FlattenSeq([i \in DOMAIN OpenAiMessages |-> Line(OpenAiMessages[i])])
ReplyIsWhole ==
  outcome = "returned" =>
    /\ \A b \in ToSet(blocks) : b.kind = "tool" => b.result # "none"
    /\ Len(Spoken) = Cardinality(Numbers({"text", "tool"}))
    /\ ToSet(Spoken) = Numbers({"text", "tool"})
    /\ \A i, j \in DOMAIN Spoken :
         i < j /\ Spoken[i] > Spoken[j]
           => received[Spoken[i]] = "text" /\ received[Spoken[j]] = "tool"
=============================================================================
