----------------------------- MODULE AgentLoop -----------------------------
(***************************************************************************)
(* One dialog's turns through the local agent loop, runLocalAgentTurn in   *)
(* src/agent-runtime/localLoop.ts: load the dialog, compact it when it has *)
(* grown (localAutoCompaction.ts), cut it to the context budget, then ask  *)
(* the provider and run the tools it calls until it answers in words, an   *)
(* error ends the turn or the user stops it, and save what was said.       *)
(*                                                                         *)
(* The turns of the dialog run one after the other.  The agent, and with   *)
(* it the tools a request declares, may change between turns.  Token       *)
(* counts are not kept: whether a history is compacted or cut, and where,  *)
(* is a free choice.  The constant system prompt at the head of every      *)
(* request is left out.                                                    *)
(***************************************************************************)
EXTENDS ToolHistory

CONSTANTS
  Tools,       \* the tools there are
  Agents,      \* the tool sets of the agents the user may choose
  MaxTurns,    \* turns of the dialog
  MaxRounds,   \* provider calls of one turn
  MaxCalls,    \* tool calls over all turns
  Burst,       \* tool calls of one reply
  MinCompress  \* MIN_COMPRESS_COUNT, scaled down

ASSUME LoopAssumption ==
  /\ Agents \subseteq SUBSET Tools /\ Agents # {}
  /\ {MaxTurns, MaxRounds, MaxCalls, Burst, MinCompress} \subseteq Nat \ {0}

VARIABLES
  stored,    \* the messages of the dialog, in key order
  covered,   \* how many of them the stored summary stands for, 0 without one
  mode,      \* where the turn is
  turn,      \* turns begun
  agent,     \* the tools of the agent of this turn
  aborted,   \* the abort signal of this turn
  messages,  \* the conversation the loop works on
  start,     \* turnStartIndex
  cut,       \* compaction under way: the messages the new summary will cover
  request,   \* the messages of the provider call under way, else empty
  repair,    \* "unused" or "used": the prompt against an empty reply
  rounds,    \* provider calls of this turn
  minted,    \* tool calls so far; call ids are 1..minted
  current,   \* index of the call being executed in the last reply, else 0
  running,   \* calls whose tool is executing, those of abandoned turns too
  records,   \* usage the turn will save: of the loop's calls
  summaryUse,\* usage the turn will save: of the compaction
  due        \* usage of this turn's calls that was reported and is not saved

dialogVars == <<stored, covered>>
talkVars == <<messages, start>>
toolVars == <<minted, current, running>>
usageVars == <<records, summaryUse, due>>
loopVars == <<dialogVars, mode, turn, agent, aborted, talkVars, cut, request,
              repair, rounds, toolVars, usageVars>>

LoopModes == {"idle", "loading", "recalling", "compacting", "resolving",
              "asking", "executing", "gate", "saving", "failing"}

LoopInit ==
  /\ stored = <<>> /\ covered = 0
  /\ mode = "idle" /\ turn = 0 /\ agent \in Agents /\ aborted = FALSE
  /\ messages = <<>> /\ start = 0 /\ cut = 0 /\ request = <<>>
  /\ repair = "unused" /\ rounds = 0
  /\ minted = 0 /\ current = 0 /\ running = {}
  /\ records = 0 /\ summaryUse = 0 /\ due = 0

(* The user's message of a turn carries the turn's number. *)
Prompt(n) == [User EXCEPT !.id = n]
RepairPrompt == User
Summary == User

-----------------------------------------------------------------------------
(* Before the loop *)

(* trimHistoryToContextBudget: the tail that fits, at least one message,    *)
(* with the pairs the cut broke mended.                                     *)
Trimmed(h, dropped) ==
  IF dropped = 0 THEN h ELSE PairToolCalls(SubSeq(h, dropped + 1, Len(h)))

(* projectHistoryWithSummary *)
Projected(k) ==
  IF k = 0 THEN stored ELSE <<Summary>> \o SubSeq(stored, k + 1, Len(stored))

BuildStaleIndex(h) ==   \* mutant: the index is taken before the cut
  \E dropped \in 0..(IF h = <<>> THEN 0 ELSE Len(h) - 1) :
    /\ messages' = Trimmed(h, dropped) \o <<Prompt(turn)>>
    /\ start' = Len(h)
    /\ mode' = "resolving"

BuildFromZero(h) ==   \* mutant: the whole history counts as this turn's
  \E dropped \in 0..(IF h = <<>> THEN 0 ELSE Len(h) - 1) :
    /\ messages' = Trimmed(h, dropped) \o <<Prompt(turn)>>
    /\ start' = 0
    /\ mode' = "resolving"

(* Cut h to the budget and append the user's message. *)
Build(h) ==
  \E dropped \in 0..(IF h = <<>> THEN 0 ELSE Len(h) - 1) :
    /\ messages' = Trimmed(h, dropped) \o <<Prompt(turn)>>
    /\ start' = Len(Trimmed(h, dropped))
    /\ mode' = "resolving"

StartTurn ==
  /\ mode = "idle" /\ turn < MaxTurns
  /\ turn' = turn + 1
  /\ agent' \in Agents
  /\ IF stored = <<>>
     THEN messages' = <<Prompt(turn')>> /\ mode' = "resolving"
     ELSE messages' = <<>> /\ mode' = "loading"
  /\ UNCHANGED <<dialogVars, aborted, start, cut, request, repair, rounds,
                 toolVars, usageVars>>

(* loadDialogHistory; a turn that cannot load still parks its message. *)
Load ==
  /\ mode = "loading"
  /\ \/ mode' = "recalling" /\ UNCHANGED talkVars
     \/ messages' = <<Prompt(turn)>> /\ start' = 0 /\ mode' = "failing"
  /\ UNCHANGED <<dialogVars, turn, agent, aborted, cut, request, repair, rounds,
                 toolVars, usageVars>>

(* loadDialogSummary and planCompression: without a readable summary the    *)
(* history goes out whole, else it is projected or compacted further.       *)
Recall ==
  /\ mode = "recalling"
  /\ LET pending == SubSeq(stored, covered + 1, Len(stored))
     IN  \/ \E k \in {0, covered} : Build(Projected(k)) /\ UNCHANGED cut
         \/ \E n \in 0..Len(pending) :
              /\ GuardBoundary(pending, n) >= MinCompress
              /\ cut' = covered + GuardBoundary(pending, n)
              /\ mode' = "compacting"
              /\ UNCHANGED talkVars
  /\ UNCHANGED <<dialogVars, turn, agent, aborted, request, repair, rounds,
                 toolVars, usageVars>>

(* The summary call answers and the summary is saved.  The call knows       *)
(* neither the abort signal nor a timeout.                                  *)
Summarize ==
  /\ mode = "compacting"
  /\ covered' = cut /\ Build(Projected(cut))
  /\ summaryUse' = 1 /\ due' = due + 1
  /\ UNCHANGED <<stored, turn, agent, aborted, cut, request, repair, rounds,
                 toolVars, records>>

(* No summary came of it: no provider, an error, an empty text, or the save *)
(* failed.  Usage that was reported on the way is forgotten.                *)
SummaryFails ==
  /\ mode = "compacting"
  /\ Build(Projected(covered))
  /\ UNCHANGED <<dialogVars, turn, agent, aborted, cut, request, repair, rounds,
                 toolVars, usageVars>>

-----------------------------------------------------------------------------
(* The loop.  The operators below describe what the code does without       *)
(* yielding, after the await that an action resumes from.                   *)

AskUnpaired(ms, prompt) ==   \* mutant: no sanitizeToolCallPairing
  IF aborted
  THEN mode' = "failing" /\ request' = <<>> /\ UNCHANGED rounds
  ELSE /\ mode' = "asking"
       /\ request' = ms \o prompt
       /\ rounds' = rounds + 1

(* throwIfAborted and the next provider call, given the messages ms. *)
Ask(ms, prompt) ==
  IF aborted
  THEN mode' = "failing" /\ request' = <<>> /\ UNCHANGED rounds
  ELSE /\ mode' = "asking"
       /\ request' = PairToolCalls(ms) \o prompt
       /\ rounds' = rounds + 1

StartToolUnasked(calls, k, ms, others) ==   \* mutant: no throwIfAborted
  IF k > Len(calls)
  THEN Ask(ms, <<>>) /\ current' = 0 /\ running' = others
  ELSE /\ request' = <<>> /\ UNCHANGED rounds
       /\ mode' = "executing" /\ current' = k
       /\ running' = others \cup {calls[k].id}

(* throwIfAborted and the tool of the k-th of these calls, or the next      *)
(* provider call when there is none; others are the tools still executing.  *)
StartTool(calls, k, ms, others) ==
  IF k > Len(calls)
  THEN Ask(ms, <<>>) /\ current' = 0 /\ running' = others
  ELSE /\ request' = <<>> /\ UNCHANGED rounds
       /\ IF aborted
          THEN mode' = "failing" /\ current' = 0 /\ running' = others
          ELSE /\ mode' = "executing" /\ current' = k
               /\ running' = others \cup {calls[k].id}

(* The reply whose calls are being executed. *)
ReplyCalls == messages[Len(messages) - current + 1].calls

ResolveProvider ==
  /\ mode = "resolving"
  /\ \/ Ask(messages, <<>>)
     \/ mode' = "failing" /\ UNCHANGED <<request, rounds>>
  /\ UNCHANGED <<dialogVars, turn, agent, aborted, talkVars, cut, repair,
                 toolVars, usageVars>>

(* What every answered call does first: it keeps the reported usage (a call *)
(* that reports none has nothing to lose and is not told apart).            *)
Answered ==
  /\ mode = "asking" /\ ~aborted
  /\ records' = records + 1 /\ due' = due + 1
  /\ UNCHANGED <<dialogVars, turn, agent, aborted, start, cut, summaryUse>>

ReplyText ==
  /\ Answered
  /\ messages' = Append(messages, Assistant(TRUE, <<>>))
  /\ mode' = "saving" /\ request' = <<>>
  /\ UNCHANGED <<repair, rounds, toolVars>>

(* resolveEmptyAssistantOutcome: once a turn the model is asked again, then *)
(* (or at once when the reply was cut for length) a fixed text stands in.   *)
ReplyEmpty ==
  /\ Answered
  /\ \/ /\ repair = "unused" /\ rounds < MaxRounds
        /\ repair' = "used"
        /\ Ask(messages, <<RepairPrompt>>)
        /\ UNCHANGED <<messages, toolVars>>
     \/ /\ messages' = Append(messages, Assistant(TRUE, <<>>))
        /\ mode' = "saving" /\ request' = <<>>
        /\ UNCHANGED <<repair, rounds, toolVars>>

(* n fresh calls of declared tools. *)
NewCalls == UNION {{[k \in 1..n |-> [id |-> minted + k, tool |-> f[k]]] :
                      f \in [1..n -> agent]} :
                    n \in 1..(IF minted + Burst <= MaxCalls THEN Burst ELSE MaxCalls - minted)}

ReplyCalling ==
  /\ Answered /\ rounds < MaxRounds
  /\ \E calls \in NewCalls, text \in BOOLEAN :
       /\ minted' = minted + Len(calls)
       /\ messages' = Append(messages, Assistant(text, calls))
       /\ StartTool(calls, 1, messages', running)
  /\ UNCHANGED repair

(* A provider that ran its tools itself (cursor): calls and answers come    *)
(* together and end the turn.                                               *)
ReplyExecuted ==
  /\ Answered
  /\ \E calls \in NewCalls :
       /\ minted' = minted + Len(calls)
       /\ messages' = messages \o <<Assistant(TRUE, calls)>>
                        \o [k \in DOMAIN calls |-> Answer(calls[k].id)]
                        \o <<Assistant(TRUE, <<>>)>>
  /\ mode' = "saving" /\ request' = <<>>
  /\ UNCHANGED <<repair, rounds, current, running>>

(* The call fails or times out. *)
RequestFails ==
  /\ mode = "asking" /\ ~aborted
  /\ mode' = "failing" /\ request' = <<>>
  /\ UNCHANGED <<dialogVars, turn, agent, aborted, talkVars, cut, repair,
                 rounds, toolVars, usageVars>>

(* The abort wins the race against the call. *)
AbandonRequest ==
  /\ mode = "asking" /\ aborted
  /\ mode' = "failing" /\ request' = <<>>
  /\ UNCHANGED <<dialogVars, turn, agent, aborted, talkVars, cut, repair,
                 rounds, toolVars, usageVars>>

(* The answer of the current call joins the conversation, the next starts. *)
Record ==
  LET call == ReplyCalls[current].id
  IN  /\ messages' = Append(messages, Answer(call))
      /\ StartTool(ReplyCalls, current + 1, messages', running \ {call})

(* The tool ends, in a result or an error; either becomes an answer (the    *)
(* hosts of this loop have "local-tools"; without it an error would end the *)
(* turn).  A result that needs the user's say goes through onActionGate     *)
(* first.                                                                   *)
ToolEnds ==
  /\ mode = "executing" /\ ~aborted
  /\ \/ Record
     \/ /\ mode' = "gate"
        /\ running' = running \ {ReplyCalls[current].id}
        /\ UNCHANGED <<messages, request, rounds, current>>
  /\ UNCHANGED <<dialogVars, turn, agent, aborted, start, cut, repair, minted,
                 usageVars>>

(* The user answers the gate; an abort does not interrupt it. *)
GateAnswers ==
  /\ mode = "gate" /\ Record
  /\ UNCHANGED <<dialogVars, turn, agent, aborted, start, cut, repair, minted,
                 usageVars>>

AbandonToolOnceEnded ==   \* mutant: the tool is awaited all the same
  /\ mode = "executing" /\ aborted /\ ReplyCalls[current].id \notin running
  /\ mode' = "failing" /\ current' = 0
  /\ UNCHANGED <<dialogVars, turn, agent, aborted, talkVars, cut, request,
                 repair, rounds, minted, running, usageVars>>

(* raceWithAbort: the loop stops waiting, the tool itself goes on. *)
AbandonTool ==
  /\ mode = "executing" /\ aborted
  /\ mode' = "failing" /\ current' = 0
  /\ UNCHANGED <<dialogVars, turn, agent, aborted, talkVars, cut, request,
                 repair, rounds, minted, running, usageVars>>

(* A tool nobody waits for ends. *)
LateToolEnds ==
  /\ \E call \in running :
       /\ mode = "executing" => call # ReplyCalls[current].id
       /\ running' = running \ {call}
  /\ UNCHANGED <<dialogVars, mode, turn, agent, aborted, talkVars, cut, request,
                 repair, rounds, minted, current, usageVars>>

-----------------------------------------------------------------------------
(* The end of the turn *)

TurnMessages == SubSeq(messages, start + 1, Len(messages))

(* saveTurn writes the turn's messages and the usage it is given, or fails. *)
(* The loop's own state ends with the turn.                                 *)
Save(usage) ==
  /\ \/ stored' = stored \o TurnMessages /\ due' = due - usage
     \/ stored' = stored /\ due' = 0
  /\ mode' = "idle" /\ aborted' = FALSE
  /\ messages' = <<>> /\ start' = 0 /\ cut' = 0 /\ repair' = "unused"
  /\ rounds' = 0 /\ records' = 0 /\ summaryUse' = 0
  /\ UNCHANGED <<covered, turn, agent, request, toolVars>>

Finish == mode = "saving" /\ Save(records + summaryUse)

PersistFailedLoopOnly ==   \* mutant: the summary's usage is left behind
  mode = "failing" /\ Save(records)

(* persistFailedLocalTurn *)
PersistFailed == mode = "failing" /\ Save(records + summaryUse)

(* The user stops the turn. *)
Abort ==
  /\ mode # "idle" /\ ~aborted
  /\ aborted' = TRUE
  /\ UNCHANGED <<dialogVars, mode, turn, agent, talkVars, cut, request, repair,
                 rounds, toolVars, usageVars>>

-----------------------------------------------------------------------------
ProviderReplies ==
  ReplyText \/ ReplyEmpty \/ ReplyCalling \/ ReplyExecuted

LoopNext ==
  \/ StartTurn \/ Load \/ Recall \/ Summarize \/ SummaryFails \/ ResolveProvider
  \/ ProviderReplies \/ RequestFails \/ AbandonRequest
  \/ ToolEnds \/ GateAnswers \/ AbandonTool \/ LateToolEnds
  \/ Finish \/ PersistFailed \/ Abort

(* The store answers, the summary's provider and the user at a gate too; no *)
(* tool and no provider call of the loop has to end.  Where the next request *)
(* is put together a change of mode stands for the action: in these modes   *)
(* nothing else changes it.                                                 *)
Settle == Load \/ AbandonRequest \/ AbandonTool \/ Finish \/ PersistFailed
MoveOn ==
  /\ mode \in {"recalling", "compacting", "resolving", "gate"}
  /\ \E m \in LoopModes \ {mode} : mode' = m

LoopFairness == WF_loopVars(Settle) /\ WF_mode(MoveOn)

LoopSpec == LoopInit /\ [][LoopNext]_loopVars /\ LoopFairness

-----------------------------------------------------------------------------
(* Properties *)

Call == [id : Nat, tool : Tools]
Message ==
  [role : {"user", "assistant", "tool"}, text : BOOLEAN, calls : Seq(Call),
   id : Nat, notes : SUBSET [kind : {"call", "result"}, id : Nat]]

(* Every variable has its type and the indices point into their sequences. *)
LoopTypeOK ==
  /\ mode \in LoopModes /\ turn \in 0..MaxTurns /\ agent \in Agents
  /\ aborted \in BOOLEAN /\ repair \in {"unused", "used"}
  /\ {stored, messages, request} \subseteq Seq(Message)
  /\ covered \in 0..Len(stored) /\ cut \in 0..Len(stored)
  /\ mode \in {"resolving", "asking", "executing", "gate", "saving", "failing"}
       => start \in 0..(Len(messages) - 1)
  /\ rounds \in 0..MaxRounds /\ minted \in 0..MaxCalls
  /\ running \subseteq 1..minted
  /\ mode \in {"executing", "gate"} => current \in DOMAIN ReplyCalls
  /\ {records, summaryUse, due} \subseteq 0..(MaxRounds + 1)

(* Whatever aborts and cuts have done to the dialog, a request that leaves  *)
(* the loop has every tool call followed by its answer and no other answer: *)
(* toolCallPairing.ts is the one place that sees to it.                     *)
RequestsArePaired == mode = "asking" => Paired(request)

Wire == Outbound(request, agent)

(* A provider that downgrades what its request does not declare still shows *)
(* the model every result the conversation holds ("downgrade, never drop"), *)
(* also after the user has switched to an agent without the tool.           *)
ResultsReachTheModel ==
  mode = "asking" =>
    {messages[i].id : i \in {j \in DOMAIN messages : messages[j].role = "tool"}}
      \subseteq ResultsSeen(Wire)

(* On the wire exactly the calls that stayed structural are answered        *)
(* structurally, whichever tools the old and the new agent have.            *)
WireCallsAnswered ==
  mode = "asking" =>
    /\ {c.id : c \in AllCalls(Wire)}
         = {Wire[i].id : i \in {j \in DOMAIN Wire : Wire[j].role = "tool"}}
    /\ \A c \in AllCalls(Wire) : c.tool \in agent

(* Once the user has stopped the turn no tool of it is started and no       *)
(* request of its loop is sent.                                             *)
NoStartAfterAbort ==
  [][aborted /\ aborted' => running' \subseteq running /\ rounds' = rounds]_loopVars

(* A stopped turn ends although the tool it runs or the provider call it    *)
(* waits for may never end.                                                 *)
AbortEndsTurn == aborted ~> mode = "idle"

(* A save appends one turn and nothing of the history it was built on: the  *)
(* prompt of this turn, then only what the model and its tools said.        *)
TurnsAppend ==
  [][stored' # stored =>
       LET added == SubSeq(stored', Len(stored) + 1, Len(stored'))
       IN  /\ stored' = stored \o added
           /\ added[1] = Prompt(turn)
           /\ \A i \in 2..Len(added) : added[i].role # "user"]_loopVars

(* A summary never stands for a tool call whose answer it does not cover.   *)
BoundaryKeepsPairs ==
  \A i \in 1..covered, j \in (covered + 1)..Len(stored) :
    stored[j].role = "tool" => stored[j].id \notin IdsOf(stored[i].calls)

(* The usage every answered call of the loop and every summary in use       *)
(* reported is saved with the turn, however it ends, unless the save fails. *)
UsageRecorded == mode = "idle" => due = 0
=============================================================================
