--------------------------- MODULE AgentLoopProofs ---------------------------
(***************************************************************************)
(* Theorems about AgentLoop.                                               *)
(*                                                                         *)
(* What a stopped turn may still start needs no invariant, the usage a     *)
(* small one (UsageInv).  Everything about the messages rests on TalkInv:  *)
(* the dialog is Good (an answer stands behind its reply, every call is    *)
(* declared once), a summary ends at a Boundary of it, the conversation is *)
(* Sane (every answer has its call) from whatever the cut, the summary and *)
(* the pairing left of the history, and the dialog stays Good when the     *)
(* turn is appended to it.                                                 *)
(***************************************************************************)
EXTENDS AgentLoop, ToolHistoryProofs

(* No tool and no request of the loop has begun. *)
NoStart == running' \subseteq running /\ rounds' = rounds

(* The two places where the loop looks at the signal. *)
LEMMA AskLooks ==
  ASSUME NEW ms, NEW prompt, aborted, Ask(ms, prompt)
  PROVE  rounds' = rounds
BY DEF Ask

LEMMA StartToolLooks ==
  ASSUME NEW calls, NEW k, NEW ms, NEW others, aborted, StartTool(calls, k, ms, others)
  PROVE  running' = others /\ rounds' = rounds
<1>1. CASE k > Len(calls)
  BY <1>1, AskLooks DEF StartTool
<1>2. CASE ~(k > Len(calls))
  BY <1>2 DEF StartTool
<1> QED BY <1>1, <1>2

(* Once the user has stopped the turn no tool of it is started and no       *)
(* request of its loop is sent, whichever of the loop's awaits the stop     *)
(* came in, for any dialog, agents and bounds.                              *)
LEMMA StoppedStep == [LoopNext]_loopVars /\ aborted /\ aborted' => NoStart
<1> SUFFICES ASSUME [LoopNext]_loopVars, aborted, aborted'
             PROVE  NoStart
  OBVIOUS
<1> USE DEF NoStart, toolVars
<1>1. CASE StartTurn BY <1>1 DEF StartTurn
<1>2. CASE Load BY <1>2 DEF Load
<1>3. CASE Recall BY <1>3 DEF Recall
<1>4. CASE Summarize BY <1>4 DEF Summarize
<1>5. CASE SummaryFails BY <1>5 DEF SummaryFails
<1>6. CASE ResolveProvider
  BY <1>6, AskLooks DEF ResolveProvider
<1>7. CASE ProviderReplies
  BY <1>7 DEF ProviderReplies, ReplyText, ReplyEmpty, ReplyCalling, ReplyExecuted, Answered
<1>8. CASE RequestFails BY <1>8 DEF RequestFails
<1>9. CASE AbandonRequest BY <1>9 DEF AbandonRequest
<1>10. CASE ToolEnds BY <1>10 DEF ToolEnds
<1>11. CASE GateAnswers
  <2>1. PICK calls, k, ms, call : StartTool(calls, k, ms, running \ {call})
    BY <1>11 DEF GateAnswers, Record
  <2> QED BY <2>1, StartToolLooks
<1>12. CASE AbandonTool BY <1>12 DEF AbandonTool
<1>13. CASE LateToolEnds BY <1>13 DEF LateToolEnds
<1>14. CASE Finish BY <1>14 DEF Finish, Save
<1>15. CASE PersistFailed BY <1>15 DEF PersistFailed, Save
<1>16. CASE Abort BY <1>16 DEF Abort
<1>17. CASE UNCHANGED loopVars BY <1>17 DEF loopVars
<1> QED
  BY <1>1, <1>2, <1>3, <1>4, <1>5, <1>6, <1>7, <1>8, <1>9, <1>10, <1>11, <1>12, <1>13,
     <1>14, <1>15, <1>16, <1>17 DEF LoopNext

(* The property NoStartAfterAbort of the runs, from StoppedStep alone: the  *)
(* signal is looked at before every start, so no invariant is needed.       *)
THEOREM NothingStartsAfterAbort == LoopSpec => NoStartAfterAbort
<1>1. [LoopNext]_loopVars
        => [aborted /\ aborted' => running' \subseteq running /\ rounds' = rounds]_loopVars
  BY StoppedStep DEF NoStart
<1> QED BY <1>1, PTL DEF LoopSpec, NoStartAfterAbort

-----------------------------------------------------------------------------
(* What is due is what the turn has on its list; a turn without a           *)
(* compaction behind it has nothing of one on the list, an idle dialog      *)
(* nothing at all.                                                          *)
UsageInv ==
  /\ records \in Nat /\ summaryUse \in Nat
  /\ due = records + summaryUse
  /\ mode \in {"idle", "loading", "recalling", "compacting"} => summaryUse = 0
  /\ mode = "idle" => records = 0

LEMMA UsageStarts == LoopInit => UsageInv
BY DEF LoopInit, UsageInv

LEMMA AskModes ==
  ASSUME NEW ms, NEW prompt, Ask(ms, prompt)
  PROVE  mode' \in {"asking", "failing"}
BY DEF Ask

LEMMA StartToolModes ==
  ASSUME NEW calls, NEW k, NEW ms, NEW others, StartTool(calls, k, ms, others)
  PROVE  mode' \in {"asking", "executing", "failing"}
<1>1. CASE k > Len(calls)
  BY <1>1, AskModes DEF StartTool
<1>2. CASE ~(k > Len(calls))
  BY <1>2 DEF StartTool
<1> QED BY <1>1, <1>2

LEMMA UsageStep == UsageInv /\ [LoopNext]_loopVars => UsageInv'
<1> SUFFICES ASSUME UsageInv, [LoopNext]_loopVars PROVE UsageInv'
  OBVIOUS
<1> DEFINE Late == {"resolving", "asking", "executing", "gate", "saving", "failing"}
<1>0. ASSUME UNCHANGED usageVars, mode' \in Late \/ mode' = mode
      PROVE  UsageInv'
  BY <1>0 DEF UsageInv, usageVars
<1>1. CASE StartTurn
  BY <1>1 DEF StartTurn, UsageInv, usageVars
<1>2. CASE Load
  BY <1>2 DEF Load, UsageInv, usageVars
<1>3. CASE Recall
  <2>1. UNCHANGED usageVars /\ mode = "recalling" /\ mode' \in {"resolving", "compacting"}
    BY <1>3 DEF Recall, Build
  <2> QED BY <2>1 DEF UsageInv, usageVars
<1>4. CASE Summarize
  <2>1. mode = "compacting" /\ mode' = "resolving"
        /\ summaryUse' = 1 /\ due' = due + 1 /\ records' = records
    BY <1>4 DEF Summarize, Build
  <2> QED BY <2>1 DEF UsageInv
<1>5. CASE SummaryFails
  <2>1. UNCHANGED usageVars /\ mode' = "resolving"
    BY <1>5 DEF SummaryFails, Build
  <2> QED BY <1>0, <2>1
<1>6. CASE ResolveProvider
  <2>1. UNCHANGED usageVars /\ mode' \in {"asking", "failing"}
    BY <1>6, AskModes DEF ResolveProvider
  <2> QED BY <1>0, <2>1
<1>7. CASE ProviderReplies
  <2>1. Answered
    BY <1>7 DEF ProviderReplies, ReplyText, ReplyEmpty, ReplyCalling, ReplyExecuted
  <2>2. mode' \in Late
    <3>1. CASE ReplyText BY <3>1 DEF ReplyText
    <3>2. CASE ReplyEmpty BY <3>2, AskModes DEF ReplyEmpty
    <3>3. CASE ReplyCalling
      <4>1. PICK calls, ms : StartTool(calls, 1, ms, running)
        BY <3>3 DEF ReplyCalling
      <4> QED BY <4>1, StartToolModes
    <3>4. CASE ReplyExecuted BY <3>4 DEF ReplyExecuted
    <3> QED BY <1>7, <3>1, <3>2, <3>3, <3>4 DEF ProviderReplies
  <2> QED BY <2>1, <2>2 DEF Answered, UsageInv
<1>8. CASE RequestFails BY <1>0, <1>8 DEF RequestFails
<1>9. CASE AbandonRequest BY <1>0, <1>9 DEF AbandonRequest
<1>10. CASE ToolEnds
  <2>1. UNCHANGED usageVars
    BY <1>10 DEF ToolEnds
  <2>2. CASE Record
    <3>1. PICK calls, k, ms, call : StartTool(calls, k, ms, running \ {call})
      BY <2>2 DEF Record
    <3> QED BY <1>0, <2>1, <3>1, StartToolModes
  <2>3. CASE mode' = "gate"
    BY <1>0, <2>1, <2>3
  <2> QED BY <1>10, <2>2, <2>3 DEF ToolEnds
<1>11. CASE GateAnswers
  <2>1. UNCHANGED usageVars /\ Record
    BY <1>11 DEF GateAnswers
  <2>2. PICK calls, k, ms, call : StartTool(calls, k, ms, running \ {call})
    BY <2>1 DEF Record
  <2> QED BY <1>0, <2>1, <2>2, StartToolModes
<1>12. CASE AbandonTool BY <1>0, <1>12 DEF AbandonTool
<1>13. CASE LateToolEnds BY <1>0, <1>13 DEF LateToolEnds
<1>14. CASE Finish \/ PersistFailed
  <2>1. Save(records + summaryUse)
    BY <1>14 DEF Finish, PersistFailed
  <2>2. /\ due' = due - (records + summaryUse) \/ due' = 0
        /\ records' = 0 /\ summaryUse' = 0
    BY <2>1 DEF Save
  <2> QED BY <2>2 DEF UsageInv
<1>15. CASE Abort BY <1>0, <1>15 DEF Abort
<1>16. CASE UNCHANGED loopVars BY <1>0, <1>16 DEF loopVars, usageVars
<1> QED
  BY <1>1, <1>2, <1>3, <1>4, <1>5, <1>6, <1>7, <1>8, <1>9, <1>10, <1>11, <1>12, <1>13,
     <1>14, <1>15, <1>16 DEF LoopNext

(* However a turn ends - answered, failed or stopped, with or without a     *)
(* compaction - nothing of its usage is left over when the dialog is idle.  *)
THEOREM UsageIsSaved == LoopSpec => []UsageRecorded
<1>1. UsageInv => UsageRecorded
  BY DEF UsageInv, UsageRecorded
<1> QED BY <1>1, UsageStarts, UsageStep, PTL DEF LoopSpec

-----------------------------------------------------------------------------
(* Sequences put together *)

(* The dialog as a save of the turn would leave it. *)
Whole(st, ms, s) == st \o SubSeq(ms, s + 1, Len(ms))

LEMMA TailIsSeq ==
  ASSUME NEW M, NEW ms \in Seq(M), NEW s \in 0..Len(ms)
  PROVE  /\ SubSeq(ms, s + 1, Len(ms)) \in Seq(M)
         /\ Len(SubSeq(ms, s + 1, Len(ms))) = Len(ms) - s
         /\ \A i \in 1..(Len(ms) - s) : SubSeq(ms, s + 1, Len(ms))[i] = ms[s + i]
OBVIOUS

LEMMA TailGrows ==
  ASSUME NEW M, NEW ms \in Seq(M), NEW t \in Seq(M), NEW s \in 0..Len(ms)
  PROVE  SubSeq(ms \o t, s + 1, Len(ms \o t)) = SubSeq(ms, s + 1, Len(ms)) \o t
<1> DEFINE u == ms \o t
           a == SubSeq(ms, s + 1, Len(ms))
           x == SubSeq(u, s + 1, Len(u))
           y == a \o t
<1>1. u \in Seq(M) /\ After(u, ms, t) /\ Len(ms) \in Nat /\ Len(t) \in Nat
  BY ConcatIsAfter
<1>2. Len(u) = Len(ms) + Len(t) /\ s \in 0..Len(u) /\ s \in Nat
  BY <1>1 DEF After
<1> HIDE DEF u
<1>3. a \in Seq(M) /\ Len(a) = Len(ms) - s /\ \A i \in 1..(Len(ms) - s) : a[i] = ms[s + i]
  BY TailIsSeq
<1>4. x \in Seq(M) /\ Len(x) = Len(u) - s /\ \A i \in 1..(Len(u) - s) : x[i] = u[s + i]
  BY <1>1, <1>2, TailIsSeq
<1> HIDE DEF a, x
<1>5. y \in Seq(M) /\ After(y, a, t)
  BY <1>3, ConcatIsAfter
<1> HIDE DEF y
<1>6. Len(x) = Len(y) /\ Len(y) \in Nat
  BY <1>1, <1>2, <1>3, <1>4, <1>5 DEF After
<1>7. ASSUME NEW i \in 1..Len(y) PROVE x[i] = y[i]
  <2>1. CASE i \in 1..Len(a)
    <3>1. s + i \in 1..Len(ms) /\ i \in 1..(Len(u) - s)
      BY <1>1, <1>2, <1>3, <2>1
    <3>2. u[s + i] = ms[s + i] /\ y[i] = a[i]
      BY <1>1, <1>5, <2>1, <3>1 DEF After
    <3> QED
      BY <1>3, <1>4, <2>1, <3>1, <3>2
  <2>2. CASE i \notin 1..Len(a)
    <3>1. PICK k \in 1..Len(t) : i = Len(a) + k
      BY <1>5, <2>2 DEF After
    <3>2. s + i = Len(ms) + k /\ i \in 1..(Len(u) - s)
      BY <1>1, <1>2, <1>3, <3>1
    <3>3. u[Len(ms) + k] = t[k] /\ y[Len(a) + k] = t[k]
      BY <1>1, <1>5 DEF After
    <3> QED
      BY <1>4, <3>1, <3>2, <3>3
  <2> QED
    BY <2>1, <2>2
<1>8. x = y
  BY <1>4, <1>5, <1>6, <1>7, SameSeq
<1> QED
  BY <1>8 DEF x, y, a, u

LEMMA WholeGrows ==
  ASSUME NEW M, NEW st \in Seq(M), NEW ms \in Seq(M), NEW t \in Seq(M), NEW s \in 0..Len(ms)
  PROVE  Whole(st, ms \o t, s) = Whole(st, ms, s) \o t
<1> DEFINE a == SubSeq(ms, s + 1, Len(ms))
<1>1. a \in Seq(M)
  BY TailIsSeq
<1>2. SubSeq(ms \o t, s + 1, Len(ms \o t)) = a \o t
  BY TailGrows
<1> HIDE DEF a
<1>3. Associated(st, a, t)
  BY <1>1, ConcatAssociates
<1> QED
  BY <1>2, <1>3, Zenon DEF Whole, Associated, a

LEMMA TailOfJoined ==
  ASSUME NEW M, NEW st \in Seq(M), NEW t \in Seq(M)
  PROVE  SubSeq(st \o t, Len(st) + 1, Len(st \o t)) = t
<1>1. Len(st) \in 0..Len(st)
  OBVIOUS
<1>2. SubSeq(st, Len(st) + 1, Len(st)) = <<>>
  OBVIOUS
<1>3. <<>> \o t = t
  OBVIOUS
<1> QED
  BY <1>1, <1>2, <1>3, TailGrows

LEMMA WholeBuilt ==
  ASSUME NEW M, NEW st \in Seq(M), NEW b \in Seq(M), NEW t \in Seq(M)
  PROVE  Whole(st, b \o t, Len(b)) = st \o t
BY TailOfJoined DEF Whole

LEMMA WholeEmpty ==
  ASSUME NEW M, NEW st \in Seq(M)
  PROVE  Whole(st, <<>>, 0) = st
<1>1. SubSeq(<<>>, 0 + 1, Len(<<>>)) = <<>>
  OBVIOUS
<1> QED
  BY <1>1 DEF Whole

(* Behind the dialog it is the conversation. *)
Tailed(w, st, ms, s) ==
  /\ Len(w) = Len(st) + (Len(ms) - s)
  /\ \A k \in 1..(Len(ms) - s) : w[Len(st) + k] = ms[s + k]
  /\ \A k \in 1..Len(st) : w[k] = st[k]

LEMMA WholeTail ==
  ASSUME NEW M, NEW st \in Seq(M), NEW ms \in Seq(M), NEW s \in 0..Len(ms)
  PROVE  Whole(st, ms, s) \in Seq(M) /\ Tailed(Whole(st, ms, s), st, ms, s)
<1> DEFINE a == SubSeq(ms, s + 1, Len(ms))
<1>1. a \in Seq(M) /\ Len(a) = Len(ms) - s /\ \A i \in 1..(Len(ms) - s) : a[i] = ms[s + i]
  BY TailIsSeq
<1> HIDE DEF a
<1>2. st \o a \in Seq(M) /\ After(st \o a, st, a)
  BY <1>1, ConcatIsAfter
<1>3. Whole(st, ms, s) = st \o a
  BY DEF Whole, a
<1> QED
  BY <1>1, <1>2, <1>3 DEF After, Tailed

-----------------------------------------------------------------------------
(* Dialogs *)

(* A conversation that a request can be made of: every answer has its call. *)
Sane(h) == History(h, Tools) /\ CallsAreReplies(h) /\ Declared(h)

Follows(h) ==
  \A j \in 1..Len(h) : h[j].role = "tool" =>
    \E i \in 1..(j - 1) : /\ h[j].id \in IdsOf(h[i].calls)
                          /\ \A k \in (i + 1)..j : h[k].role = "tool"
Unique(h) == \A i, j \in 1..Len(h) : i # j => IdsOf(h[i].calls) \cap IdsOf(h[j].calls) = {}

(* A dialog of which nothing was cut: the answers stand behind their reply, *)
(* and the calls are among the first n, each declared once.                 *)
Good(h, n) ==
  /\ History(h, Tools) /\ CallsAreReplies(h) /\ Follows(h) /\ Unique(h)
  /\ \A i \in 1..Len(h) : IdsOf(h[i].calls) \subseteq 1..n

Msgs == MessageOver(Tools)

LEMMA NoCallsNoIds == IdsOf(<<>>) = {}
BY DEF IdsOf

LEMMA HistoryFacts ==
  ASSUME NEW h, History(h, Tools)
  PROVE  /\ h \in Seq(Msgs) /\ Len(h) \in Nat /\ DOMAIN h = 1..Len(h)
         /\ \A i \in 1..Len(h) : h[i] \in Msgs
BY DEF History, Msgs

LEMMA SaneGrows ==
  ASSUME NEW h, Sane(h), NEW t \in Seq(Msgs),
         \A k \in 1..Len(t) :
           /\ t[k].role = "tool" => /\ t[k].calls = <<>>
                                    /\ \E i \in 1..Len(h) : Declares(h[i], t[k].id)
           /\ t[k].calls # <<>> => t[k].role = "assistant"
  PROVE  Sane(h \o t)
<1> DEFINE u == h \o t
<1>1. /\ h \in Seq(Msgs) /\ Len(h) \in Nat /\ Len(t) \in Nat
      /\ u \in Seq(Msgs) /\ After(u, h, t)
  BY HistoryFacts, ConcatIsAfter DEF Sane
<1> HIDE DEF u
<1>2. \A i \in 1..Len(h) : i \in 1..Len(u) /\ u[i] = h[i]
  BY <1>1 DEF After
<1>3. ASSUME NEW j \in 1..Len(u), j \notin 1..Len(h)
      PROVE  \E k \in 1..Len(t) : u[j] = t[k]
  BY <1>1, <1>3 DEF After
<1>4. ASSUME NEW j \in 1..Len(u)
      PROVE  /\ u[j].role = "tool" => /\ u[j].calls = <<>>
                                      /\ \E i \in 1..Len(u) : Declares(u[i], u[j].id)
             /\ u[j].calls # <<>> => u[j].role = "assistant"
  <2>1. CASE j \in 1..Len(h)
    <3>1. u[j] = h[j]
      BY <1>2, <2>1
    <3>2. /\ h[j].role = "tool" => /\ h[j].calls = <<>>
                                   /\ \E i \in 1..Len(h) : Declares(h[i], h[j].id)
          /\ h[j].calls # <<>> => h[j].role = "assistant"
      BY <2>1 DEF Sane, History, CallsAreReplies, Declared
    <3> QED
      BY <1>2, <3>1, <3>2, Zenon
  <2>2. CASE j \notin 1..Len(h)
    <3>1. PICK k \in 1..Len(t) : u[j] = t[k]
      BY <1>3, <2>2
    <3> QED
      BY <1>2, <3>1, Zenon
  <2> QED
    BY <2>1, <2>2
<1>5. History(u, Tools)
  BY <1>1, <1>4 DEF History, Msgs
<1> QED
  BY <1>4, <1>5 DEF Sane, CallsAreReplies, Declared, u

LEMMA GoodIsSane ==
  ASSUME NEW h, NEW n \in Nat, Good(h, n)
  PROVE  Sane(h)
<1> SUFFICES ASSUME NEW j \in 1..Len(h), h[j].role = "tool"
             PROVE  \E i \in 1..Len(h) : Declares(h[i], h[j].id)
  BY DEF Sane, Declared, Good
<1>1. Len(h) \in Nat
  BY HistoryFacts DEF Good
<1>2. PICK i \in 1..(j - 1) : h[j].id \in IdsOf(h[i].calls)
  BY DEF Good, Follows
<1>3. i \in 1..Len(h)
  BY <1>1
<1>4. h[j].id \in 1..n /\ h[i].calls # <<>>
  BY <1>2, <1>3 DEF Good, IdsOf
<1>5. h[i].role = "assistant" /\ h[j].id # NoId
  BY <1>3, <1>4 DEF Good, CallsAreReplies, NoId
<1> QED
  BY <1>2, <1>3, <1>5 DEF Declares

(* A message that is no answer, with calls nobody has declared. *)
LEMMA GoodMessage ==
  ASSUME NEW h, NEW n \in Nat, Good(h, n), NEW m \in Msgs, NEW n2 \in Nat, n <= n2,
         m.role # "tool", m.calls # <<>> => m.role = "assistant",
         IdsOf(m.calls) \subseteq (n + 1)..n2
  PROVE  Good(h \o <<m>>, n2)
<1> DEFINE u == h \o <<m>>
           N == Len(h)
<1>1. h \in Seq(Msgs) /\ N \in Nat
  BY HistoryFacts DEF Good
<1>2. u \in Seq(Msgs) /\ Then(u, h, m)
  BY <1>1, AppendIsThen
<1> HIDE DEF u
<1>3. /\ Len(u) = N + 1 /\ u[N + 1] = m /\ \A i \in 1..N : u[i] = h[i] /\ i # N + 1
      /\ \A i \in 1..(N + 1) : i \in 1..N \/ i = N + 1
  BY <1>1, <1>2 DEF Then
<1> HIDE DEF N
<1>4. History(u, Tools) /\ CallsAreReplies(u)
  <2>1. \A i \in 1..N : /\ h[i].role = "tool" => h[i].calls = <<>>
                        /\ h[i].calls # <<>> => h[i].role = "assistant"
    BY DEF Good, History, CallsAreReplies, N
  <2>2. \A i \in 1..Len(u) : /\ u[i].role = "tool" => u[i].calls = <<>>
                             /\ u[i].calls # <<>> => u[i].role = "assistant"
    BY <1>3, <2>1
  <2> QED
    BY <1>2, <2>2 DEF History, CallsAreReplies, Msgs
<1>5. Follows(u)
  <2> SUFFICES ASSUME NEW j \in 1..Len(u), u[j].role = "tool"
               PROVE  \E i \in 1..(j - 1) : /\ u[j].id \in IdsOf(u[i].calls)
                                            /\ \A k \in (i + 1)..j : u[k].role = "tool"
    BY DEF Follows
  <2>1. j \in 1..N /\ u[j] = h[j]
    BY <1>3
  <2>2. PICK i \in 1..(j - 1) : /\ h[j].id \in IdsOf(h[i].calls)
                                /\ \A k \in (i + 1)..j : h[k].role = "tool"
    BY <2>1 DEF Good, Follows, N
  <2>3. i \in 1..N /\ \A k \in (i + 1)..j : k \in 1..N
    BY <1>1, <2>1, <2>2 DEF N
  <2>4. u[i] = h[i] /\ \A k \in (i + 1)..j : u[k] = h[k]
    BY <1>3, <2>3
  <2> QED
    BY <2>1, <2>2, <2>4
<1>6. \A i \in 1..N : IdsOf(u[i].calls) = IdsOf(h[i].calls) /\ IdsOf(h[i].calls) \subseteq 1..n
  BY <1>3 DEF Good, N
<1>7. 1..n \subseteq 1..n2 /\ (n + 1)..n2 \subseteq 1..n2 /\ (1..n) \cap ((n + 1)..n2) = {}
  OBVIOUS
<1>8. \A i \in 1..Len(u) : IdsOf(u[i].calls) \subseteq 1..n2
  BY <1>3, <1>6, <1>7
<1>9. ASSUME NEW i \in 1..Len(u), NEW j \in 1..Len(u), i # j
      PROVE  IdsOf(u[i].calls) \cap IdsOf(u[j].calls) = {}
  <2>1. CASE i \in 1..N /\ j \in 1..N
    <3>1. IdsOf(h[i].calls) \cap IdsOf(h[j].calls) = {}
      BY <1>9, <2>1 DEF Good, Unique, N
    <3> QED
      BY <1>6, <2>1, <3>1
  <2>2. CASE i \in 1..N /\ j = N + 1
    BY <1>3, <1>6, <1>7, <2>2
  <2>3. CASE i = N + 1 /\ j \in 1..N
    BY <1>3, <1>6, <1>7, <2>3
  <2> QED
    BY <1>3, <1>9, <2>1, <2>2, <2>3
<1>10. Unique(u)
  BY <1>9 DEF Unique
<1> QED
  BY <1>4, <1>5, <1>8, <1>10 DEF Good, u

(* Answers behind the reply that declares their calls. *)
LEMMA GoodAnswers ==
  ASSUME NEW h, NEW n \in Nat, Good(h, n), NEW t \in Seq(Msgs), NEW r \in 1..Len(h),
         \A k \in (r + 1)..Len(h) : h[k].role = "tool",
         \A k \in 1..Len(t) : /\ t[k].role = "tool" /\ t[k].calls = <<>>
                              /\ t[k].id \in IdsOf(h[r].calls)
  PROVE  Good(h \o t, n)
<1> DEFINE u == h \o t
           N == Len(h)
<1>1. h \in Seq(Msgs) /\ N \in Nat /\ Len(t) \in Nat
  BY HistoryFacts DEF Good
<1>2. u \in Seq(Msgs) /\ After(u, h, t)
  BY <1>1, ConcatIsAfter
<1> HIDE DEF u
<1>3. /\ Len(u) = N + Len(t) /\ \A i \in 1..N : u[i] = h[i]
      /\ \A i \in 1..Len(u) : i \in 1..N \/ \E k \in 1..Len(t) : i = N + k /\ u[i] = t[k]
  BY <1>2, Zenon DEF After
<1>4. \A i \in 1..Len(u) : i \notin 1..N =>
        u[i].role = "tool" /\ u[i].calls = <<>> /\ u[i].id \in IdsOf(h[r].calls)
  <2> HIDE DEF N
  <2> SUFFICES ASSUME NEW i \in 1..Len(u), i \notin 1..N
               PROVE  u[i].role = "tool" /\ u[i].calls = <<>> /\ u[i].id \in IdsOf(h[r].calls)
    BY DEF N
  <2>1. PICK k \in 1..Len(t) : u[i] = t[k]
    BY <1>3, Zenon
  <2> QED
    BY <2>1
<1> HIDE DEF N
<1>5. History(u, Tools) /\ CallsAreReplies(u)
  <2>1. \A i \in 1..N : /\ h[i].role = "tool" => h[i].calls = <<>>
                        /\ h[i].calls # <<>> => h[i].role = "assistant"
    BY DEF Good, History, CallsAreReplies, N
  <2>2. \A i \in 1..Len(u) : /\ u[i].role = "tool" => u[i].calls = <<>>
                             /\ u[i].calls # <<>> => u[i].role = "assistant"
    BY <1>3, <1>4, <2>1
  <2> QED
    BY <1>2, <2>2 DEF History, CallsAreReplies, Msgs
<1>6. r \in 1..N /\ N \in Nat /\ \A k \in (r + 1)..N : h[k].role = "tool"
  BY <1>1 DEF N
<1>7. Follows(u)
  <2> SUFFICES ASSUME NEW j \in 1..Len(u), u[j].role = "tool"
               PROVE  \E i \in 1..(j - 1) : /\ u[j].id \in IdsOf(u[i].calls)
                                            /\ \A k \in (i + 1)..j : u[k].role = "tool"
    BY DEF Follows
  <2>1. CASE j \in 1..N
    <3>1. u[j] = h[j]
      BY <1>3, <2>1
    <3>2. PICK i \in 1..(j - 1) : /\ h[j].id \in IdsOf(h[i].calls)
                                  /\ \A k \in (i + 1)..j : h[k].role = "tool"
      BY <2>1, <3>1 DEF Good, Follows, N
    <3>3. i \in 1..N /\ \A k \in (i + 1)..j : k \in 1..N
      <4>1. i \in Nat /\ 1 <= i /\ i < j /\ j <= N /\ N \in Nat /\ j \in Nat
        BY <1>1, <2>1 DEF N
      <4> HIDE DEF N
      <4>2. ASSUME NEW k \in (i + 1)..j PROVE k \in 1..N
        BY <4>1
      <4> QED
        BY <4>1, <4>2
    <3>4. u[i] = h[i] /\ \A k \in (i + 1)..j : u[k] = h[k]
      BY <1>3, <3>3
    <3> QED
      BY <3>1, <3>2, <3>4
  <2>2. CASE j \notin 1..N
    <3>1. /\ r \in 1..(j - 1) /\ u[r] = h[r]
          /\ \A k \in (r + 1)..j : k \in 1..Len(u)
      BY <1>1, <1>3, <1>6, <2>2
    <3>2. \A k \in (r + 1)..j : k \in 1..N => k \in (r + 1)..N
      BY <1>6
    <3>3. ASSUME NEW k \in (r + 1)..j PROVE u[k].role = "tool"
      <4>1. CASE k \in 1..N
        BY <1>3, <1>6, <3>2, <4>1
      <4>2. CASE k \notin 1..N
        BY <1>4, <3>1, <4>2
      <4> QED
        BY <4>1, <4>2
    <3>4. u[j].id \in IdsOf(u[r].calls)
      BY <1>4, <2>2, <3>1
    <3> QED
      BY <3>1, <3>3, <3>4
  <2> QED
    BY <2>1, <2>2
<1>8. /\ \A i \in 1..N : IdsOf(u[i].calls) = IdsOf(h[i].calls)
      /\ \A i \in 1..Len(u) : i \notin 1..N => IdsOf(u[i].calls) = {}
  BY <1>3, <1>4 DEF IdsOf
<1>9. \A i \in 1..Len(u) : IdsOf(u[i].calls) \subseteq 1..n
  BY <1>8 DEF Good, N
<1>10. Unique(u)
  <2>1. \A i, j \in 1..N : i # j => IdsOf(h[i].calls) \cap IdsOf(h[j].calls) = {}
    BY DEF Good, Unique, N
  <2>2. ASSUME NEW i \in 1..Len(u), NEW j \in 1..Len(u), i # j
        PROVE  IdsOf(u[i].calls) \cap IdsOf(u[j].calls) = {}
    <3>1. CASE i \in 1..N /\ j \in 1..N
      <4>1. IdsOf(h[i].calls) \cap IdsOf(h[j].calls) = {}
        BY <2>1, <2>2, <3>1, Zenon
      <4> QED
        BY <1>8, <3>1, <4>1
    <3>2. CASE i \notin 1..N \/ j \notin 1..N
      BY <1>8, <3>2
    <3> QED
      BY <3>1, <3>2
  <2> QED
    BY <2>2 DEF Unique
<1> QED
  BY <1>5, <1>7, <1>9, <1>10 DEF Good, u

-----------------------------------------------------------------------------
(* Where a summary may end *)

Boundary(h, c) == c \in 0..Len(h) /\ (c = 0 \/ c = Len(h) \/ h[c + 1].role # "tool")

LEMMA BoundaryKeeps ==
  ASSUME NEW h, NEW n \in Nat, Good(h, n), NEW c, Boundary(h, c),
         NEW i \in 1..c, NEW j \in (c + 1)..Len(h), h[j].role = "tool"
  PROVE  h[j].id \notin IdsOf(h[i].calls)
<1> SUFFICES ASSUME h[j].id \in IdsOf(h[i].calls) PROVE FALSE
  OBVIOUS
<1>1. Len(h) \in Nat /\ c \in 0..Len(h)
  BY HistoryFacts DEF Good, Boundary
<1>2. i \in 1..Len(h) /\ j \in 1..Len(h) /\ c # 0 /\ c # Len(h)
  BY <1>1
<1>3. PICK k \in 1..(j - 1) : /\ h[j].id \in IdsOf(h[k].calls)
                              /\ \A l \in (k + 1)..j : h[l].role = "tool"
  BY <1>2 DEF Good, Follows
<1>4. k \in 1..Len(h)
  BY <1>1, <1>2
<1>5. k = i
  <2>1. k # i => IdsOf(h[k].calls) \cap IdsOf(h[i].calls) = {}
    BY <1>2, <1>4 DEF Good, Unique
  <2> QED
    BY <1>3, <2>1
<1>6. c + 1 \in (k + 1)..j
  BY <1>1, <1>5
<1> QED
  BY <1>2, <1>3, <1>6 DEF Boundary

LEMMA UsersAreMessages ==
  /\ Summary \in Msgs /\ RepairPrompt \in Msgs
  /\ \A k \in Nat : Prompt(k) \in Msgs /\ Prompt(k).role = "user" /\ Prompt(k).calls = <<>>
  /\ Summary.role = "user" /\ Summary.calls = <<>>
  /\ RepairPrompt.role = "user" /\ RepairPrompt.calls = <<>>
<1>1. <<>> \in Seq(CallOver(Tools)) /\ {} \in SUBSET [kind : {"call", "result"}, id : Nat]
  OBVIOUS
<1>2. ASSUME NEW k \in Nat
      PROVE  /\ [User EXCEPT !.id = k] \in Msgs /\ [User EXCEPT !.id = k].role = "user"
             /\ [User EXCEPT !.id = k].calls = <<>>
  BY <1>1 DEF User, Msgs, MessageOver, NoId
<1>3. User \in Msgs /\ User.role = "user" /\ User.calls = <<>>
  BY <1>1 DEF User, Msgs, MessageOver, NoId
<1> QED
  BY <1>2, <1>3, Zenon DEF Summary, RepairPrompt, Prompt

(* A summary and what it does not cover. *)
LEMMA ProjectionIsSane ==
  ASSUME NEW h, NEW n \in Nat, Good(h, n), NEW c, Boundary(h, c)
  PROVE  Sane(<<Summary>> \o SubSeq(h, c + 1, Len(h)))
<1> DEFINE a == SubSeq(h, c + 1, Len(h))
           u == Led(Summary, a)
<1>1. h \in Seq(Msgs) /\ Len(h) \in Nat /\ c \in 0..Len(h)
  BY HistoryFacts DEF Good, Boundary
<1>2. a \in Seq(Msgs) /\ Len(a) = Len(h) - c /\ \A k \in 1..(Len(h) - c) : a[k] = h[c + k]
  BY <1>1, TailIsSeq
<1> HIDE DEF a
<1>3. u \in Seq(Msgs) /\ LedBy(u, Summary, a)
  BY <1>2, UsersAreMessages, LedIsSeq
<1> HIDE DEF u
<1>4. /\ Len(u) = 1 + (Len(h) - c) /\ u[1] = Summary
      /\ \A k \in 1..(Len(h) - c) : u[1 + k] = h[c + k] /\ c + k \in 1..Len(h) /\ 1 + k \in 1..Len(u)
  <2>1. Len(u) = 1 + Len(a) /\ u[1] = Summary /\ \A k \in 1..Len(a) : u[1 + k] = a[k]
    BY <1>3, Zenon DEF LedBy
  <2>2. Len(a) = Len(h) - c /\ c \in Nat /\ Len(h) \in Nat
    BY <1>1, <1>2
  <2>3. ASSUME NEW k \in 1..(Len(h) - c)
        PROVE  u[1 + k] = h[c + k] /\ c + k \in 1..Len(h) /\ 1 + k \in 1..Len(u)
    BY <1>2, <2>1, <2>2
  <2> QED
    BY <2>1, <2>2, <2>3
<1>5. ASSUME NEW j \in 1..Len(u), j # 1
      PROVE  \E k \in 1..(Len(h) - c) : j = 1 + k
  <2>1. j - 1 \in 1..(Len(h) - c) /\ j = 1 + (j - 1)
    BY <1>1, <1>4, <1>5
  <2> QED
    BY <2>1
<1>6. Sane(h)
  BY GoodIsSane
<1>7. ASSUME NEW j \in 1..Len(u)
      PROVE  /\ u[j].role = "tool" => /\ u[j].calls = <<>>
                                      /\ \E i \in 1..Len(u) : Declares(u[i], u[j].id)
             /\ u[j].calls # <<>> => u[j].role = "assistant"
  <2>1. CASE j = 1
    BY <1>4, <2>1, UsersAreMessages
  <2>2. CASE j # 1
    <3>1. PICK k \in 1..(Len(h) - c) : j = 1 + k
      BY <1>5, <2>2
    <3>2. u[j] = h[c + k] /\ c + k \in 1..Len(h)
      BY <1>4, <3>1
    <3>3. /\ h[c + k].role = "tool" => h[c + k].calls = <<>>
          /\ h[c + k].calls # <<>> => h[c + k].role = "assistant"
      BY <3>2 DEF Good, History, CallsAreReplies
    <3>4. ASSUME h[c + k].role = "tool"
          PROVE  \E i \in 1..Len(u) : Declares(u[i], h[c + k].id)
      <4>1. PICK i \in 1..Len(h) : Declares(h[i], h[c + k].id)
        BY <1>6, <3>2, <3>4 DEF Sane, Declared
      <4>2. i \notin 1..c
        <5>1. c + k \in (c + 1)..Len(h)
          BY <1>1
        <5> QED
          BY <3>4, <4>1, <5>1, BoundaryKeeps DEF Declares
      <4>3. PICK l \in 1..(Len(h) - c) : i = c + l
        <5>1. i - c \in 1..(Len(h) - c) /\ i = c + (i - c)
          BY <1>1, <4>2
        <5> QED
          BY <5>1
      <4>4. u[1 + l] = h[i] /\ 1 + l \in 1..Len(u)
        BY <1>4, <4>3
      <4> QED
        BY <4>1, <4>4
    <3> QED
      BY <3>2, <3>3, <3>4
  <2> QED
    BY <2>1, <2>2
<1>8. History(u, Tools)
  BY <1>3, <1>7 DEF History, Msgs
<1>9. Sane(u)
  BY <1>7, <1>8 DEF Sane, CallsAreReplies, Declared
<1> QED
  BY <1>9 DEF u, a, Led

(* Cut to the budget and paired again. *)
LEMMA TrimmedIsSane ==
  ASSUME NEW h, Sane(h), NEW d \in 0..Len(h)
  PROVE  Sane(Trimmed(h, d))
<1> DEFINE a == SubSeq(h, d + 1, Len(h))
           p == PairToolCalls(a)
<1>1. h \in Seq(Msgs) /\ Len(h) \in Nat
  BY HistoryFacts DEF Sane
<1>2. a \in Seq(Msgs) /\ Len(a) = Len(h) - d /\ \A k \in 1..(Len(h) - d) : a[k] = h[d + k]
  BY <1>1, TailIsSeq
<1> HIDE DEF a
<1>3. History(a, Tools)
  <2>1. ASSUME NEW k \in 1..Len(a), a[k].role = "tool" PROVE a[k].calls = <<>>
    <3>1. d + k \in 1..Len(h) /\ a[k] = h[d + k]
      BY <1>1, <1>2
    <3> QED
      BY <2>1, <3>1 DEF Sane, History
  <2> QED
    BY <1>2, <2>1 DEF History, Msgs
<1>4. Sane(p)
  BY <1>3, PairingHolds, PairedIsDeclared DEF Sane
<1> QED
  BY <1>4 DEF Trimmed, a

(* The boundary the guard walks back to. *)
LEMMA GuardFindsBoundary ==
  ASSUME NEW h, History(h, Tools), NEW c \in 0..Len(h), NEW g,
         NEW n \in 0..Len(SubSeq(h, c + 1, Len(h))),
         g = GuardBoundary(SubSeq(h, c + 1, Len(h)), n), NEW low \in Nat \ {0}, g >= low
  PROVE  g \in Nat /\ Boundary(h, c + g)
<1> DEFINE a == SubSeq(h, c + 1, Len(h))
           Ends(x) == /\ x = 0 \/ a[x + 1].role # "tool"
                      /\ \A d \in (x + 1)..n : a[d + 1].role = "tool"
           edge == IF n \in 1..(Len(a) - 1) THEN CHOOSE x \in 0..n : Ends(x) ELSE n
<1>1. h \in Seq(Msgs) /\ Len(h) \in Nat
  BY HistoryFacts
<1>2. /\ a \in Seq(Msgs) /\ Len(a) = Len(h) - c /\ Len(a) \in Nat
      /\ \A k \in 1..(Len(h) - c) : a[k] = h[c + k]
  BY <1>1, TailIsSeq
<1>3. g = IF edge > 0 /\ a[edge].calls # <<>> THEN edge - 1 ELSE edge
  BY DEF GuardBoundary
<1>4. n \in 0..Len(a)
  OBVIOUS
<1> HIDE DEF a
<1>5. ASSUME n \in 1..(Len(a) - 1) PROVE \E x \in 0..n : Ends(x)
  <2> DEFINE D == {d \in 0..n : n - d = 0 \/ a[(n - d) + 1].role # "tool"}
  <2>1. n \in D /\ D \in SUBSET Nat
    BY <1>4
  <2>2. PICK d \in D : \A e \in D : ~(e < d)
    <3> HIDE DEF D
    <3> QED
      BY <2>1, LeastNumber
  <2>3. n - d \in 0..n /\ (n - d = 0 \/ a[(n - d) + 1].role # "tool")
    BY <1>4
  <2>4. ASSUME NEW x \in ((n - d) + 1)..n PROVE a[x + 1].role = "tool"
    <3>0. n \in Nat /\ d \in 0..n /\ x \in Nat /\ (n - d) + 1 <= x /\ x <= n
      BY <1>4
    <3>1. n - x \in 0..n /\ n - x < d /\ n - (n - x) = x
      BY <3>0
    <3>2. n - x \notin D
      BY <2>2, <3>1
    <3> QED
      BY <3>1, <3>2
  <2> QED
    BY <2>3, <2>4
<1>6. edge \in 0..n /\ (n \in 1..(Len(a) - 1) => Ends(edge))
  <2> HIDE DEF Ends
  <2> QED
    BY <1>4, <1>5
<1>7. edge > 0 /\ n \notin 1..(Len(a) - 1) => edge = Len(a)
  BY <1>2, <1>4
<1>8. edge > 0 => edge = Len(a) \/ a[edge + 1].role # "tool"
  BY <1>6, <1>7
<1> HIDE DEF edge
<1>9. edge \in 0..Len(a) /\ edge > 0 /\ g \in Nat /\ c \in Nat
  <2>1. edge \in 0..Len(a) /\ c \in Nat
    BY <1>1, <1>2, <1>4, <1>6
  <2>2. g = edge \/ (edge > 0 /\ g = edge - 1)
    BY <1>3, Zenon
  <2>3. g \in Nat /\ g > 0
    BY <2>1, <2>2
  <2> QED
    BY <2>1, <2>2, <2>3
<1>10. edge \in Nat /\ edge >= 1 /\ c \in Nat /\ Len(h) \in Nat /\ edge <= Len(h) - c
  <2>1. c \in Nat /\ Len(h) \in Nat /\ Len(a) = Len(h) - c /\ Len(a) \in Nat
    BY <1>1, <1>2
  <2> QED
    BY <1>9, <2>1
<1>11. edge \in 1..(Len(h) - c) /\ c + edge \in 1..Len(h) /\ edge - 1 \in Nat
       /\ (c + (edge - 1)) + 1 = c + edge /\ c + (edge - 1) \in 0..Len(h)
  BY <1>10
<1>12. edge # Len(h) - c =>
         edge + 1 \in 1..(Len(h) - c) /\ (c + edge) + 1 = c + (edge + 1) /\ c + edge \in 0..Len(h)
  BY <1>10
<1>13. CASE a[edge].calls # <<>>
  <2>1. g = edge - 1 /\ edge \in 1..(Len(h) - c) /\ a[edge] = h[c + edge] /\ c + edge \in 1..Len(h)
    <3>1. g = edge - 1
      BY <1>3, <1>9, <1>13
    <3>2. edge \in 1..(Len(h) - c) /\ c + edge \in 1..Len(h)
      BY <1>11
    <3> QED
      BY <1>2, <3>1, <3>2
  <2>2. h[c + edge].role # "tool"
    BY <1>13, <2>1 DEF History
  <2>3. (c + g) + 1 = c + edge /\ c + g \in 0..Len(h)
    BY <1>11, <2>1
  <2> QED
    BY <1>9, <2>2, <2>3 DEF Boundary
<1>14. CASE ~(a[edge].calls # <<>>)
  <2>1. g = edge
    BY <1>3, <1>14
  <2>2. CASE edge = Len(a)
    <3>1. c + g = Len(h)
      BY <1>1, <1>2, <2>1, <2>2
    <3>2. Boundary(h, Len(h))
      BY <1>1 DEF Boundary
    <3> QED
      BY <1>9, <3>1, <3>2, Zenon
  <2>3. CASE edge # Len(a)
    <3>1. edge + 1 \in 1..(Len(h) - c) /\ (c + g) + 1 = c + (edge + 1) /\ c + g \in 0..Len(h)
      BY <1>2, <1>12, <2>1, <2>3
    <3>2. h[c + (edge + 1)].role # "tool"
      BY <1>2, <1>8, <1>9, <2>3, <3>1
    <3>3. h[(c + g) + 1].role # "tool"
      BY <3>1, <3>2
    <3> QED
      BY <1>9, <3>1, <3>3 DEF Boundary
  <2> QED
    BY <2>2, <2>3
<1> QED
  BY <1>13, <1>14

-----------------------------------------------------------------------------
(* The conversation of a turn *)

(* ms is what the loop works on, s where the turn begins in it with the     *)
(* prompt p; st is the dialog it will be saved to, n the calls minted.      *)
TalkOK(st, ms, s, n, p) ==
  /\ Sane(ms) /\ Good(Whole(st, ms, s), n)
  /\ s \in Nat /\ s < Len(ms) /\ ms[s + 1] = p
  /\ \A i \in (s + 2)..Len(ms) : ms[i].role # "user"

LEMMA TalkFacts ==
  ASSUME NEW st, NEW ms, NEW s, NEW n, NEW p, TalkOK(st, ms, s, n, p), History(st, Tools)
  PROVE  /\ ms \in Seq(Msgs) /\ st \in Seq(Msgs) /\ Len(ms) \in Nat /\ Len(st) \in Nat
         /\ s \in 0..Len(ms) /\ s \in Nat /\ s + 1 \in 1..Len(ms)
<1>1. ms \in Seq(Msgs) /\ st \in Seq(Msgs) /\ Len(ms) \in Nat /\ Len(st) \in Nat
  BY HistoryFacts DEF TalkOK, Sane
<1> QED
  BY <1>1 DEF TalkOK

(* What may follow what was said. *)
LEMMA TalkGrows ==
  ASSUME NEW st, NEW ms, NEW s, NEW n, NEW n2, NEW p, TalkOK(st, ms, s, n, p),
         History(st, Tools), NEW t \in Seq(Msgs),
         Sane(ms \o t), Good(Whole(st, ms, s) \o t, n2),
         \A k \in 1..Len(t) : t[k].role # "user"
  PROVE  TalkOK(st, ms \o t, s, n2, p)
<1> DEFINE u == ms \o t
<1>1. /\ ms \in Seq(Msgs) /\ st \in Seq(Msgs) /\ Len(ms) \in Nat /\ Len(st) \in Nat
      /\ s \in 0..Len(ms) /\ s \in Nat /\ s + 1 \in 1..Len(ms)
  BY TalkFacts
<1>2. u \in Seq(Msgs) /\ After(u, ms, t) /\ Len(t) \in Nat
  BY <1>1, ConcatIsAfter
<1>3. Whole(st, u, s) = Whole(st, ms, s) \o t
  BY <1>1, WholeGrows
<1> HIDE DEF u
<1>4. s < Len(u) /\ u[s + 1] = p
  BY <1>1, <1>2 DEF After, TalkOK
<1>5. ASSUME NEW i \in (s + 2)..Len(u) PROVE u[i].role # "user"
  <2>1. CASE i \in 1..Len(ms)
    <3>1. i \in (s + 2)..Len(ms) /\ u[i] = ms[i]
      BY <1>1, <1>2, <2>1 DEF After
    <3> QED
      BY <3>1 DEF TalkOK
  <2>2. CASE i \notin 1..Len(ms)
    <3>1. i \in 1..Len(u)
      BY <1>1
    <3>2. PICK k \in 1..Len(t) : u[i] = t[k]
      BY <1>2, <2>2, <3>1 DEF After
    <3> QED
      BY <3>2
  <2> QED
    BY <2>1, <2>2
<1> QED
  BY <1>1, <1>3, <1>4, <1>5 DEF TalkOK, u

(* The model says something, with calls nobody has declared or without any. *)
LEMMA TalkMessage ==
  ASSUME NEW st, NEW ms, NEW s, NEW n \in Nat, NEW p, TalkOK(st, ms, s, n, p),
         History(st, Tools), NEW m \in Msgs, m.role = "assistant",
         NEW n2 \in Nat, n <= n2, IdsOf(m.calls) \subseteq (n + 1)..n2
  PROVE  TalkOK(st, ms \o <<m>>, s, n2, p)
<1>1. <<m>> \in Seq(Msgs) /\ Len(<<m>>) = 1 /\ \A k \in 1..Len(<<m>>) : <<m>>[k] = m
  OBVIOUS
<1>2. Sane(ms \o <<m>>)
  <2>1. Sane(ms)
    BY DEF TalkOK
  <2>2. \A k \in 1..Len(<<m>>) : <<m>>[k].role = "assistant"
    BY <1>1, Zenon
  <2> QED
    BY <1>1, <2>1, <2>2, SaneGrows
<1>3. Good(Whole(st, ms, s) \o <<m>>, n2)
  BY GoodMessage DEF TalkOK
<1>4. \A k \in 1..Len(<<m>>) : <<m>>[k].role # "user"
  BY <1>1
<1> QED
  BY <1>1, <1>2, <1>3, <1>4, TalkGrows

(* Calls of the reply that nothing but answers follows are answered. *)
LEMMA TalkAnswers ==
  ASSUME NEW st, NEW ms, NEW s, NEW n \in Nat, NEW p, TalkOK(st, ms, s, n, p),
         History(st, Tools), NEW t \in Seq(Msgs), NEW r \in (s + 1)..Len(ms),
         \A k \in (r + 1)..Len(ms) : ms[k].role = "tool",
         \A k \in 1..Len(t) : /\ t[k].role = "tool" /\ t[k].calls = <<>>
                              /\ t[k].id \in IdsOf(ms[r].calls)
  PROVE  TalkOK(st, ms \o t, s, n, p)
<1> DEFINE w == Whole(st, ms, s)
<1>1. /\ ms \in Seq(Msgs) /\ st \in Seq(Msgs) /\ Len(ms) \in Nat /\ Len(st) \in Nat
      /\ s \in 0..Len(ms) /\ s \in Nat
  BY TalkFacts
<1>2. /\ w \in Seq(Msgs) /\ Len(w) = Len(st) + (Len(ms) - s)
      /\ \A k \in 1..(Len(ms) - s) : w[Len(st) + k] = ms[s + k]
  <2>1. w \in Seq(Msgs) /\ Tailed(w, st, ms, s)
    BY <1>1, WholeTail
  <2> QED
    BY <2>1, Zenon DEF Tailed
<1>3. Good(w, n)
  BY DEF TalkOK
<1> HIDE DEF w
<1>4. PICK x \in 1..Len(w) : x = Len(st) + (r - s)
  <2>1. Len(st) + (r - s) \in 1..Len(w)
    BY <1>1, <1>2
  <2> QED
    BY <2>1
<1>5. w[x] = ms[r]
  <2>1. r - s \in 1..(Len(ms) - s) /\ s + (r - s) = r
    BY <1>1
  <2> QED
    BY <1>2, <1>4, <2>1
<1>6. ASSUME NEW k \in (x + 1)..Len(w) PROVE w[k].role = "tool"
  <2>1. PICK l \in 1..(Len(ms) - s) : k = Len(st) + l
    <3>1. k - Len(st) \in 1..(Len(ms) - s) /\ k = Len(st) + (k - Len(st))
      BY <1>1, <1>2, <1>4
    <3> QED
      BY <3>1
  <2>2. w[k] = ms[s + l]
    BY <1>2, <2>1
  <2>3. s + l \in (r + 1)..Len(ms)
    BY <1>1, <1>4, <2>1
  <2> QED
    BY <2>2, <2>3
<1>7. Good(w \o t, n)
  <2>1. \A k \in 1..Len(t) : /\ t[k].role = "tool" /\ t[k].calls = <<>>
                             /\ t[k].id \in IdsOf(w[x].calls)
    BY <1>5
  <2> QED
    BY <1>3, <1>6, <2>1, GoodAnswers
<1>8. ASSUME NEW k \in 1..Len(t) PROVE Declares(ms[r], t[k].id)
  <2>1. t[k].id \in IdsOf(w[x].calls) /\ IdsOf(w[x].calls) \subseteq 1..n
    BY <1>3, <1>5 DEF Good
  <2>2. w[x].calls # <<>>
    BY <2>1, NoCallsNoIds, Zenon
  <2>3. w[x].role = "assistant"
    BY <1>3, <2>2 DEF Good, CallsAreReplies
  <2>4. t[k].id # NoId
    BY <2>1 DEF NoId
  <2> QED
    BY <1>5, <2>1, <2>3, <2>4 DEF Declares
<1>9. Sane(ms \o t)
  <2>1. r \in 1..Len(ms)
    BY <1>1
  <2>2. \A k \in 1..Len(t) :
          /\ t[k].role = "tool" => /\ t[k].calls = <<>>
                                   /\ \E i \in 1..Len(ms) : Declares(ms[i], t[k].id)
          /\ t[k].calls # <<>> => t[k].role = "assistant"
    BY <1>8, <2>1
  <2>3. Sane(ms)
    BY DEF TalkOK
  <2> QED
    BY <2>2, <2>3, SaneGrows
<1>10. \A k \in 1..Len(t) : t[k].role # "user"
  OBVIOUS
<1> QED
  BY <1>7, <1>9, <1>10, TalkGrows DEF w

(* A turn begins behind what is left of the history. *)
LEMMA TalkBegins ==
  ASSUME NEW st, NEW n \in Nat, Good(st, n), NEW b, Sane(b), NEW k \in Nat
  PROVE  TalkOK(st, b \o <<Prompt(k)>>, Len(b), n, Prompt(k))
<1> DEFINE p == Prompt(k)
           u == b \o <<p>>
<1>1. /\ st \in Seq(Msgs) /\ b \in Seq(Msgs) /\ Len(b) \in Nat
      /\ p \in Msgs /\ p.role = "user" /\ p.calls = <<>>
  BY HistoryFacts, UsersAreMessages DEF Good, Sane
<1> HIDE DEF p
<1>2. /\ <<p>> \in Seq(Msgs) /\ Len(<<p>>) = 1 /\ \A l \in 1..Len(<<p>>) : <<p>>[l] = p
  BY <1>1
<1>3. Sane(u)
  <2>1. \A l \in 1..Len(<<p>>) : <<p>>[l].role # "tool" /\ <<p>>[l].calls = <<>>
    BY <1>1, <1>2
  <2> QED
    BY <1>2, <2>1, SaneGrows
<1>4. Whole(st, u, Len(b)) = st \o <<p>>
  BY <1>1, <1>2, WholeBuilt
<1>5. Good(st \o <<p>>, n)
  <2>1. IdsOf(p.calls) \subseteq (n + 1)..n /\ n <= n
    BY <1>1, NoCallsNoIds
  <2>2. p.role # "tool" /\ (p.calls # <<>> => p.role = "assistant")
    BY <1>1
  <2> QED
    BY <1>1, <2>1, <2>2, GoodMessage, Zenon
<1>6. u \in Seq(Msgs) /\ Then(u, b, p)
  BY <1>1, AppendIsThen
<1> HIDE DEF u
<1>7. Len(b) < Len(u) /\ u[Len(b) + 1] = p /\ (Len(b) + 2)..Len(u) = {}
  BY <1>1, <1>6 DEF Then
<1> QED
  BY <1>1, <1>3, <1>4, <1>5, <1>7 DEF TalkOK, u, p

-----------------------------------------------------------------------------
(* The dialog and the conversation of every reachable state *)

Early == {"idle", "loading", "recalling", "compacting"}
Late == {"resolving", "asking", "executing", "gate", "saving", "failing"}

(* The reply whose calls are being executed, with only answers behind it. *)
Replying(ms, s, k) ==
  /\ k \in Nat /\ k >= 1 /\ (Len(ms) - k) + 1 \in (s + 2)..Len(ms)
  /\ k \in 1..Len(ms[(Len(ms) - k) + 1].calls)
  /\ \A l \in ((Len(ms) - k) + 2)..Len(ms) : ms[l].role = "tool"

TalkInv ==
  /\ mode \in LoopModes /\ turn \in Nat /\ minted \in Nat /\ agent \subseteq Tools
  /\ Good(stored, minted)
  /\ Boundary(stored, covered) /\ Boundary(stored, cut)
  /\ mode \in Early => messages = <<>> /\ start = 0
  /\ mode \in Late => TalkOK(stored, messages, start, minted, Prompt(turn))
  /\ mode \in {"executing", "gate"} => Replying(messages, start, current)

talkState == <<stored, covered, cut, messages, start, minted, turn, agent>>

LEMMA EmptyIsGood ==
  ASSUME NEW n \in Nat
  PROVE  Good(<<>>, n) /\ Boundary(<<>>, 0)
<1>1. <<>> \in Seq(MessageOver(Tools)) /\ Len(<<>>) = 0 /\ 1..0 = {}
  OBVIOUS
<1> QED
  BY <1>1 DEF Good, History, CallsAreReplies, Follows, Unique, Boundary

LEMMA GoodGrows ==
  ASSUME NEW h, NEW n \in Nat, Good(h, n), NEW n2 \in Nat, n <= n2
  PROVE  Good(h, n2)
<1>1. 1..n \subseteq 1..n2
  OBVIOUS
<1> QED
  BY <1>1 DEF Good

LEMMA GoodIsHistory ==
  ASSUME NEW h, NEW n, Good(h, n)
  PROVE  History(h, Tools) /\ h \in Seq(Msgs) /\ Len(h) \in Nat
BY HistoryFacts DEF Good

LEMMA TalkStarts == LoopInit => TalkInv
<1> SUFFICES ASSUME LoopInit PROVE TalkInv
  OBVIOUS
<1>1. agent \subseteq Tools
  BY LoopAssumption DEF LoopInit
<1>2. 0 \in Nat
  OBVIOUS
<1> QED
  BY <1>1, <1>2, EmptyIsGood DEF LoopInit, TalkInv, Early, Late, LoopModes

(* Nothing is said and nothing saved. *)
LEMMA TalkQuiet ==
  ASSUME TalkInv, UNCHANGED talkState, mode \in Late, mode' \in Late,
         mode' \in {"executing", "gate"} => mode \in {"executing", "gate"} /\ current' = current
  PROVE  TalkInv'
<1>1. mode' \in LoopModes /\ mode' \notin Early
  BY DEF Late, Early, LoopModes
<1> QED
  BY <1>1 DEF TalkInv, talkState

(* Before the loop. *)
LEMMA TalkWaits ==
  ASSUME TalkInv, UNCHANGED talkState, mode \in Early, mode' \in Early
  PROVE  TalkInv'
<1>1. mode' \in LoopModes /\ mode' \notin Late /\ mode' \notin {"executing", "gate"}
  BY DEF Late, Early, LoopModes
<1> QED
  BY <1>1 DEF TalkInv, talkState

(* The turn's prompt follows a sane rest of the history. *)
LEMMA TalkBuilds ==
  ASSUME TalkInv, NEW b, Sane(b), NEW c, Boundary(stored, c), Boundary(stored, cut'),
         messages' = b \o <<Prompt(turn')>>, start' = Len(b), turn' \in Nat,
         agent' \subseteq Tools, mode' \in {"resolving", "failing"},
         stored' = stored, minted' = minted, covered' = c
  PROVE  TalkInv'
<1>1. TalkOK(stored, b \o <<Prompt(turn')>>, Len(b), minted, Prompt(turn'))
  BY TalkBegins DEF TalkInv
<1>2. mode' \in LoopModes /\ mode' \notin Early /\ mode' \notin {"executing", "gate"}
  BY DEF Early, LoopModes
<1> QED
  BY <1>1, <1>2 DEF TalkInv

(* The operator Build, for each history it is used with. *)
LEMMA BuildKeepsTalk ==
  ASSUME TalkInv, NEW h, Sane(h), NEW c, Boundary(stored, c), covered' = c, Build(h),
         Boundary(stored, cut'),
         UNCHANGED <<stored, turn, agent, minted>>
  PROVE  TalkInv'
<1>1. PICK d \in 0..(IF h = <<>> THEN 0 ELSE Len(h) - 1) :
        /\ messages' = Trimmed(h, d) \o <<Prompt(turn)>>
        /\ start' = Len(Trimmed(h, d)) /\ mode' = "resolving"
  BY DEF Build
<1>2. h \in Seq(Msgs) /\ Len(h) \in Nat
  BY HistoryFacts DEF Sane
<1>3. d \in 0..Len(h)
  BY <1>1, <1>2
<1>4. Sane(Trimmed(h, d))
  BY <1>3, TrimmedIsSane
<1>5. turn' \in Nat /\ agent' \subseteq Tools
  BY DEF TalkInv
<1> QED
  BY <1>1, <1>4, <1>5, TalkBuilds

LEMMA ProjectedIsSane ==
  ASSUME TalkInv, NEW c, Boundary(stored, c)
  PROVE  Sane(Projected(c))
<1>1. CASE c = 0
  BY <1>1, GoodIsSane DEF Projected, TalkInv
<1>2. CASE c # 0
  BY <1>2, ProjectionIsSane DEF Projected, TalkInv
<1> QED
  BY <1>1, <1>2

-----------------------------------------------------------------------------
(* Steps of the loop *)

LEMMA StartToolGoes ==
  ASSUME NEW calls, NEW k, NEW ms, NEW others, StartTool(calls, k, ms, others)
  PROVE  \/ mode' \in {"asking", "failing"}
         \/ mode' = "executing" /\ current' = k /\ ~(k > Len(calls))
<1>1. CASE k > Len(calls)
  BY <1>1, AskModes DEF StartTool
<1>2. CASE ~(k > Len(calls))
  BY <1>2 DEF StartTool
<1> QED BY <1>1, <1>2

(* Fresh calls have the next ids, one each. *)
FreshCalls(calls, n) ==
  /\ calls \in Seq(CallOver(Tools)) /\ Len(calls) \in Nat /\ Len(calls) >= 1
  /\ n + Len(calls) <= MaxCalls
  /\ \A k \in 1..Len(calls) : calls[k].id = n + k
  /\ IdsOf(calls) \subseteq (n + 1)..(n + Len(calls))

LEMMA NewCallsAreFresh ==
  ASSUME NEW calls \in NewCalls, minted \in Nat, agent \subseteq Tools
  PROVE  FreshCalls(calls, minted)
<1> DEFINE top == IF minted + Burst <= MaxCalls THEN Burst ELSE MaxCalls - minted
<1>0. PICK n \in 1..top :
        \E f \in [1..n -> agent] :
          calls = [k \in 1..n |-> [id |-> minted + k, tool |-> f[k]]]
  BY DEF NewCalls
<1>1. PICK f \in [1..n -> agent] :
        calls = [k \in 1..n |-> [id |-> minted + k, tool |-> f[k]]]
  BY <1>0, Zenon
<1>2. n \in Nat /\ n >= 1 /\ minted + n <= MaxCalls
  BY LoopAssumption
<1>3. \A k \in 1..n : [id |-> minted + k, tool |-> f[k]] \in CallOver(Tools)
  BY DEF CallOver
<1>4. calls \in Seq(CallOver(Tools)) /\ Len(calls) = n /\ DOMAIN calls = 1..n
  BY <1>1, <1>2, <1>3
<1>5. \A k \in 1..n : calls[k].id = minted + k
  BY <1>1
<1>6. \A k \in 1..n : minted + k \in (minted + 1)..(minted + n)
  BY <1>2
<1>7. IdsOf(calls) \subseteq (minted + 1)..(minted + n)
  BY <1>4, <1>5, <1>6 DEF IdsOf
<1> QED
  BY <1>2, <1>4, <1>5, <1>7 DEF FreshCalls

LEMMA RepliesAreMessages ==
  ASSUME NEW text \in BOOLEAN, NEW calls \in Seq(CallOver(Tools))
  PROVE  /\ Assistant(text, calls) \in Msgs /\ Assistant(text, calls).role = "assistant"
         /\ Assistant(text, calls).calls = calls
<1>1. {} \in SUBSET [kind : {"call", "result"}, id : Nat]
  OBVIOUS
<1> QED
  BY <1>1 DEF Assistant, User, Msgs, MessageOver, NoId

LEMMA AnswersAreMessages ==
  ASSUME NEW k \in Nat
  PROVE  /\ Answer(k) \in Msgs /\ Answer(k).role = "tool"
         /\ Answer(k).calls = <<>> /\ Answer(k).id = k
<1>1. {} \in SUBSET [kind : {"call", "result"}, id : Nat] /\ <<>> \in Seq(CallOver(Tools))
  OBVIOUS
<1> QED
  BY <1>1 DEF Answer, User, Msgs, MessageOver, NoId

(* A plain reply closes the turn's conversation. *)
LEMMA TalkCloses ==
  ASSUME NEW st, NEW ms, NEW s, NEW n \in Nat, NEW p, TalkOK(st, ms, s, n, p),
         History(st, Tools)
  PROVE  /\ TalkOK(st, ms \o <<Assistant(TRUE, <<>>)>>, s, n, p)
         /\ TalkOK(st, Append(ms, Assistant(TRUE, <<>>)), s, n, p)
<1> DEFINE m == Assistant(TRUE, <<>>)
<1>0. TRUE \in BOOLEAN /\ <<>> \in Seq(CallOver(Tools))
  OBVIOUS
<1>1. m \in Msgs /\ m.role = "assistant" /\ m.calls = <<>>
  BY <1>0, RepliesAreMessages, Zenon
<1> HIDE DEF m
<1>2. IdsOf(m.calls) \subseteq (n + 1)..n /\ n <= n
  BY <1>1, NoCallsNoIds
<1>3. TalkOK(st, ms \o <<m>>, s, n, p)
  BY <1>1, <1>2, TalkMessage
<1>4. ms \in Seq(Msgs)
  BY TalkFacts
<1>5. Append(ms, m) = ms \o <<m>>
  BY <1>1, <1>4, AppendJoins
<1> QED
  BY <1>3, <1>5, Zenon DEF m

LEMMA SaysKeepsTalk ==
  ASSUME TalkInv, mode \in Late, mode' \in Late, minted' \in Nat, minted <= minted',
         TalkOK(stored, messages', start, minted', Prompt(turn)),
         UNCHANGED <<stored, covered, cut, start, turn, agent>>,
         mode' \in {"executing", "gate"} => Replying(messages', start, current')
  PROVE  TalkInv'
<1>1. mode' \in LoopModes /\ mode' \notin Early
  BY DEF Late, Early, LoopModes
<1>2. Good(stored, minted')
  BY GoodGrows DEF TalkInv
<1> QED
  BY <1>1, <1>2 DEF TalkInv

(* The reply with fresh calls, and the first of them. *)
LEMMA CallingKeepsTalk ==
  ASSUME TalkInv, ReplyCalling
  PROVE  TalkInv'
<1>1. PICK calls \in NewCalls, text \in BOOLEAN :
        /\ minted' = minted + Len(calls)
        /\ messages' = Append(messages, Assistant(text, calls))
        /\ StartTool(calls, 1, messages', running)
  BY DEF ReplyCalling
<1>2. mode = "asking" /\ UNCHANGED <<stored, covered, cut, start, turn, agent>>
  BY DEF ReplyCalling, Answered, dialogVars
<1>3. FreshCalls(calls, minted)
  BY NewCallsAreFresh DEF TalkInv
<1> DEFINE m == Assistant(text, calls)
<1>4. m \in Msgs /\ m.role = "assistant" /\ m.calls = calls
  BY <1>3, RepliesAreMessages DEF FreshCalls
<1>5. /\ TalkOK(stored, messages, start, minted, Prompt(turn)) /\ minted \in Nat
      /\ History(stored, Tools)
  BY <1>2, GoodIsHistory DEF TalkInv, Late
<1>6. messages \in Seq(Msgs) /\ Len(messages) \in Nat /\ start \in Nat /\ start < Len(messages)
  BY <1>5, TalkFacts DEF TalkOK
<1> HIDE DEF m
<1>7. messages' = messages \o <<m>> /\ Then(messages', messages, m)
  BY <1>1, <1>4, <1>6, AppendJoins, AppendIsThen DEF m
<1>8. minted' \in Nat /\ minted <= minted' /\ IdsOf(m.calls) \subseteq (minted + 1)..minted'
  BY <1>1, <1>3, <1>4, <1>5 DEF FreshCalls
<1>9. TalkOK(stored, messages', start, minted', Prompt(turn))
  BY <1>4, <1>5, <1>7, <1>8, TalkMessage
<1>10. Replying(messages', start, 1)
  <2>1. /\ Len(messages') = Len(messages) + 1 /\ messages'[Len(messages) + 1] = m
        /\ (Len(messages') - 1) + 1 = Len(messages) + 1
        /\ (Len(messages') - 1) + 2 = Len(messages') + 1
    BY <1>6, <1>7 DEF Then
  <2>2. 1 \in 1..Len(m.calls)
    BY <1>3, <1>4 DEF FreshCalls
  <2>3. Len(messages) + 1 \in (start + 2)..Len(messages')
    BY <1>6, <2>1
  <2>4. (Len(messages') + 1)..Len(messages') = {}
    BY <1>6, <2>1
  <2> QED
    BY <2>1, <2>2, <2>3, <2>4 DEF Replying
<1>11. \/ mode' \in {"asking", "failing"}
       \/ mode' = "executing" /\ current' = 1
  BY <1>1, StartToolGoes
<1> QED
  BY <1>2, <1>8, <1>9, <1>10, <1>11, SaysKeepsTalk DEF Late

(* The answer of the current call. *)
LEMMA RecordKeepsTalk ==
  ASSUME TalkInv, mode \in {"executing", "gate"}, Record,
         UNCHANGED <<stored, covered, cut, start, minted, turn, agent>>
  PROVE  TalkInv'
<1> DEFINE k == current
           r == (Len(messages) - k) + 1
           call == messages[r].calls[k].id
<1>1. /\ TalkOK(stored, messages, start, minted, Prompt(turn)) /\ minted \in Nat
      /\ History(stored, Tools) /\ Replying(messages, start, current)
  BY GoodIsHistory DEF TalkInv, Late
<1>2. messages \in Seq(Msgs) /\ Len(messages) \in Nat /\ start \in Nat
  BY <1>1, TalkFacts
<1>3. /\ messages' = Append(messages, Answer(call))
      /\ StartTool(messages[r].calls, k + 1, messages', running \ {call})
  BY DEF Record, ReplyCalls
<1>4. /\ k \in Nat /\ k >= 1 /\ r \in (start + 2)..Len(messages) /\ k \in 1..Len(messages[r].calls)
      /\ \A l \in (r + 1)..Len(messages) : messages[l].role = "tool"
  <2>1. r + 1 = (Len(messages) - k) + 2 /\ k \in Nat
    BY <1>1, <1>2 DEF Replying
  <2> QED
    BY <1>1, <2>1 DEF Replying
<1>5. messages[r].calls \in Seq(CallOver(Tools)) /\ r \in 1..Len(messages)
  <2>1. r \in 1..Len(messages)
    BY <1>2, <1>4
  <2>2. messages[r] \in Msgs
    BY <1>2, <2>1
  <2> HIDE DEF r
  <2> QED
    BY <2>1, <2>2 DEF Msgs, MessageOver
<1>6. call \in Nat /\ call \in IdsOf(messages[r].calls)
  <2> DEFINE calls == messages[r].calls
  <2>1. calls \in Seq(CallOver(Tools)) /\ k \in 1..Len(calls)
    BY <1>4, <1>5
  <2> HIDE DEF calls
  <2>2. calls[k] \in CallOver(Tools) /\ k \in DOMAIN calls
    BY <2>1
  <2>3. calls[k].id \in Nat /\ calls[k].id \in IdsOf(calls)
    BY <2>2 DEF CallOver, IdsOf
  <2> QED
    BY <2>3 DEF calls
<1> DEFINE a == Answer(call)
<1> HIDE DEF r, call
<1>7. a \in Msgs /\ a.role = "tool" /\ a.calls = <<>> /\ a.id = call
  BY <1>6, AnswersAreMessages
<1>8. messages' = messages \o <<a>> /\ Then(messages', messages, a)
  BY <1>2, <1>3, <1>7, AppendJoins, AppendIsThen
<1> HIDE DEF a
<1>9. <<a>> \in Seq(Msgs) /\ \A l \in 1..Len(<<a>>) : <<a>>[l] = a
  BY <1>7
<1>10. TalkOK(stored, messages', start, minted, Prompt(turn))
  <2>1. r \in (start + 1)..Len(messages)
    BY <1>2, <1>4
  <2>2. \A l \in 1..Len(<<a>>) : /\ <<a>>[l].role = "tool" /\ <<a>>[l].calls = <<>>
                                 /\ <<a>>[l].id \in IdsOf(messages[r].calls)
    BY <1>6, <1>7, <1>9, Zenon
  <2>3. TalkOK(stored, messages \o <<a>>, start, minted, Prompt(turn))
    BY <1>1, <1>4, <1>9, <2>1, <2>2, TalkAnswers
  <2> QED
    BY <1>8, <2>3, Zenon
<1>11. ASSUME mode' = "executing" PROVE Replying(messages', start, current')
  <2>1. current' = k + 1 /\ ~(k + 1 > Len(messages[r].calls))
    BY <1>3, <1>11, StartToolGoes
  <2>2. /\ Len(messages') = Len(messages) + 1 /\ messages'[r] = messages[r]
        /\ \A l \in 1..Len(messages) : messages'[l] = messages[l]
        /\ messages'[Len(messages) + 1] = a
    BY <1>5, <1>8 DEF Then
  <2>3. (Len(messages') - (k + 1)) + 1 = r /\ (Len(messages') - (k + 1)) + 2 = r + 1
    BY <1>2, <1>4, <2>2 DEF r
  <2>4. k + 1 \in 1..Len(messages[r].calls)
    <3>1. Len(messages[r].calls) \in Nat
      BY <1>5
    <3> QED
      BY <1>4, <2>1, <3>1
  <2>5. ASSUME NEW l \in (r + 1)..Len(messages') PROVE messages'[l].role = "tool"
    <3>1. CASE l = Len(messages) + 1
      BY <1>7, <2>2, <3>1
    <3>2. CASE l # Len(messages) + 1
      <4>1. l \in (r + 1)..Len(messages) /\ l \in 1..Len(messages)
        BY <1>2, <1>5, <2>2, <3>2
      <4> QED
        BY <1>4, <2>2, <4>1
    <3> QED
      BY <3>1, <3>2
  <2>6. r \in (start + 2)..Len(messages')
    BY <1>2, <1>4, <2>2
  <2>7. /\ k + 1 \in Nat /\ k + 1 >= 1
        /\ (Len(messages') - (k + 1)) + 1 \in (start + 2)..Len(messages')
        /\ k + 1 \in 1..Len(messages'[(Len(messages') - (k + 1)) + 1].calls)
    BY <1>4, <2>2, <2>3, <2>4, <2>6
  <2>8. \A l \in ((Len(messages') - (k + 1)) + 2)..Len(messages') : messages'[l].role = "tool"
    BY <2>3, <2>5
  <2>9. Replying(messages', start, k + 1)
    BY <2>7, <2>8 DEF Replying
  <2> QED
    BY <2>1, <2>9, Zenon
<1>12. mode' \in {"asking", "failing", "executing"}
  BY <1>3, StartToolGoes
<1> QED
  BY <1>1, <1>10, <1>11, <1>12, SaysKeepsTalk DEF Late

(* The replies that end the turn, and the empty one that is asked again. *)
LEMMA ClosingKeepsTalk ==
  ASSUME TalkInv, ReplyText \/ ReplyEmpty
  PROVE  TalkInv'
<1>1. mode = "asking" /\ ~aborted /\ UNCHANGED <<stored, covered, cut, start, turn, agent, minted>>
  BY DEF ReplyText, ReplyEmpty, Answered, dialogVars, toolVars
<1>2. CASE messages' = Append(messages, Assistant(TRUE, <<>>)) /\ mode' = "saving"
  <2>1. /\ TalkOK(stored, messages, start, minted, Prompt(turn)) /\ minted \in Nat
        /\ History(stored, Tools)
    BY <1>1, GoodIsHistory DEF TalkInv, Late
  <2>2. TalkOK(stored, messages', start, minted, Prompt(turn))
    BY <1>2, <2>1, TalkCloses, Zenon
  <2>3. minted' \in Nat /\ minted <= minted' /\ minted' = minted
    BY <1>1, <2>1
  <2>4. TalkOK(stored, messages', start, minted', Prompt(turn))
    BY <2>2, <2>3, Zenon
  <2> QED
    BY <1>1, <1>2, <2>3, <2>4, SaysKeepsTalk DEF Late
<1>3. CASE messages' = messages /\ Ask(messages, <<RepairPrompt>>)
  <2>1. mode' = "asking"
    BY <1>1, <1>3 DEF Ask
  <2> QED
    BY <1>1, <1>3, <2>1, TalkQuiet DEF Late, talkState
<1> QED
  BY <1>2, <1>3 DEF ReplyText, ReplyEmpty

(* Calls and answers that come together. *)
LEMMA ExecutedKeepsTalk ==
  ASSUME TalkInv, ReplyExecuted
  PROVE  TalkInv'
<1>1. PICK calls \in NewCalls :
        /\ minted' = minted + Len(calls)
        /\ messages' = messages \o <<Assistant(TRUE, calls)>>
                         \o [k \in DOMAIN calls |-> Answer(calls[k].id)]
                         \o <<Assistant(TRUE, <<>>)>>
  BY DEF ReplyExecuted
<1>2. mode = "asking" /\ mode' = "saving" /\ UNCHANGED <<stored, covered, cut, start, turn, agent>>
  BY DEF ReplyExecuted, Answered, dialogVars
<1>3. FreshCalls(calls, minted)
  BY NewCallsAreFresh DEF TalkInv
<1>4. /\ TalkOK(stored, messages, start, minted, Prompt(turn)) /\ minted \in Nat
      /\ History(stored, Tools)
  BY <1>2, GoodIsHistory DEF TalkInv, Late
<1> DEFINE m == Assistant(TRUE, calls)
           t == [k \in DOMAIN calls |-> Answer(calls[k].id)]
           one == messages \o <<m>>
           two == one \o t
           n == minted + Len(calls)
<1>5. /\ calls \in Seq(CallOver(Tools)) /\ DOMAIN calls = 1..Len(calls) /\ Len(calls) \in Nat
      /\ \A k \in 1..Len(calls) : /\ calls[k].id \in Nat
                                  /\ calls[k].id \in IdsOf(calls)
  <2>1. calls \in Seq(CallOver(Tools)) /\ DOMAIN calls = 1..Len(calls) /\ Len(calls) \in Nat
    BY <1>3 DEF FreshCalls
  <2>2. ASSUME NEW k \in 1..Len(calls) PROVE calls[k].id \in Nat /\ calls[k].id \in IdsOf(calls)
    <3>1. calls[k] \in CallOver(Tools) /\ k \in DOMAIN calls
      BY <2>1
    <3> QED
      BY <3>1 DEF CallOver, IdsOf
  <2> QED
    BY <2>1, <2>2
<1>6. m \in Msgs /\ m.role = "assistant" /\ m.calls = calls
  BY <1>5, RepliesAreMessages
<1> HIDE DEF m
<1>7. n \in Nat /\ minted <= n /\ IdsOf(m.calls) \subseteq (minted + 1)..n
  <2>1. n \in Nat /\ minted <= n
    BY <1>4, <1>5
  <2> QED
    BY <1>3, <1>6, <2>1 DEF FreshCalls
<1>8. messages \in Seq(Msgs) /\ Len(messages) \in Nat /\ start \in 0..Len(messages)
  BY <1>4, TalkFacts
<1>9. TalkOK(stored, one, start, n, Prompt(turn))
  BY <1>4, <1>6, <1>7, TalkMessage
<1>10. one \in Seq(Msgs) /\ Then(one, messages, m)
  BY <1>6, <1>8, AppendIsThen
<1>11. /\ t \in Seq(Msgs) /\ Len(t) = Len(calls)
       /\ \A k \in 1..Len(t) : /\ t[k].role = "tool" /\ t[k].calls = <<>>
                               /\ t[k].id \in IdsOf(calls)
  <2>1. ASSUME NEW k \in 1..Len(calls)
        PROVE  /\ Answer(calls[k].id) \in Msgs
               /\ Answer(calls[k].id).role = "tool" /\ Answer(calls[k].id).calls = <<>>
               /\ Answer(calls[k].id).id \in IdsOf(calls)
    BY <1>5, AnswersAreMessages
  <2>2. t \in [1..Len(calls) -> Msgs] /\ \A k \in 1..Len(calls) : t[k] = Answer(calls[k].id)
    BY <1>5, <2>1
  <2> HIDE DEF t
  <2>3. t \in Seq(Msgs) /\ Len(t) = Len(calls)
    BY <1>5, <2>2, TableIsSeq
  <2> QED
    BY <2>1, <2>2, <2>3
<1> HIDE DEF one, t, n
<1>12. PICK r \in (start + 1)..Len(one) : r = Len(messages) + 1
  BY <1>8, <1>10 DEF Then
<1>13. Len(one) = Len(messages) + 1 /\ one[r] = m /\ (r + 1)..Len(one) = {}
  BY <1>8, <1>10, <1>12 DEF Then
<1>14. TalkOK(stored, two, start, n, Prompt(turn))
  <2>1. \A k \in 1..Len(t) : /\ t[k].role = "tool" /\ t[k].calls = <<>>
                             /\ t[k].id \in IdsOf(one[r].calls)
    BY <1>6, <1>11, <1>13
  <2>2. \A k \in (r + 1)..Len(one) : one[k].role = "tool"
    BY <1>13
  <2>3. t \in Seq(Msgs)
    BY <1>11
  <2> QED
    BY <1>4, <1>7, <1>9, <2>1, <2>2, <2>3, TalkAnswers
<1> HIDE DEF two
<1>15. TalkOK(stored, two \o <<Assistant(TRUE, <<>>)>>, start, n, Prompt(turn))
  BY <1>4, <1>7, <1>14, TalkCloses
<1>16. messages' = two \o <<Assistant(TRUE, <<>>)>> /\ minted' = n
  BY <1>1 DEF two, one, t, m, n
<1>17. TalkOK(stored, messages', start, minted', Prompt(turn))
  BY <1>15, <1>16, Zenon
<1>18. minted' \in Nat /\ minted <= minted'
  BY <1>7, <1>16
<1> QED
  BY <1>2, <1>17, <1>18, SaysKeepsTalk DEF Late

(* The turn is saved, or forgotten. *)
LEMMA SaveKeepsTalk ==
  ASSUME TalkInv, mode \in Late, NEW usage, Save(usage)
  PROVE  TalkInv'
<1>1. /\ mode' = "idle" /\ messages' = <<>> /\ start' = 0 /\ cut' = 0
      /\ UNCHANGED <<covered, turn, agent, minted>>
  BY DEF Save, toolVars
<1>2. mode' \in LoopModes /\ mode' \notin Late /\ mode' \notin {"executing", "gate"}
  BY <1>1 DEF LoopModes, Late
<1>3. /\ TalkOK(stored, messages, start, minted, Prompt(turn)) /\ minted \in Nat
      /\ Good(stored, minted) /\ Boundary(stored, covered) /\ History(stored, Tools)
  BY GoodIsHistory DEF TalkInv
<1>4. Good(stored', minted) /\ Boundary(stored', covered)
  <2>1. CASE stored' = stored
    BY <1>3, <2>1
  <2>2. CASE stored' = Whole(stored, messages, start)
    <3> DEFINE w == Whole(stored, messages, start)
    <3>1. Good(w, minted)
      BY <1>3 DEF TalkOK
    <3>2. /\ messages \in Seq(Msgs) /\ stored \in Seq(Msgs) /\ start \in 0..Len(messages)
          /\ Len(messages) \in Nat /\ Len(stored) \in Nat /\ start < Len(messages)
      BY <1>3, TalkFacts DEF TalkOK
    <3>3. Tailed(w, stored, messages, start)
      BY <3>2, WholeTail
    <3> HIDE DEF w
    <3>4. /\ Len(w) = Len(stored) + (Len(messages) - start)
          /\ w[Len(stored) + 1] = messages[start + 1]
          /\ \A k \in 1..Len(stored) : w[k] = stored[k]
      <4>1. 1 \in 1..(Len(messages) - start)
        BY <3>2
      <4> QED
        BY <3>3, <4>1 DEF Tailed
    <3>5. messages[start + 1].role = "user"
      BY <1>3, UsersAreMessages DEF TalkOK, TalkInv
    <3>6. Boundary(w, covered)
      <4>1. covered \in 0..Len(w)
        BY <1>3, <3>2, <3>4 DEF Boundary
      <4>2. CASE covered = Len(stored)
        <5>1. w[covered + 1].role # "tool"
          BY <3>4, <3>5, <4>2
        <5> QED
          BY <4>1, <5>1 DEF Boundary
      <4>3. CASE covered # Len(stored)
        <5>1. covered = 0 \/ stored[covered + 1].role # "tool"
          BY <1>3, <4>3 DEF Boundary
        <5>2. covered + 1 \in 1..Len(stored)
          BY <1>3, <3>2, <4>3 DEF Boundary
        <5> QED
          BY <3>4, <4>1, <5>1, <5>2 DEF Boundary
      <4> QED
        BY <4>2, <4>3
    <3> QED
      BY <2>2, <3>1, <3>6 DEF w
  <2> QED
    BY <2>1, <2>2 DEF Save, Whole, TurnMessages
<1>5. Boundary(stored', 0)
  BY <1>4, GoodIsHistory DEF Boundary
<1> QED
  BY <1>1, <1>2, <1>4, <1>5 DEF TalkInv

(* Nothing is left of the history, and the prompt stands alone. *)
LEMMA AloneIsBuilt ==
  /\ Sane(<<>>) /\ Len(<<>>) = 0
  /\ \A k \in Nat : <<Prompt(k)>> = <<>> \o <<Prompt(k)>>
<1>1. 0 \in Nat
  OBVIOUS
<1>2. Sane(<<>>)
  BY <1>1, EmptyIsGood, GoodIsSane
<1> QED
  BY <1>2

LEMMA StartKeepsTalk ==
  ASSUME TalkInv, StartTurn
  PROVE  TalkInv'
<1>1. /\ mode = "idle" /\ turn' = turn + 1 /\ agent' \in Agents
      /\ UNCHANGED <<stored, covered, start, cut, minted>>
  BY DEF StartTurn, dialogVars, toolVars
<1>2. agent' \subseteq Tools /\ turn' \in Nat
  BY <1>1, LoopAssumption DEF TalkInv
<1>3. messages = <<>> /\ start = 0 /\ Boundary(stored, covered) /\ Boundary(stored, cut')
  BY <1>1 DEF TalkInv, Early
<1>4. CASE messages' = <<Prompt(turn')>> /\ mode' = "resolving"
  <2>1. Sane(<<>>) /\ start' = Len(<<>>) /\ messages' = <<>> \o <<Prompt(turn')>>
    BY <1>1, <1>2, <1>3, <1>4, AloneIsBuilt
  <2> QED
    BY <1>1, <1>2, <1>3, <1>4, <2>1, TalkBuilds
<1>5. CASE messages' = <<>> /\ mode' = "loading"
  <2>1. mode' \in LoopModes /\ mode' \notin Late /\ mode' \notin {"executing", "gate"}
    BY <1>5 DEF LoopModes, Late
  <2> QED
    BY <1>1, <1>2, <1>3, <1>5, <2>1 DEF TalkInv
<1> QED
  BY <1>4, <1>5 DEF StartTurn

LEMMA LoadKeepsTalk ==
  ASSUME TalkInv, Load
  PROVE  TalkInv'
<1>1. mode = "loading" /\ UNCHANGED <<stored, covered, cut, minted, turn, agent>>
  BY DEF Load, dialogVars, toolVars
<1>2. CASE mode' = "recalling" /\ UNCHANGED talkVars
  BY <1>1, <1>2, TalkWaits DEF talkVars, talkState, Early
<1>3. CASE messages' = <<Prompt(turn)>> /\ start' = 0 /\ mode' = "failing"
  <2>1. turn' \in Nat /\ agent' \subseteq Tools /\ turn' = turn
        /\ Boundary(stored, covered) /\ Boundary(stored, cut')
    BY <1>1 DEF TalkInv
  <2>2. Sane(<<>>) /\ start' = Len(<<>>) /\ messages' = <<>> \o <<Prompt(turn')>>
    BY <1>1, <1>3, <2>1, AloneIsBuilt
  <2> QED
    BY <1>1, <1>3, <2>1, <2>2, TalkBuilds
<1> QED
  BY <1>2, <1>3 DEF Load

LEMMA RecallKeepsTalk ==
  ASSUME TalkInv, Recall
  PROVE  TalkInv'
<1> DEFINE pending == SubSeq(stored, covered + 1, Len(stored))
<1>1. mode = "recalling" /\ UNCHANGED <<stored, covered, minted, turn, agent>>
  BY DEF Recall, dialogVars, toolVars
<1>2. /\ Boundary(stored, covered) /\ Boundary(stored, cut) /\ History(stored, Tools)
      /\ covered \in 0..Len(stored) /\ minted \in Nat
  BY GoodIsHistory DEF TalkInv, Boundary
<1>3. ASSUME NEW k \in {0, covered}, Build(Projected(k)), cut' = cut
      PROVE  TalkInv'
  <2>1. Boundary(stored, k)
    BY <1>2, <1>3, GoodIsHistory DEF TalkInv, Boundary
  <2>2. Sane(Projected(k))
    BY <2>1, ProjectedIsSane
  <2>3. Boundary(stored, cut')
    BY <1>2, <1>3
  <2> QED
    BY <1>1, <1>2, <1>3, <2>2, <2>3, BuildKeepsTalk
<1>4. ASSUME NEW n \in 0..Len(pending), GuardBoundary(pending, n) >= MinCompress,
             cut' = covered + GuardBoundary(pending, n), mode' = "compacting",
             UNCHANGED talkVars
      PROVE  TalkInv'
  <2>1. PICK g : g = GuardBoundary(SubSeq(stored, covered + 1, Len(stored)), n)
    OBVIOUS
  <2>2. MinCompress \in Nat \ {0} /\ g >= MinCompress
    BY <1>4, <2>1, LoopAssumption
  <2>3. Boundary(stored, covered + g)
    BY <1>2, <2>1, <2>2, GuardFindsBoundary
  <2>4. Boundary(stored, cut')
    BY <1>4, <2>1, <2>3
  <2>5. mode' \in LoopModes /\ mode' \notin Late /\ mode' \notin {"executing", "gate"}
    BY <1>4 DEF LoopModes, Late
  <2>6. messages' = <<>> /\ start' = 0
    BY <1>1, <1>4 DEF TalkInv, Early, talkVars
  <2> QED
    BY <1>1, <2>4, <2>5, <2>6 DEF TalkInv
<1> QED
  BY <1>3, <1>4 DEF Recall

LEMMA CompactionKeepsTalk ==
  ASSUME TalkInv, Summarize \/ SummaryFails
  PROVE  TalkInv'
<1>1. UNCHANGED <<stored, cut, minted, turn, agent>>
  BY DEF Summarize, SummaryFails, dialogVars, toolVars
<1>2. Boundary(stored, covered) /\ Boundary(stored, cut) /\ Boundary(stored, cut')
  BY <1>1 DEF TalkInv
<1>3. CASE Summarize
  <2>1. covered' = cut /\ Build(Projected(cut))
    BY <1>3 DEF Summarize
  <2> QED
    BY <1>1, <1>2, <2>1, ProjectedIsSane, BuildKeepsTalk
<1>4. CASE SummaryFails
  <2>1. covered' = covered /\ Build(Projected(covered))
    BY <1>4 DEF SummaryFails, dialogVars
  <2> QED
    BY <1>1, <1>2, <2>1, ProjectedIsSane, BuildKeepsTalk
<1> QED
  BY <1>3, <1>4

(* The steps that say nothing. *)
LEMMA QuietKeepsTalk ==
  ASSUME TalkInv,
         \/ ResolveProvider \/ RequestFails \/ AbandonRequest \/ AbandonTool
         \/ LateToolEnds \/ Abort \/ UNCHANGED loopVars
  PROVE  TalkInv'
<1>1. UNCHANGED talkState
  BY DEF ResolveProvider, RequestFails, AbandonRequest, AbandonTool, LateToolEnds, Abort,
         talkState, dialogVars, talkVars, toolVars, loopVars
<1>2. CASE ResolveProvider \/ RequestFails \/ AbandonRequest \/ AbandonTool
  <2>1. mode \in Late
    BY <1>2 DEF ResolveProvider, RequestFails, AbandonRequest, AbandonTool, Late
  <2>2. mode' \in {"asking", "failing"}
    BY <1>2, AskModes DEF ResolveProvider, RequestFails, AbandonRequest, AbandonTool
  <2> QED
    BY <1>1, <2>1, <2>2, TalkQuiet DEF Late
<1>3. CASE LateToolEnds \/ Abort \/ UNCHANGED loopVars
  <2>1. mode' = mode /\ current' = current
    BY <1>3 DEF LateToolEnds, Abort, loopVars, toolVars
  <2>2. mode \in Early \/ mode \in Late
    BY DEF TalkInv, LoopModes, Early, Late
  <2> QED
    BY <1>1, <2>1, <2>2, TalkQuiet, TalkWaits
<1> QED
  BY <1>2, <1>3

(* A tool that ended. *)
LEMMA ToolKeepsTalk ==
  ASSUME TalkInv, ToolEnds \/ GateAnswers
  PROVE  TalkInv'
<1>1. mode \in {"executing", "gate"} /\ UNCHANGED <<stored, covered, cut, start, minted, turn, agent>>
  BY DEF ToolEnds, GateAnswers, dialogVars
<1>2. CASE Record
  BY <1>1, <1>2, RecordKeepsTalk
<1>3. CASE mode' = "gate" /\ UNCHANGED <<messages, current>>
  BY <1>1, <1>3, TalkQuiet DEF Late, talkState
<1> QED
  BY <1>2, <1>3 DEF ToolEnds, GateAnswers

LEMMA TalkStep == TalkInv /\ [LoopNext]_loopVars => TalkInv'
<1> SUFFICES ASSUME TalkInv, [LoopNext]_loopVars PROVE TalkInv'
  OBVIOUS
<1>1. CASE StartTurn
  BY <1>1, StartKeepsTalk
<1>2. CASE Load
  BY <1>2, LoadKeepsTalk
<1>3. CASE Recall
  BY <1>3, RecallKeepsTalk
<1>4. CASE Summarize \/ SummaryFails
  BY <1>4, CompactionKeepsTalk
<1>5. CASE ProviderReplies
  BY <1>5, ClosingKeepsTalk, CallingKeepsTalk, ExecutedKeepsTalk DEF ProviderReplies
<1>6. CASE ToolEnds \/ GateAnswers
  BY <1>6, ToolKeepsTalk
<1>7. CASE Finish \/ PersistFailed
  <2>1. mode \in Late /\ Save(records + summaryUse)
    BY <1>7 DEF Finish, PersistFailed, Late
  <2> QED
    BY <2>1, SaveKeepsTalk
<1>8. CASE \/ ResolveProvider \/ RequestFails \/ AbandonRequest \/ AbandonTool
           \/ LateToolEnds \/ Abort \/ UNCHANGED loopVars
  BY <1>8, QuietKeepsTalk
<1> QED
  BY <1>1, <1>2, <1>3, <1>4, <1>5, <1>6, <1>7, <1>8 DEF LoopNext

LEMMA TalkAlways == LoopSpec => []TalkInv
BY TalkStarts, TalkStep, PTL DEF LoopSpec

-----------------------------------------------------------------------------
(* Requests *)

(* The request under way is the conversation, paired. *)
SentInv ==
  mode = "asking" =>
    \E prompt \in {<<>>, <<RepairPrompt>>} : request = PairToolCalls(messages) \o prompt

LEMMA AskSends ==
  ASSUME NEW ms, NEW prompt, Ask(ms, prompt), mode' = "asking"
  PROVE  request' = PairToolCalls(ms) \o prompt
BY DEF Ask

LEMMA StartToolSends ==
  ASSUME NEW calls, NEW k, NEW ms, NEW others, StartTool(calls, k, ms, others),
         mode' = "asking"
  PROVE  request' = PairToolCalls(ms) \o <<>>
<1>1. CASE k > Len(calls)
  BY <1>1, AskSends DEF StartTool
<1>2. CASE ~(k > Len(calls))
  BY <1>2 DEF StartTool
<1> QED BY <1>1, <1>2

LEMMA SentStep == SentInv /\ [LoopNext]_loopVars => SentInv'
<1> SUFFICES ASSUME SentInv, [LoopNext]_loopVars, mode' = "asking"
             PROVE  \E prompt \in {<<>>, <<RepairPrompt>>} :
                      request' = PairToolCalls(messages') \o prompt
  BY DEF SentInv
<1>1. CASE ResolveProvider
  <2>1. Ask(messages, <<>>) /\ messages' = messages
    BY <1>1 DEF ResolveProvider, talkVars
  <2> QED
    BY <2>1, AskSends
<1>2. CASE ReplyEmpty
  <2>1. Ask(messages, <<RepairPrompt>>) /\ messages' = messages
    BY <1>2 DEF ReplyEmpty
  <2> QED
    BY <2>1, AskSends
<1>3. CASE ReplyCalling
  <2>1. PICK calls \in NewCalls : StartTool(calls, 1, messages', running)
    BY <1>3 DEF ReplyCalling
  <2> QED
    BY <2>1, StartToolSends
<1>4. CASE ToolEnds \/ GateAnswers
  <2>1. Record
    BY <1>4 DEF ToolEnds, GateAnswers
  <2>2. PICK call : StartTool(ReplyCalls, current + 1, messages', running \ {call})
    BY <2>1 DEF Record
  <2> QED
    BY <2>2, StartToolSends
<1>5. CASE LateToolEnds \/ Abort \/ UNCHANGED loopVars
  BY <1>5 DEF LateToolEnds, Abort, loopVars, talkVars, SentInv
<1>6. CASE \/ StartTurn \/ Load \/ Recall \/ Summarize \/ SummaryFails
           \/ ReplyText \/ ReplyExecuted \/ RequestFails \/ AbandonRequest
           \/ AbandonTool \/ Finish \/ PersistFailed
  BY <1>6 DEF StartTurn, Load, Recall, Summarize, SummaryFails, Build, ReplyText,
              ReplyExecuted, RequestFails, AbandonRequest, AbandonTool, Finish,
              PersistFailed, Save
<1> QED
  BY <1>1, <1>2, <1>3, <1>4, <1>5, <1>6 DEF LoopNext, ProviderReplies

(* What is known of the conversation and of the request made of it. *)
LEMMA RequestIsSent ==
  ASSUME TalkInv, SentInv, mode = "asking"
  PROVE  /\ Sane(messages) /\ request \in Seq(Msgs)
         /\ Paired(request) /\ CallsAreReplies(request) /\ History(request, Tools)
         /\ Len(PairToolCalls(messages)) \in Nat
         /\ \A p \in 1..Len(PairToolCalls(messages)) :
              p \in 1..Len(request) /\ request[p] = PairToolCalls(messages)[p]
<1> DEFINE h == PairToolCalls(messages)
<1>1. Sane(messages)
  BY DEF TalkInv, TalkOK, Late
<1>2. History(h, Tools) /\ Paired(h) /\ CallsAreReplies(h)
  BY <1>1, PairingHolds DEF Sane
<1>3. \E prompt \in {<<>>, <<RepairPrompt>>} : request = h \o prompt
  BY DEF SentInv
<1> HIDE DEF h
<1>4. h \in Seq(Msgs) /\ Len(h) \in Nat
  BY <1>2, HistoryFacts
<1>5. CASE request = h \o <<>>
  <2>1. request = h
    BY <1>4, <1>5
  <2> QED
    BY <1>1, <1>2, <1>4, <2>1 DEF h
<1>6. CASE request = h \o <<RepairPrompt>>
  <2> DEFINE m == RepairPrompt
  <2>1. m \in Msgs /\ m.role = "user" /\ m.calls = <<>>
    BY UsersAreMessages
  <2> HIDE DEF m
  <2>2. request \in Seq(Msgs) /\ Then(request, h, m)
    BY <1>4, <1>6, <2>1, AppendIsThen DEF m
  <2>3. Paired(request)
    BY <1>2, <1>4, <2>1, <2>2, PairedGrows DEF Msgs
  <2>4. /\ Len(request) = Len(h) + 1 /\ request[Len(h) + 1] = m
        /\ \A p \in 1..Len(h) : p \in 1..Len(request) /\ request[p] = h[p]
        /\ \A p \in 1..Len(request) : p \in 1..Len(h) \/ p = Len(h) + 1
    BY <1>4, <2>2 DEF Then
  <2>5. ASSUME NEW p \in 1..Len(request)
        PROVE  /\ request[p].role = "tool" => request[p].calls = <<>>
               /\ request[p].calls # <<>> => request[p].role = "assistant"
    <3>1. CASE p \in 1..Len(h)
      BY <1>2, <2>4, <3>1 DEF History, CallsAreReplies
    <3>2. CASE p = Len(h) + 1
      BY <2>1, <2>4, <3>2
    <3> QED
      BY <2>4, <3>1, <3>2
  <2>6. History(request, Tools) /\ CallsAreReplies(request)
    BY <2>2, <2>5 DEF History, CallsAreReplies, Msgs
  <2> QED
    BY <1>1, <1>4, <2>2, <2>3, <2>4, <2>6 DEF h
<1> QED
  BY <1>3, <1>5, <1>6

LEMMA SentStarts == LoopInit => SentInv
BY DEF LoopInit, SentInv

LEMMA SentAlways == LoopSpec => []SentInv
BY SentStarts, SentStep, PTL DEF LoopSpec

(* Every request the loop sends keeps the pairing contract: whatever the    *)
(* turns before have left in the dialog, wherever it was cut or compacted   *)
(* (localLoop.ts, toolCallPairing.ts).                                      *)
THEOREM RequestsPaired == LoopSpec => []RequestsArePaired
<1>1. TalkInv /\ SentInv => RequestsArePaired
  BY RequestIsSent DEF RequestsArePaired
<1> QED
  BY <1>1, TalkAlways, SentAlways, PTL

(* On the wire exactly the calls that stayed structural are answered, for   *)
(* every choice of agents and their tools (outboundHistorySanitize.ts).     *)
THEOREM WireIsAnswered == LoopSpec => []WireCallsAnswered
<1>1. TalkInv /\ SentInv => WireCallsAnswered
  <2> SUFFICES ASSUME TalkInv, SentInv, mode = "asking"
               PROVE  AnsweredOnTheWire(Wire, agent)
    BY Zenon DEF WireCallsAnswered, AnsweredOnTheWire
  <2> QED
    BY RequestIsSent, OutboundHolds DEF Wire
<1> QED
  BY <1>1, TalkAlways, SentAlways, PTL

(* No tool result of the conversation is kept from the model, in whatever   *)
(* form: neither the cut nor the pairing nor the downgrade loses one.       *)
THEOREM ResultsAreShown == LoopSpec => []ResultsReachTheModel
<1>1. TalkInv /\ SentInv => ResultsReachTheModel
  <2> SUFFICES ASSUME TalkInv, SentInv, mode = "asking",
                      NEW j \in DOMAIN messages, messages[j].role = "tool"
               PROVE  messages[j].id \in ResultsSeen(Wire)
    BY DEF ResultsReachTheModel
  <2> DEFINE h == PairToolCalls(messages)
             id == messages[j].id
  <2>1. /\ Sane(messages) /\ History(request, Tools) /\ CallsAreReplies(request)
        /\ Len(h) \in Nat
        /\ \A p \in 1..Len(h) : p \in 1..Len(request) /\ request[p] = h[p]
    BY RequestIsSent
  <2>2. History(messages, Tools) /\ j \in 1..Len(messages)
    BY <2>1, HistoryFacts DEF Sane
  <2>3. PICK i \in 1..Len(messages) : Declares(messages[i], id)
    BY <2>1, <2>2 DEF Sane, Declared
  <2>4. Answers(messages[j], id)
    BY <2>3 DEF Declares, Answers
  <2>5. PICK p \in 1..Len(h) : Answers(h[p], id)
    BY <2>2, <2>3, <2>4, AnswersSurvive
  <2> HIDE DEF h
  <2>6. p \in 1..Len(request) /\ request[p].role = "tool" /\ request[p].id = id
    BY <2>1, <2>5 DEF Answers
  <2> QED
    BY <2>1, <2>6, OutboundHolds DEF Wire
<1> QED
  BY <1>1, TalkAlways, SentAlways, PTL

-----------------------------------------------------------------------------
(* Dialogs *)

(* Wherever guardToolChainBoundary and the compactions before have put it,  *)
(* a summary never separates a call from its answer (planCompression.ts).   *)
THEOREM SummariesKeepPairs == LoopSpec => []BoundaryKeepsPairs
<1>1. TalkInv => BoundaryKeepsPairs
  BY BoundaryKeeps DEF TalkInv, BoundaryKeepsPairs
<1> QED
  BY <1>1, TalkAlways, PTL

(* A save appends the turn's prompt and what was said after it, nothing of  *)
(* the history the turn was built on and no prompt of another turn, though  *)
(* the history was cut, compacted or paired under the loop's feet           *)
(* (turnStartIndex in localLoop.ts).                                        *)
THEOREM SavesAppendTurns == LoopSpec => TurnsAppend
<1> DEFINE Added == SubSeq(stored', Len(stored) + 1, Len(stored'))
           Step == stored' # stored =>
                     /\ stored' = stored \o Added
                     /\ Added[1] = Prompt(turn)
                     /\ \A i \in 2..Len(Added) : Added[i].role # "user"
<1>1. TalkInv /\ [LoopNext]_loopVars => Step
  <2> SUFFICES ASSUME TalkInv, [LoopNext]_loopVars, stored' # stored PROVE Step
    OBVIOUS
  <2>1. mode \in Late /\ stored' = Whole(stored, messages, start)
    BY DEF LoopNext, StartTurn, Load, Recall, Summarize, SummaryFails, ResolveProvider,
           ProviderReplies, ReplyText, ReplyEmpty, ReplyCalling, ReplyExecuted, Answered,
           RequestFails, AbandonRequest, ToolEnds, GateAnswers, AbandonTool, LateToolEnds,
           Abort, loopVars, dialogVars, Finish, PersistFailed, Save, Whole, TurnMessages, Late
  <2>2. TalkOK(stored, messages, start, minted, Prompt(turn)) /\ History(stored, Tools)
    BY <2>1, GoodIsHistory DEF TalkInv
  <2>3. /\ messages \in Seq(Msgs) /\ stored \in Seq(Msgs) /\ start \in 0..Len(messages)
        /\ Len(messages) \in Nat /\ start \in Nat /\ start < Len(messages)
    BY <2>2, TalkFacts DEF TalkOK
  <2> DEFINE a == SubSeq(messages, start + 1, Len(messages))
  <2>4. /\ a \in Seq(Msgs) /\ Len(a) = Len(messages) - start
        /\ \A i \in 1..(Len(messages) - start) : a[i] = messages[start + i]
    BY <2>3, TailIsSeq
  <2> HIDE DEF a
  <2>5. stored' = stored \o a
    BY <2>1 DEF Whole, a
  <2>6. Added = a
    BY <2>3, <2>4, <2>5, TailOfJoined
  <2>7. a[1] = Prompt(turn)
    BY <2>2, <2>3, <2>4 DEF TalkOK
  <2>8. \A i \in 2..Len(a) : a[i].role # "user"
    <3> SUFFICES ASSUME NEW i \in 2..Len(a) PROVE a[i].role # "user"
      OBVIOUS
    <3>1. i \in 1..(Len(messages) - start) /\ start + i \in (start + 2)..Len(messages)
      BY <2>3, <2>4
    <3> QED
      BY <2>2, <2>4, <3>1 DEF TalkOK
  <2> HIDE DEF Added
  <2> QED
    BY <2>5, <2>6, <2>7, <2>8
<1> QED
  BY <1>1, TalkAlways, PTL DEF LoopSpec, TurnsAppend

-----------------------------------------------------------------------------
(* Bounds *)

(* The round a turn is in, and the usage of the rounds that were answered:  *)
(* a round is under way while the provider is asked, and calls are only     *)
(* executed when another round is left for their answers.                   *)
RoundsInv ==
  /\ turn \in 0..MaxTurns /\ agent \in Agents /\ aborted \in BOOLEAN
  /\ repair \in {"unused", "used"}
  /\ rounds \in 0..MaxRounds /\ records \in 0..rounds /\ summaryUse \in 0..1
  /\ mode \in {"idle", "loading", "recalling", "compacting", "resolving"} => rounds = 0
  /\ mode = "asking" => records < rounds
  /\ mode \in {"executing", "gate"} => rounds < MaxRounds

AskedOrNot ==
  \/ mode' = "failing" /\ rounds' = rounds
  \/ mode' = "asking" /\ rounds' = rounds + 1

LEMMA AskCounts ==
  ASSUME NEW ms, NEW prompt, Ask(ms, prompt)
  PROVE  AskedOrNot
BY DEF Ask, AskedOrNot

LEMMA StartToolCounts ==
  ASSUME NEW calls, NEW k, NEW ms, NEW others, StartTool(calls, k, ms, others)
  PROVE  AskedOrNot \/ (mode' = "executing" /\ rounds' = rounds)
<1>1. CASE k > Len(calls)
  BY <1>1, AskCounts DEF StartTool
<1>2. CASE ~(k > Len(calls))
  BY <1>2 DEF StartTool, AskedOrNot
<1> QED BY <1>1, <1>2

LEMMA RoundsStep == RoundsInv /\ [LoopNext]_loopVars => RoundsInv'
<1> SUFFICES ASSUME RoundsInv, [LoopNext]_loopVars PROVE RoundsInv'
  OBVIOUS
<1>0. MaxRounds \in Nat /\ MaxRounds >= 1 /\ MaxTurns \in Nat /\ rounds \in Nat /\ records \in Nat
  BY LoopAssumption DEF RoundsInv
<1> DEFINE rest == <<turn, agent, aborted, repair, summaryUse>>
<1>1. CASE StartTurn
  BY <1>0, <1>1 DEF StartTurn, RoundsInv, usageVars
<1>2. CASE Load
  BY <1>0, <1>2 DEF Load, RoundsInv, usageVars
<1>3. CASE Recall
  <2>1. mode = "recalling" /\ mode' \in {"resolving", "compacting"}
        /\ UNCHANGED <<rest, rounds, records>>
    BY <1>3 DEF Recall, Build, usageVars
  <2> QED BY <1>0, <2>1 DEF RoundsInv
<1>4. CASE Summarize \/ SummaryFails
  <2>1. mode = "compacting" /\ mode' = "resolving" /\ summaryUse' \in {1, summaryUse}
        /\ UNCHANGED <<turn, agent, aborted, repair, rounds, records>>
    BY <1>4 DEF Summarize, SummaryFails, Build, usageVars
  <2> QED BY <1>0, <2>1 DEF RoundsInv
<1>5. CASE ResolveProvider
  <2>1. mode = "resolving" /\ UNCHANGED <<rest, records>>
    BY <1>5 DEF ResolveProvider, usageVars
  <2>2. AskedOrNot
    BY <1>5, AskCounts DEF ResolveProvider, AskedOrNot
  <2> QED BY <1>0, <2>1, <2>2 DEF RoundsInv, AskedOrNot
<1>6. CASE ProviderReplies
  <2>1. mode = "asking" /\ records' = records + 1
        /\ UNCHANGED <<turn, agent, aborted, summaryUse>>
    BY <1>6 DEF ProviderReplies, ReplyText, ReplyEmpty, ReplyCalling, ReplyExecuted, Answered
  <2>2. CASE mode' = "saving" /\ UNCHANGED <<repair, rounds>>
    BY <1>0, <2>1, <2>2 DEF RoundsInv
  <2>3. CASE rounds < MaxRounds /\ repair' \in {repair, "used"}
             /\ (AskedOrNot \/ (mode' = "executing" /\ rounds' = rounds))
    BY <1>0, <2>1, <2>3 DEF RoundsInv, AskedOrNot
  <2>4. CASE ReplyCalling
    <3>1. PICK calls, ms : StartTool(calls, 1, ms, running)
      BY <2>4 DEF ReplyCalling
    <3> QED
      BY <2>3, <2>4, <3>1, StartToolCounts DEF ReplyCalling
  <2>5. CASE ReplyEmpty
    <3>1. CASE Ask(messages, <<RepairPrompt>>) /\ repair' = "used" /\ rounds < MaxRounds
      BY <2>3, <3>1, AskCounts
    <3>2. CASE mode' = "saving" /\ UNCHANGED <<repair, rounds>>
      BY <2>2, <3>2
    <3> QED
      BY <2>5, <3>1, <3>2 DEF ReplyEmpty
  <2> QED
    BY <1>6, <2>2, <2>4, <2>5 DEF ProviderReplies, ReplyText, ReplyExecuted
<1>7. CASE RequestFails \/ AbandonRequest \/ AbandonTool
  <2>1. mode' = "failing" /\ UNCHANGED <<rest, rounds, records>>
    BY <1>7 DEF RequestFails, AbandonRequest, AbandonTool, usageVars
  <2> QED BY <1>0, <2>1 DEF RoundsInv
<1>8. CASE ToolEnds \/ GateAnswers
  <2>1. mode \in {"executing", "gate"} /\ UNCHANGED <<rest, records>>
    BY <1>8 DEF ToolEnds, GateAnswers, usageVars
  <2>2. CASE Record
    <3>1. PICK calls, k, ms, others : StartTool(calls, k, ms, others)
      BY <2>2 DEF Record
    <3>2. AskedOrNot \/ (mode' = "executing" /\ rounds' = rounds)
      BY <3>1, StartToolCounts
    <3> QED BY <1>0, <2>1, <3>2 DEF RoundsInv, AskedOrNot
  <2>3. CASE mode' = "gate" /\ rounds' = rounds
    BY <1>0, <2>1, <2>3 DEF RoundsInv
  <2> QED BY <1>8, <2>2, <2>3 DEF ToolEnds, GateAnswers
<1>9. CASE LateToolEnds \/ UNCHANGED loopVars
  <2>1. UNCHANGED <<rest, mode, rounds, records>>
    BY <1>9 DEF LateToolEnds, loopVars, usageVars
  <2> QED BY <2>1 DEF RoundsInv
<1>10. CASE Finish \/ PersistFailed
  <2>1. /\ mode' = "idle" /\ aborted' \in BOOLEAN /\ repair' = "unused"
        /\ rounds' = 0 /\ records' = 0 /\ summaryUse' = 0 /\ UNCHANGED <<turn, agent>>
    BY <1>10, Zenon DEF Finish, PersistFailed, Save
  <2> QED BY <1>0, <2>1 DEF RoundsInv
<1>11. CASE Abort
  <2>1. aborted' = TRUE /\ UNCHANGED <<turn, agent, repair, summaryUse, mode, rounds, records>>
    BY <1>11 DEF Abort, usageVars
  <2>2. aborted' \in BOOLEAN
    BY <2>1, Zenon
  <2> QED BY <2>1, <2>2, Zenon DEF RoundsInv
<1> QED
  BY <1>1, <1>2, <1>3, <1>4, <1>5, <1>6, <1>7, <1>8, <1>9, <1>10, <1>11 DEF LoopNext

LEMMA RoundsStarts == LoopInit => RoundsInv
<1> SUFFICES ASSUME LoopInit PROVE RoundsInv
  OBVIOUS
<1>1. aborted \in BOOLEAN
  BY Zenon DEF LoopInit
<1>2. /\ turn = 0 /\ agent \in Agents /\ mode = "idle" /\ repair = "unused"
      /\ rounds = 0 /\ records = 0 /\ summaryUse = 0
  BY DEF LoopInit
<1>3. MaxTurns \in Nat /\ MaxRounds \in Nat
  BY LoopAssumption
<1> QED
  BY <1>1, <1>2, <1>3 DEF RoundsInv

LEMMA RoundsAlways == LoopSpec => []RoundsInv
BY RoundsStarts, RoundsStep, PTL DEF LoopSpec

(* The tools that run are those of calls the dialog has seen. *)
RunningInv == minted \in 0..MaxCalls /\ running \subseteq 1..minted

LEMMA StartToolRuns ==
  ASSUME NEW calls, NEW k \in Nat, k >= 1, NEW ms, NEW others, Len(calls) \in Nat,
         StartTool(calls, k, ms, others)
  PROVE  running' = others \/ (k \in 1..Len(calls) /\ running' = others \cup {calls[k].id})
<1>1. CASE k > Len(calls)
  BY <1>1 DEF StartTool
<1>2. CASE ~(k > Len(calls))
  BY <1>2 DEF StartTool
<1> QED BY <1>1, <1>2

(* The calls of a reply of this turn are among the calls so far. *)
LEMMA ReplyIsMinted ==
  ASSUME TalkInv, mode \in {"executing", "gate"}
  PROVE  /\ ReplyCalls \in Seq(CallOver(Tools)) /\ Len(ReplyCalls) \in Nat
         /\ current \in DOMAIN ReplyCalls /\ current \in Nat /\ current >= 1
         /\ \A k \in 1..Len(ReplyCalls) : ReplyCalls[k].id \in 1..minted
<1> DEFINE r == (Len(messages) - current) + 1
           w == Whole(stored, messages, start)
           calls == messages[r].calls
<1>1. /\ TalkOK(stored, messages, start, minted, Prompt(turn)) /\ minted \in Nat
      /\ History(stored, Tools) /\ Replying(messages, start, current)
  BY GoodIsHistory DEF TalkInv, Late
<1>2. /\ messages \in Seq(Msgs) /\ stored \in Seq(Msgs)
      /\ Len(messages) \in Nat /\ Len(stored) \in Nat /\ start \in 0..Len(messages) /\ start \in Nat
  BY <1>1, TalkFacts
<1>3. Good(w, minted) /\ Tailed(w, stored, messages, start)
  BY <1>1, <1>2, WholeTail DEF TalkOK
<1>4. /\ current \in Nat /\ current >= 1 /\ r \in (start + 2)..Len(messages)
      /\ current \in 1..Len(calls)
  BY <1>1 DEF Replying
<1> HIDE DEF w
<1>5. ReplyCalls = calls
  BY DEF ReplyCalls
<1> HIDE DEF r
<1>6. r \in 1..Len(messages) /\ r - start \in 1..(Len(messages) - start) /\ start + (r - start) = r
  BY <1>2, <1>4
<1>7. messages[r] \in Msgs
  BY <1>2, <1>6
<1>8. calls \in Seq(CallOver(Tools)) /\ Len(calls) \in Nat /\ DOMAIN calls = 1..Len(calls)
  BY <1>7 DEF Msgs, MessageOver
<1>9. IdsOf(calls) \subseteq 1..minted
  <2>0. Len(stored) + (r - start) \in Nat
    BY <1>2, <1>6
  <2>1. PICK x \in Nat : x = Len(stored) + (r - start)
    BY <2>0, Zenon
  <2>2. w[x] = messages[r]
    BY <1>3, <1>6, <2>1 DEF Tailed
  <2>3. x \in 1..Len(w)
    BY <1>2, <1>3, <1>6, <2>1 DEF Tailed
  <2> QED
    BY <1>3, <2>2, <2>3 DEF Good
<1>10. \A k \in 1..Len(calls) : calls[k].id \in 1..minted
  BY <1>8, <1>9 DEF IdsOf
<1> QED
  BY <1>4, <1>5, <1>8, <1>10

LEMMA RunningStep == RunningInv /\ TalkInv /\ [LoopNext]_loopVars => RunningInv'
<1> SUFFICES ASSUME RunningInv, TalkInv, [LoopNext]_loopVars PROVE RunningInv'
  OBVIOUS
<1>0. MaxCalls \in Nat /\ minted \in Nat
  BY LoopAssumption DEF RunningInv
<1>1. CASE minted' = minted /\ running' \subseteq running
  BY <1>1 DEF RunningInv
<1>2. CASE ReplyCalling
  <2>1. PICK calls \in NewCalls :
          minted' = minted + Len(calls) /\ StartTool(calls, 1, messages', running)
    BY <1>2 DEF ReplyCalling
  <2>2. FreshCalls(calls, minted)
    BY NewCallsAreFresh DEF TalkInv
  <2>3. /\ Len(calls) \in Nat /\ minted' \in 0..MaxCalls /\ 1..minted \subseteq 1..minted'
        /\ \A k \in 1..Len(calls) : calls[k].id \in 1..minted'
    BY <1>0, <2>1, <2>2 DEF FreshCalls
  <2>4. running' = running \/ (1 \in 1..Len(calls) /\ running' = running \cup {calls[1].id})
    BY <2>1, <2>3, StartToolRuns
  <2> QED
    BY <2>3, <2>4 DEF RunningInv
<1>3. CASE ReplyExecuted
  <2>1. PICK calls \in NewCalls : minted' = minted + Len(calls) /\ running' = running
    BY <1>3 DEF ReplyExecuted
  <2>2. FreshCalls(calls, minted)
    BY NewCallsAreFresh DEF TalkInv
  <2> QED
    BY <1>0, <2>1, <2>2 DEF FreshCalls, RunningInv
<1>4. CASE Record /\ mode \in {"executing", "gate"} /\ minted' = minted
  <2>1. PICK call, ms : StartTool(ReplyCalls, current + 1, ms, running \ {call})
    BY <1>4 DEF Record
  <2>2. /\ Len(ReplyCalls) \in Nat /\ current + 1 \in Nat /\ current + 1 >= 1
        /\ \A k \in 1..Len(ReplyCalls) : ReplyCalls[k].id \in 1..minted
    BY <1>4, ReplyIsMinted
  <2>3. \/ running' = running \ {call}
        \/ /\ current + 1 \in 1..Len(ReplyCalls)
           /\ running' = (running \ {call}) \cup {ReplyCalls[current + 1].id}
    BY <2>1, <2>2, StartToolRuns
  <2> QED
    BY <1>4, <2>2, <2>3 DEF RunningInv
<1>5. CASE ToolEnds \/ GateAnswers
  <2>1. mode \in {"executing", "gate"} /\ minted' = minted
    BY <1>5 DEF ToolEnds, GateAnswers
  <2>2. Record \/ running' \subseteq running
    BY <1>5 DEF ToolEnds, GateAnswers
  <2> QED
    BY <1>1, <1>4, <2>1, <2>2
<1>6. CASE \/ StartTurn \/ Load \/ Recall \/ Summarize \/ SummaryFails \/ ResolveProvider
           \/ ReplyText \/ ReplyEmpty \/ RequestFails \/ AbandonRequest
           \/ AbandonTool \/ LateToolEnds \/ Finish \/ PersistFailed \/ Abort
           \/ UNCHANGED loopVars
  <2>1. minted' = minted /\ running' \subseteq running
    BY <1>6 DEF StartTurn, Load, Recall, Summarize, SummaryFails, ResolveProvider, ReplyText,
                ReplyEmpty, RequestFails, AbandonRequest, AbandonTool, LateToolEnds, Finish,
                PersistFailed, Save, Abort, loopVars, toolVars
  <2> QED
    BY <1>1, <2>1
<1> QED
  BY <1>2, <1>3, <1>5, <1>6 DEF LoopNext, ProviderReplies

LEMMA RunningStarts == LoopInit => RunningInv
BY LoopAssumption DEF LoopInit, RunningInv

LEMMA RunningAlways == LoopSpec => []RunningInv
BY RunningStarts, RunningStep, TalkAlways, PTL DEF LoopSpec

(* A request is a sequence of messages whatever the mode. *)
RequestTyped == mode # "asking" => request = <<>>

LEMMA RequestTypedStep == RequestTyped /\ [LoopNext]_loopVars => RequestTyped'
<1> SUFFICES ASSUME RequestTyped, [LoopNext]_loopVars, mode' # "asking" PROVE request' = <<>>
  BY DEF RequestTyped
<1>1. ASSUME NEW calls, NEW k, NEW ms, NEW others, StartTool(calls, k, ms, others)
      PROVE  request' = <<>>
  <2>1. CASE k > Len(calls)
    BY <1>1, <2>1 DEF StartTool, Ask
  <2>2. CASE ~(k > Len(calls))
    BY <1>1, <2>2 DEF StartTool
  <2> QED BY <2>1, <2>2
<1>2. CASE ReplyCalling
  BY <1>1, <1>2 DEF ReplyCalling
<1>3. CASE ToolEnds \/ GateAnswers
  <2>1. mode # "asking" /\ (Record \/ request' = request)
    BY <1>3 DEF ToolEnds, GateAnswers
  <2>2. CASE Record
    BY <1>1, <2>2 DEF Record
  <2> QED
    BY <2>1, <2>2 DEF RequestTyped
<1>4. CASE ResolveProvider \/ ReplyEmpty
  BY <1>4 DEF ResolveProvider, ReplyEmpty, Ask, RequestTyped
<1>5. CASE \/ StartTurn \/ Load \/ Recall \/ Summarize \/ SummaryFails \/ AbandonTool
           \/ LateToolEnds \/ Finish \/ PersistFailed \/ Abort \/ UNCHANGED loopVars
  <2>1. request' = request /\ (mode # "asking" \/ mode' = mode)
    BY <1>5 DEF StartTurn, Load, Recall, Summarize, SummaryFails, AbandonTool, LateToolEnds,
                Finish, PersistFailed, Save, Abort, loopVars
  <2> QED
    BY <2>1 DEF RequestTyped
<1>6. CASE ReplyText \/ ReplyExecuted \/ RequestFails \/ AbandonRequest
  BY <1>6 DEF ReplyText, ReplyExecuted, RequestFails, AbandonRequest
<1> QED
  BY <1>2, <1>3, <1>4, <1>5, <1>6 DEF LoopNext, ProviderReplies

LEMMA RequestStartsTyped == LoopInit => RequestTyped
BY DEF LoopInit, RequestTyped

LEMMA RequestAlwaysTyped == LoopSpec => []RequestTyped
BY RequestStartsTyped, RequestTypedStep, PTL DEF LoopSpec

LEMMA LoopMeans ==
  TalkInv /\ SentInv /\ RoundsInv /\ RunningInv /\ UsageInv /\ RequestTyped => LoopTypeOK
<1> SUFFICES ASSUME TalkInv, SentInv, RoundsInv, RunningInv, UsageInv, RequestTyped
             PROVE  LoopTypeOK
  OBVIOUS
<1>1. Message = Msgs
  BY DEF Message, Msgs, Call, MessageOver, CallOver
<1>2. stored \in Seq(Msgs) /\ Len(stored) \in Nat /\ History(stored, Tools)
  BY GoodIsHistory DEF TalkInv
<1>3. ASSUME mode \in Late
      PROVE  messages \in Seq(Msgs) /\ Len(messages) \in Nat /\ start \in 0..(Len(messages) - 1)
  <2>1. TalkOK(stored, messages, start, minted, Prompt(turn))
    BY <1>3 DEF TalkInv
  <2>2. messages \in Seq(Msgs) /\ Len(messages) \in Nat /\ start \in Nat /\ start < Len(messages)
    BY <1>2, <2>1, TalkFacts DEF TalkOK
  <2> QED
    BY <2>2
<1>4. mode \in Early \/ mode \in Late
  BY DEF TalkInv, LoopModes, Early, Late
<1>5. messages \in Seq(Msgs)
  <2>1. <<>> \in Seq(Msgs)
    OBVIOUS
  <2> QED
    BY <1>3, <1>4, <2>1 DEF TalkInv
<1>6. request \in Seq(Msgs)
  <2>1. <<>> \in Seq(Msgs)
    OBVIOUS
  <2> QED
    BY <2>1, RequestIsSent DEF RequestTyped
<1>7. {stored, messages, request} \subseteq Seq(Message)
  BY <1>1, <1>2, <1>5, <1>6, Zenon
<1>8. covered \in 0..Len(stored) /\ cut \in 0..Len(stored)
  BY DEF TalkInv, Boundary
<1>9. {records, summaryUse, due} \subseteq 0..(MaxRounds + 1)
  <2>1. MaxRounds \in Nat
    BY LoopAssumption
  <2> QED
    BY <2>1 DEF RoundsInv, UsageInv
<1>10. mode \in {"executing", "gate"} => current \in DOMAIN ReplyCalls
  BY ReplyIsMinted
<1>11. mode \in {"resolving", "asking", "executing", "gate", "saving", "failing"}
         => start \in 0..(Len(messages) - 1)
  BY <1>3 DEF Late
<1>12. mode \in LoopModes
  BY DEF TalkInv
<1> QED
  BY <1>7, <1>8, <1>9, <1>10, <1>11, <1>12 DEF LoopTypeOK, RoundsInv, RunningInv

(* Every variable of the loop keeps its type, and every index points into   *)
(* its sequence: the turn's start into the conversation, the summary's end  *)
(* into the dialog, the current call into its reply.                        *)
THEOREM LoopTypes == LoopSpec => []LoopTypeOK
<1>1. LoopSpec => []UsageInv
  BY UsageStarts, UsageStep, PTL DEF LoopSpec
<1> QED
  BY <1>1, LoopMeans, TalkAlways, SentAlways, RoundsAlways, RunningAlways, RequestAlwaysTyped, PTL
=============================================================================
