--------------------------- MODULE ProviderProofs ---------------------------
(***************************************************************************)
(* Theorems about the calls of a provider: the retries of one               *)
(* (ProviderRetry), for any budget and any number of responses, and the     *)
(* stream of the Cursor provider (CursorStream), for any number of frames.  *)
(***************************************************************************)
EXTENDS ProviderRetry, CursorStream, SequenceFacts

-----------------------------------------------------------------------------
(* Retries *)

Unsent == {"sending", "sleeping"}

(* Of the platform nothing has been acted on while a request may still be   *)
(* sent, and a tool event is only seen once the stream is there.            *)
OnceInv ==
  /\ processed \in Nat
  /\ transport = "platform" => processed <= 1 /\ (phase \in Unsent => processed = 0)
  /\ sawTool => phase \in {"streaming", "answered", "failed"}

(* What the catch branch leaves: after a failure of the platform, or once a *)
(* tool event was seen, the call has failed.                                *)
LEMMA ThrowEnds ==
  ASSUME NEW transient, NEW h, Throw(transient, h)
  PROVE  phase' \in {"sending", "failed"}
         /\ (transport = "platform" \/ sawTool => phase' = "failed")
BY DEF Throw, Regenerates

LEMMA OnceStarts == RetryInit => OnceInv
BY DEF RetryInit, OnceInv, Unsent

LEMMA OnceStep == OnceInv /\ [RetryNext]_retryVars => OnceInv'
<1> SUFFICES ASSUME OnceInv, [RetryNext]_retryVars PROVE OnceInv'
  OBVIOUS
<1> USE DEF OnceInv, Unsent
<1>1. CASE RespondOk
  BY <1>1 DEF RespondOk
<1>2. ASSUME NEW kind \in {"draining", "busy"}, RespondRetryable(kind)
      PROVE  OnceInv'
  <2> DEFINE mayRetry == /\ transport # "loopback"
                         /\ transport = "platform" => kind = "draining"
                         /\ attempt < Budget(kind)
  <2>1. /\ phase = "sending" /\ UNCHANGED <<transport, stopped, sawTool>>
        /\ processed' = IF kind = "busy" /\ transport = "platform"
                        THEN processed + 1 ELSE processed
    BY <1>2 DEF RespondRetryable
  <2>2. ~sawTool /\ (transport = "platform" => processed = 0)
    BY <2>1
  <2>3. CASE mayRetry
    <3>1. phase' = "sleeping"
      BY <1>2, <2>3 DEF RespondRetryable, Retry
    <3>2. processed' = processed
      BY <2>1, <2>3
    <3> QED BY <2>1, <2>2, <3>1, <3>2
  <2>4. CASE ~mayRetry
    <3>1. PICK transient \in BOOLEAN : Throw(transient, Heard(kind))
      BY <1>2, <2>4 DEF RespondRetryable
    <3>2. phase' \in {"sending", "failed"} /\ (transport = "platform" => phase' = "failed")
      BY <3>1, ThrowEnds
    <3> QED BY <2>1, <2>2, <3>2
  <2> QED BY <2>3, <2>4
<1>3. CASE NetworkFails
  <2>1. /\ phase = "sending" /\ processed' = processed + 1
        /\ UNCHANGED <<transport, stopped, sawTool>>
    BY <1>3 DEF NetworkFails
  <2>2. phase' \in {"sending", "sleeping", "failed"} /\ (transport = "platform" => phase' = "failed")
    <3>1. CASE transport \in {"platform", "cursor"} \/ attempt >= LoopMaxAttempts
      <4>1. Throw(TRUE, Heard("lost"))
        BY <1>3, <3>1 DEF NetworkFails
      <4> QED BY <4>1, ThrowEnds
    <3>2. CASE ~(transport \in {"platform", "cursor"} \/ attempt >= LoopMaxAttempts)
      BY <1>3, <3>2 DEF NetworkFails, Retry
    <3> QED BY <3>1, <3>2
  <2> QED BY <2>1, <2>2
<1>4. CASE Wake
  BY <1>4 DEF Wake
<1>5. CASE FetchAborts
  <2>1. phase' \in {"sending", "failed"} /\ phase = "sending"
        /\ UNCHANGED <<transport, sawTool, processed>>
    BY <1>5, ThrowEnds DEF FetchAborts
  <2> QED BY <2>1
<1>6. CASE ProviderRefuses
  <2>1. phase' \in {"sending", "failed"} /\ phase = "sending"
        /\ UNCHANGED <<transport, sawTool, processed>>
    BY <1>6, ThrowEnds DEF ProviderRefuses
  <2> QED BY <2>1
<1>7. CASE ToolEvent
  BY <1>7 DEF ToolEvent
<1>8. CASE StreamEnds
  BY <1>8 DEF StreamEnds
<1>9. CASE StreamDies
  <2>1. /\ phase' \in {"sending", "failed"}
        /\ (transport = "platform" \/ sawTool => phase' = "failed")
        /\ UNCHANGED <<transport, sawTool, processed>>
    BY <1>9, ThrowEnds DEF StreamDies
  <2> QED BY <2>1
<1>10. CASE Stop
  BY <1>10 DEF Stop
<1>11. CASE UNCHANGED retryVars
  BY <1>11 DEF retryVars
<1> QED
  BY <1>1, <1>2, <1>3, <1>4, <1>5, <1>6, <1>7, <1>8, <1>9, <1>10, <1>11 DEF RetryNext

-----------------------------------------------------------------------------
(* However a call to the platform's chat proxy fails, whatever budgets the  *)
(* retries have, the proxy acts on at most one POST of it.                  *)
THEOREM PlatformPostsOnce == RetrySpec => []PlatformSentOnce
<1>1. OnceInv => PlatformSentOnce
  BY DEF OnceInv, PlatformSentOnce
<1> QED BY <1>1, OnceStarts, OnceStep, PTL DEF RetrySpec

(* Once a provider has run a tool in its stream nothing is sent again.      *)
THEOREM StreamToolsRunOnce == RetrySpec => []ToolsRunOnce
<1>1. OnceInv => ToolsRunOnce
  BY DEF OnceInv, ToolsRunOnce
<1> QED BY <1>1, OnceStarts, OnceStep, PTL DEF RetrySpec

-----------------------------------------------------------------------------
(* Counting.  What the exchanges of a try came to adds up to its attempts,  *)
(* and a try that has met only drains is still within their budget.         *)

Total(h) == h.draining + h.busy + h.lost
OnlyDrains(h) == h.busy = 0 /\ h.lost = 0

CountInv ==
  /\ transport \in Transports /\ phase \in Phases /\ tries \in 1..MaxTries
  /\ stopped \in BOOLEAN /\ sawTool \in BOOLEAN /\ processed \in Nat
  /\ attempt \in 1..LoopMaxAttempts
  /\ heard \in [Kinds -> Nat] /\ Total(heard) <= LoopMaxAttempts
  /\ phase = "sending" => /\ Total(heard) = attempt - 1
                          /\ OnlyDrains(heard) => attempt <= DrainAttempts
  /\ phase = "sleeping" => /\ Total(heard) = attempt /\ attempt < LoopMaxAttempts
                           /\ OnlyDrains(heard) => attempt < DrainAttempts

LEMMA LoopBound ==
  /\ LoopMaxAttempts \in Nat \ {0}
  /\ MaxAttempts <= LoopMaxAttempts /\ DrainAttempts <= LoopMaxAttempts
BY RetryAssumption DEF RetryAssumption, LoopMaxAttempts, Larger

LEMMA HeardCounts ==
  ASSUME heard \in [Kinds -> Nat], NEW k \in Kinds
  PROVE  /\ Heard(k) \in [Kinds -> Nat] /\ Total(Heard(k)) = Total(heard) + 1
         /\ Total(heard) \in Nat
         /\ Heard(k).draining = IF k = "draining" THEN heard.draining + 1 ELSE heard.draining
         /\ OnlyDrains(Heard(k)) <=> k = "draining" /\ OnlyDrains(heard)
BY DEF Heard, Total, OnlyDrains, Kinds

(* A try that ends leaves what it heard, or the next one begins afresh.     *)
LEMMA ThrowCounts ==
  ASSUME CountInv, NEW transient, NEW h \in [Kinds -> Nat], Total(h) <= LoopMaxAttempts,
         Throw(transient, h), UNCHANGED <<transport, stopped, sawTool>>, processed' \in Nat
  PROVE  CountInv'
<1> USE LoopBound, RetryAssumption DEF RetryAssumption, CountInv
<1>1. CASE Regenerates(transient)
  <2>1. tries' = tries + 1 /\ attempt' = 1 /\ heard' = HeardNothing /\ phase' = "sending"
    BY <1>1 DEF Throw
  <2>2. tries' \in 1..MaxTries
    BY <1>1, <2>1 DEF Regenerates, MaxTries
  <2>3. HeardNothing \in [Kinds -> Nat] /\ Total(HeardNothing) = 0
    BY DEF HeardNothing, Kinds, Total
  <2> QED BY <2>1, <2>2, <2>3 DEF Phases
<1>2. CASE ~Regenerates(transient)
  BY <1>2 DEF Throw, Phases
<1> QED BY <1>1, <1>2

LEMMA CountStarts == RetryInit => CountInv
<1> SUFFICES ASSUME RetryInit PROVE CountInv
  OBVIOUS
<1>1. heard \in [Kinds -> Nat] /\ Total(heard) = 0
  BY DEF RetryInit, HeardNothing, Kinds, Total
<1>2. attempt \in 1..LoopMaxAttempts /\ attempt <= DrainAttempts /\ attempt = 1
  BY LoopBound, RetryAssumption DEF RetryAssumption, RetryInit
<1>3. tries \in 1..MaxTries /\ phase = "sending" /\ transport \in Transports /\ processed \in Nat
  BY DEF RetryInit, MaxTries
<1>4. stopped \in BOOLEAN /\ sawTool \in BOOLEAN
  BY Zenon DEF RetryInit
<1>5. Total(heard) <= LoopMaxAttempts
  BY <1>1, LoopBound
<1> QED BY <1>1, <1>2, <1>3, <1>4, <1>5 DEF CountInv, Phases

(* A retryable response: another attempt while its budget lasts.            *)
LEMMA RespondCounts ==
  ASSUME CountInv, NEW kind \in {"draining", "busy"}, RespondRetryable(kind)
  PROVE  /\ CountInv'
         /\ phase' = "failed" /\ transport # "loopback" /\ kind = "draining" /\ OnlyDrains(heard')
              => heard'.draining = DrainAttempts
<1> DEFINE mayRetry == /\ transport # "loopback"
                       /\ transport = "platform" => kind = "draining"
                       /\ attempt < Budget(kind)
<1> USE LoopBound, RetryAssumption DEF RetryAssumption
<1>1. /\ phase = "sending" /\ UNCHANGED <<transport, stopped, sawTool>>
      /\ processed' \in Nat
  BY DEF RespondRetryable, CountInv
<1>2. kind \in Kinds /\ heard \in [Kinds -> Nat] /\ attempt \in 1..LoopMaxAttempts
      /\ Total(heard) = attempt - 1 /\ (OnlyDrains(heard) => attempt <= DrainAttempts)
  BY <1>1 DEF Kinds, CountInv
<1>3. /\ Heard(kind) \in [Kinds -> Nat] /\ Total(Heard(kind)) = attempt
      /\ OnlyDrains(Heard(kind)) <=> kind = "draining" /\ OnlyDrains(heard)
  BY <1>2, HeardCounts
<1>4. CASE mayRetry
  <2>1. phase' = "sleeping" /\ heard' = Heard(kind) /\ UNCHANGED <<tries, attempt>>
    BY <1>4 DEF RespondRetryable, Retry
  <2>2. attempt < LoopMaxAttempts /\ (kind = "draining" => attempt < DrainAttempts)
    BY <1>2, <1>4 DEF Budget
  <2> QED BY <1>1, <1>2, <1>3, <2>1, <2>2 DEF CountInv, Phases
<1>5. CASE ~mayRetry
  <2>1. PICK transient \in BOOLEAN :
          (transient => kind # "draining") /\ Throw(transient, Heard(kind))
    BY <1>5 DEF RespondRetryable
  <2>2. CountInv'
    BY <1>1, <1>2, <1>3, <2>1, ThrowCounts
  <2>3. ASSUME phase' = "failed", transport # "loopback", kind = "draining", OnlyDrains(heard')
        PROVE  heard'.draining = DrainAttempts
    <3>1. heard' = Heard("draining")
      BY <2>1, <2>3 DEF Throw, Regenerates
    <3>2. attempt >= DrainAttempts
      BY <1>2, <1>5, <2>3 DEF Budget
    <3>3. attempt = DrainAttempts
      BY <1>2, <1>3, <2>3, <3>1, <3>2
    <3>4. Total(heard') = heard'.draining
      BY <1>3, <2>3, <3>1 DEF Total, OnlyDrains, Kinds
    <3> QED BY <1>3, <2>3, <3>1, <3>3, <3>4
  <2> QED BY <2>2, <2>3
<1> QED BY <1>4, <1>5

LEMMA NetworkCounts ==
  ASSUME CountInv, NetworkFails
  PROVE  CountInv' /\ (phase' = "failed" => heard'.draining = heard.draining)
<1> USE LoopBound, RetryAssumption DEF RetryAssumption
<1>1. /\ phase = "sending" /\ UNCHANGED <<transport, stopped, sawTool>> /\ processed' \in Nat
  BY DEF NetworkFails, CountInv
<1>2. heard \in [Kinds -> Nat] /\ attempt \in 1..LoopMaxAttempts /\ Total(heard) = attempt - 1
  BY <1>1 DEF CountInv
<1>3. /\ Heard("lost") \in [Kinds -> Nat] /\ Total(Heard("lost")) = attempt
      /\ ~OnlyDrains(Heard("lost")) /\ Heard("lost").draining = heard.draining
  BY <1>2, HeardCounts DEF Kinds
<1>4. CASE transport \in {"platform", "cursor"} \/ attempt >= LoopMaxAttempts
  <2>1. PICK transient \in BOOLEAN : Throw(transient, Heard("lost"))
    BY <1>4, Zenon DEF NetworkFails
  <2>2. CountInv'
    BY <1>1, <1>2, <1>3, <2>1, ThrowCounts
  <2>3. phase' = "failed" => heard' = Heard("lost")
    BY <2>1 DEF Throw
  <2> QED BY <1>3, <2>2, <2>3
<1>5. CASE ~(transport \in {"platform", "cursor"} \/ attempt >= LoopMaxAttempts)
  <2>1. \/ phase' = "sleeping" /\ attempt' = attempt
        \/ phase' = "sending" /\ attempt' = attempt + 1
    BY <1>5 DEF NetworkFails, Retry
  <2>2. heard' = Heard("lost") /\ tries' = tries
    BY <1>5 DEF NetworkFails, Retry
  <2> QED BY <1>1, <1>2, <1>3, <1>5, <2>1, <2>2 DEF CountInv, Phases
<1> QED BY <1>4, <1>5

(* Every step keeps the count, and the step by which a call that has met    *)
(* nothing but drains gives up is the answer to its last attempt.           *)
LEMMA CountStep ==
  ASSUME CountInv, [RetryNext]_retryVars
  PROVE  /\ CountInv'
         /\ phase' = "failed" /\ transport # "loopback"
            /\ heard'.draining > heard.draining /\ OnlyDrains(heard')
              => heard'.draining = DrainAttempts
<1> DEFINE Given == phase' = "failed" => ~(heard'.draining > heard.draining)
<1>1. heard.draining \in Nat /\ ~(heard.draining > heard.draining)
  BY DEF CountInv, Kinds
<1>2. CASE RespondOk
  BY <1>2, LoopBound DEF RespondOk, CountInv, Phases
<1>3. CASE RespondRetryable("draining")
  BY <1>3, RespondCounts
<1>4. CASE RespondRetryable("busy")
  <2>1. CountInv'
    BY <1>4, RespondCounts
  <2>2. phase' = "failed" => heard' = Heard("busy")
    BY <1>4 DEF RespondRetryable, Retry, Throw
  <2>3. Heard("busy").draining = heard.draining
    BY HeardCounts DEF CountInv, Kinds
  <2> QED BY <1>1, <2>1, <2>2, <2>3
<1>5. CASE NetworkFails
  BY <1>1, <1>5, NetworkCounts
<1>6. CASE Wake
  <2>1. phase = "sleeping" /\ phase' = "sending" /\ attempt' = attempt + 1
        /\ UNCHANGED <<transport, tries, heard, stopped, sawTool, processed>>
    BY <1>6 DEF Wake
  <2>2. /\ attempt \in 1..LoopMaxAttempts /\ attempt < LoopMaxAttempts /\ Total(heard) = attempt
        /\ OnlyDrains(heard) => attempt < DrainAttempts
    BY <2>1 DEF CountInv
  <2> QED BY <2>1, <2>2, LoopBound, RetryAssumption DEF RetryAssumption, CountInv, Phases
<1>7. ASSUME NEW transient, Throw(transient, heard),
             UNCHANGED <<transport, stopped, sawTool, processed>>
      PROVE  CountInv' /\ Given
  <2>1. CountInv'
    BY <1>7, ThrowCounts DEF CountInv
  <2>2. phase' = "failed" => heard' = heard
    BY <1>7 DEF Throw
  <2> QED BY <1>1, <2>1, <2>2
<1>8. CASE FetchAborts \/ ProviderRefuses \/ StreamDies
  BY <1>7, <1>8 DEF FetchAborts, ProviderRefuses, StreamDies
<1>9. CASE ToolEvent \/ StreamEnds \/ Stop
  <2>1. UNCHANGED <<transport, tries, attempt, heard, processed>>
        /\ stopped' \in BOOLEAN /\ sawTool' \in BOOLEAN
    BY <1>9, Zenon DEF ToolEvent, StreamEnds, Stop, CountInv
  <2>2. phase' = phase \/ phase' = "answered"
    BY <1>9 DEF ToolEvent, StreamEnds, Stop
  <2> QED BY <1>1, <2>1, <2>2 DEF CountInv, Phases
<1>10. CASE UNCHANGED retryVars
  BY <1>1, <1>10 DEF retryVars, CountInv
<1> QED
  BY <1>2, <1>3, <1>4, <1>5, <1>6, <1>8, <1>9, <1>10 DEF RetryNext

LEMMA CountMeans == CountInv => RetryTypeOK
<1> SUFFICES ASSUME CountInv PROVE RetryTypeOK
  OBVIOUS
<1>1. heard \in [Kinds -> 0..LoopMaxAttempts]
  BY LoopBound DEF CountInv, Total, Kinds
<1> QED BY <1>1 DEF CountInv, RetryTypeOK

LEMMA CountGoesOn == CountInv /\ [RetryNext]_retryVars => CountInv'
BY CountStep

(* Types, and the attempts within the loop's bound.                         *)
THEOREM RetryTypes == RetrySpec => []RetryTypeOK
BY CountMeans, CountStarts, CountGoesOn, PTL DEF RetrySpec

(* For any budgets: a call that has met nothing but drains is given up only *)
(* at the DrainAttempts-th, also when MaxAttempts is the larger budget.     *)
THEOREM DrainsAreWaitedOut == RetrySpec => DrainWaitedOut
<1>1. CountInv /\ [RetryNext]_retryVars
        => [/\ phase' = "failed" /\ transport # "loopback"
            /\ heard'.draining > heard.draining
            /\ heard'.busy = 0 /\ heard'.lost = 0
            => heard'.draining = DrainAttempts]_retryVars
  BY CountStep DEF OnlyDrains
<1>2. CountInv /\ [RetryNext]_retryVars => CountInv'
  BY CountStep
<1> QED BY <1>1, <1>2, CountStarts, PTL DEF RetrySpec, DrainWaitedOut

-----------------------------------------------------------------------------
(* The stream of the Cursor provider *)

Answerable == Numbers({"tool", "context"})

(* Every frame of s, or of S, comes before every one of T. *)
AllBefore(S, T) == \A f \in S, g \in T : f < g

(* An exec message that is to be answered waits, runs, or is answered; what *)
(* is answered came before what runs, of which there is one, and that       *)
(* before what waits.                                                       *)
ExecFrames ==
  /\ bridged \in BOOLEAN /\ received \in Seq(FrameKinds)
  /\ dispatches \in Seq(DOMAIN received) /\ replies \in Seq(Answerable)
  /\ executing \subseteq Answerable /\ \A f, g \in executing : f = g

ExecOrder ==
  /\ \A i, j \in DOMAIN replies : i < j => replies[i] < replies[j]
  /\ \A i, j \in DOMAIN dispatches : i < j => dispatches[i] < dispatches[j]
  /\ AllBefore(ToSet(replies), executing)
  /\ AllBefore(ToSet(replies), ToSet(dispatches))
  /\ AllBefore(executing, ToSet(dispatches))

ExecInv ==
  /\ ExecFrames /\ ExecOrder
  /\ Answerable \subseteq (ToSet(replies) \cup executing) \cup ToSet(dispatches)

LEMMA ExecStarts == CursorInit => ExecInv
<1> SUFFICES ASSUME CursorInit PROVE ExecInv
  OBVIOUS
<1> USE DEF CursorInit, Answerable, Numbers, ToSet
<1>1. ExecFrames
  <2>1. bridged \in BOOLEAN
    BY Zenon
  <2> QED
    BY <2>1 DEF ExecFrames
<1> QED
  BY <1>1 DEF ExecInv, ExecOrder, AllBefore

(* What a sequence has once an element is appended. *)
LEMMA Appended ==
  ASSUME NEW S, NEW s \in Seq(S), NEW e \in S
  PROVE  /\ Append(s, e) \in Seq(S) /\ ToSet(Append(s, e)) = ToSet(s) \cup {e}
         /\ Len(Append(s, e)) = Len(s) + 1 /\ Append(s, e)[Len(s) + 1] = e
         /\ \A i \in DOMAIN s : Append(s, e)[i] = s[i] /\ i \in DOMAIN Append(s, e)
<1> DEFINE t == Append(s, e)
<1>1. /\ t \in Seq(S) /\ Len(t) = Len(s) + 1 /\ t[Len(s) + 1] = e /\ Len(s) \in Nat
      /\ DOMAIN t = 1..(Len(s) + 1) /\ DOMAIN s = 1..Len(s)
      /\ \A i \in DOMAIN s : t[i] = s[i]
  OBVIOUS
<1> HIDE DEF t
<1>2. ToSet(t) = ToSet(s) \cup {e}
  <2>1. \A i \in DOMAIN t : i \in DOMAIN s \/ i = Len(s) + 1
    BY <1>1
  <2>2. DOMAIN s \subseteq DOMAIN t /\ Len(s) + 1 \in DOMAIN t
    BY <1>1
  <2> QED
    BY <1>1, <2>1, <2>2 DEF ToSet
<1>3. DOMAIN s \subseteq DOMAIN t
  BY <1>1
<1> QED
  BY <1>1, <1>2, <1>3 DEF t

LEMMA AppendedRises ==
  ASSUME NEW s \in Seq(Nat), NEW e \in Nat, \A f \in ToSet(s) : f < e,
         \A i, j \in DOMAIN s : i < j => s[i] < s[j]
  PROVE  \A i, j \in DOMAIN Append(s, e) : i < j => Append(s, e)[i] < Append(s, e)[j]
BY DEF ToSet

LEMMA TailRises ==
  ASSUME NEW s \in Seq(Nat), s # <<>>,
         \A i, j \in DOMAIN s : i < j => s[i] < s[j]
  PROVE  /\ \A i, j \in DOMAIN Tail(s) : i < j => Tail(s)[i] < Tail(s)[j]
         /\ Head(s) \in ToSet(s) /\ ToSet(s) = {Head(s)} \cup ToSet(Tail(s))
         /\ \A f \in ToSet(Tail(s)) : Head(s) < f
<1>1. /\ Tail(s) \in Seq(Nat) /\ Len(Tail(s)) = Len(s) - 1 /\ Len(s) \in Nat \ {0}
      /\ \A i \in 1..Len(Tail(s)) : Tail(s)[i] = s[i + 1] /\ i + 1 \in DOMAIN s
      /\ Head(s) = s[1] /\ 1 \in DOMAIN s
  OBVIOUS
<1> DEFINE t == Tail(s)
<1> HIDE DEF t
<1>2. \A i, j \in DOMAIN t : i < j => t[i] < t[j]
  <2> SUFFICES ASSUME NEW i \in 1..Len(t), NEW j \in 1..Len(t), i < j PROVE t[i] < t[j]
    BY <1>1 DEF t
  <2>1. i + 1 < j + 1 /\ i + 1 \in DOMAIN s /\ j + 1 \in DOMAIN s
    BY <1>1 DEF t
  <2> QED
    BY <1>1, <2>1 DEF t
<1>3. \A i \in DOMAIN s : i # 1 => i - 1 \in 1..Len(Tail(s)) /\ s[i] = Tail(s)[i - 1]
  BY <1>1
<1>4. ToSet(s) = {Head(s)} \cup ToSet(Tail(s))
  <2>1. \A f \in ToSet(s) : f \in {Head(s)} \cup ToSet(t)
    <3> SUFFICES ASSUME NEW i \in DOMAIN s PROVE s[i] = Head(s) \/ \E j \in DOMAIN t : s[i] = t[j]
      BY DEF ToSet
    <3>1. CASE i = 1
      BY <1>1, <3>1
    <3>2. CASE i # 1
      <4>1. i - 1 \in DOMAIN t /\ s[i] = t[i - 1]
        BY <1>1, <1>3, <3>2 DEF t
      <4> QED
        BY <4>1
    <3> QED
      BY <3>1, <3>2
  <2>2. \A f \in ToSet(t) : f \in ToSet(s)
    BY <1>1 DEF ToSet, t
  <2>3. Head(s) \in ToSet(s)
    BY <1>1 DEF ToSet
  <2> QED
    BY <2>1, <2>2, <2>3 DEF t
<1>5. \A f \in ToSet(Tail(s)) : Head(s) < f
  BY <1>1 DEF ToSet
<1> QED
  BY <1>1, <1>2, <1>4, <1>5 DEF t

(* What there is to be answered grows by the frame received, if at all.     *)
LEMMA ReceivingKeeps ==
  ASSUME ExecInv, NEW kind \in FrameKinds, Receive(kind)
  PROVE  /\ received' \in Seq(FrameKinds) /\ Len(received') \in Nat
         /\ \A f \in DOMAIN received : f < Len(received') /\ f \in DOMAIN received'
         /\ Len(received') \in DOMAIN received'
         /\ Answerable' = Answerable \cup (IF kind \in {"tool", "context"}
                                         THEN {Len(received')} ELSE {})
<1>1. received' = Append(received, kind) /\ received \in Seq(FrameKinds)
  BY DEF Receive, ExecInv, ExecFrames
<1>2. /\ received' \in Seq(FrameKinds) /\ Len(received') = Len(received) + 1
      /\ Len(received) \in Nat /\ received'[Len(received')] = kind
      /\ DOMAIN received' = 1..(Len(received) + 1) /\ DOMAIN received = 1..Len(received)
      /\ \A f \in DOMAIN received : received'[f] = received[f]
  BY <1>1
<1>3. \A f \in DOMAIN received' : f \in DOMAIN received \/ f = Len(received')
  BY <1>2
<1>4. DOMAIN received \subseteq DOMAIN received' /\ Len(received') \in DOMAIN received'
  BY <1>2
<1>5. Answerable' = Answerable \cup (IF kind \in {"tool", "context"}
                                     THEN {Len(received')} ELSE {})
  BY <1>2, <1>3, <1>4 DEF Answerable, Numbers
<1> QED
  BY <1>2, <1>4, <1>5

LEMMA MoreFramesKeep ==
  ASSUME ExecInv, NEW kind \in FrameKinds, Receive(kind),
         UNCHANGED <<bridged, executing, replies>>,
         \/ kind \notin {"tool", "context"} /\ dispatches' = dispatches
         \/ dispatches' = Append(dispatches, Len(received'))
  PROVE  ExecInv'
<1> USE DEF ExecInv
<1> DEFINE n == Len(received')
<1>1. /\ received' \in Seq(FrameKinds) /\ n \in Nat
      /\ \A f \in DOMAIN received : f < n /\ f \in DOMAIN received'
      /\ n \in DOMAIN received'
      /\ Answerable' = Answerable \cup (IF kind \in {"tool", "context"} THEN {n} ELSE {})
  BY ReceivingKeeps
<1> HIDE DEF n
<1>2. /\ Answerable \subseteq Answerable' /\ Answerable \subseteq DOMAIN received
      /\ DOMAIN received \subseteq Nat
  BY <1>1 DEF Answerable, Numbers, ExecFrames
<1>3. /\ ToSet(dispatches) \subseteq DOMAIN received /\ dispatches \in Seq(Nat)
      /\ ToSet(replies) \subseteq DOMAIN received /\ executing \subseteq DOMAIN received
      /\ dispatches \in Seq(DOMAIN received')
  BY <1>1, <1>2 DEF ExecFrames, ToSet
<1>4. /\ dispatches' \in Seq(DOMAIN received')
      /\ ToSet(dispatches) \subseteq ToSet(dispatches')
      /\ \A f \in ToSet(dispatches') : f \in ToSet(dispatches) \/ f = n
      /\ \A i, j \in DOMAIN dispatches' : i < j => dispatches'[i] < dispatches'[j]
      /\ n \in Answerable' => n \in ToSet(dispatches') \/ n \in Answerable
  <2>1. CASE dispatches' = dispatches /\ kind \notin {"tool", "context"}
    BY <1>1, <1>3, <2>1 DEF ExecOrder
  <2>2. CASE dispatches' = Append(dispatches, n)
    <3>1. /\ dispatches' \in Seq(DOMAIN received')
          /\ ToSet(dispatches') = ToSet(dispatches) \cup {n}
      BY <1>1, <1>3, <2>2, Appended
    <3>2. \A f \in ToSet(dispatches) : f < n
      BY <1>1, <1>3
    <3>3. \A i, j \in DOMAIN dispatches' : i < j => dispatches'[i] < dispatches'[j]
      BY <1>1, <1>3, <2>2, <3>2, AppendedRises DEF ExecOrder
    <3> QED
      BY <3>1, <3>3
  <2> QED
    BY <2>1, <2>2 DEF n
<1>5. ExecFrames'
  BY <1>1, <1>2, <1>4 DEF ExecFrames
<1>6. ExecOrder'
  BY <1>1, <1>3, <1>4 DEF ExecOrder, AllBefore
<1>7. Answerable' \subseteq (ToSet(replies') \cup executing') \cup ToSet(dispatches')
  BY <1>1, <1>4
<1> QED
  BY <1>5, <1>6, <1>7

(* The next handler answers its frame, lets its tool run, or passes over a  *)
(* frame that is none to be answered.                                       *)
LEMMA DispatchingKeeps == ExecInv /\ DispatchExec => ExecInv'
<1> SUFFICES ASSUME ExecInv, DispatchExec PROVE ExecInv'
  OBVIOUS
<1> USE DEF ExecInv
<1> DEFINE f == Head(dispatches)
<1>1. /\ dispatches # <<>> /\ executing = {} /\ dispatches' = Tail(dispatches)
      /\ Handle(f) /\ UNCHANGED <<bridged, received>>
  BY DEF DispatchExec
<1>2. /\ dispatches \in Seq(Nat) /\ dispatches' \in Seq(DOMAIN received)
      /\ Answerable \subseteq Nat /\ replies \in Seq(Nat) /\ Answerable' = Answerable
  BY <1>1 DEF ExecFrames, Answerable, Numbers
<1>3. /\ \A i, j \in DOMAIN dispatches' : i < j => dispatches'[i] < dispatches'[j]
      /\ f \in ToSet(dispatches) /\ ToSet(dispatches) = {f} \cup ToSet(dispatches')
      /\ \A g \in ToSet(dispatches') : f < g
  BY <1>1, <1>2, TailRises DEF ExecOrder
<1>4. f \in DOMAIN received /\ f \in Nat
  BY <1>2, <1>3 DEF ExecFrames, ToSet
<1> HIDE DEF f
<1>5. \/ f \in Answerable /\ replies' = Append(replies, f) /\ executing' = {}
      \/ f \in Answerable /\ replies' = replies /\ executing' = {f}
      \/ f \notin Answerable /\ replies' = replies /\ executing' = {}
  BY <1>1, <1>4 DEF Handle, ReplyTo, Answerable, Numbers
<1>6. CASE f \in Answerable /\ replies' = Append(replies, f) /\ executing' = {}
  <2>1. replies' \in Seq(Answerable) /\ ToSet(replies') = ToSet(replies) \cup {f}
    BY <1>6, Appended DEF ExecFrames
  <2>2. \A i, j \in DOMAIN replies' : i < j => replies'[i] < replies'[j]
    BY <1>2, <1>3, <1>4, <1>6, AppendedRises DEF ExecOrder, AllBefore
  <2>3. ExecFrames'
    BY <1>1, <1>2, <1>6, <2>1 DEF ExecFrames
  <2>4. ExecOrder'
    BY <1>3, <1>6, <2>1, <2>2 DEF ExecOrder, AllBefore
  <2> QED
    BY <1>1, <1>2, <1>3, <1>6, <2>1, <2>3, <2>4
<1>7. CASE f \in Answerable /\ replies' = replies /\ executing' = {f}
  <2>1. ExecFrames'
    BY <1>1, <1>2, <1>7 DEF ExecFrames
  <2>2. ExecOrder'
    BY <1>3, <1>7 DEF ExecOrder, AllBefore
  <2> QED
    BY <1>1, <1>2, <1>3, <1>7, <2>1, <2>2
<1>8. CASE f \notin Answerable /\ replies' = replies /\ executing' = {}
  <2>1. ExecFrames'
    BY <1>1, <1>2, <1>8 DEF ExecFrames
  <2>2. ExecOrder'
    BY <1>3, <1>8 DEF ExecOrder, AllBefore
  <2> QED
    BY <1>1, <1>2, <1>3, <1>8, <2>1, <2>2
<1> QED
  BY <1>5, <1>6, <1>7, <1>8

LEMMA EndingKeeps == ExecInv /\ ExecEnds => ExecInv'
<1> SUFFICES ASSUME ExecInv, ExecEnds PROVE ExecInv'
  OBVIOUS
<1> USE DEF ExecInv
<1>1. PICK f \in executing : executing' = executing \ {f} /\ replies' = Append(replies, f)
  BY DEF ExecEnds, ReplyTo
<1>2. UNCHANGED <<bridged, received, dispatches>>
  BY DEF ExecEnds
<1>3. executing = {f} /\ executing' = {} /\ f \in Answerable
  BY <1>1 DEF ExecFrames
<1>4. Answerable \subseteq Nat /\ replies \in Seq(Nat) /\ Answerable' = Answerable
  BY <1>2 DEF ExecFrames, Answerable, Numbers
<1>5. replies' \in Seq(Answerable) /\ ToSet(replies') = ToSet(replies) \cup {f}
  BY <1>1, <1>3, Appended DEF ExecFrames
<1>6. \A i, j \in DOMAIN replies' : i < j => replies'[i] < replies'[j]
  BY <1>1, <1>3, <1>4, AppendedRises DEF ExecOrder, AllBefore
<1>7. ExecFrames'
  BY <1>2, <1>3, <1>4, <1>5 DEF ExecFrames
<1>8. ExecOrder'
  BY <1>2, <1>3, <1>5, <1>6 DEF ExecOrder, AllBefore
<1> QED
  BY <1>2, <1>3, <1>4, <1>5, <1>7, <1>8

LEMMA ExecStep == ExecInv /\ [CursorNext]_cursorVars => ExecInv'
<1> SUFFICES ASSUME ExecInv, [CursorNext]_cursorVars PROVE ExecInv'
  OBVIOUS
<1>1. CASE Delta
  <2>1. PICK kind \in Deltas : Receive(kind) /\ UNCHANGED <<bridged, dispatches, executing, replies>>
    BY <1>1 DEF Delta
  <2>2. kind \in FrameKinds /\ kind \notin {"tool", "context"}
    BY DEF Deltas, FrameKinds
  <2> QED
    BY <2>1, <2>2, MoreFramesKeep
<1>2. CASE ThoughtEnds
  <2>1. Receive("thoughtEnds") /\ UNCHANGED <<bridged, dispatches, executing, replies>>
    BY <1>2 DEF ThoughtEnds
  <2>2. "thoughtEnds" \in FrameKinds
    BY DEF FrameKinds
  <2> QED
    BY <2>1, <2>2, MoreFramesKeep
<1>3. CASE Enqueue
  <2>1. PICK kind \in Execs \cup {"turnEnded"} : Receive(kind)
    BY <1>3 DEF Enqueue
  <2>2. kind \in FrameKinds
    BY DEF FrameKinds
  <2>3. /\ dispatches' = Append(dispatches, Len(received'))
        /\ UNCHANGED <<bridged, executing, replies>>
    BY <1>3 DEF Enqueue
  <2> QED
    BY <2>1, <2>2, <2>3, MoreFramesKeep
<1>4. CASE ChunkEnds \/ StreamCloses \/ ReturnReply \/ FailCall \/ UNCHANGED cursorVars
  <2>1. UNCHANGED <<bridged, received, dispatches, executing, replies>>
    BY <1>4 DEF ChunkEnds, StreamCloses, ReturnReply, FailCall, cursorVars
  <2> QED
    BY <2>1 DEF ExecInv, ExecFrames, ExecOrder, AllBefore, Answerable, Numbers
<1> QED
  BY <1>1, <1>2, <1>3, <1>4, DispatchingKeeps, EndingKeeps DEF CursorNext

LEMMA ExecMeans == ExecInv => ExecRepliesInOrder
<1> SUFFICES ASSUME ExecInv PROVE ExecRepliesInOrder
  OBVIOUS
<1>1. /\ Answerable \subseteq Nat /\ ToSet(replies) \subseteq Answerable
      /\ ToSet(dispatches) \subseteq Nat
  BY DEF ExecInv, ExecFrames, Answerable, Numbers, ToSet
<1>2. ASSUME NEW f \in ToSet(replies), NEW g \in Answerable, g < f
      PROVE  g \in ToSet(replies)
  <2>1. g \in executing \cup ToSet(dispatches) => f < g
    BY DEF ExecInv, ExecOrder, AllBefore
  <2> QED
    BY <1>1, <1>2, <2>1 DEF ExecInv
<1> QED
  BY <1>1, <1>2 DEF ExecInv, ExecOrder, ExecRepliesInOrder, Answerable

(* Whatever else the stream carries, fails or breaks: each exec message     *)
(* that can be answered is answered once, and in the order they came in.    *)
THEOREM ExecsAreAnsweredInOrder == CursorSpec => []ExecRepliesInOrder
  BY ExecStarts, ExecStep, ExecMeans, PTL DEF CursorSpec

-----------------------------------------------------------------------------
(* What the loop makes of a reply.  The words of a reply are the texts and  *)
(* the calls of its blocks, laid one behind the other; the messages say the *)
(* same words.                                                              *)

Said(b) == IF b.kind = "thought" THEN <<>> ELSE b.frames
Words(list) == [i \in DOMAIN list |-> Said(list[i])]
Lines(out) == [i \in DOMAIN out |-> Line(out[i])]

Msg == [role : {"assistant", "tool"}, text : Seq(Nat), calls : Seq(Nat)]
Segment == [out : Seq(Msg), text : Seq(Nat), thought : Seq(Nat), calls : Seq(Nat)]

(* What was said so far: in messages, and in the segment at hand. *)
Reads(s, w) ==
  \E v : Concats(Lines(s.out), v, Nat) /\ w = (v \o s.text) \o s.calls

LEMMA LinesTyped ==
  ASSUME NEW out \in Seq(Msg)
  PROVE  Lines(out) \in Seq(Seq(Nat)) /\ Len(Lines(out)) = Len(out)
<1>1. \A m \in Msg : Line(m) \in Seq(Nat)
  BY DEF Msg, Line
<1>2. \A i \in 1..Len(out) : Line(out[i]) \in Seq(Nat)
  BY <1>1
<1>3. Len(out) \in Nat /\ DOMAIN out = 1..Len(out)
  OBVIOUS
<1>4. Lines(out) \in [1..Len(out) -> Seq(Nat)]
  BY <1>2, <1>3 DEF Lines
<1> QED
  BY <1>3, <1>4, TableIsSeq

LEMMA LinesOneMore ==
  ASSUME NEW out \in Seq(Msg), NEW m \in Msg
  PROVE  Append(out, m) \in Seq(Msg) /\ Lines(Append(out, m)) = Append(Lines(out), Line(m))
<1> DEFINE more == Append(out, m)
           x == Lines(more)
           y == Append(Lines(out), Line(m))
<1>1. /\ more \in Seq(Msg) /\ Len(more) = Len(out) + 1 /\ more[Len(out) + 1] = m
      /\ \A i \in 1..Len(out) : more[i] = out[i]
      /\ Len(out) \in Nat /\ DOMAIN out = 1..Len(out) /\ DOMAIN more = 1..(Len(out) + 1)
  OBVIOUS
<1>2. Line(m) \in Seq(Nat)
  BY DEF Msg, Line
<1>3. Lines(out) \in Seq(Seq(Nat)) /\ Len(Lines(out)) = Len(out)
  BY LinesTyped
<1>4. \A i \in 1..Len(out) : Lines(out)[i] = Line(out[i])
  BY <1>1 DEF Lines
<1>5. /\ y \in Seq(Seq(Nat)) /\ Len(y) = Len(out) + 1 /\ y[Len(out) + 1] = Line(m)
      /\ \A i \in 1..Len(out) : y[i] = Line(out[i])
  BY <1>1, <1>2, <1>3, <1>4
<1> HIDE DEF more
<1>6. x \in Seq(Seq(Nat)) /\ Len(x) = Len(out) + 1
  BY <1>1, LinesTyped
<1>7. \A i \in 1..(Len(out) + 1) : x[i] = Line(more[i])
  BY <1>1 DEF Lines
<1> HIDE DEF x, y
<1>8. \A i \in 1..(Len(out) + 1) : x[i] = y[i]
  <2>1. \A i \in 1..(Len(out) + 1) : i \in 1..Len(out) \/ i = Len(out) + 1
    BY <1>1
  <2> QED
    BY <1>1, <1>5, <1>7, <2>1
<1>9. x = y
  BY <1>5, <1>6, <1>8, SameSeq
<1> QED
  BY <1>1, <1>9 DEF x, y, more

LEMMA LinesConcat ==
  ASSUME NEW out \in Seq(Msg), NEW t \in Seq(Msg)
  PROVE  out \o t \in Seq(Msg) /\ Lines(out \o t) = Lines(out) \o Lines(t)
<1> DEFINE both == out \o t
           a == Lines(out)
           b == Lines(t)
           x == Lines(both)
           y == a \o b
<1>1. both \in Seq(Msg) /\ After(both, out, t)
  BY ConcatIsAfter
<1>2. a \in Seq(Seq(Nat)) /\ b \in Seq(Seq(Nat)) /\ Len(a) = Len(out) /\ Len(b) = Len(t)
  BY LinesTyped
<1>3. /\ \A i \in 1..Len(out) : a[i] = Line(out[i])
      /\ \A i \in 1..Len(t) : b[i] = Line(t[i])
  BY DEF Lines
<1> HIDE DEF both, a, b
<1>4. x \in Seq(Seq(Nat)) /\ Len(x) = Len(both) /\ \A i \in 1..Len(both) : x[i] = Line(both[i])
  BY <1>1, LinesTyped DEF Lines
<1>5. y \in Seq(Seq(Nat)) /\ After(y, a, b)
  BY <1>2, ConcatIsAfter
<1> HIDE DEF x, y
<1>6. Len(x) = Len(y)
  BY <1>1, <1>2, <1>4, <1>5 DEF After
<1>7. ASSUME NEW i \in 1..Len(x) PROVE x[i] = y[i]
  <2>1. CASE i \in 1..Len(out)
    <3>1. both[i] = out[i] /\ y[i] = a[i] /\ x[i] = Line(both[i])
      BY <1>1, <1>2, <1>4, <1>5, <2>1 DEF After
    <3> QED
      BY <1>3, <2>1, <3>1
  <2>2. CASE i \notin 1..Len(out)
    <3>1. PICK k \in 1..Len(t) : i = Len(out) + k
      BY <1>1, <1>4, <2>2 DEF After
    <3>2. both[i] = t[k] /\ y[i] = b[k] /\ x[i] = Line(both[i])
      BY <1>1, <1>2, <1>4, <1>5, <3>1 DEF After
    <3> QED
      BY <1>3, <3>1, <3>2
  <2> QED
    BY <2>1, <2>2
<1>8. x = y
  BY <1>4, <1>5, <1>6, <1>7, SameSeq
<1> QED
  BY <1>1, <1>8 DEF x, y, a, b, both

(* A segment that is flushed becomes a message and the answers to its       *)
(* calls, which say nothing.                                                *)
LEMMA FlushKeeps ==
  ASSUME NEW s \in Segment, NEW w, Reads(s, w)
  PROVE  /\ FlushSegment(s) \in Segment /\ Reads(FlushSegment(s), w)
         /\ FlushSegment(s).text = <<>> /\ FlushSegment(s).calls = <<>>
<1>0. s.out \in Seq(Msg) /\ s.text \in Seq(Nat) /\ s.thought \in Seq(Nat) /\ s.calls \in Seq(Nat)
  BY DEF Segment
<1>1. PICK v : Concats(Lines(s.out), v, Nat) /\ w = (v \o s.text) \o s.calls
  BY DEF Reads
<1>2. Lines(s.out) \in Seq(Seq(Nat))
  BY <1>0, LinesTyped
<1>3. CASE s.text \o s.thought \o s.calls = <<>>
  <2>1. s.text = <<>> /\ s.calls = <<>>
    BY <1>0, <1>3
  <2> QED
    BY <1>3, <2>1 DEF FlushSegment
<1>4. CASE s.text \o s.thought \o s.calls # <<>>
  <2> DEFINE m == [role |-> "assistant", text |-> s.text, calls |-> s.calls]
             answers == [k \in DOMAIN s.calls |->
                           [role |-> "tool", text |-> <<>>, calls |-> <<s.calls[k]>>]]
             out == Append(s.out, m) \o answers
  <2>1. m \in Msg /\ Line(m) = s.text \o s.calls
    BY <1>0 DEF Msg, Line
  <2>2. answers \in Seq(Msg) /\ \A k \in 1..Len(answers) : Line(answers[k]) = <<>>
    <3>1. DOMAIN s.calls = 1..Len(s.calls) /\ Len(s.calls) \in Nat
      BY <1>0
    <3>2. answers \in [1..Len(s.calls) -> Msg]
      BY <1>0, <3>1 DEF Msg
    <3>3. answers \in Seq(Msg) /\ Len(answers) = Len(s.calls)
      BY <3>1, <3>2, TableIsSeq
    <3>4. \A k \in 1..Len(s.calls) : Line(answers[k]) = <<>>
      BY <3>1 DEF Line
    <3> QED
      BY <3>3, <3>4
  <2>3. FlushSegment(s) = [out |-> out, text |-> <<>>, thought |-> <<>>, calls |-> <<>>]
    BY <1>4 DEF FlushSegment, NoSegment
  <2> HIDE DEF m, answers
  <2>4. /\ Append(s.out, m) \in Seq(Msg)
        /\ Lines(Append(s.out, m)) = Append(Lines(s.out), Line(m))
    BY <1>0, <2>1, LinesOneMore
  <2>5. out \in Seq(Msg) /\ Lines(out) = Append(Lines(s.out), Line(m)) \o Lines(answers)
    BY <2>2, <2>4, LinesConcat
  <2>6. s.text \o s.calls \in Seq(Nat) /\ Line(m) \in Seq(Nat)
    BY <1>0, <2>1
  <2>7. v \in Seq(Nat) /\ Concats(Append(Lines(s.out), Line(m)), v \o Line(m), Nat)
    BY <1>1, <1>2, <2>6, ConcatsOneMore
  <2>8. /\ Lines(answers) \in Seq(Seq(Nat))
        /\ \A k \in 1..Len(Lines(answers)) : Lines(answers)[k] = <<>>
    <3>1. Lines(answers) \in Seq(Seq(Nat)) /\ Len(Lines(answers)) = Len(answers)
      BY <2>2, LinesTyped
    <3>2. \A k \in 1..Len(answers) : Lines(answers)[k] = Line(answers[k])
      BY <2>2 DEF Lines
    <3> QED
      BY <2>2, <3>1, <3>2
  <2>9. Append(Lines(s.out), Line(m)) \in Seq(Seq(Nat))
    BY <1>2, <2>6
  <2>10. Concats(Lines(out), v \o Line(m), Nat)
    BY <2>5, <2>7, <2>8, <2>9, ConcatsSilent
  <2>11. v \o Line(m) = w
    <3>1. Associated(v, s.text, s.calls)
      BY <1>0, <2>7, ConcatAssociates
    <3> QED
      BY <1>1, <2>1, <3>1 DEF Associated
  <2>12. w = (w \o <<>>) \o <<>>
    <3>1. v \o Line(m) \in Seq(Nat)
      BY <2>6, <2>7
    <3> QED
      BY <2>11, <3>1
  <2>13. FlushSegment(s) \in Segment
    BY <2>3, <2>5 DEF Segment
  <2> HIDE DEF out
  <2>14. /\ FlushSegment(s).out = out /\ FlushSegment(s).text = <<>>
         /\ FlushSegment(s).calls = <<>>
    BY <2>3
  <2>15. Concats(Lines(out), w, Nat)
    BY <2>10, <2>11
  <2>16. Reads(FlushSegment(s), w)
    BY <2>12, <2>14, <2>15, Zenon DEF Reads
  <2> QED
    BY <2>13, <2>14, <2>16
<1> QED
  BY <1>3, <1>4

(* A block adds its words behind what was said. *)
LEMMA BlockIsRead ==
  ASSUME NEW s \in Segment, NEW w, Reads(s, w),
         NEW b, b.kind \in Deltas \cup {"tool"}, b.frames \in Seq(Nat)
  PROVE  TakeBlock(s, b) \in Segment /\ Reads(TakeBlock(s, b), w \o Said(b))
<1>0. s.out \in Seq(Msg) /\ s.text \in Seq(Nat) /\ s.thought \in Seq(Nat) /\ s.calls \in Seq(Nat)
  BY DEF Segment
<1>1. PICK v : Concats(Lines(s.out), v, Nat) /\ w = (v \o s.text) \o s.calls
  BY DEF Reads
<1>2. v \in Seq(Nat)
  <2>1. Lines(s.out) \in Seq(Seq(Nat)) /\ <<>> \in Seq(Nat)
    BY <1>0, LinesTyped
  <2> QED
    BY <1>1, <2>1, ConcatsOneMore
<1>3. CASE b.kind = "text"
  <2> DEFINE t == IF s.calls # <<>> THEN FlushSegment(s) ELSE s
             u == [t EXCEPT !.text = t.text \o b.frames]
  <2>1. TakeBlock(s, b) = u /\ Said(b) = b.frames
    BY <1>3 DEF TakeBlock, Said
  <2>2. t \in Segment /\ Reads(t, w) /\ t.calls = <<>>
    BY FlushKeeps
  <2> HIDE DEF t
  <2>3. t.text \in Seq(Nat)
    BY <2>2 DEF Segment
  <2>4. u \in Segment
    <3>1. t.text \o b.frames \in Seq(Nat)
      BY <2>3
    <3> QED
      BY <2>2, <3>1 DEF Segment
  <2>5. u.out = t.out /\ u.text = t.text \o b.frames /\ u.calls = <<>>
    BY <2>2 DEF Segment
  <2> HIDE DEF u
  <2>6. PICK x : Concats(Lines(t.out), x, Nat) /\ w = (x \o t.text) \o <<>>
    BY <2>2 DEF Reads
  <2>7. x \in Seq(Nat)
    <3>1. Lines(t.out) \in Seq(Seq(Nat)) /\ <<>> \in Seq(Nat)
      BY <2>2, LinesTyped DEF Segment
    <3> QED
      BY <2>6, <3>1, ConcatsOneMore
  <2>8. w \o b.frames = (x \o (t.text \o b.frames)) \o <<>>
    <3>1. Associated(x, t.text, b.frames)
      BY <2>3, <2>7, ConcatAssociates
    <3>2. x \o t.text \in Seq(Nat) /\ x \o (t.text \o b.frames) \in Seq(Nat)
      BY <2>3, <2>7
    <3>3. w = x \o t.text
      BY <2>6, <3>2
    <3>4. x \o (t.text \o b.frames) = (x \o (t.text \o b.frames)) \o <<>>
      BY <3>2
    <3> QED
      BY <3>1, <3>3, <3>4 DEF Associated
  <2>9. Reads(u, w \o b.frames)
    BY <2>5, <2>6, <2>8, Zenon DEF Reads
  <2> QED
    BY <2>1, <2>4, <2>9
<1>4. CASE b.kind = "thought"
  <2> DEFINE u == [s EXCEPT !.thought = s.thought \o b.frames]
  <2>0. s.thought \o b.frames \in Seq(Nat)
    BY <1>0
  <2>1. TakeBlock(s, b) = u /\ Said(b) = <<>>
    BY <1>4 DEF TakeBlock, Said
  <2>2. u \in Segment
    BY <2>0 DEF Segment
  <2>3. u.out = s.out /\ u.text = s.text /\ u.calls = s.calls
    BY DEF Segment
  <2> HIDE DEF u
  <2>4. w \o <<>> = w
    BY <1>0, <1>1, <1>2
  <2>5. Reads(u, w)
    BY <1>1, <2>3, Zenon DEF Reads
  <2> QED
    BY <2>1, <2>2, <2>4, <2>5
<1>5. CASE b.kind = "tool"
  <2> DEFINE u == [s EXCEPT !.calls = s.calls \o b.frames]
  <2>0. s.calls \o b.frames \in Seq(Nat)
    BY <1>0
  <2>1. TakeBlock(s, b) = u /\ Said(b) = b.frames
    BY <1>5 DEF TakeBlock, Said
  <2>2. u \in Segment
    BY <2>0 DEF Segment
  <2>3. u.out = s.out /\ u.text = s.text /\ u.calls = s.calls \o b.frames
    BY DEF Segment
  <2> HIDE DEF u
  <2>4. w \o b.frames = (v \o s.text) \o (s.calls \o b.frames)
    <3>1. v \o s.text \in Seq(Nat)
      BY <1>0, <1>2
    <3>2. Associated(v \o s.text, s.calls, b.frames)
      BY <1>0, <3>1, ConcatAssociates
    <3> QED
      BY <1>1, <3>2 DEF Associated
  <2>5. Reads(u, w \o b.frames)
    BY <1>1, <2>3, <2>4, Zenon DEF Reads
  <2> QED
    BY <2>1, <2>2, <2>5
<1> QED
  BY <1>3, <1>4, <1>5 DEF Deltas

(* The function Segments is defined with exists. *)
LEMMA SegmentsUnfold ==
  ASSUME Len(blocks) \in Nat
  PROVE  Segments = [k \in 0..Len(blocks) |->
                       IF k = 0 THEN NoSegment ELSE TakeBlock(Segments[k - 1], blocks[k])]
<1> DEFINE Fits(g, n) == g = [k \in 0..n |-> IF k = 0 THEN NoSegment
                                             ELSE TakeBlock(g[k - 1], blocks[k])]
           S == {n \in Nat : \E g : Fits(g, n)}
<1>1. 0 \in S
  <2>1. Fits([k \in 0..0 |-> NoSegment], 0)
    OBVIOUS
  <2> QED
    BY <2>1
<1>2. ASSUME NEW n \in Nat, n \in S PROVE n + 1 \in S
  <2>1. PICK g : Fits(g, n)
    BY <1>2
  <2> DEFINE h == [k \in 0..(n + 1) |-> IF k = n + 1 THEN TakeBlock(g[n], blocks[n + 1]) ELSE g[k]]
  <2>2. ASSUME NEW k \in 0..(n + 1)
        PROVE  h[k] = IF k = 0 THEN NoSegment ELSE TakeBlock(h[k - 1], blocks[k])
    <3>1. CASE k = 0
      <4>1. k # n + 1 /\ k \in 0..n
        BY <3>1
      <4> QED
        BY <2>1, <3>1, <4>1
    <3>2. CASE k = n + 1
      <4>1. n \in 0..(n + 1) /\ n # n + 1 /\ k - 1 = n /\ k # 0
        BY <3>2
      <4>2. h[n] = g[n]
        BY <4>1
      <4> QED
        BY <3>2, <4>1, <4>2
    <3>3. CASE k # 0 /\ k # n + 1
      <4>1. k \in 0..n /\ k - 1 \in 0..(n + 1) /\ k - 1 # n + 1
        BY <3>3
      <4>2. h[k - 1] = g[k - 1] /\ h[k] = g[k]
        BY <3>3, <4>1
      <4>3. g[k] = TakeBlock(g[k - 1], blocks[k])
        BY <2>1, <3>3, <4>1
      <4> QED
        BY <3>3, <4>2, <4>3
    <3> QED
      BY <3>1, <3>2, <3>3
  <2>3. Fits(h, n + 1)
    BY <2>2
  <2> HIDE DEF h, Fits
  <2>4. \E g2 : Fits(g2, n + 1)
    BY <2>3
  <2> QED
    BY <2>4
<1>3. \E g : Fits(g, Len(blocks))
  <2>1. Nat \subseteq S
    <3> HIDE DEF S
    <3> QED
      BY <1>1, <1>2, NumbersInduct
  <2> QED
    BY <2>1
<1> QED
  BY <1>3, Zenon DEF Segments

(* What the messages say are the words of the blocks. *)
LEMMA MessagesSayTheWords ==
  ASSUME Len(blocks) \in Nat, DOMAIN blocks = 1..Len(blocks),
         \A i \in 1..Len(blocks) : /\ blocks[i].kind \in Deltas \cup {"tool"}
                                   /\ blocks[i].frames \in Seq(Nat),
         NEW w, Concats(Words(blocks), w, Nat)
  PROVE  Spoken = w
<1> DEFINE n == Len(blocks)
<1>1. Words(blocks) \in Seq(Seq(Nat)) /\ Len(Words(blocks)) = n
  <2>1. \A i \in 1..n : Said(blocks[i]) \in Seq(Nat)
    BY DEF Said
  <2>2. Words(blocks) \in [1..n -> Seq(Nat)]
    BY <2>1 DEF Words
  <2> QED
    BY <2>2, TableIsSeq
<1>2. PICK g \in [0..n -> Seq(Nat)] :
        /\ g[0] = <<>> /\ g[n] = w
        /\ \A i \in 1..n : g[i] = g[i - 1] \o Words(blocks)[i]
  BY <1>1 DEF Concats
<1>3. \A i \in 1..n : Words(blocks)[i] = Said(blocks[i])
  BY DEF Words
<1>4. /\ Segments[0] = NoSegment
      /\ \A k \in 1..n : Segments[k] = TakeBlock(Segments[k - 1], blocks[k])
  <2>1. 0 \in 0..n /\ \A k \in 1..n : k \in 0..n /\ k # 0
    OBVIOUS
  <2> QED
    BY <2>1, SegmentsUnfold
<1> HIDE DEF n
<1> DEFINE S == {k \in Nat : k \in 0..n => Segments[k] \in Segment /\ Reads(Segments[k], g[k])}
<1>5. 0 \in S
  <2>1. NoSegment \in Segment
    BY DEF NoSegment, Segment
  <2>2. Lines(NoSegment.out) = <<>>
    BY DEF NoSegment, Lines
  <2>3. Concats(Lines(NoSegment.out), <<>>, Nat)
    BY <2>2, NothingConcats
  <2>4. (<<>> \o NoSegment.text) \o NoSegment.calls = <<>>
    BY DEF NoSegment
  <2>5. Reads(NoSegment, <<>>)
    BY <2>3, <2>4, Zenon DEF Reads
  <2> QED
    BY <1>2, <1>4, <2>1, <2>5
<1>6. ASSUME NEW k \in Nat, k \in S PROVE k + 1 \in S
  <2> SUFFICES ASSUME k + 1 \in 0..n
               PROVE  Segments[k + 1] \in Segment /\ Reads(Segments[k + 1], g[k + 1])
    OBVIOUS
  <2>1. k \in 0..n /\ k + 1 \in 1..n /\ (k + 1) - 1 = k
    BY DEF n
  <2>2. Segments[k] \in Segment /\ Reads(Segments[k], g[k])
    BY <1>6, <2>1
  <2>3. /\ blocks[k + 1].kind \in Deltas \cup {"tool"}
        /\ blocks[k + 1].frames \in Seq(Nat)
    BY <2>1 DEF n
  <2>4. Segments[k + 1] = TakeBlock(Segments[k], blocks[k + 1])
    BY <1>4, <2>1
  <2>5. g[k + 1] = g[k] \o Said(blocks[k + 1])
    BY <1>2, <1>3, <2>1
  <2> HIDE DEF S
  <2> QED
    BY <2>2, <2>3, <2>4, <2>5, BlockIsRead
<1>7. Segments[n] \in Segment /\ Reads(Segments[n], w)
  <2>1. Nat \subseteq S
    <3> HIDE DEF S
    <3> QED
      BY <1>5, <1>6, NumbersInduct
  <2>2. n \in S /\ n \in 0..n
    BY <2>1 DEF n
  <2> QED
    BY <1>2, <2>2
<1> DEFINE t == FlushSegment(Segments[n])
<1>8. t \in Segment /\ Reads(t, w) /\ t.text = <<>> /\ t.calls = <<>>
  BY <1>7, FlushKeeps
<1>9. OpenAiMessages = t.out
  BY DEF OpenAiMessages, n
<1> HIDE DEF t
<1>10. PICK v : Concats(Lines(t.out), v, Nat) /\ w = (v \o <<>>) \o <<>>
  BY <1>8 DEF Reads
<1>11. t.out \in Seq(Msg) /\ Lines(t.out) \in Seq(Seq(Nat))
  BY <1>8, LinesTyped DEF Segment
<1>12. v \in Seq(Nat) /\ v = w
  <2>1. <<>> \in Seq(Nat)
    OBVIOUS
  <2>2. v \in Seq(Nat)
    BY <1>10, <1>11, <2>1, ConcatsOneMore
  <2>3. (v \o <<>>) \o <<>> = v
    BY <2>2
  <2> QED
    BY <1>10, <2>2, <2>3
<1>13. FlattenSeq(Lines(t.out)) = w
  BY <1>10, <1>11, <1>12, ConcatsFlattens
<1> QED
  BY <1>9, <1>13 DEF Spoken, Lines

-----------------------------------------------------------------------------
(* The words of a reply as they come *)

BlockOf(n) == {b \in [kind : Deltas \cup {"tool"}, frames : Seq(1..n),
                    result : {"none", "ok", "error"}] : b.frames # <<>>}
OpenBlock(n) == {<<>>} \cup {<<b>> : b \in {b \in BlockOf(n) : b.kind \in Deltas}}

(* Said so far: in the blocks, and in the one that is open. *)
Utters(list, open, s) ==
  \E w : /\ Concats(Words(list), w, Nat)
         /\ s = w \o (IF open = <<>> THEN <<>> ELSE Said(open[1]))

LEMMA BlocksGrow ==
  ASSUME NEW n \in Nat, NEW m \in Nat, n <= m
  PROVE  /\ BlockOf(n) \subseteq BlockOf(m) /\ Seq(BlockOf(n)) \subseteq Seq(BlockOf(m))
         /\ OpenBlock(n) \subseteq OpenBlock(m)
<1>1. 1..n \subseteq 1..m
  OBVIOUS
<1>2. Seq(1..n) \subseteq Seq(1..m)
  BY <1>1
<1>3. BlockOf(n) \subseteq BlockOf(m)
  BY <1>2 DEF BlockOf
<1>4. Seq(BlockOf(n)) \subseteq Seq(BlockOf(m))
  BY <1>3
<1> QED
  BY <1>3, <1>4 DEF OpenBlock

LEMMA BlockSays ==
  ASSUME NEW n \in Nat, NEW b \in BlockOf(n)
  PROVE  /\ b.frames \in Seq(Nat) /\ Said(b) \in Seq(Nat)
         /\ b.kind \in Deltas \cup {"tool"}
<1>1. b.frames \in Seq(1..n) /\ b.kind \in Deltas \cup {"tool"}
  BY DEF BlockOf
<1>2. b.frames \in Seq(Nat) /\ <<>> \in Seq(Nat)
  BY <1>1
<1> QED
  BY <1>1, <1>2 DEF Said

LEMMA WordsTyped ==
  ASSUME NEW n \in Nat, NEW list \in Seq(BlockOf(n))
  PROVE  Words(list) \in Seq(Seq(Nat)) /\ Len(Words(list)) = Len(list)
<1>1. \A i \in 1..Len(list) : Said(list[i]) \in Seq(Nat)
  BY BlockSays
<1>2. Len(list) \in Nat /\ DOMAIN list = 1..Len(list)
  OBVIOUS
<1>3. Words(list) \in [1..Len(list) -> Seq(Nat)]
  BY <1>1, <1>2 DEF Words
<1> QED
  BY <1>2, <1>3, TableIsSeq

(* A block pushed behind the others. *)
LEMMA PushUtters ==
  ASSUME NEW n \in Nat, NEW list \in Seq(BlockOf(n)), NEW b \in BlockOf(n),
         NEW s, Utters(list, <<>>, s)
  PROVE  /\ Append(list, b) \in Seq(BlockOf(n))
         /\ Utters(Append(list, b), <<>>, s \o Said(b)) /\ s \in Seq(Nat)
<1> DEFINE more == Append(list, b)
           x == Words(more)
           y == Append(Words(list), Said(b))
<1>1. /\ more \in Seq(BlockOf(n)) /\ Len(more) = Len(list) + 1 /\ more[Len(list) + 1] = b
      /\ \A i \in 1..Len(list) : more[i] = list[i]
      /\ Len(list) \in Nat /\ DOMAIN list = 1..Len(list) /\ DOMAIN more = 1..(Len(list) + 1)
  OBVIOUS
<1>2. Said(b) \in Seq(Nat)
  BY BlockSays
<1>3. Words(list) \in Seq(Seq(Nat)) /\ Len(Words(list)) = Len(list)
  BY WordsTyped
<1>4. \A i \in 1..Len(list) : Words(list)[i] = Said(list[i])
  BY <1>1 DEF Words
<1>5. /\ y \in Seq(Seq(Nat)) /\ Len(y) = Len(list) + 1 /\ y[Len(list) + 1] = Said(b)
      /\ \A i \in 1..Len(list) : y[i] = Said(list[i])
  BY <1>1, <1>2, <1>3, <1>4
<1> HIDE DEF more
<1>6. x \in Seq(Seq(Nat)) /\ Len(x) = Len(list) + 1
  BY <1>1, WordsTyped
<1>7. \A i \in 1..(Len(list) + 1) : x[i] = Said(more[i])
  BY <1>1 DEF Words
<1> HIDE DEF x, y
<1>8. \A i \in 1..(Len(list) + 1) : x[i] = y[i]
  <2>1. \A i \in 1..(Len(list) + 1) : i \in 1..Len(list) \/ i = Len(list) + 1
    BY <1>1
  <2> QED
    BY <1>1, <1>5, <1>7, <2>1
<1>9. x = y
  BY <1>5, <1>6, <1>8, SameSeq
<1>10. PICK w : Concats(Words(list), w, Nat) /\ s = w \o <<>>
  BY DEF Utters
<1>11. w \in Seq(Nat) /\ Concats(y, w \o Said(b), Nat)
  BY <1>2, <1>3, <1>10, ConcatsOneMore DEF y
<1>12. s = w /\ s \in Seq(Nat) /\ s \o Said(b) = (w \o Said(b)) \o <<>>
  <2>1. w \o Said(b) \in Seq(Nat) /\ s = w
    BY <1>2, <1>10, <1>11
  <2> QED
    BY <1>11, <2>1
<1>13. Utters(more, <<>>, s \o Said(b))
  BY <1>9, <1>11, <1>12, Zenon DEF Utters, x
<1> QED
  BY <1>1, <1>12, <1>13 DEF more

(* The open block joins the others; its words stay where they were. *)
LEMMA CloseUtters ==
  ASSUME NEW n \in Nat, NEW list \in Seq(BlockOf(n)), NEW open \in OpenBlock(n),
         NEW s, Utters(list, open, s)
  PROVE  /\ list \o open \in Seq(BlockOf(n)) /\ Utters(list \o open, <<>>, s)
         /\ s \in Seq(Nat)
         /\ \A i \in 1..Len(list \o open) :
              (list \o open)[i].kind = "tool" => i \in 1..Len(list) /\ (list \o open)[i] = list[i]
<1>1. CASE open = <<>>
  <2>1. list \o open = list
    BY <1>1
  <2>2. PICK w : Concats(Words(list), w, Nat) /\ s = w \o <<>>
    BY <1>1 DEF Utters
  <2>3. Words(list) \in Seq(Seq(Nat)) /\ <<>> \in Seq(Nat)
    BY WordsTyped
  <2>4. w \in Seq(Nat)
    BY <2>2, <2>3, ConcatsOneMore
  <2>5. s \in Seq(Nat)
    BY <2>2, <2>4
  <2> QED
    BY <1>1, <2>1, <2>5
<1>2. CASE open # <<>>
  <2>1. PICK b \in BlockOf(n) : b.kind \in Deltas /\ open = <<b>>
    BY <1>2 DEF OpenBlock
  <2>2. list \o open = Append(list, b) /\ open[1] = b
    BY <2>1
  <2>3. PICK w : Concats(Words(list), w, Nat) /\ s = w \o Said(b)
    BY <1>2, <2>2 DEF Utters
  <2>4. Words(list) \in Seq(Seq(Nat)) /\ <<>> \in Seq(Nat)
    BY WordsTyped
  <2>5. w \in Seq(Nat)
    BY <2>3, <2>4, ConcatsOneMore
  <2>6. w = w \o <<>>
    BY <2>5
  <2>7. Utters(list, <<>>, w)
    BY <2>3, <2>6, Zenon DEF Utters
  <2>8. Append(list, b) \in Seq(BlockOf(n)) /\ Utters(Append(list, b), <<>>, w \o Said(b))
    BY <2>7, PushUtters
  <2>9. s \in Seq(Nat)
    BY <2>3, <2>5, BlockSays
  <2>10. ASSUME NEW i \in 1..Len(Append(list, b)), Append(list, b)[i].kind = "tool"
         PROVE  i \in 1..Len(list) /\ Append(list, b)[i] = list[i]
    <3>1. \/ i \in 1..Len(list) /\ Append(list, b)[i] = list[i]
          \/ Append(list, b)[i] = b
      OBVIOUS
    <3> QED
      BY <2>1, <2>10, <3>1 DEF Deltas
  <2> QED
    BY <2>2, <2>3, <2>8, <2>9, <2>10
<1> QED
  BY <1>1, <1>2

(* A new block is opened. *)
LEMMA OpenUtters ==
  ASSUME NEW n \in Nat, NEW list \in Seq(BlockOf(n)), NEW b \in BlockOf(n),
         NEW s, Utters(list, <<>>, s)
  PROVE  Utters(list, <<b>>, s \o Said(b))
<1>1. PICK w : Concats(Words(list), w, Nat) /\ s = w \o <<>>
  BY DEF Utters
<1>2. Words(list) \in Seq(Seq(Nat)) /\ <<>> \in Seq(Nat)
  BY WordsTyped
<1>3. w \in Seq(Nat)
  BY <1>1, <1>2, ConcatsOneMore
<1>4. s = w
  BY <1>1, <1>3
<1>5. <<b>> # <<>> /\ <<b>>[1] = b
  OBVIOUS
<1> QED
  BY <1>1, <1>4, <1>5, Zenon DEF Utters

(* The open block goes on. *)
LEMMA GoOnUtters ==
  ASSUME NEW n \in Nat, NEW list \in Seq(BlockOf(n)), NEW b \in BlockOf(n),
         NEW s, Utters(list, <<b>>, s), NEW c \in BlockOf(n), NEW e \in Nat,
         c.kind = b.kind, c.frames = Append(b.frames, e)
  PROVE  Utters(list, <<c>>, IF b.kind = "thought" THEN s ELSE Append(s, e))
<1>0. <<b>> # <<>> /\ <<b>>[1] = b /\ <<c>> # <<>> /\ <<c>>[1] = c
  OBVIOUS
<1>1. PICK w : Concats(Words(list), w, Nat) /\ s = w \o Said(b)
  BY <1>0 DEF Utters
<1>2. Words(list) \in Seq(Seq(Nat)) /\ <<>> \in Seq(Nat)
  BY WordsTyped
<1>3. w \in Seq(Nat)
  BY <1>1, <1>2, ConcatsOneMore
<1>4. CASE b.kind = "thought"
  <2>1. Said(c) = Said(b)
    BY <1>4 DEF Said
  <2> QED
    BY <1>0, <1>1, <1>4, <2>1, Zenon DEF Utters
<1>5. CASE b.kind # "thought"
  <2>1. Said(c) = Append(b.frames, e) /\ Said(b) = b.frames
    BY <1>5 DEF Said
  <2>2. b.frames \in Seq(Nat)
    BY BlockSays
  <2>3. Append(w \o b.frames, e) = w \o Append(b.frames, e)
    <3>0. <<e>> \in Seq(Nat)
      OBVIOUS
    <3>1. Append(b.frames, e) = b.frames \o <<e>>
      BY <2>2, AppendJoins
    <3>2. w \o b.frames \in Seq(Nat)
      BY <1>3, <2>2
    <3>3. Append(w \o b.frames, e) = (w \o b.frames) \o <<e>>
      BY <3>2, AppendJoins
    <3>4. Associated(w, b.frames, <<e>>)
      BY <1>3, <2>2, <3>0, ConcatAssociates
    <3> QED
      BY <3>1, <3>3, <3>4 DEF Associated
  <2>4. Append(s, e) = w \o Said(c)
    BY <1>1, <2>1, <2>3
  <2> QED
    BY <1>0, <1>1, <1>5, <2>4, Zenon DEF Utters
<1> QED
  BY <1>4, <1>5

(* The words are those of the given frames, each once; one comes before an  *)
(* earlier one only if it is a text and that a call.                        *)
Faithful(s, voiced, kinds) ==
  /\ s \in Seq(Nat) /\ ToSet(s) = voiced
  /\ \A i, j \in 1..Len(s) : s[i] = s[j] => i = j
  /\ \A i, j \in 1..Len(s) :
       i < j /\ s[i] > s[j] => kinds[s[i]] = "text" /\ kinds[s[j]] = "tool"

LEMMA FaithfulStays ==
  ASSUME NEW s, NEW voiced, NEW kinds, NEW more, Faithful(s, voiced, kinds),
         \A f \in voiced : more[f] = kinds[f]
  PROVE  Faithful(s, voiced, more)
<1>1. \A i \in 1..Len(s) : s[i] \in voiced
  BY DEF Faithful, ToSet
<1> QED
  BY <1>1 DEF Faithful

LEMMA FaithfulGrows ==
  ASSUME NEW s, NEW voiced, NEW kinds, Faithful(s, voiced, kinds), NEW e \in Nat,
         e \notin voiced,
         \A f \in voiced : f > e => kinds[f] = "text" /\ kinds[e] = "tool"
  PROVE  Faithful(Append(s, e), voiced \cup {e}, kinds)
<1> DEFINE t == Append(s, e)
<1>1. /\ s \in Seq(Nat) /\ ToSet(s) = voiced
      /\ \A i, j \in 1..Len(s) : s[i] = s[j] => i = j
      /\ \A i, j \in 1..Len(s) :
           i < j /\ s[i] > s[j] => kinds[s[i]] = "text" /\ kinds[s[j]] = "tool"
  BY DEF Faithful
<1>2. t \in Seq(Nat) /\ ToSet(t) = voiced \cup {e}
  BY <1>1, Appended
<1>3. /\ Len(t) = Len(s) + 1 /\ t[Len(s) + 1] = e /\ Len(s) \in Nat
      /\ \A i \in 1..Len(s) : t[i] = s[i]
  BY <1>1
<1>4. \A i \in 1..Len(s) : s[i] \in voiced
  BY <1>1 DEF ToSet
<1> HIDE DEF t
<1>5. \A i \in 1..Len(t) : i \in 1..Len(s) \/ i = Len(s) + 1
  BY <1>3
<1>6. \A i, j \in 1..Len(t) : t[i] = t[j] => i = j
  BY <1>1, <1>3, <1>4, <1>5
<1>7. ASSUME NEW i \in 1..Len(t), NEW j \in 1..Len(t), i < j, t[i] > t[j]
      PROVE  kinds[t[i]] = "text" /\ kinds[t[j]] = "tool"
  <2>1. i \in 1..Len(s)
    BY <1>3, <1>7
  <2>2. CASE j \in 1..Len(s)
    BY <1>1, <1>3, <1>7, <2>1, <2>2
  <2>3. CASE j = Len(s) + 1
    BY <1>3, <1>4, <1>7, <2>1, <2>3
  <2> QED
    BY <1>5, <2>2, <2>3
<1>8. Faithful(t, voiced \cup {e}, kinds)
  BY <1>2, <1>6, <1>7 DEF Faithful
<1> QED
  BY <1>8 DEF t

(* The frames that have a word: the texts, and the calls handed on.         *)
Voiced == {f \in DOMAIN received : \/ received[f] = "text"
                                   \/ received[f] = "tool" /\ f \notin ToSet(dispatches)}

StreamTypes ==
  /\ Len(received) <= MaxFrames
  /\ wire \in {"open", "chunk", "closed"} /\ completion \in {"pending", "resolved", "rejected"}
  /\ outcome \in {"none", "returned", "failed"}
  /\ blocks \in Seq(BlockOf(Len(received))) /\ openBlock \in OpenBlock(Len(received))

(* A call without a result is executing; a reply that was returned is       *)
(* closed; and what was said is faithful.                                   *)
Resulting ==
  \A i \in 1..Len(blocks) : blocks[i].kind = "tool" /\ blocks[i].result = "none"
                               => \E f \in executing : blocks[i].frames = <<f>>
Closed ==
  outcome = "returned" =>
    wire = "closed" /\ openBlock = <<>> /\ dispatches = <<>> /\ executing = {}
Speaking == \E s : Utters(blocks, openBlock, s) /\ Faithful(s, Voiced, received)

ReplyInv == StreamTypes /\ Resulting /\ Closed /\ Speaking

LEMMA ReplyStarts == CursorInit => ReplyInv
<1> SUFFICES ASSUME CursorInit PROVE ReplyInv
  OBVIOUS
<1> USE DEF CursorInit
<1>1. StreamTypes
  <2>1. Len(received) = 0 /\ MaxFrames \in Nat
    BY CursorAssumption DEF CursorAssumption
  <2>2. blocks \in Seq(BlockOf(0)) /\ openBlock \in OpenBlock(0)
    BY DEF OpenBlock
  <2> QED
    BY <2>1, <2>2 DEF StreamTypes
<1>2. Utters(blocks, openBlock, <<>>)
  <2>1. Words(blocks) = <<>> /\ <<>> = <<>> \o <<>>
    BY DEF Words
  <2>2. Concats(<<>>, <<>>, Nat)
    BY NothingConcats
  <2> QED
    BY <2>1, <2>2, Zenon DEF Utters
<1>3. Voiced = {} /\ Faithful(<<>>, Voiced, received)
  BY DEF Voiced, Faithful, ToSet
<1> QED
  BY <1>1, <1>2, <1>3 DEF ReplyInv, Resulting, Closed, Speaking

(* A frame received: its number is new, and only the text of it is said.    *)
LEMMA FrameArrives ==
  ASSUME ExecInv, ReplyInv, NEW kind \in FrameKinds, Receive(kind),
         \/ kind # "tool" /\ dispatches' = dispatches
         \/ kind # "text" /\ dispatches' = Append(dispatches, Len(received'))
  PROVE  /\ Len(received') = Len(received) + 1 /\ Len(received) \in Nat
         /\ Len(received') <= MaxFrames
         /\ Voiced' = Voiced \cup (IF kind = "text" THEN {Len(received')} ELSE {})
         /\ \A f \in Voiced : f < Len(received')
         /\ \A f \in Voiced : received'[f] = received[f]
         /\ wire' = "chunk" /\ outcome # "returned"
<1> DEFINE n == Len(received')
<1>1. received' = Append(received, kind) /\ received \in Seq(FrameKinds)
  BY DEF Receive, ExecInv, ExecFrames
<1>2. /\ n = Len(received) + 1
      /\ Len(received) \in Nat /\ received'[n] = kind
      /\ DOMAIN received' = 1..n /\ DOMAIN received = 1..Len(received)
      /\ \A f \in DOMAIN received : received'[f] = received[f]
  BY <1>1
<1>3. ToSet(dispatches) \subseteq DOMAIN received
  BY DEF ExecInv, ExecFrames, ToSet
<1> HIDE DEF n
<1>4. /\ \A f \in DOMAIN received' : f \in DOMAIN received \/ f = n
      /\ DOMAIN received \subseteq DOMAIN received' /\ n \in DOMAIN received'
      /\ n \notin DOMAIN received /\ \A f \in DOMAIN received : f < n
  BY <1>2
<1>5. Voiced' = Voiced \cup (IF kind = "text" THEN {n} ELSE {})
  <2>1. CASE kind # "tool" /\ dispatches' = dispatches
    BY <1>2, <1>4, <2>1 DEF Voiced
  <2>2. CASE kind # "text" /\ dispatches' = Append(dispatches, n)
    <3>1. dispatches \in Seq(Nat) /\ n \in Nat
      BY <1>2 DEF ExecInv, ExecFrames
    <3>2. ToSet(dispatches') = ToSet(dispatches) \cup {n}
      BY <2>2, <3>1, Appended
    <3> QED
      BY <1>2, <1>4, <2>2, <3>2 DEF Voiced
  <2> QED
    BY <2>1, <2>2 DEF n
<1>6. \A f \in Voiced : f < n /\ received'[f] = received[f]
  BY <1>2, <1>4 DEF Voiced
<1>7. n <= MaxFrames /\ wire' = "chunk" /\ outcome # "returned"
  <2>1. Len(received) < MaxFrames /\ wire' = "chunk" /\ wire # "closed"
    BY DEF Receive
  <2>2. MaxFrames \in Nat
    BY CursorAssumption DEF CursorAssumption
  <2> QED
    BY <1>2, <2>1, <2>2 DEF ReplyInv, Closed
<1> QED
  BY <1>2, <1>5, <1>6, <1>7 DEF n

(* Calls are where they were, without a result only if they still run. *)
LEMMA ResultingStays ==
  ASSUME Resulting, executing' = executing,
         \A i \in 1..Len(blocks') : blocks'[i].kind = "tool"
                                      => i \in 1..Len(blocks) /\ blocks'[i] = blocks[i]
  PROVE  Resulting'
BY DEF Resulting

(* A text or a thought: the open block goes on, or gives way to a new one.  *)
LEMMA DeltaKeeps == ExecInv /\ ReplyInv /\ Delta => ReplyInv'
<1> SUFFICES ASSUME ExecInv, ReplyInv, Delta PROVE ReplyInv'
  OBVIOUS
<1> DEFINE n == Len(received')
<1>1. PICK kind \in Deltas :
        /\ Receive(kind)
        /\ IF openBlock # <<>> /\ openBlock[1].kind = kind
           THEN /\ openBlock' = <<[openBlock[1] EXCEPT !.frames = Append(@, n)]>>
                /\ UNCHANGED blocks
           ELSE openBlock' = <<Piece(kind, n)>> /\ blocks' = blocks \o openBlock
        /\ UNCHANGED <<bridged, dispatches, executing, replies, completion, outcome>>
  BY DEF Delta
<1>2. kind \in FrameKinds /\ kind # "tool"
  BY DEF Deltas, FrameKinds
<1>3. /\ n = Len(received) + 1 /\ Len(received) \in Nat /\ n <= MaxFrames
      /\ Voiced' = Voiced \cup (IF kind = "text" THEN {n} ELSE {})
      /\ \A f \in Voiced : f < n /\ received'[f] = received[f]
      /\ wire' = "chunk" /\ outcome # "returned"
  BY <1>1, <1>2, FrameArrives
<1> HIDE DEF n
<1>4. n \in Nat /\ Len(received) <= n /\ n \in 1..n
  BY <1>3
<1>5. blocks \in Seq(BlockOf(n)) /\ openBlock \in OpenBlock(n)
  BY <1>3, <1>4, BlocksGrow DEF ReplyInv, StreamTypes
<1>6. PICK s : Utters(blocks, openBlock, s) /\ Faithful(s, Voiced, received)
  BY DEF ReplyInv, Speaking
<1>7. /\ blocks' \in Seq(BlockOf(n)) /\ openBlock' \in OpenBlock(n)
      /\ Utters(blocks', openBlock', IF kind = "text" THEN Append(s, n) ELSE s)
      /\ \A i \in 1..Len(blocks') : blocks'[i].kind = "tool"
                                      => i \in 1..Len(blocks) /\ blocks'[i] = blocks[i]
  <2>1. CASE openBlock # <<>> /\ openBlock[1].kind = kind
    <3>1. PICK b \in BlockOf(n) : b.kind \in Deltas /\ openBlock = <<b>>
      BY <1>5, <2>1 DEF OpenBlock
    <3> DEFINE c == [b EXCEPT !.frames = Append(b.frames, n)]
    <3>2. openBlock' = <<c>> /\ blocks' = blocks /\ b.kind = kind
      BY <1>1, <2>1, <3>1
    <3>3. Append(b.frames, n) \in Seq(1..n) /\ Append(b.frames, n) # <<>>
      BY <1>4 DEF BlockOf
    <3>4. c \in BlockOf(n) /\ c.kind = b.kind /\ c.frames = Append(b.frames, n)
      BY <3>3 DEF BlockOf
    <3> HIDE DEF c
    <3>5. Utters(blocks, <<c>>, IF b.kind = "thought" THEN s ELSE Append(s, n))
      BY <1>4, <1>5, <1>6, <3>1, <3>4, GoOnUtters
    <3>6. <<c>> \in OpenBlock(n)
      BY <3>1, <3>4 DEF OpenBlock
    <3> QED
      BY <1>5, <3>2, <3>5, <3>6 DEF Deltas
  <2>2. CASE ~(openBlock # <<>> /\ openBlock[1].kind = kind)
    <3> DEFINE c == Piece(kind, n)
    <3>1. openBlock' = <<c>> /\ blocks' = blocks \o openBlock
      BY <1>1, <2>2
    <3>2. /\ blocks' \in Seq(BlockOf(n)) /\ Utters(blocks', <<>>, s) /\ s \in Seq(Nat)
          /\ \A i \in 1..Len(blocks') : blocks'[i].kind = "tool"
                                          => i \in 1..Len(blocks) /\ blocks'[i] = blocks[i]
      BY <1>4, <1>5, <1>6, <3>1, CloseUtters
    <3>3. c \in BlockOf(n) /\ c.kind = kind /\ Said(c) = IF kind = "thought" THEN <<>> ELSE <<n>>
      <4>1. <<n>> \in Seq(1..n) /\ <<n>> # <<>>
        BY <1>4
      <4> QED
        BY <4>1 DEF Piece, BlockOf, Said
    <3> HIDE DEF c
    <3>4. Utters(blocks', <<c>>, s \o Said(c))
      BY <1>4, <3>2, <3>3, OpenUtters
    <3>5. s \o Said(c) = IF kind = "text" THEN Append(s, n) ELSE s
      BY <1>4, <3>2, <3>3, AppendJoins DEF Deltas
    <3>6. <<c>> \in OpenBlock(n)
      BY <3>3 DEF OpenBlock
    <3> QED
      BY <3>1, <3>2, <3>4, <3>5, <3>6
  <2> QED
    BY <2>1, <2>2
<1>8. Faithful(IF kind = "text" THEN Append(s, n) ELSE s, Voiced', received')
  <2>1. Faithful(s, Voiced, received')
    BY <1>3, <1>6, FaithfulStays
  <2>2. n \notin Voiced /\ \A f \in Voiced : ~(f > n)
    <3>1. Voiced \subseteq Nat
      BY DEF Voiced, ExecInv, ExecFrames
    <3> QED
      BY <1>3, <1>4, <3>1
  <2>3. kind = "text" => Faithful(Append(s, n), Voiced \cup {n}, received')
    BY <1>4, <2>1, <2>2, FaithfulGrows
  <2>4. CASE kind = "text"
    BY <1>3, <2>3, <2>4
  <2>5. CASE kind # "text"
    <3>1. Voiced' = Voiced
      BY <1>3, <2>5
    <3> QED
      BY <2>1, <2>5, <3>1
  <2> QED
    BY <2>4, <2>5
<1>9. StreamTypes'
  BY <1>1, <1>3, <1>7 DEF ReplyInv, StreamTypes, n
<1>10. Resulting'
  BY <1>1, <1>7, ResultingStays DEF ReplyInv
<1>11. Closed'
  BY <1>1, <1>3 DEF Closed
<1>12. Speaking'
  BY <1>7, <1>8 DEF Speaking
<1> QED
  BY <1>9, <1>10, <1>11, <1>12 DEF ReplyInv

(* The end of a thought, and a frame that waits: nothing is said.           *)
LEMMA SilentFrameKeeps ==
  ASSUME ExecInv, ReplyInv, NEW kind \in FrameKinds, Receive(kind),
         \/ kind # "tool" /\ dispatches' = dispatches
         \/ kind # "text" /\ dispatches' = Append(dispatches, Len(received')),
         kind # "text", UNCHANGED <<executing, completion, outcome>>,
         \/ UNCHANGED <<blocks, openBlock>>
         \/ blocks' = blocks \o openBlock /\ openBlock' = <<>>
  PROVE  ReplyInv'
<1> DEFINE n == Len(received')
<1>1. /\ n = Len(received) + 1 /\ Len(received) \in Nat /\ n <= MaxFrames
      /\ Voiced' = Voiced
      /\ \A f \in Voiced : received'[f] = received[f]
      /\ wire' = "chunk" /\ outcome # "returned"
  BY FrameArrives
<1> HIDE DEF n
<1>2. n \in Nat /\ Len(received) <= n
  BY <1>1
<1>3. blocks \in Seq(BlockOf(n)) /\ openBlock \in OpenBlock(n)
  BY <1>1, <1>2, BlocksGrow DEF ReplyInv, StreamTypes
<1>4. PICK s : Utters(blocks, openBlock, s) /\ Faithful(s, Voiced, received)
  BY DEF ReplyInv, Speaking
<1>5. /\ blocks' \in Seq(BlockOf(n)) /\ openBlock' \in OpenBlock(n)
      /\ Utters(blocks', openBlock', s)
      /\ \A i \in 1..Len(blocks') : blocks'[i].kind = "tool"
                                      => i \in 1..Len(blocks) /\ blocks'[i] = blocks[i]
  <2>1. CASE UNCHANGED <<blocks, openBlock>>
    BY <1>3, <1>4, <2>1
  <2>2. CASE blocks' = blocks \o openBlock /\ openBlock' = <<>>
    <3>1. openBlock' \in OpenBlock(n)
      BY <2>2 DEF OpenBlock
    <3> QED
      BY <1>2, <1>3, <1>4, <2>2, <3>1, CloseUtters
  <2> QED
    BY <2>1, <2>2
<1>6. Faithful(s, Voiced', received')
  BY <1>1, <1>4, FaithfulStays
<1>7. StreamTypes'
  BY <1>1, <1>5 DEF ReplyInv, StreamTypes, n
<1>8. Resulting'
  BY <1>5, ResultingStays DEF ReplyInv
<1>9. Closed'
  BY <1>1 DEF Closed
<1>10. Speaking'
  BY <1>5, <1>6 DEF Speaking
<1> QED
  BY <1>7, <1>8, <1>9, <1>10 DEF ReplyInv

(* A handler that runs no tool says nothing. *)
LEMMA PassingKeeps ==
  ASSUME ExecInv, ReplyInv, dispatches # <<>>, dispatches' = Tail(dispatches),
         received[Head(dispatches)] # "tool",
         completion' \in {"pending", "resolved", "rejected"},
         UNCHANGED <<wire, received, blocks, openBlock, executing, outcome>>
  PROVE  ReplyInv'
<1>1. dispatches \in Seq(Nat)
  BY DEF ExecInv, ExecFrames
<1>2. ToSet(dispatches) = {Head(dispatches)} \cup ToSet(Tail(dispatches))
  BY <1>1, TailRises DEF ExecInv, ExecOrder
<1>3. Voiced' = Voiced
  BY <1>2 DEF Voiced
<1>4. StreamTypes' /\ Resulting' /\ Closed'
  BY DEF ReplyInv, StreamTypes, Resulting, Closed
<1>5. Speaking'
  BY <1>3 DEF ReplyInv, Speaking
<1> QED
  BY <1>4, <1>5 DEF ReplyInv

(* A call is pushed behind what was open; it runs, or has its result.       *)
LEMMA CallingKeeps ==
  ASSUME ExecInv, ReplyInv, dispatches # <<>>, dispatches' = Tail(dispatches),
         executing = {}, received[Head(dispatches)] = "tool",
         NEW result \in {"none", "error"}, PushToolCall(Head(dispatches), result),
         result = "none" => executing' = {Head(dispatches)},
         UNCHANGED <<wire, received, completion, outcome>>
  PROVE  ReplyInv'
<1> DEFINE f == Head(dispatches)
           n == Len(received)
           call == [Piece("tool", f) EXCEPT !.result = result]
           before == blocks \o openBlock
<1>1. /\ received \in Seq(FrameKinds) /\ dispatches \in Seq(Nat) /\ n \in Nat
      /\ DOMAIN received = 1..n /\ ToSet(dispatches) \subseteq 1..n
  BY DEF ExecInv, ExecFrames, ToSet
<1>2. /\ f \in ToSet(dispatches) /\ ToSet(dispatches) = {f} \cup ToSet(dispatches')
      /\ \A g \in ToSet(dispatches') : f < g
  BY <1>1, TailRises DEF ExecInv, ExecOrder
<1>3. f \in 1..n /\ f \in Nat /\ f \notin ToSet(dispatches')
  <2>1. f \in 1..n
    BY <1>1, <1>2
  <2>2. f \in Nat /\ ~(f < f)
    BY <2>1
  <2> QED
    BY <1>2, <2>1, <2>2
<1>4. blocks' = before \o <<call>> /\ openBlock' = <<>> /\ received[f] = "tool"
  BY DEF PushToolCall
<1>5. call \in BlockOf(n) /\ call.kind = "tool" /\ call.result = result
      /\ call.frames = <<f>> /\ Said(call) = <<f>>
  <2>1. <<f>> \in Seq(1..n) /\ <<f>> # <<>>
    BY <1>3
  <2> QED
    BY <2>1 DEF Piece, BlockOf, Said
<1>6. PICK s : Utters(blocks, openBlock, s) /\ Faithful(s, Voiced, received)
  BY DEF ReplyInv, Speaking
<1> HIDE DEF f, call
<1>7. /\ before \in Seq(BlockOf(n)) /\ Utters(before, <<>>, s) /\ s \in Seq(Nat)
      /\ \A i \in 1..Len(before) : before[i].kind = "tool"
                                     => i \in 1..Len(blocks) /\ before[i] = blocks[i]
  BY <1>1, <1>6, CloseUtters DEF ReplyInv, StreamTypes
<1> HIDE DEF before, n
<1>8. blocks' = Append(before, call) /\ s \o <<f>> = Append(s, f)
  BY <1>3, <1>4, <1>5, <1>7, AppendJoins
<1>9. blocks' \in Seq(BlockOf(n)) /\ Utters(blocks', <<>>, Append(s, f))
  BY <1>1, <1>5, <1>7, <1>8, PushUtters
<1>10. Voiced' = Voiced \cup {f} /\ f \notin Voiced
  BY <1>1, <1>2, <1>3, <1>4 DEF Voiced
<1>11. \A g \in Voiced : g > f => received[g] = "text" /\ received[f] = "tool"
  <2> SUFFICES ASSUME NEW g \in Voiced, g > f, received[g] = "tool" PROVE FALSE
    BY <1>4 DEF Voiced
  <2>1. g \in DOMAIN received /\ g \notin ToSet(dispatches)
    BY <1>4 DEF Voiced
  <2>2. g \in Answerable
    BY <2>1 DEF Answerable, Numbers
  <2>3. g \in ToSet(replies)
    BY <2>1, <2>2 DEF ExecInv
  <2>4. g < f
    BY <1>2, <2>3 DEF ExecInv, ExecOrder, AllBefore
  <2>5. g \in Nat
    BY <1>1, <2>1
  <2> QED
    BY <1>3, <2>4, <2>5
<1>12. Faithful(Append(s, f), Voiced', received)
  BY <1>3, <1>6, <1>10, <1>11, FaithfulGrows
<1>13. openBlock' \in OpenBlock(n)
  BY <1>4 DEF OpenBlock
<1>14. StreamTypes'
  BY <1>9, <1>13 DEF ReplyInv, StreamTypes, n
<1>15. Resulting'
  <2> SUFFICES ASSUME NEW i \in 1..Len(blocks'), blocks'[i].kind = "tool",
                      blocks'[i].result = "none"
               PROVE  \E g \in executing' : blocks'[i].frames = <<g>>
    BY DEF Resulting
  <2>1. \/ i \in 1..Len(before) /\ blocks'[i] = before[i]
        \/ blocks'[i] = call
    BY <1>5, <1>7, <1>8
  <2>2. CASE i \in 1..Len(before) /\ blocks'[i] = before[i]
    BY <1>7, <2>2 DEF ReplyInv, Resulting
  <2>3. CASE blocks'[i] = call
    BY <1>5, <2>3 DEF f
  <2> QED
    BY <2>1, <2>2, <2>3
<1>16. Closed'
  BY DEF ReplyInv, Closed
<1>17. Speaking'
  BY <1>4, <1>9, <1>12 DEF Speaking
<1> QED
  BY <1>14, <1>15, <1>16, <1>17 DEF ReplyInv

LEMMA DispatchSays == ExecInv /\ ReplyInv /\ DispatchExec => ReplyInv'
<1> SUFFICES ASSUME ExecInv, ReplyInv, DispatchExec PROVE ReplyInv'
  OBVIOUS
<1> DEFINE f == Head(dispatches)
<1>1. /\ dispatches # <<>> /\ executing = {} /\ dispatches' = Tail(dispatches)
      /\ Handle(f) /\ UNCHANGED <<wire, received, outcome>>
  BY DEF DispatchExec
<1>2. CASE received[f] = "tool"
  <2>1. PICK result \in {"none", "error"} :
          /\ PushToolCall(f, result) /\ (result = "none" => executing' = executing \cup {f})
          /\ UNCHANGED completion
    BY <1>1, <1>2 DEF Handle
  <2>2. result = "none" => executing' = {f}
    BY <1>1, <2>1
  <2> QED
    BY <1>1, <1>2, <2>1, <2>2, CallingKeeps
<1>3. CASE received[f] # "tool"
  <2>1. UNCHANGED <<blocks, openBlock, executing>>
        /\ completion' \in {"pending", "resolved", "rejected"}
    BY <1>1, <1>3 DEF Handle, ReplyInv, StreamTypes
  <2> QED
    BY <1>1, <1>3, <2>1, PassingKeeps
<1> QED
  BY <1>2, <1>3

(* A tool that ends has its result, and with it every call has one.         *)
LEMMA ResultKeeps == ExecInv /\ ReplyInv /\ ExecEnds => ReplyInv'
<1> SUFFICES ASSUME ExecInv, ReplyInv, ExecEnds PROVE ReplyInv'
  OBVIOUS
<1>1. PICK f \in executing, result \in {"ok", "error"} :
        /\ executing' = executing \ {f}
        /\ blocks' = [b \in DOMAIN blocks |->
                        IF blocks[b].frames = <<f>>
                        THEN [blocks[b] EXCEPT !.result = result] ELSE blocks[b]]
  BY DEF ExecEnds
<1>2. UNCHANGED <<wire, received, openBlock, dispatches, completion, outcome>>
  BY DEF ExecEnds
<1>3. executing = {f}
  BY DEF ExecInv, ExecFrames
<1> DEFINE n == Len(received)
<1>4. blocks \in Seq(BlockOf(n)) /\ DOMAIN blocks = 1..Len(blocks) /\ Len(blocks) \in Nat
  BY DEF ReplyInv, StreamTypes
<1>5. \A i \in 1..Len(blocks) : blocks[i] \in BlockOf(n)
  BY <1>4
<1>6. /\ \A b \in BlockOf(n) : [b EXCEPT !.result = result] \in BlockOf(n)
      /\ \A b \in BlockOf(n) : /\ [b EXCEPT !.result = result].kind = b.kind
                             /\ [b EXCEPT !.result = result].frames = b.frames
                             /\ [b EXCEPT !.result = result].result = result
  BY DEF BlockOf
<1> HIDE DEF n
<1>7. \A i \in 1..Len(blocks) :
        /\ blocks'[i] \in BlockOf(n) /\ Said(blocks'[i]) = Said(blocks[i])
        /\ blocks'[i].kind = blocks[i].kind
        /\ IF blocks[i].frames = <<f>> THEN blocks'[i].result = result
           ELSE blocks'[i] = blocks[i]
  BY <1>1, <1>4, <1>5, <1>6 DEF Said
<1>8. blocks' \in [1..Len(blocks) -> BlockOf(n)]
  BY <1>1, <1>4, <1>7
<1>9. blocks' \in Seq(BlockOf(n)) /\ Len(blocks') = Len(blocks)
  BY <1>4, <1>8, TableIsSeq
<1>10. Words(blocks') = Words(blocks)
  <2>1. DOMAIN blocks' = DOMAIN blocks
    BY <1>1
  <2> QED
    BY <1>4, <1>7, <2>1 DEF Words
<1>11. StreamTypes'
  BY <1>2, <1>9 DEF ReplyInv, StreamTypes, n
<1>12. Resulting'
  <2> SUFFICES ASSUME NEW i \in 1..Len(blocks'), blocks'[i].kind = "tool",
                      blocks'[i].result = "none"
               PROVE  FALSE
    BY DEF Resulting
  <2>1. blocks'[i] = blocks[i] /\ blocks[i].frames # <<f>>
    BY <1>7, <1>9
  <2> QED
    BY <1>3, <1>9, <2>1 DEF ReplyInv, Resulting
<1>13. Closed'
  BY <1>2 DEF ReplyInv, Closed
<1>14. Speaking'
  <2>1. Voiced' = Voiced
    BY <1>2 DEF Voiced
  <2>2. PICK s : Utters(blocks, openBlock, s) /\ Faithful(s, Voiced, received)
    BY DEF ReplyInv, Speaking
  <2>3. Utters(blocks', openBlock', s)
    BY <1>2, <1>10, <2>2 DEF Utters
  <2> QED
    BY <1>2, <2>1, <2>2, <2>3 DEF Speaking
<1> QED
  BY <1>11, <1>12, <1>13, <1>14 DEF ReplyInv

(* The call returns, and what was open is closed. *)
LEMMA ReturnKeeps == ExecInv /\ ReplyInv /\ ReturnReply => ReplyInv'
<1> SUFFICES ASSUME ExecInv, ReplyInv, ReturnReply PROVE ReplyInv'
  OBVIOUS
<1>1. /\ dispatches = <<>> /\ executing = {} /\ outcome' = "returned" /\ wire' = "closed"
      /\ blocks' = blocks \o openBlock /\ openBlock' = <<>>
      /\ UNCHANGED <<received, dispatches, executing, completion>>
  BY DEF ReturnReply
<1> DEFINE n == Len(received)
<1>2. n \in Nat
  BY DEF ExecInv, ExecFrames
<1>3. PICK s : Utters(blocks, openBlock, s) /\ Faithful(s, Voiced, received)
  BY DEF ReplyInv, Speaking
<1>4. /\ blocks' \in Seq(BlockOf(n)) /\ Utters(blocks', <<>>, s)
      /\ \A i \in 1..Len(blocks') : blocks'[i].kind = "tool"
                                      => i \in 1..Len(blocks) /\ blocks'[i] = blocks[i]
  BY <1>1, <1>2, <1>3, CloseUtters DEF ReplyInv, StreamTypes
<1>5. openBlock' \in OpenBlock(n)
  BY <1>1 DEF OpenBlock
<1>6. StreamTypes'
  BY <1>1, <1>4, <1>5 DEF ReplyInv, StreamTypes
<1>7. Resulting'
  BY <1>1, <1>4, ResultingStays DEF ReplyInv
<1>8. Closed'
  BY <1>1 DEF Closed
<1>9. Voiced' = Voiced
  BY <1>1 DEF Voiced
<1>10. Speaking'
  BY <1>1, <1>3, <1>4, <1>9 DEF Speaking
<1> QED
  BY <1>6, <1>7, <1>8, <1>10 DEF ReplyInv

LEMMA ReplyStep == ExecInv /\ ReplyInv /\ [CursorNext]_cursorVars => ReplyInv'
<1> SUFFICES ASSUME ExecInv, ReplyInv, [CursorNext]_cursorVars PROVE ReplyInv'
  OBVIOUS
<1>1. CASE ThoughtEnds
  <2>1. Receive("thoughtEnds") /\ "thoughtEnds" \in FrameKinds
    BY <1>1 DEF ThoughtEnds, FrameKinds
  <2>2. /\ dispatches' = dispatches /\ UNCHANGED <<executing, completion, outcome>>
        /\ \/ UNCHANGED <<blocks, openBlock>>
           \/ blocks' = blocks \o openBlock /\ openBlock' = <<>>
    BY <1>1 DEF ThoughtEnds
  <2> QED
    BY <2>1, <2>2, SilentFrameKeeps
<1>2. CASE Enqueue
  <2>1. PICK kind \in Execs \cup {"turnEnded"} : Receive(kind)
    BY <1>2 DEF Enqueue
  <2>2. kind \in FrameKinds /\ kind # "text"
    BY DEF FrameKinds, Execs
  <2>3. /\ dispatches' = Append(dispatches, Len(received'))
        /\ UNCHANGED <<executing, completion, outcome, blocks, openBlock>>
    BY <1>2 DEF Enqueue
  <2> QED
    BY <2>1, <2>2, <2>3, SilentFrameKeeps
<1>3. CASE ChunkEnds \/ StreamCloses \/ FailCall \/ UNCHANGED cursorVars
  <2>1. UNCHANGED <<received, blocks, openBlock, dispatches, executing>>
    BY <1>3 DEF ChunkEnds, StreamCloses, FailCall, cursorVars
  <2>2. /\ wire' \in {"open", "chunk", "closed"}
        /\ completion' \in {"pending", "resolved", "rejected"}
        /\ outcome' \in {"none", "returned", "failed"}
        /\ outcome' = "returned" => outcome = "returned" /\ wire' = "closed"
    BY <1>3 DEF ReplyInv, StreamTypes, Closed, ChunkEnds, StreamCloses, FailCall, cursorVars
  <2>3. StreamTypes' /\ Resulting' /\ Closed'
    BY <2>1, <2>2 DEF ReplyInv, StreamTypes, Resulting, Closed
  <2>4. Voiced' = Voiced
    BY <2>1 DEF Voiced
  <2>5. Speaking'
    BY <2>1, <2>4 DEF ReplyInv, Speaking
  <2> QED
    BY <2>3, <2>5 DEF ReplyInv
<1> QED
  BY <1>1, <1>2, <1>3, DeltaKeeps, DispatchSays, ResultKeeps, ReturnKeeps DEF CursorNext

LEMMA ElementsTyped ==
  ASSUME NEW S, NEW s \in Seq(S)
  PROVE  ToSet(s) \subseteq S
BY DEF ToSet

LEMMA StreamIsTyped == ExecInv /\ ReplyInv => CursorTypeOK
<1> SUFFICES ASSUME ExecInv, ReplyInv PROVE CursorTypeOK
  OBVIOUS
<1> DEFINE n == Len(received)
           all == blocks \o openBlock
<1>1. /\ bridged \in BOOLEAN /\ received \in Seq(FrameKinds)
      /\ n \in Nat /\ DOMAIN received = 1..n
  BY DEF ExecInv, ExecFrames
<1>2. blocks \in Seq(BlockOf(n)) /\ openBlock \in OpenBlock(n)
  BY DEF ReplyInv, StreamTypes
<1>3. all \in Seq(BlockOf(n)) /\ Len(openBlock) <= 1
  <2>1. PICK s : Utters(blocks, openBlock, s)
    BY DEF ReplyInv, Speaking
  <2>2. all \in Seq(BlockOf(n))
    BY <1>1, <1>2, <2>1, CloseUtters
  <2>3. Len(openBlock) <= 1
    <3>1. openBlock = <<>> \/ \E b : openBlock = <<b>>
      BY <1>2 DEF OpenBlock
    <3>2. Len(<<>>) <= 1 /\ \A b : Len(<<b>>) <= 1
      OBVIOUS
    <3> QED
      BY <3>1, <3>2
  <2> QED
    BY <2>2, <2>3
<1> HIDE DEF all, n
<1>4. ASSUME NEW b \in ToSet(all)
      PROVE  /\ b.kind \in Deltas \cup {"tool"} /\ b.result \in {"none", "ok", "error"}
             /\ ToSet(b.frames) \subseteq 1..n /\ b.frames # <<>>
  <2>1. b \in BlockOf(n)
    BY <1>3 DEF ToSet
  <2>2. b.frames \in Seq(1..n)
    BY <2>1 DEF BlockOf
  <2>3. ToSet(b.frames) \subseteq 1..n
    BY <2>2, ElementsTyped
  <2> QED
    BY <2>1, <2>3 DEF BlockOf
<1>5. ToSet(dispatches \o replies) \cup executing \subseteq 1..n
  <2>1. /\ dispatches \in Seq(1..n) /\ replies \in Seq(1..n) /\ executing \subseteq 1..n
    BY <1>1 DEF ExecInv, ExecFrames, Answerable, Numbers
  <2>2. dispatches \o replies \in Seq(1..n)
    BY <2>1
  <2>3. ToSet(dispatches \o replies) \subseteq 1..n
    BY <2>2, ElementsTyped
  <2> QED
    BY <2>1, <2>3
<1> QED
  BY <1>1, <1>3, <1>4, <1>5 DEF CursorTypeOK, ReplyInv, StreamTypes, all, n

LEMMA ReplyMeans == ExecInv /\ ReplyInv => ReplyIsWhole
<1> SUFFICES ASSUME ExecInv, ReplyInv, outcome = "returned"
             PROVE  /\ \A b \in ToSet(blocks) : b.kind = "tool" => b.result # "none"
                    /\ Len(Spoken) = Cardinality(Numbers({"text", "tool"}))
                    /\ ToSet(Spoken) = Numbers({"text", "tool"})
                    /\ \A i, j \in DOMAIN Spoken :
                         i < j /\ Spoken[i] > Spoken[j]
                           => received[Spoken[i]] = "text" /\ received[Spoken[j]] = "tool"
  BY DEF ReplyIsWhole
<1> DEFINE n == Len(received)
<1>1. openBlock = <<>> /\ dispatches = <<>> /\ executing = {} /\ n \in Nat
  BY DEF ReplyInv, Closed, ExecInv, ExecFrames
<1>2. /\ blocks \in Seq(BlockOf(n)) /\ Len(blocks) \in Nat /\ DOMAIN blocks = 1..Len(blocks)
      /\ \A i \in 1..Len(blocks) : blocks[i] \in BlockOf(n)
  BY DEF ReplyInv, StreamTypes
<1> HIDE DEF n
<1>3. \A b \in ToSet(blocks) : b.kind = "tool" => b.result # "none"
  BY <1>1, <1>2 DEF ReplyInv, Resulting, ToSet
<1>4. Voiced = Numbers({"text", "tool"})
  BY <1>1 DEF Voiced, Numbers, ToSet
<1>5. PICK s : Utters(blocks, <<>>, s) /\ Faithful(s, Voiced, received)
  BY <1>1 DEF ReplyInv, Speaking
<1>6. Spoken = s
  <2>1. PICK w : Concats(Words(blocks), w, Nat) /\ s = w \o <<>>
    BY <1>5 DEF Utters
  <2>2. Words(blocks) \in Seq(Seq(Nat)) /\ <<>> \in Seq(Nat)
    BY <1>1, <1>2, WordsTyped
  <2>3. w \in Seq(Nat)
    BY <2>1, <2>2, ConcatsOneMore
  <2>4. s = w
    BY <2>1, <2>3
  <2>5. \A i \in 1..Len(blocks) : blocks[i].kind \in Deltas \cup {"tool"}
                                  /\ blocks[i].frames \in Seq(Nat)
    BY <1>1, <1>2, BlockSays
  <2> QED
    BY <1>2, <2>1, <2>4, <2>5, MessagesSayTheWords
<1>7. /\ s \in Seq(Nat) /\ ToSet(s) = Voiced /\ Len(s) \in Nat /\ DOMAIN s = 1..Len(s)
      /\ AllDiffer(s, Len(s))
      /\ \A i, j \in 1..Len(s) :
           i < j /\ s[i] > s[j] => received[s[i]] = "text" /\ received[s[j]] = "tool"
  BY <1>5 DEF Faithful, AllDiffer
<1>8. Cardinality(Voiced) = Len(s)
  <2>1. Values(s, Len(s)) = ToSet(s)
    BY <1>7 DEF Values, ToSet
  <2> QED
    BY <1>7, <2>1, DistinctCount
<1> QED
  BY <1>3, <1>4, <1>6, <1>7, <1>8

-----------------------------------------------------------------------------
(* However many frames the server sends, and whatever fails meanwhile, the  *)
(* blocks are built of frames that were received, one of them open at most. *)
THEOREM CursorTypes == CursorSpec => []CursorTypeOK
  BY ExecStarts, ExecStep, ReplyStarts, ReplyStep, StreamIsTyped, PTL DEF CursorSpec

(* A call that returns has run each tool it was asked for, and its messages *)
(* have every text and every call once, in the order they came in, but for  *)
(* a text that overtook a call waiting behind another.                      *)
THEOREM RepliesAreWhole == CursorSpec => []ReplyIsWhole
  BY ExecStarts, ExecStep, ReplyStarts, ReplyStep, ReplyMeans, PTL DEF CursorSpec

=============================================================================
