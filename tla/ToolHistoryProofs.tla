-------------------------- MODULE ToolHistoryProofs --------------------------
(***************************************************************************)
(* Theorems about ToolHistory, for every history of any length.            *)
(***************************************************************************)
EXTENDS ToolHistory, SequenceFacts

-----------------------------------------------------------------------------
(* Messages and histories *)

CallOver(T) == [id : Nat, tool : T]
MessageOver(T) ==
  [role : {"user", "assistant", "tool"}, text : BOOLEAN, calls : Seq(CallOver(T)),
   id : Nat, notes : SUBSET [kind : {"call", "result"}, id : Nat]]

(* A history: an answer declares no calls. *)
History(h, T) ==
  /\ h \in Seq(MessageOver(T))
  /\ \A i \in 1..Len(h) : h[i].role = "tool" => h[i].calls = <<>>

(* The answer that is moved up is one, and answers the call. *)
LEMMA FirstAnswerAnswers ==
  ASSUME NEW h, Len(h) \in Nat, NEW id, FirstAnswer(h, id) # 0
  PROVE  /\ FirstAnswer(h, id) \in 1..Len(h)
         /\ id # NoId
         /\ h[FirstAnswer(h, id)].role = "tool" /\ h[FirstAnswer(h, id)].id = id
<1> DEFINE I == {i \in 1..Len(h) : Answers(h[i], id)}
<1>1. I # {} /\ FirstAnswer(h, id) = Min(I)
  BY DEF FirstAnswer, SelectInSeq
<1>2. I \in SUBSET Nat
  OBVIOUS
<1>3. Min(I) \in I
  BY <1>1, <1>2, MinIsLeast
<1> QED
  BY <1>1, <1>3 DEF Answers

LEMMA FirstDeclarerDeclares ==
  ASSUME NEW h, Len(h) \in Nat, NEW id, FirstDeclarer(h, id) # 0
  PROVE  /\ FirstDeclarer(h, id) \in 1..Len(h)
         /\ id # NoId
         /\ h[FirstDeclarer(h, id)].role = "assistant"
         /\ id \in IdsOf(h[FirstDeclarer(h, id)].calls)
<1> DEFINE I == {i \in 1..Len(h) : Declares(h[i], id)}
<1>1. I # {} /\ FirstDeclarer(h, id) = Min(I)
  BY DEF FirstDeclarer, SelectInSeq
<1>2. I \in SUBSET Nat
  OBVIOUS
<1>3. Min(I) \in I
  BY <1>1, <1>2, MinIsLeast
<1> QED
  BY <1>1, <1>3 DEF Declares

(* The matched calls of a message: some of its calls, each answered, each   *)
(* declared nowhere before, none twice.                                     *)
(* What a filter leaves: every kept call once. *)
PickedFrom(p, calls, keep) ==
  \E g \in [1..Len(p) -> keep] :
    /\ \A n \in 1..Len(p) : p[n] = calls[g[n]]
    /\ \A n, m \in 1..Len(p) : g[n] = g[m] => n = m
    /\ \A k \in keep : \E n \in 1..Len(p) : g[n] = k

LEMMA PickedIsKept ==
  ASSUME NEW C, NEW calls \in Seq(C), NEW keep \in SUBSET (1..Len(calls))
  PROVE  /\ Picked(calls, keep) \in Seq(C) /\ Len(Picked(calls, keep)) \in Nat
         /\ PickedFrom(Picked(calls, keep), calls, keep)
<1> DEFINE K == Cardinality(keep)
           Rank(k) == Cardinality({l \in keep : l <= k})
           At(n) == CHOOSE k \in keep : Rank(k) = n
           g == [n \in 1..K |-> At(n)]
           p == Picked(calls, keep)
<1>1. Len(calls) \in Nat /\ \A k \in 1..Len(calls) : calls[k] \in C
  OBVIOUS
<1>2. K \in Nat /\ IsFiniteSet(keep)
  <2>1. IsFiniteSet(1..Len(calls))
    BY <1>1, FS_Interval
  <2>2. IsFiniteSet(keep)
    BY <2>1, FS_Subset, Zenon
  <2> QED
    BY <2>2, FS_CardinalityType
<1>3. ASSUME NEW n \in 1..K PROVE At(n) \in keep /\ Rank(At(n)) = n
  <2>1. \E k \in keep : Cardinality({l \in keep : l <= k}) = n
    BY <1>1, RanksAreTaken
  <2> QED
    BY <2>1
<1>4. p = [n \in 1..K |-> calls[At(n)]]
  BY Zenon DEF Picked
<1> HIDE DEF K, Rank, At, p
<1>5. p \in Seq(C) /\ Len(p) = K /\ \A n \in 1..K : p[n] = calls[g[n]]
  <2>1. \A n \in 1..K : calls[At(n)] \in C
    BY <1>1, <1>3
  <2>2. [n \in 1..K |-> calls[At(n)]] \in Seq(C)
    BY <1>2, <2>1
  <2> QED
    BY <1>2, <1>4, <2>2
<1>6. g \in Injection(1..K, keep)
  BY <1>3 DEF Injection, IsInjective
<1>7. Cardinality(1..K) = K /\ K = Cardinality(keep)
  <2>1. Cardinality(1..K) = K
    BY <1>2, FS_Interval
  <2> QED
    BY <2>1 DEF K
<1>8. g \in Surjection(1..K, keep)
  <2> HIDE DEF g
  <2> QED
    BY <1>2, <1>6, <1>7, FS_Injection
<1> HIDE DEF g
<1>9. PickedFrom(p, calls, keep)
  BY <1>5, <1>6, <1>8 DEF PickedFrom, Injection, IsInjective, Surjection
<1> QED
  BY <1>2, <1>5, <1>9 DEF p

(* The places whose calls are matched. *)
Places(h, i) ==
  {k \in DOMAIN h[i].calls :
     /\ h[i].calls[k].id # NoId
     /\ FirstAnswer(h, h[i].calls[k].id) # 0
     /\ FirstDeclarer(h, h[i].calls[k].id) = i
     /\ \A l \in 1..(k - 1) : h[i].calls[l].id # h[i].calls[k].id}

LEMMA MatchedArePlaces ==
  ASSUME NEW h, NEW i, NEW C, h[i].calls \in Seq(C)
  PROVE  /\ Matched(h, i) \in Seq(C) /\ Len(Matched(h, i)) \in Nat
         /\ PickedFrom(Matched(h, i), h[i].calls, Places(h, i))
<1>1. Matched(h, i) = Picked(h[i].calls, Places(h, i))
  BY Zenon DEF Matched, Places
<1>2. DOMAIN h[i].calls = 1..Len(h[i].calls)
  OBVIOUS
<1>3. Places(h, i) \in SUBSET (1..Len(h[i].calls))
  BY <1>2 DEF Places
<1> QED
  BY <1>1, <1>3, PickedIsKept

LEMMA MatchedCalls ==
  ASSUME NEW h, NEW i, NEW C, Len(h) \in Nat, h[i].calls \in Seq(C)
  PROVE  /\ Matched(h, i) \in Seq(C)
         /\ \A n \in 1..Len(Matched(h, i)) :
              /\ FirstAnswer(h, Matched(h, i)[n].id) # 0
              /\ FirstDeclarer(h, Matched(h, i)[n].id) = i
         /\ \A n, m \in 1..Len(Matched(h, i)) :
              Matched(h, i)[n].id = Matched(h, i)[m].id => n = m
<1> DEFINE calls == h[i].calls
           p == Matched(h, i)
<1>1. p \in Seq(C) /\ PickedFrom(p, calls, Places(h, i))
  BY MatchedArePlaces
<1> HIDE DEF p
<1>2. PICK g \in [1..Len(p) -> Places(h, i)] :
        /\ \A n \in 1..Len(p) : p[n] = calls[g[n]]
        /\ \A n, m \in 1..Len(p) : g[n] = g[m] => n = m
  BY <1>1, Zenon DEF PickedFrom
<1>3. ASSUME NEW k \in Places(h, i), NEW l \in Places(h, i), calls[k].id = calls[l].id
      PROVE  k = l
  <2>0. DOMAIN calls = 1..Len(calls) /\ Len(calls) \in Nat
    OBVIOUS
  <2>1. k \in Nat /\ l \in Nat /\ 1 <= k /\ 1 <= l
    BY <2>0 DEF Places
  <2>2. CASE k < l
    <3>1. k \in 1..(l - 1)
      BY <2>1, <2>2
    <3> QED
      BY <1>3, <3>1 DEF Places
  <2>3. CASE l < k
    <3>1. l \in 1..(k - 1)
      BY <2>1, <2>3
    <3> QED
      BY <1>3, <3>1 DEF Places
  <2> QED
    BY <2>1, <2>2, <2>3
<1>4. \A k \in Places(h, i) : /\ FirstAnswer(h, calls[k].id) # 0
                              /\ FirstDeclarer(h, calls[k].id) = i
  BY DEF Places
<1> HIDE DEF calls
<1>5. ASSUME NEW n \in 1..Len(p), NEW m \in 1..Len(p), p[n].id = p[m].id
      PROVE  n = m
  <2>1. g[n] = g[m]
    BY <1>2, <1>3, <1>5
  <2> QED
    BY <1>2, <2>1
<1> QED
  BY <1>1, <1>2, <1>4, <1>5 DEF p

(* What PairedAt leaves of a message: nothing, or the message and then the  *)
(* answer to each of its calls, no call twice.                              *)
Block(b) ==
  \/ b = <<>>
  \/ /\ Len(b) = 1 + Len(b[1].calls)
     /\ b[1].role # "tool" /\ (b[1].calls # <<>> => b[1].role = "assistant")
     /\ \A n \in 1..Len(b[1].calls) :
          /\ b[1 + n].role = "tool" /\ b[1 + n].calls = <<>>
          /\ b[1 + n].id = b[1].calls[n].id /\ b[1 + n].id # NoId
     /\ \A n, m \in 1..Len(b[1].calls) :
          b[1].calls[n].id = b[1].calls[m].id => n = m

(* The calls at its head were first declared by message i. *)
HeadOf(b, h, i) ==
  b # <<>> => \A n \in 1..Len(b[1].calls) : FirstDeclarer(h, b[1].calls[n].id) = i

(* m with other calls; s with x before it. *)
Recalled(m, c) == [m EXCEPT !.calls = c]
Led(x, s) == <<x>> \o s
LedBy(b, x, s) ==
  Len(b) = 1 + Len(s) /\ b[1] = x /\ \A n \in 1..Len(s) : b[1 + n] = s[n]

LEMMA RecalledIsMessage ==
  ASSUME NEW T, NEW m \in MessageOver(T), NEW c \in Seq(CallOver(T))
  PROVE  /\ Recalled(m, c) \in MessageOver(T)
         /\ Recalled(m, c).calls = c /\ Recalled(m, c).role = m.role
BY DEF MessageOver, Recalled

LEMMA LedIsSeq ==
  ASSUME NEW M, NEW x \in M, NEW s \in Seq(M)
  PROVE  Led(x, s) \in Seq(M) /\ LedBy(Led(x, s), x, s)
BY DEF Led, LedBy

LEMMA PlainBlock ==
  ASSUME NEW M, NEW h, NEW i, NEW m \in M, m.role # "tool", m.calls = <<>>
  PROVE  <<m>> \in Seq(M) /\ Block(<<m>>) /\ HeadOf(<<m>>, h, i)
<1>1. <<m>> \in Seq(M) /\ Len(<<m>>) = 1 /\ <<m>>[1] = m /\ Len(m.calls) = 0
  OBVIOUS
<1>2. 1..0 = {} /\ 1 = 1 + 0
  OBVIOUS
<1> QED
  BY <1>1, <1>2 DEF Block, HeadOf

LEMMA PairedAtIsBlock ==
  ASSUME NEW T, NEW h, History(h, T), NEW i \in 1..Len(h)
  PROVE  /\ PairedAt(h, i) \in Seq(MessageOver(T))
         /\ Block(PairedAt(h, i)) /\ HeadOf(PairedAt(h, i), h, i)
<1> DEFINE m == h[i]
           matched == Matched(h, i)
           K == Len(matched)
           M == MessageOver(T)
           answers == [n \in DOMAIN matched |-> h[FirstAnswer(h, matched[n].id)]]
           head == Recalled(m, matched)
<1>1. /\ m \in M /\ Len(h) \in Nat /\ h \in Seq(M)
      /\ \A j \in 1..Len(h) : h[j] \in M /\ (h[j].role = "tool" => h[j].calls = <<>>)
  BY DEF History
<1>2. m.calls \in Seq(CallOver(T)) /\ m.role \in {"user", "assistant", "tool"}
      /\ (m.role = "tool" => m.calls = <<>>)
  BY <1>1 DEF MessageOver
<1>3. /\ matched \in Seq(CallOver(T))
      /\ \A n \in 1..K : /\ FirstAnswer(h, matched[n].id) # 0
                         /\ FirstDeclarer(h, matched[n].id) = i
      /\ \A n, k \in 1..K : matched[n].id = matched[k].id => n = k
  <2> HIDE DEF matched
  <2> USE DEF matched
  <2> QED
    BY <1>1, <1>2, MatchedCalls
<1>4. CASE m.role = "tool"
  <2>1. PairedAt(h, i) = <<>>
    BY <1>2, <1>4 DEF PairedAt
  <2> QED
    BY <2>1 DEF Block, HeadOf
<1>5. CASE m.role # "tool" /\ m.calls = <<>>
  <2>1. PairedAt(h, i) = <<m>>
    BY <1>5 DEF PairedAt
  <2> QED
    BY <1>1, <1>5, <2>1, PlainBlock, Zenon
<1>6. CASE m.role # "tool" /\ m.calls # <<>> /\ matched = <<>>
  <2>1. PairedAt(h, i) = IF m.text THEN <<Recalled(m, <<>>)>> ELSE <<>>
    BY <1>6 DEF PairedAt, Recalled
  <2>2. /\ Recalled(m, <<>>) \in M
        /\ Recalled(m, <<>>).role # "tool" /\ Recalled(m, <<>>).calls = <<>>
    <3>1. <<>> \in Seq(CallOver(T))
      OBVIOUS
    <3>2. m \in MessageOver(T)
      BY <1>1
    <3> HIDE DEF m
    <3>3. /\ Recalled(m, <<>>) \in MessageOver(T)
          /\ Recalled(m, <<>>).calls = <<>> /\ Recalled(m, <<>>).role = m.role
      BY <3>1, <3>2, RecalledIsMessage, Zenon
    <3> QED
      BY <1>6, <3>3
  <2>3. CASE m.text
    BY <2>1, <2>2, <2>3, PlainBlock, Zenon
  <2>4. CASE ~m.text
    BY <2>1, <2>4 DEF Block, HeadOf
  <2> QED
    BY <2>3, <2>4
<1>7. CASE m.role # "tool" /\ m.calls # <<>> /\ matched # <<>>
  <2>1. PairedAt(h, i) = Led(head, answers)
    BY <1>7 DEF PairedAt, Led, Recalled
  <2>2. head \in M /\ head.calls = matched /\ head.role # "tool" /\ head.role = "assistant"
    <3>1. 1 \in 1..K
      BY <1>3, <1>7
    <3>2. FirstDeclarer(h, matched[1].id) = i /\ i # 0
      BY <1>3, <3>1
    <3>3. m.role = "assistant"
      BY <1>1, <3>2, FirstDeclarerDeclares
    <3> QED
      BY <1>1, <1>3, <3>3, RecalledIsMessage
  <2>3. K \in Nat /\ DOMAIN matched = 1..K
    BY <1>3
  <2>4. ASSUME NEW n \in 1..K
        PROVE  /\ answers[n] \in M /\ answers[n].role = "tool" /\ answers[n].calls = <<>>
               /\ answers[n].id = matched[n].id /\ answers[n].id # NoId
    <3>1. answers[n] = h[FirstAnswer(h, matched[n].id)]
      BY <2>3
    <3>2. FirstAnswer(h, matched[n].id) # 0
      BY <1>3
    <3>3. /\ FirstAnswer(h, matched[n].id) \in 1..Len(h)
          /\ matched[n].id # NoId
          /\ h[FirstAnswer(h, matched[n].id)].role = "tool"
          /\ h[FirstAnswer(h, matched[n].id)].id = matched[n].id
      BY <1>1, <3>2, FirstAnswerAnswers, Zenon
    <3> QED
      BY <1>1, <3>1, <3>3, Zenon
  <2>5. answers \in Seq(M) /\ Len(answers) = K
    BY <2>3, <2>4
  <2> HIDE DEF head, answers, matched, M, m
  <2>6. PICK b \in Seq(M) : /\ b = Led(head, answers) /\ Len(b) = 1 + K /\ b[1] = head
                            /\ \A n \in 1..K : b[1 + n] = answers[n]
    <3>1. head \in M /\ answers \in Seq(M)
      BY <2>2, <2>5
    <3>2. Led(head, answers) \in Seq(M) /\ LedBy(Led(head, answers), head, answers)
      BY <3>1, LedIsSeq, Zenon
    <3> QED
      BY <2>5, <3>2 DEF LedBy
  <2>7. Block(b)
    <3>1. b[1].calls = matched /\ Len(b) = 1 + Len(b[1].calls) /\ b[1].role = "assistant"
      BY <2>2, <2>6
    <3>2. ASSUME NEW n \in 1..Len(b[1].calls)
          PROVE  /\ b[1 + n].role = "tool" /\ b[1 + n].calls = <<>>
                 /\ b[1 + n].id = b[1].calls[n].id /\ b[1 + n].id # NoId
      <4>1. n \in 1..K
        BY <3>1
      <4>2. b[1 + n] = answers[n] /\ b[1].calls[n] = matched[n]
        BY <2>6, <3>1, <4>1
      <4> QED
        BY <2>4, <4>1, <4>2
    <3>3. ASSUME NEW n \in 1..Len(b[1].calls), NEW k \in 1..Len(b[1].calls),
                 b[1].calls[n].id = b[1].calls[k].id
          PROVE  n = k
      BY <1>3, <3>1, <3>3, Zenon
    <3> QED
      BY <3>1, <3>2, <3>3, Zenon DEF Block
  <2>8. HeadOf(b, h, i)
    BY <1>3, <2>2, <2>6 DEF HeadOf
  <2> QED
    BY <2>1, <2>6, <2>7, <2>8 DEF M
<1> QED
  BY <1>2, <1>4, <1>5, <1>6, <1>7

-----------------------------------------------------------------------------
(* Blocks laid end to end are paired *)

(* Every message of the flattened sequence is one of a piece. *)
Within(seqs, flat, off, p) ==
  \E i \in 1..Len(seqs) : \E n \in 1..Len(seqs[i]) :
    p = off[i - 1] + n /\ flat[p] = seqs[i][n]

LEMMA Located ==
  ASSUME NEW M, NEW seqs \in Seq(Seq(M)), NEW flat \in Seq(M),
         NEW off \in [0..Len(seqs) -> Nat], Laid(seqs, flat, off),
         NEW p \in 1..Len(flat)
  PROVE  Within(seqs, flat, off, p)
<1> DEFINE N == Len(seqs)
           T == {i \in 0..N : p <= off[i]}
<1>1. N \in Nat /\ p \in Nat /\ p # 0 /\ off[0] = 0 /\ p <= off[N]
  BY DEF Laid
<1>2. N \in T /\ T \in SUBSET Nat
  BY <1>1
<1>3. PICK i \in T : \A m \in T : ~(m < i)
  BY <1>2, LeastNumber
<1>4. /\ i \in 0..N /\ p <= off[i] /\ i # 0 /\ i \in 1..N /\ i - 1 \in 0..N /\ i - 1 < i
      /\ off[i] \in Nat /\ off[i - 1] \in Nat
  <2>1. i \in 0..N /\ p <= off[i]
    BY <1>3
  <2>2. i # 0
    BY <1>1, <2>1
  <2>3. i \in 1..N /\ i - 1 \in 0..N /\ i - 1 < i
    BY <1>1, <2>1, <2>2
  <2> QED
    BY <2>1, <2>2, <2>3
<1>5. off[i - 1] < p
  <2>1. i - 1 \notin T
    BY <1>3, <1>4
  <2> QED
    BY <1>1, <1>4, <2>1
<1>6. /\ off[i] = off[i - 1] + Len(seqs[i])
      /\ \A n \in 1..Len(seqs[i]) : flat[off[i - 1] + n] = seqs[i][n]
  BY <1>4 DEF Laid
<1>7. Len(seqs[i]) \in Nat
  <2>1. seqs[i] \in Seq(M)
    BY <1>4
  <2> QED
    BY <2>1
<1>8. PICK n \in Nat : n = p - off[i - 1]
  BY <1>1, <1>4, <1>5
<1>9. n \in 1..Len(seqs[i]) /\ p = off[i - 1] + n
  BY <1>1, <1>4, <1>5, <1>6, <1>7, <1>8
<1> QED
  BY <1>4, <1>6, <1>9 DEF Within

(* Where a block begins its call is answered. *)
LEMMA HeadIsAnswered ==
  ASSUME NEW T, NEW flat \in Seq(MessageOver(T)), NEW o \in Nat,
         NEW b \in Seq(MessageOver(T)), Block(b), b # <<>>,
         o + Len(b) <= Len(flat), \A n \in 1..Len(b) : flat[o + n] = b[n]
  PROVE  AnsweredInPlace(flat, o + 1)
<1> DEFINE calls == b[1].calls
           K == Len(calls)
<1>1. /\ Len(b) \in Nat /\ Len(flat) \in Nat /\ 1 \in 1..Len(b)
      /\ b[1] \in MessageOver(T)
  BY DEF Block
<1>2. K \in Nat /\ Len(b) = 1 + K /\ DOMAIN calls = 1..K
  <2>1. calls \in Seq(CallOver(T))
    BY <1>1 DEF MessageOver
  <2>2. Len(b) = 1 + K
    BY DEF Block
  <2> HIDE DEF calls
  <2> QED
    BY <2>1, <2>2
<1>3. /\ \A n \in 1..K : /\ b[1 + n].role = "tool"
                         /\ b[1 + n].id = calls[n].id /\ b[1 + n].id # NoId
      /\ \A n, m \in 1..K : calls[n].id = calls[m].id => n = m
  BY DEF Block
<1>4. flat[o + 1] = b[1]
  BY <1>1
<1> HIDE DEF calls, K
<1>5. \A j \in ((o + 1) + 1)..((o + 1) + K) :
        /\ j - (o + 1) \in 1..K /\ j = o + (1 + (j - (o + 1)))
        /\ 1 + (j - (o + 1)) \in 1..Len(b)
  BY <1>1, <1>2
<1>6. \A n \in 1..K : /\ (o + 1) + n \in ((o + 1) + 1)..((o + 1) + K)
                      /\ (o + 1) + n = o + (1 + n) /\ 1 + n \in 1..Len(b)
  BY <1>1, <1>2
<1>7. \A j \in ((o + 1) + 1)..((o + 1) + K) :
        /\ flat[j].role = "tool" /\ flat[j].id = calls[j - (o + 1)].id
        /\ flat[j].id # NoId
  BY <1>3, <1>5
<1>8. \A n \in 1..K : flat[(o + 1) + n].id = calls[n].id
  <2> SUFFICES ASSUME NEW n \in 1..K PROVE flat[(o + 1) + n].id = calls[n].id
    OBVIOUS
  <2>1. (o + 1) + n = o + (1 + n) /\ 1 + n \in 1..Len(b)
    BY <1>6
  <2>2. flat[o + (1 + n)] = b[1 + n]
    BY <2>1, Zenon
  <2> QED
    BY <1>3, <2>1, <2>2, Zenon
<1>9. IdsOf(calls) = {calls[n].id : n \in 1..K}
  BY <1>2 DEF IdsOf
<1>10. {flat[j].id : j \in ((o + 1) + 1)..((o + 1) + K)} = IdsOf(calls) \ {NoId}
  <2>1. ASSUME NEW x \in {flat[j].id : j \in ((o + 1) + 1)..((o + 1) + K)}
        PROVE  x \in IdsOf(calls) \ {NoId}
    BY <1>5, <1>7, <1>9
  <2>2. ASSUME NEW x \in IdsOf(calls) \ {NoId}
        PROVE  x \in {flat[j].id : j \in ((o + 1) + 1)..((o + 1) + K)}
    BY <1>6, <1>8, <1>9
  <2> QED
    BY <2>1, <2>2
<1>11. Cardinality(IdsOf(calls)) = K
  <2> DEFINE f == [n \in 1..K |-> calls[n].id]
  <2>1. AllDiffer(f, K)
    BY <1>3 DEF AllDiffer
  <2>2. IdsOf(calls) = Values(f, K)
    BY <1>9 DEF Values
  <2> HIDE DEF f
  <2>3. Cardinality(Values(f, K)) = K
    BY <1>2, <2>1, DistinctCount
  <2> QED
    BY <2>2, <2>3, Zenon
<1>12. (o + 1) + K <= Len(flat)
  BY <1>1, <1>2
<1>13. flat[o + 1].calls = calls /\ Len(flat[o + 1].calls) = K
  BY <1>4 DEF calls, K
<1> QED
  BY <1>7, <1>10, <1>11, <1>12, <1>13, Zenon DEF AnsweredInPlace

(* The pieces that PairToolCalls lays end to end. *)
Pieces(h) == [i \in DOMAIN h |-> PairedAt(h, i)]

LEMMA PiecesAreBlocks ==
  ASSUME NEW T, NEW h, History(h, T)
  PROVE  /\ Pieces(h) \in Seq(Seq(MessageOver(T))) /\ Len(Pieces(h)) = Len(h)
         /\ Len(h) \in Nat /\ DOMAIN h = 1..Len(h)
         /\ \A i \in 1..Len(h) : /\ Pieces(h)[i] = PairedAt(h, i)
                                 /\ Pieces(h)[i] \in Seq(MessageOver(T))
                                 /\ Block(Pieces(h)[i]) /\ HeadOf(Pieces(h)[i], h, i)
<1>1. Len(h) \in Nat /\ DOMAIN h = 1..Len(h)
  BY DEF History
<1>2. \A i \in 1..Len(h) :
        /\ PairedAt(h, i) \in Seq(MessageOver(T))
        /\ Block(PairedAt(h, i)) /\ HeadOf(PairedAt(h, i), h, i)
  BY PairedAtIsBlock
<1>3. Pieces(h) = [i \in 1..Len(h) |-> PairedAt(h, i)]
  BY <1>1 DEF Pieces
<1>4. Pieces(h) \in Seq(Seq(MessageOver(T))) /\ Len(Pieces(h)) = Len(h)
  BY <1>1, <1>2, <1>3
<1> QED
  BY <1>1, <1>2, <1>3, <1>4

(* Only the model's replies have calls. *)
CallsAreReplies(h) == \A i \in 1..Len(h) : h[i].calls # <<>> => h[i].role = "assistant"

(* What PairToolCalls returns is a history, and paired: whatever was cut    *)
(* from the history, doubled or lost, every call is followed at once by its *)
(* answer and there is no other answer.                                     *)
THEOREM PairingHolds ==
  ASSUME NEW T, NEW h, History(h, T)
  PROVE  /\ History(PairToolCalls(h), T) /\ Paired(PairToolCalls(h))
         /\ CallsAreReplies(PairToolCalls(h))
<1> DEFINE M == MessageOver(T)
           P == Pieces(h)
           N == Len(h)
           flat == PairToolCalls(h)
<1>1. /\ P \in Seq(Seq(M)) /\ Len(P) = N /\ N \in Nat
      /\ \A i \in 1..N : P[i] \in Seq(M) /\ Block(P[i]) /\ HeadOf(P[i], h, i)
  BY PiecesAreBlocks
<1>2. flat \in Seq(M) /\ \E off \in [0..N -> Nat] : Laid(P, flat, off)
  <2>1. flat = FlattenSeq(P)
    BY DEF PairToolCalls, Pieces
  <2> HIDE DEF flat, P, M
  <2> QED
    BY <1>1, <2>1, FlattenIsLaid
<1>3. PICK off \in [0..N -> Nat] : Laid(P, flat, off)
  BY <1>2
<1> HIDE DEF flat, P, M, N
<1>4. /\ Len(flat) \in Nat /\ DOMAIN flat = 1..Len(flat)
      /\ \A i \in 1..N : /\ off[i - 1] \in Nat /\ Len(P[i]) \in Nat
                         /\ off[i - 1] + Len(P[i]) <= Len(flat)
                         /\ \A n \in 1..Len(P[i]) : flat[off[i - 1] + n] = P[i][n]
  <2>1. Len(flat) \in Nat /\ DOMAIN flat = 1..Len(flat)
    BY <1>2
  <2>2. ASSUME NEW i \in 1..N
        PROVE  /\ off[i - 1] \in Nat /\ Len(P[i]) \in Nat
               /\ off[i - 1] + Len(P[i]) <= Len(flat)
               /\ \A n \in 1..Len(P[i]) : flat[off[i - 1] + n] = P[i][n]
    <3>1. i - 1 \in 0..N
      BY <1>1
    <3>2. P[i] \in Seq(M)
      BY <1>1
    <3> QED
      BY <1>1, <1>3, <3>1, <3>2 DEF Laid
  <2> QED
    BY <2>1, <2>2
<1>5. ASSUME NEW p \in 1..Len(flat)
      PROVE  \E i \in 1..N : \E n \in 1..Len(P[i]) : p = off[i - 1] + n /\ flat[p] = P[i][n]
  <2>1. /\ P \in Seq(Seq(M)) /\ flat \in Seq(M) /\ Laid(P, flat, off)
        /\ off \in [0..Len(P) -> Nat]
    BY <1>1, <1>2, <1>3
  <2>2. Within(P, flat, off, p)
    BY <2>1, Located
  <2> QED
    BY <1>1, <2>2, Zenon DEF Within
<1>6. ASSUME NEW i \in 1..N, NEW n \in 1..Len(P[i])
      PROVE  /\ n # 1 => /\ P[i][n].role = "tool" /\ P[i][n].calls = <<>>
                         /\ n - 1 \in 1..Len(P[i][1].calls)
                         /\ P[i][n].id = P[i][1].calls[n - 1].id
             /\ P[i][1].role # "tool" /\ P[i] # <<>>
  <2>1. /\ Len(P[i]) \in Nat /\ n \in Nat /\ P[i] # <<>> /\ 1 \in 1..Len(P[i])
        /\ Block(P[i]) /\ P[i] \in Seq(M)
    BY <1>1, <1>4
  <2>2. P[i][1].role # "tool" /\ Len(P[i]) = 1 + Len(P[i][1].calls)
    BY <2>1 DEF Block
  <2>3. CASE n # 1
    <3>0. P[i][1] \in M
      BY <2>1
    <3>1. P[i][1].calls \in Seq(CallOver(T))
      BY <3>0 DEF M, MessageOver
    <3>2. Len(P[i][1].calls) \in Nat
      BY <3>1
    <3>3. PICK k \in 1..Len(P[i][1].calls) : k = n - 1 /\ n = 1 + k
      BY <2>1, <2>2, <2>3, <3>2
    <3>4. /\ P[i][1 + k].role = "tool" /\ P[i][1 + k].calls = <<>>
          /\ P[i][1 + k].id = P[i][1].calls[k].id
      BY <2>1 DEF Block
    <3> QED
      BY <2>1, <2>2, <3>3, <3>4
  <2> QED
    BY <2>1, <2>2, <2>3
<1>7. History(flat, T)
  <2>1. ASSUME NEW p \in 1..Len(flat), flat[p].role = "tool"
        PROVE  flat[p].calls = <<>>
    <3>1. PICK i \in 1..N : \E n \in 1..Len(P[i]) : p = off[i - 1] + n /\ flat[p] = P[i][n]
      BY <1>5
    <3>2. PICK n \in 1..Len(P[i]) : p = off[i - 1] + n /\ flat[p] = P[i][n]
      BY <3>1
    <3> QED
      BY <1>6, <2>1, <3>2
  <2> QED
    BY <1>2, <2>1 DEF History, M
<1>8. ASSUME NEW p \in 1..Len(flat), flat[p].calls # <<>>
      PROVE  \E i \in 1..N : /\ p = off[i - 1] + 1 /\ flat[p] = P[i][1] /\ P[i] # <<>>
                             /\ 1 \in 1..Len(P[i])
  <2>1. PICK i \in 1..N : \E n \in 1..Len(P[i]) : p = off[i - 1] + n /\ flat[p] = P[i][n]
    BY <1>5
  <2>2. PICK n \in 1..Len(P[i]) : p = off[i - 1] + n /\ flat[p] = P[i][n]
    BY <2>1
  <2>3. n = 1 /\ P[i] # <<>>
    BY <1>6, <1>8, <2>2
  <2> QED
    BY <2>2, <2>3
<1>9. ASSUME NEW p \in 1..Len(flat), flat[p].calls # <<>>
      PROVE  AnsweredInPlace(flat, p)
  <2>1. PICK i \in 1..N : p = off[i - 1] + 1 /\ flat[p] = P[i][1] /\ P[i] # <<>>
    BY <1>8, <1>9
  <2>2. /\ off[i - 1] \in Nat /\ P[i] \in Seq(M) /\ Block(P[i]) /\ flat \in Seq(M)
        /\ off[i - 1] + Len(P[i]) <= Len(flat)
        /\ \A n \in 1..Len(P[i]) : flat[off[i - 1] + n] = P[i][n]
    BY <1>1, <1>2, <1>4
  <2>3. AnsweredInPlace(flat, off[i - 1] + 1)
    BY <2>1, <2>2, HeadIsAnswered DEF M
  <2> QED
    BY <2>1, <2>3
<1>10. ASSUME NEW p \in 1..Len(flat), flat[p].role = "tool"
       PROVE  Expected(flat, p)
  <2>1. PICK i \in 1..N : \E n \in 1..Len(P[i]) : p = off[i - 1] + n /\ flat[p] = P[i][n]
    BY <1>5
  <2>2. PICK n \in 1..Len(P[i]) : p = off[i - 1] + n /\ flat[p] = P[i][n]
    BY <2>1
  <2>3. n # 1
    BY <1>6, <1>10, <2>2
  <2>4. PICK q \in Nat : q = off[i - 1] + 1
    <3>1. off[i - 1] \in Nat
      BY <1>4
    <3>2. off[i - 1] + 1 \in Nat
      BY <3>1
    <3> QED
      BY <3>2, Zenon
  <2>5. flat[q] = P[i][1] /\ q \in 1..(p - 1) /\ p - q = n - 1
    <3>1. off[i - 1] \in Nat /\ Len(P[i]) \in Nat
      BY <1>4
    <3>2. 1 \in 1..Len(P[i]) /\ n \in Nat /\ n > 1
      BY <2>3, <3>1
    <3>3. flat[q] = P[i][1]
      BY <1>4, <2>4, <3>2
    <3>4. \A o \in Nat : q = o + 1 /\ p = o + n => q \in 1..(p - 1) /\ p - q = n - 1
      BY <3>2
    <3> QED
      BY <2>2, <2>4, <3>1, <3>3, <3>4, Zenon
  <2>6. n - 1 \in 1..Len(P[i][1].calls) /\ P[i][n].id = P[i][1].calls[n - 1].id
    BY <1>6, <2>3
  <2>7. P[i][1].calls \in Seq(CallOver(T))
    <3>1. 1 \in 1..Len(P[i]) /\ P[i] \in Seq(M)
      BY <1>1, <1>4
    <3>2. P[i][1] \in M
      BY <3>1
    <3> QED
      BY <3>2 DEF M, MessageOver
  <2>8. p - q <= Len(flat[q].calls) /\ flat[p].id \in IdsOf(flat[q].calls)
    <3>1. n - 1 <= Len(P[i][1].calls) /\ n - 1 \in DOMAIN P[i][1].calls
      BY <2>6, <2>7
    <3> QED
      BY <2>2, <2>5, <2>6, <3>1 DEF IdsOf
  <2> QED
    BY <2>5, <2>8 DEF Expected
<1>11. ASSUME NEW p \in 1..Len(flat), NEW q \in 1..Len(flat), p # q
       PROVE  IdsOf(flat[p].calls) \cap IdsOf(flat[q].calls) = {}
  <2> SUFFICES ASSUME NEW x \in IdsOf(flat[p].calls), x \in IdsOf(flat[q].calls)
               PROVE  FALSE
    OBVIOUS
  <2>1. flat[p].calls # <<>> /\ flat[q].calls # <<>>
    BY DEF IdsOf
  <2>2. PICK i \in 1..N : /\ p = off[i - 1] + 1 /\ flat[p] = P[i][1] /\ P[i] # <<>>
    BY <1>8, <2>1
  <2>3. PICK j \in 1..N : /\ q = off[j - 1] + 1 /\ flat[q] = P[j][1] /\ P[j] # <<>>
    BY <1>8, <2>1
  <2>4. i # j
    BY <1>11, <2>2, <2>3
  <2>5. ASSUME NEW k \in 1..N, P[k] # <<>>, x \in IdsOf(P[k][1].calls)
        PROVE  FirstDeclarer(h, x) = k
    <3>1. HeadOf(P[k], h, k) /\ P[k] \in Seq(M) /\ P[k] # <<>>
      BY <1>1, <2>5
    <3>2. P[k][1] \in M
      BY <3>1
    <3>3. P[k][1].calls \in Seq(CallOver(T))
      BY <3>2 DEF M, MessageOver
    <3>4. PICK n \in 1..Len(P[k][1].calls) : x = P[k][1].calls[n].id
      BY <2>5, <3>3 DEF IdsOf
    <3> QED
      BY <3>1, <3>4 DEF HeadOf
  <2> QED
    BY <2>2, <2>3, <2>4, <2>5
<1>12. Paired(flat)
  BY <1>4, <1>9, <1>10, <1>11 DEF Paired
<1>13. CallsAreReplies(flat)
  <2> SUFFICES ASSUME NEW p \in 1..Len(flat), flat[p].calls # <<>>
               PROVE  flat[p].role = "assistant"
    BY DEF CallsAreReplies
  <2>1. PICK i \in 1..N : p = off[i - 1] + 1 /\ flat[p] = P[i][1] /\ P[i] # <<>>
    BY <1>8
  <2> QED
    BY <1>1, <2>1 DEF Block
<1> QED
  BY <1>7, <1>12, <1>13 DEF flat

-----------------------------------------------------------------------------
(* What pairing keeps *)

LEMMA AnAnswerIsFound ==
  ASSUME NEW h, Len(h) \in Nat, NEW id, NEW j \in 1..Len(h), Answers(h[j], id)
  PROVE  FirstAnswer(h, id) # 0
<1> DEFINE I == {i \in 1..Len(h) : Answers(h[i], id)}
<1>1. I # {} /\ I \in SUBSET Nat /\ 0 \notin I
  OBVIOUS
<1>2. FirstAnswer(h, id) = Min(I)
  BY <1>1 DEF FirstAnswer, SelectInSeq
<1>3. Min(I) \in I
  BY <1>1, MinIsLeast
<1> QED
  BY <1>1, <1>2, <1>3

LEMMA ADeclarerIsFound ==
  ASSUME NEW h, Len(h) \in Nat, NEW id, NEW j \in 1..Len(h), Declares(h[j], id)
  PROVE  FirstDeclarer(h, id) # 0
<1> DEFINE I == {i \in 1..Len(h) : Declares(h[i], id)}
<1>1. I # {} /\ I \in SUBSET Nat /\ 0 \notin I
  OBVIOUS
<1>2. FirstDeclarer(h, id) = Min(I)
  BY <1>1 DEF FirstDeclarer, SelectInSeq
<1>3. Min(I) \in I
  BY <1>1, MinIsLeast
<1> QED
  BY <1>1, <1>2, <1>3

(* A call that is answered is matched where it was first declared. *)
LEMMA AnsweredIsMatched ==
  ASSUME NEW h, NEW i, NEW C, NEW id, Len(h) \in Nat, h[i].calls \in Seq(C),
         id # NoId, id \in IdsOf(h[i].calls),
         FirstDeclarer(h, id) = i, FirstAnswer(h, id) # 0
  PROVE  \E n \in 1..Len(Matched(h, i)) : Matched(h, i)[n].id = id
<1> DEFINE calls == h[i].calls
           p == Matched(h, i)
           Those == {k \in DOMAIN calls : calls[k].id = id}
<1>1. Len(calls) \in Nat /\ DOMAIN calls = 1..Len(calls)
  OBVIOUS
<1>2. PickedFrom(p, calls, Places(h, i))
  BY MatchedArePlaces
<1>3. PICK k0 \in Those : \A m \in Those : ~(m < k0)
  <2>1. Those # {}
    BY DEF IdsOf
  <2>2. Those \in SUBSET Nat
    BY <1>1
  <2> HIDE DEF Those
  <2> QED
    BY <2>1, <2>2, LeastNumber
<1>4. k0 \in Places(h, i) /\ calls[k0].id = id
  <2>1. k0 \in 1..Len(calls) /\ calls[k0].id = id
    BY <1>1, <1>3
  <2>2. ASSUME NEW l \in 1..(k0 - 1) PROVE calls[l].id # calls[k0].id
    <3>1. l \in 1..Len(calls) /\ l < k0
      BY <1>1, <2>1
    <3> QED
      BY <1>1, <1>3, <2>1, <3>1
  <2> QED
    BY <1>1, <2>1, <2>2 DEF Places
<1> HIDE DEF p, calls, Those
<1>5. PICK g \in [1..Len(p) -> Places(h, i)] :
        /\ \A n \in 1..Len(p) : p[n] = calls[g[n]]
        /\ \A k \in Places(h, i) : \E n \in 1..Len(p) : g[n] = k
  BY <1>2, Zenon DEF PickedFrom
<1>6. PICK n \in 1..Len(p) : g[n] = k0
  BY <1>4, <1>5
<1>7. p[n].id = id
  BY <1>4, <1>5, <1>6
<1> QED
  BY <1>6, <1>7 DEF p

(* No answer whose call is there goes missing. *)
LEMMA AnswersSurvive ==
  ASSUME NEW T, NEW h, History(h, T), NEW id,
         NEW i0 \in 1..Len(h), Declares(h[i0], id),
         NEW j0 \in 1..Len(h), Answers(h[j0], id)
  PROVE  \E p \in 1..Len(PairToolCalls(h)) : Answers(PairToolCalls(h)[p], id)
<1> DEFINE i == FirstDeclarer(h, id)
           M == MessageOver(T)
           P == Pieces(h)
           flat == PairToolCalls(h)
           b == PairedAt(h, i)
<1>1. Len(h) \in Nat /\ \A j \in 1..Len(h) : h[j] \in M
  BY DEF History
<1>2. FirstAnswer(h, id) # 0 /\ i # 0
  BY <1>1, AnAnswerIsFound, ADeclarerIsFound
<1>3. i \in 1..Len(h) /\ id # NoId /\ h[i].role = "assistant" /\ id \in IdsOf(h[i].calls)
  BY <1>1, <1>2, FirstDeclarerDeclares
<1>4. h[i].calls \in Seq(CallOver(T))
  BY <1>1, <1>3 DEF MessageOver
<1>5. PICK n \in 1..Len(Matched(h, i)) : Matched(h, i)[n].id = id
  <2> HIDE DEF i
  <2> QED
    BY <1>1, <1>2, <1>3, <1>4, AnsweredIsMatched DEF i
<1>6. Matched(h, i) # <<>> /\ h[i].calls # <<>>
  <2>1. h[i].calls # <<>>
    BY <1>3 DEF IdsOf
  <2> QED
    BY <1>5, <2>1
<1>7. b \in Seq(M) /\ Block(b)
  BY <1>3, PairedAtIsBlock
<1>8. b # <<>> /\ b[1].calls = Matched(h, i)
  <2> DEFINE answers == [k \in DOMAIN Matched(h, i) |-> h[FirstAnswer(h, Matched(h, i)[k].id)]]
  <2>1. b = Led(Recalled(h[i], Matched(h, i)), answers)
    BY <1>3, <1>6 DEF PairedAt, Led, Recalled
  <2>2. Matched(h, i) \in Seq(CallOver(T))
    BY <1>1, <1>4, MatchedCalls
  <2>3. DOMAIN Matched(h, i) = 1..Len(Matched(h, i)) /\ Len(Matched(h, i)) \in Nat
    BY <2>2
  <2>4. answers \in Seq({answers[k] : k \in 1..Len(Matched(h, i))})
    BY <2>3
  <2> HIDE DEF answers, b, i
  <2>5. PICK x : x = Recalled(h[i], Matched(h, i))
    OBVIOUS
  <2>6. x.calls = Matched(h, i)
    BY <1>1, <1>3, <2>2, <2>5, RecalledIsMessage
  <2>7. PICK Z : answers \in Seq(Z) /\ x \in Z
    <3> DEFINE Y == {answers[k] : k \in 1..Len(Matched(h, i))} \cup {x}
    <3>1. answers \in Seq(Y) /\ x \in Y
      BY <2>4
    <3> QED
      BY <3>1
  <2>8. Led(x, answers) \in Seq(Z) /\ LedBy(Led(x, answers), x, answers)
    BY <2>7, LedIsSeq
  <2>9. Len(answers) \in Nat
    BY <2>7
  <2> QED
    BY <2>1, <2>5, <2>6, <2>8, <2>9 DEF LedBy
<1> HIDE DEF b
<1>9. 1 + n \in 1..Len(b) /\ b[1 + n].role = "tool" /\ b[1 + n].id = id
  <2>1. b[1 + n].role = "tool" /\ b[1 + n].id = id /\ Len(b) = 1 + Len(Matched(h, i))
    BY <1>5, <1>7, <1>8 DEF Block
  <2>2. Len(b) \in Nat
    BY <1>7
  <2> QED
    BY <1>5, <2>1, <2>2
<1>10. /\ P \in Seq(Seq(M)) /\ Len(P) = Len(h) /\ P[i] = b
       /\ flat = FlattenSeq(P)
  BY <1>3, PiecesAreBlocks DEF PairToolCalls, Pieces, b
<1> HIDE DEF P, flat, M, i
<1>11. flat \in Seq(M) /\ \E off \in [0..Len(P) -> Nat] : Laid(P, flat, off)
  BY <1>10, FlattenIsLaid
<1>12. PICK off \in [0..Len(P) -> Nat] : Laid(P, flat, off)
  BY <1>11
<1>13. PICK k : k = 1 + n /\ k \in 1..Len(P[i])
  BY <1>9, <1>10
<1>14. /\ i \in 1..Len(P) /\ off[i - 1] \in Nat /\ off[i] = off[i - 1] + Len(P[i])
       /\ off[i] <= Len(flat) /\ flat[off[i - 1] + k] = P[i][k] /\ Len(P[i]) \in Nat
  <2>1. i \in 1..Len(P) /\ i - 1 \in 0..Len(P)
    BY <1>1, <1>3, <1>10
  <2>2. Len(P[i]) \in Nat
    BY <1>7, <1>10
  <2> QED
    BY <1>12, <1>13, <2>1, <2>2 DEF Laid
<1>15. off[i - 1] + k \in 1..Len(flat)
  <2>1. Len(flat) \in Nat
    BY <1>11
  <2>2. \A o, c, f \in Nat : k \in 1..c /\ o + c <= f => o + k \in 1..f
    OBVIOUS
  <2>3. off[i - 1] + Len(P[i]) <= Len(flat)
    BY <1>14, Zenon
  <2> QED
    BY <1>13, <1>14, <2>1, <2>2, <2>3, Zenon
<1>16. Answers(flat[off[i - 1] + k], id)
  BY <1>3, <1>9, <1>10, <1>13, <1>14 DEF Answers
<1> QED
  BY <1>15, <1>16 DEF flat

(* Every answer has a reply that declares its call. *)
Declared(h) ==
  \A j \in 1..Len(h) : h[j].role = "tool" => \E i \in 1..Len(h) : Declares(h[i], h[j].id)

LEMMA PairedIsDeclared ==
  ASSUME NEW T, NEW h, History(h, T), Paired(h), CallsAreReplies(h)
  PROVE  Declared(h)
<1> SUFFICES ASSUME NEW j \in 1..Len(h), h[j].role = "tool"
             PROVE  \E i \in 1..Len(h) : Declares(h[i], h[j].id)
  BY DEF Declared
<1>1. Len(h) \in Nat /\ DOMAIN h = 1..Len(h) /\ \A i \in 1..Len(h) : h[i] \in MessageOver(T)
  BY DEF History
<1>2. PICK i \in 1..(j - 1) : j - i <= Len(h[i].calls) /\ h[j].id \in IdsOf(h[i].calls)
  BY <1>1 DEF Paired, Expected
<1>3. i \in 1..Len(h) /\ h[i].calls # <<>> /\ i \in Nat /\ j \in Nat /\ i < j
  <2>1. i \in 1..Len(h) /\ i \in Nat /\ j \in Nat /\ i < j
    BY <1>1
  <2>2. h[i].calls # <<>>
    BY <1>2 DEF IdsOf
  <2> QED
    BY <2>1, <2>2
<1>4. h[i].calls \in Seq(CallOver(T))
  BY <1>1, <1>3 DEF MessageOver
<1>5. PICK n \in Nat : n = Len(h[i].calls)
  BY <1>4
<1>6. AnsweredInPlace(h, i)
  BY <1>1, <1>3 DEF Paired
<1>7. j \in (i + 1)..(i + n)
  BY <1>2, <1>3, <1>5
<1>8. {h[k].id : k \in (i + 1)..(i + n)} = IdsOf(h[i].calls) \ {NoId}
  BY <1>5, <1>6, Zenon DEF AnsweredInPlace
<1>9. h[j].id # NoId
  BY <1>7, <1>8
<1>10. h[i].role = "assistant"
  BY <1>3 DEF CallsAreReplies
<1> QED
  BY <1>2, <1>3, <1>9, <1>10 DEF Declares

(* g is h and then m. *)
Then(g, h, m) ==
  /\ Len(g) = Len(h) + 1 /\ g[Len(h) + 1] = m
  /\ \A i \in 1..Len(h) : g[i] = h[i]

LEMMA AppendIsThen ==
  ASSUME NEW M, NEW h \in Seq(M), NEW m \in M
  PROVE  /\ Append(h, m) \in Seq(M) /\ Then(Append(h, m), h, m)
         /\ h \o <<m>> \in Seq(M) /\ Then(h \o <<m>>, h, m)
<1>1. Append(h, m) \in Seq(M) /\ Then(Append(h, m), h, m)
  BY DEF Then
<1>2. h \o <<m>> = Append(h, m)
  OBVIOUS
<1> QED
  BY <1>1, <1>2

(* A message without calls that answers none may follow. *)
LEMMA PairedGrows ==
  ASSUME NEW T, NEW h \in Seq(MessageOver(T)), NEW g, NEW m, Paired(h), Then(g, h, m),
         g \in Seq(MessageOver(T)), m.role # "tool", m.calls = <<>>
  PROVE  Paired(g)
<1> DEFINE N == Len(h)
<1>1. /\ N \in Nat /\ Len(g) = N + 1 /\ g[N + 1] = m /\ \A i \in 1..N : g[i] = h[i]
      /\ DOMAIN g = 1..(N + 1) /\ DOMAIN h = 1..N
      /\ \A i \in 1..N : h[i] \in MessageOver(T)
  BY DEF Then
<1>2. \A i \in 1..(N + 1) : i = N + 1 \/ i \in 1..N
  BY <1>1
<1> HIDE DEF N
<1>3. ASSUME NEW i \in 1..N, h[i].calls # <<>> PROVE AnsweredInPlace(g, i)
  <2>1. AnsweredInPlace(h, i)
    BY <1>1, <1>3 DEF Paired
  <2>2. h[i].calls \in Seq(CallOver(T))
    BY <1>1 DEF MessageOver
  <2>3. PICK n \in Nat : n = Len(h[i].calls)
    <3>1. Len(h[i].calls) \in Nat
      BY <2>2
    <3> QED
      BY <3>1, Zenon
  <2>4. /\ i + n <= N
        /\ \A j \in (i + 1)..(i + n) : h[j].role = "tool"
        /\ {h[j].id : j \in (i + 1)..(i + n)} = IdsOf(h[i].calls) \ {NoId}
        /\ Cardinality(IdsOf(h[i].calls)) = n
    BY <2>1, <2>3, Zenon DEF AnsweredInPlace, N
  <2>5. \A j \in (i + 1)..(i + n) : j \in 1..N
    BY <1>1, <2>4
  <2>6. g[i] = h[i] /\ \A j \in (i + 1)..(i + n) : g[j] = h[j]
    BY <1>1, <2>5
  <2>7. {g[j].id : j \in (i + 1)..(i + n)} = {h[j].id : j \in (i + 1)..(i + n)}
    BY <2>6
  <2>8. i + n <= Len(g)
    BY <1>1, <2>4
  <2>9. \A j \in (i + 1)..(i + n) : g[j].role = "tool"
    BY <2>4, <2>6
  <2>10. g[i].calls = h[i].calls /\ n = Len(g[i].calls)
    BY <2>3, <2>6
  <2> QED
    BY <2>4, <2>7, <2>8, <2>9, <2>10, Zenon DEF AnsweredInPlace
<1>4. ASSUME NEW j \in 1..N, h[j].role = "tool" PROVE Expected(g, j)
  <2>1. PICK i \in 1..(j - 1) : j - i <= Len(h[i].calls) /\ h[j].id \in IdsOf(h[i].calls)
    BY <1>1, <1>4 DEF Paired, Expected
  <2>2. i \in 1..N
    BY <1>1
  <2>3. g[i] = h[i] /\ g[j] = h[j]
    BY <1>1, <2>2
  <2> QED
    BY <2>1, <2>3 DEF Expected
<1>5. IdsOf(m.calls) = {}
  BY DEF IdsOf
<1>6. ASSUME NEW i \in 1..(N + 1), NEW j \in 1..(N + 1), i # j
      PROVE  IdsOf(g[i].calls) \cap IdsOf(g[j].calls) = {}
  <2>1. CASE i = N + 1 \/ j = N + 1
    BY <1>1, <1>5, <2>1
  <2>2. CASE i # N + 1 /\ j # N + 1
    <3>1. i \in 1..N /\ j \in 1..N
      BY <1>2, <2>2
    <3>2. g[i] = h[i] /\ g[j] = h[j]
      BY <1>1, <3>1
    <3>3. IdsOf(h[i].calls) \cap IdsOf(h[j].calls) = {}
      BY <1>1, <1>6, <3>1 DEF Paired
    <3> QED
      BY <3>2, <3>3
  <2> QED
    BY <2>1, <2>2
<1>7. \A i \in 1..(N + 1) : g[i].calls # <<>> => i \in 1..N /\ g[i] = h[i]
  BY <1>1, <1>2
<1>8. \A i \in 1..(N + 1) : g[i].role = "tool" => i \in 1..N /\ g[i] = h[i]
  BY <1>1, <1>2
<1>9. \A i \in DOMAIN g : g[i].calls # <<>> => AnsweredInPlace(g, i)
  BY <1>1, <1>3, <1>7
<1>10. \A j \in DOMAIN g : g[j].role = "tool" => Expected(g, j)
  BY <1>1, <1>4, <1>8
<1>11. \A i, j \in DOMAIN g : i # j => IdsOf(g[i].calls) \cap IdsOf(g[j].calls) = {}
  BY <1>1, <1>6
<1> QED
  BY <1>9, <1>10, <1>11, Zenon DEF Paired

-----------------------------------------------------------------------------
(* What a provider makes of a request *)

Kept(m, kept, declared) ==
  {m.calls[k] : k \in {l \in DOMAIN m.calls :
                         m.calls[l].tool \in declared /\ m.calls[l].id \in kept}}

(* o is what becomes of m: its calls that stay structural, and a result    *)
(* that stays or turns into a note.                                        *)
Becomes(o, m, kept, declared) ==
  /\ {o.calls[k] : k \in DOMAIN o.calls} = Kept(m, kept, declared)
  /\ o.role = "tool" <=> m.role = "tool" /\ m.id \in kept
  /\ m.role = "tool" /\ m.id \in kept => o.id = m.id
  /\ m.role = "tool" /\ m.id \notin kept => Note("result", m.id) \in o.notes

LEMMA MessageBecomes ==
  ASSUME NEW T, NEW m \in MessageOver(T), NEW kept, NEW declared,
         m.role = "tool" => m.calls = <<>>, m.calls # <<>> => m.role = "assistant"
  PROVE  Becomes(OutboundAt(m, kept, declared), m, kept, declared)
<1> DEFINE o == OutboundAt(m, kept, declared)
           keep == {k \in DOMAIN m.calls :
                      m.calls[k].tool \in declared /\ m.calls[k].id \in kept}
<1>1. /\ m.calls \in Seq(CallOver(T)) /\ DOMAIN m.calls = 1..Len(m.calls)
      /\ m.role \in {"user", "assistant", "tool"}
      /\ DOMAIN m = {"role", "text", "calls", "id", "notes"}
  BY DEF MessageOver
<1>2. ASSUME m.calls = <<>> PROVE Kept(m, kept, declared) = {}
  BY <1>2 DEF Kept
<1>3. CASE m.role = "user"
  <2>1. o = m
    BY <1>3 DEF OutboundAt
  <2>2. m.calls = <<>>
    BY <1>3
  <2>3. {m.calls[k] : k \in DOMAIN m.calls} = {}
    BY <2>2
  <2> HIDE DEF o
  <2> QED
    BY <1>2, <1>3, <2>1, <2>2, <2>3 DEF Becomes, o
<1>4. CASE m.role = "assistant"
  <2>1. o.calls = Picked(m.calls, keep) /\ o.role = "assistant"
    <3> DEFINE Structural(c) == c.tool \in declared /\ c.id \in kept
               dropped == {c \in AllCalls(<<m>>) : ~Structural(c)}
    <3>1. o = [m EXCEPT !.calls = Picked(m.calls, keep),
                        !.text = @ \/ dropped # {},
                        !.notes = @ \cup {Note("call", c.id) : c \in dropped}]
      BY <1>4, Zenon DEF OutboundAt
    <3> HIDE DEF o, dropped, keep
    <3> QED
      BY <1>1, <1>4, <3>1
  <2> DEFINE p == Picked(m.calls, keep)
  <2>2. p \in Seq(CallOver(T)) /\ DOMAIN p = 1..Len(p) /\ PickedFrom(p, m.calls, keep)
    <3>1. keep \in SUBSET (1..Len(m.calls))
      BY <1>1
    <3>2. p \in Seq(CallOver(T)) /\ PickedFrom(p, m.calls, keep)
      <4> HIDE DEF keep
      <4> QED
        BY <1>1, <3>1, PickedIsKept
    <3> HIDE DEF p
    <3> QED
      BY <3>2
  <2> HIDE DEF p, keep, o
  <2>3. PICK g \in [1..Len(p) -> keep] :
          /\ \A n \in 1..Len(p) : p[n] = m.calls[g[n]]
          /\ \A k \in keep : \E n \in 1..Len(p) : g[n] = k
    BY <2>2, Zenon DEF PickedFrom
  <2>4. {p[n] : n \in 1..Len(p)} = {m.calls[k] : k \in keep}
    <3>1. \A n \in 1..Len(p) : p[n] \in {m.calls[k] : k \in keep}
      BY <2>3
    <3>2. \A k \in keep : m.calls[k] \in {p[n] : n \in 1..Len(p)}
      BY <2>3
    <3> QED
      BY <3>1, <3>2
  <2>5. {o.calls[k] : k \in DOMAIN o.calls} = Kept(m, kept, declared)
    BY <2>1, <2>2, <2>4 DEF Kept, keep, p
  <2> QED
    BY <1>4, <2>1, <2>5 DEF Becomes, o
<1>5. CASE m.role = "tool" /\ m.id \in kept
  <2>1. o = m
    BY <1>5 DEF OutboundAt
  <2>2. m.calls = <<>>
    BY <1>5
  <2>3. {m.calls[k] : k \in DOMAIN m.calls} = {}
    BY <2>2
  <2> HIDE DEF o
  <2> QED
    BY <1>2, <1>5, <2>1, <2>2, <2>3 DEF Becomes, o
<1>6. CASE m.role = "tool" /\ m.id \notin kept
  <2>1. o = [Assistant(TRUE, <<>>) EXCEPT !.notes = {Note("result", m.id)}]
    BY <1>6 DEF OutboundAt
  <2>2. o.calls = <<>> /\ o.role = "assistant" /\ o.notes = {Note("result", m.id)}
    BY <2>1 DEF Assistant, User
  <2>3. {o.calls[k] : k \in DOMAIN o.calls} = {}
    BY <2>2
  <2>4. m.calls = <<>>
    BY <1>6
  <2> HIDE DEF o
  <2> QED
    BY <1>2, <1>6, <2>2, <2>3, <2>4 DEF Becomes, o
<1> QED
  BY <1>1, <1>3, <1>4, <1>5, <1>6

(* sanitizeOutboundHistory, for every request and whatever is declared: the *)
(* calls on the wire are declared, they are those that are answered there,  *)
(* and no result goes missing.                                              *)
AnsweredOnTheWire(w, declared) ==
  /\ {c.id : c \in AllCalls(w)} = {w[i].id : i \in {j \in DOMAIN w : w[j].role = "tool"}}
  /\ \A c \in AllCalls(w) : c.tool \in declared

THEOREM OutboundHolds ==
  ASSUME NEW T, NEW h, History(h, T), CallsAreReplies(h), NEW declared
  PROVE  /\ AnsweredOnTheWire(Outbound(h, declared), declared)
         /\ \A i \in 1..Len(h) : h[i].role = "tool" => h[i].id \in ResultsSeen(Outbound(h, declared))
<1> DEFINE kept == KeptIds(h, declared)
           w == Outbound(h, declared)
<1>1. Len(h) \in Nat /\ DOMAIN h = 1..Len(h) /\ \A i \in 1..Len(h) : h[i] \in MessageOver(T)
  BY DEF History
<1>2. DOMAIN w = 1..Len(h) /\ \A i \in 1..Len(h) : w[i] = OutboundAt(h[i], kept, declared)
  BY <1>1 DEF Outbound
<1>3. ASSUME NEW id \in kept
      PROVE  /\ \E i \in 1..Len(h) : Answers(h[i], id)
             /\ \E c \in AllCalls(h) : c.id = id /\ c.tool \in declared
  BY <1>1, <1>3 DEF KeptIds
<1> HIDE DEF kept, w
<1>4. ASSUME NEW i \in 1..Len(h) PROVE Becomes(w[i], h[i], kept, declared)
  <2>1. h[i] \in MessageOver(T) /\ w[i] = OutboundAt(h[i], kept, declared)
    BY <1>1, <1>2
  <2>2. /\ h[i].role = "tool" => h[i].calls = <<>>
        /\ h[i].calls # <<>> => h[i].role = "assistant"
    BY DEF History, CallsAreReplies
  <2> QED
    BY <2>1, <2>2, MessageBecomes
<1>5. \A c : c \in AllCalls(w) <=> \E i \in 1..Len(h) : c \in Kept(h[i], kept, declared)
  <2> DEFINE Said(i) == {w[i].calls[k] : k \in DOMAIN w[i].calls}
  <2>1. \A i \in 1..Len(h) : Said(i) = Kept(h[i], kept, declared)
    BY <1>4 DEF Becomes
  <2>2. AllCalls(w) = UNION {Said(i) : i \in 1..Len(h)}
    BY <1>2, Zenon DEF AllCalls
  <2> HIDE DEF Said
  <2> QED
    BY <2>1, <2>2
<1>6. \A c \in AllCalls(w) : c.tool \in declared /\ c.id \in kept
  <2>1. ASSUME NEW c \in AllCalls(w) PROVE c.tool \in declared /\ c.id \in kept
    <3>1. PICK i \in 1..Len(h) : c \in Kept(h[i], kept, declared)
      BY <1>5, <2>1
    <3> QED
      BY <3>1 DEF Kept
  <2> QED
    BY <2>1
<1>7. ASSUME NEW c \in AllCalls(w)
      PROVE  \E j \in DOMAIN w : w[j].role = "tool" /\ w[j].id = c.id
  <2>1. PICK j \in 1..Len(h) : Answers(h[j], c.id)
    BY <1>3, <1>6
  <2>2. h[j].role = "tool" /\ h[j].id = c.id /\ h[j].id \in kept
    BY <1>6, <2>1 DEF Answers
  <2>3. w[j].role = "tool" /\ w[j].id = c.id
    BY <1>4, <2>2 DEF Becomes
  <2> QED
    BY <1>2, <2>3
<1>8. ASSUME NEW j \in DOMAIN w, w[j].role = "tool"
      PROVE  \E c \in AllCalls(w) : c.id = w[j].id
  <2>1. j \in 1..Len(h) /\ h[j].id \in kept /\ w[j].id = h[j].id
    BY <1>2, <1>4, <1>8 DEF Becomes
  <2>2. PICK c \in AllCalls(h) : c.id = h[j].id /\ c.tool \in declared
    BY <1>3, <2>1
  <2>3. PICK i \in 1..Len(h) : \E k \in DOMAIN h[i].calls : c = h[i].calls[k]
    BY <1>1, <2>2 DEF AllCalls
  <2>4. c \in Kept(h[i], kept, declared)
    BY <2>1, <2>2, <2>3 DEF Kept
  <2> QED
    BY <1>5, <2>1, <2>2, <2>4
<1>9. AnsweredOnTheWire(w, declared)
  BY <1>6, <1>7, <1>8 DEF AnsweredOnTheWire
<1>10. ASSUME NEW i \in 1..Len(h), h[i].role = "tool"
       PROVE  h[i].id \in ResultsSeen(w)
  <2>1. CASE h[i].id \in kept
    <3>1. i \in DOMAIN w /\ w[i].role = "tool" /\ w[i].id = h[i].id
      BY <1>2, <1>4, <1>10, <2>1 DEF Becomes
    <3> QED
      BY <3>1 DEF ResultsSeen
  <2>2. CASE h[i].id \notin kept
    <3> DEFINE note == Note("result", h[i].id)
    <3>1. i \in DOMAIN w /\ note \in w[i].notes
      BY <1>2, <1>4, <1>10, <2>2 DEF Becomes
    <3>2. note.kind = "result" /\ note.id = h[i].id
      BY DEF Note
    <3> HIDE DEF note
    <3>3. note \in UNION {w[k].notes : k \in DOMAIN w}
      BY <3>1
    <3> QED
      BY <3>2, <3>3 DEF ResultsSeen
  <2> QED
    BY <2>1, <2>2
<1> QED
  BY <1>9, <1>10 DEF w
=============================================================================
