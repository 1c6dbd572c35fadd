---------------------------- MODULE SequenceFacts ----------------------------
(***************************************************************************)
(* Facts about numbers, sequences and ranks that the proofs of several     *)
(* components need.                                                        *)
(*                                                                         *)
(* FlattenSeq, recursive functions and ranks in a set are defined over     *)
(* data of any size.  What they compute is proved from the least-number    *)
(* principle, which follows from the well-foundedness of < on Nat.         *)
(***************************************************************************)
EXTENDS SequencesExt, WellFoundedInduction, FiniteSetTheorems, TLAPS

(* The least-number principle and induction, for a set of numbers. *)
LEMMA LeastNumber ==
  ASSUME NEW T \in SUBSET Nat, T # {}
  PROVE  \E n \in T : \A m \in T : ~(m < n)
<1> DEFINE R == {ss \in Nat \X Nat : ss[1] < ss[2]}
<1>1. IsWellFoundedOn(R, Nat)
  BY NatLessThanWellFounded, Zenon DEF OpToRel
<1>2. PICK n \in T : \A m \in T : <<m, n>> \notin R
  <2> HIDE DEF R
  <2> QED
    BY <1>1, WFMin
<1>3. \A m \in T : m < n => <<m, n>> \in R
  OBVIOUS
<1> QED
  BY <1>2, <1>3

LEMMA NumbersInduct ==
  ASSUME NEW S, 0 \in S, \A n \in Nat : n \in S => n + 1 \in S
  PROVE  Nat \subseteq S
<1> DEFINE T == Nat \ S
<1> SUFFICES ASSUME T # {} PROVE FALSE
  OBVIOUS
<1>1. PICK n \in T : \A m \in T : ~(m < n)
  BY LeastNumber
<1>2. n \in Nat /\ n # 0 /\ n - 1 \in Nat /\ n - 1 < n /\ n = (n - 1) + 1
  OBVIOUS
<1>3. n - 1 \in S
  BY <1>1, <1>2
<1> QED
  BY <1>2, <1>3

(* The function that FlattenSeq is defined with exists. *)
LEMMA FlattenUnfolds ==
  ASSUME NEW seqs, Len(seqs) \in Nat, Len(seqs) # 0
  PROVE  \E f : /\ f = [i \in 1..Len(seqs) |->
                          IF i = 1 THEN seqs[i] ELSE f[i - 1] \o seqs[i]]
                /\ FlattenSeq(seqs) = f[Len(seqs)]
<1> DEFINE Fits(g, n) == g = [i \in 1..n |-> IF i = 1 THEN seqs[i] ELSE g[i - 1] \o seqs[i]]
           S == {n \in Nat : \E g : Fits(g, n)}
<1>1. 0 \in S
  <2>1. Fits([i \in 1..0 |-> i], 0)
    OBVIOUS
  <2> QED
    BY <2>1
<1>2. ASSUME NEW n \in Nat, n \in S PROVE n + 1 \in S
  <2>1. PICK g : Fits(g, n)
    BY <1>2
  <2> DEFINE h == [i \in 1..(n + 1) |->
                     IF i = 1 THEN seqs[i]
                     ELSE IF i = n + 1 THEN g[n] \o seqs[n + 1] ELSE g[i]]
  <2>2. ASSUME NEW i \in 1..(n + 1)
        PROVE  h[i] = IF i = 1 THEN seqs[i] ELSE h[i - 1] \o seqs[i]
    <3>1. CASE i = 1
      BY <3>1
    <3>2. CASE i # 1 /\ i = n + 1
      <4>1. n \in 1..n /\ n \in 1..(n + 1) /\ n # n + 1 /\ i - 1 = n
        BY <3>2
      <4>2. h[n] = g[n]
        BY <2>1, <4>1
      <4> QED
        BY <3>2, <4>1, <4>2
    <3>3. CASE i # 1 /\ i # n + 1
      <4>1. i \in 1..n /\ i - 1 \in 1..n /\ i - 1 # n + 1 /\ i - 1 \in 1..(n + 1)
        BY <3>3
      <4>2. h[i - 1] = g[i - 1] /\ h[i] = g[i]
        BY <2>1, <3>3, <4>1
      <4>3. g[i] = g[i - 1] \o seqs[i]
        BY <2>1, <3>3, <4>1
      <4> QED
        BY <3>3, <4>2, <4>3
    <3> QED
      BY <3>1, <3>2, <3>3
  <2>3. Fits(h, n + 1)
    BY <2>2
  <2> HIDE DEF h, Fits
  <2>4. \E f : Fits(f, n + 1)
    BY <2>3
  <2> QED
    BY <2>4
<1>3. \E g : Fits(g, Len(seqs))
  <2>1. Nat \subseteq S
    <3> HIDE DEF S
    <3> QED
      BY <1>1, <1>2, NumbersInduct
  <2> QED
    BY <2>1
<1> QED
  BY <1>3 DEF FlattenSeq

(* t begins with s. *)
Begins(s, t) == Len(s) <= Len(t) /\ \A k \in 1..Len(s) : t[k] = s[k]

(* f adds the sequences one after the other. *)
Chain(f, seqs, N) ==
  /\ f[1] = seqs[1]
  /\ \A i \in 2..N : f[i] = f[i - 1] \o seqs[i]

LEMMA ConcatBegins ==
  ASSUME NEW M, NEW s \in Seq(M), NEW t \in Seq(M)
  PROVE  /\ s \o t \in Seq(M) /\ Len(s \o t) = Len(s) + Len(t)
         /\ Len(s) \in Nat /\ Len(t) \in Nat
         /\ Begins(s, s \o t)
         /\ \A n \in 1..Len(t) : (s \o t)[Len(s) + n] = t[n]
  BY DEF Begins

(* u is s with t laid behind it. *)
Joined(u, s, t) ==
  /\ Len(u) = Len(s) + Len(t)
  /\ Len(s) \in Nat /\ Len(t) \in Nat
  /\ \A n \in 1..Len(t) : u[Len(s) + n] = t[n]

LEMMA ConcatJoins ==
  ASSUME NEW M
  PROVE  \A s, t \in Seq(M) : Joined(s \o t, s, t)
  BY DEF Joined

LEMMA ChainGrows ==
  ASSUME NEW M, NEW N \in Nat \ {0}, NEW seqs, NEW f, Chain(f, seqs, N),
         \A i \in 1..N : seqs[i] \in Seq(M)
  PROVE  \A i \in 1..N : \A j \in 1..i : f[j] \in Seq(M) /\ Begins(f[j], f[i])
<1> DEFINE Good(i) == \A j \in 1..i : f[j] \in Seq(M) /\ Begins(f[j], f[i])
           S == {i \in Nat : i + 1 \in 1..N => Good(i + 1)}
<1>1. Good(1)
  BY DEF Chain, Begins
<1>2. ASSUME NEW i \in 2..N, Good(i - 1) PROVE Good(i)
  <2>1. i - 1 \in 1..(i - 1) /\ i \in 1..N
    OBVIOUS
  <2>2. f[i - 1] \in Seq(M) /\ seqs[i] \in Seq(M) /\ f[i] = f[i - 1] \o seqs[i]
    BY <1>2, <2>1 DEF Chain
  <2>3. f[i] \in Seq(M) /\ Begins(f[i - 1], f[i])
    BY <2>2, ConcatBegins
  <2> SUFFICES ASSUME NEW j \in 1..i PROVE f[j] \in Seq(M) /\ Begins(f[j], f[i])
    OBVIOUS
  <2>4. CASE j = i
    BY <2>3, <2>4 DEF Begins
  <2>5. CASE j # i
    <3>1. j \in 1..(i - 1)
      BY <2>5
    <3>2. f[j] \in Seq(M) /\ Begins(f[j], f[i - 1])
      BY <1>2, <3>1
    <3>3. Len(f[j]) \in Nat /\ Len(f[i - 1]) \in Nat /\ Len(f[i]) \in Nat
      <4> HIDE DEF Good
      <4>1. f[j] \in Seq(M) /\ f[i - 1] \in Seq(M) /\ f[i] \in Seq(M)
        BY <2>2, <2>3, <3>2
      <4> QED
        BY <4>1
    <3> QED
      BY <2>3, <3>2, <3>3 DEF Begins
  <2> QED
    BY <2>4, <2>5
<1> HIDE DEF Good
<1>3. 0 \in S
  BY <1>1
<1>4. ASSUME NEW n \in Nat, n \in S PROVE n + 1 \in S
  <2>1. CASE n + 2 \in 1..N
    <3>1. n + 2 \in 2..N /\ n + 1 \in 1..N /\ (n + 2) - 1 = n + 1
      BY <2>1
    <3>2. Good(n + 1)
      BY <1>4, <3>1
    <3>3. Good(n + 2)
      BY <1>2, <3>1, <3>2
    <3>4. (n + 1) + 1 = n + 2
      OBVIOUS
    <3> QED
      BY <3>3, <3>4
  <2>2. CASE n + 2 \notin 1..N
    <3>1. (n + 1) + 1 = n + 2
      OBVIOUS
    <3> QED
      BY <2>2, <3>1
  <2> QED
    BY <2>1, <2>2
<1>5. Nat \subseteq S
  <2> HIDE DEF S
  <2> QED
    BY <1>3, <1>4, NumbersInduct
<1>6. ASSUME NEW i \in 1..N PROVE Good(i)
  <2>1. i - 1 \in Nat /\ (i - 1) + 1 = i
    OBVIOUS
  <2>2. i - 1 \in S
    BY <1>5, <2>1
  <2> QED
    BY <2>1, <2>2
<1> QED
  BY <1>6 DEF Good

(* The flattened sequence, the i-th piece of which begins behind off[i - 1]. *)
Laid(seqs, flat, off) ==
  /\ off[0] = 0 /\ off[Len(seqs)] = Len(flat)
  /\ \A i \in 1..Len(seqs) :
       /\ off[i] = off[i - 1] + Len(seqs[i]) /\ off[i] <= Len(flat)
       /\ \A n \in 1..Len(seqs[i]) : flat[off[i - 1] + n] = seqs[i][n]

LEMMA ChainIsLaid ==
  ASSUME NEW M, NEW N \in Nat \ {0}, NEW seqs, NEW f, Chain(f, seqs, N),
         N = Len(seqs), \A i \in 1..N : seqs[i] \in Seq(M)
  PROVE  f[N] \in Seq(M) /\ \E off \in [0..N -> Nat] : Laid(seqs, f[N], off)
<1>0. PICK off : off = [i \in 0..N |-> IF i = 0 THEN 0 ELSE Len(f[i])]
  OBVIOUS
<1>1. \A i \in 1..N : \A j \in 1..i : f[j] \in Seq(M) /\ Begins(f[j], f[i])
  BY ChainGrows
<1>2. \A i \in 1..N : f[i] \in Seq(M) /\ Len(f[i]) \in Nat /\ Begins(f[i], f[N])
  <2> SUFFICES ASSUME NEW i \in 1..N
               PROVE  f[i] \in Seq(M) /\ Len(f[i]) \in Nat /\ Begins(f[i], f[N])
    OBVIOUS
  <2>1. N \in 1..N /\ i \in 1..N
    OBVIOUS
  <2>2. f[i] \in Seq(M) /\ Begins(f[i], f[N])
    BY <1>1, <2>1, Zenon
  <2>3. Len(f[i]) \in Nat
    BY <2>2
  <2> QED
    BY <2>2, <2>3
<1>3. off[0] = 0 /\ (\A i \in 1..N : off[i] = Len(f[i])) /\ N \in 1..N
  BY <1>0
<1>4. off \in [0..N -> Nat]
  BY <1>0, <1>2
<1>5. ASSUME NEW i \in 1..N
      PROVE  /\ off[i] = off[i - 1] + Len(seqs[i]) /\ Len(seqs[i]) \in Nat
             /\ off[i - 1] \in Nat
             /\ \A n \in 1..Len(seqs[i]) : f[i][off[i - 1] + n] = seqs[i][n]
  <2>1. CASE i = 1
    <3>1. f[1] = seqs[1] /\ off[0] = 0 /\ off[1] = Len(f[1]) /\ Len(seqs[1]) \in Nat
      BY <1>3, <2>1 DEF Chain
    <3>2. \A n \in 1..Len(seqs[1]) : 0 + n = n
      BY <3>1
    <3> QED
      BY <2>1, <3>1, <3>2
  <2>2. CASE i # 1
    <3>1. i \in 2..N /\ i - 1 \in 1..N
      BY <2>2
    <3>2. f[i] = f[i - 1] \o seqs[i] /\ f[i - 1] \in Seq(M) /\ seqs[i] \in Seq(M)
      BY <1>2, <3>1 DEF Chain
    <3>3. off[i] = Len(f[i]) /\ off[i - 1] = Len(f[i - 1])
      BY <1>3, <3>1
    <3>4. Joined(f[i], f[i - 1], seqs[i])
      <4>1. Joined(f[i - 1] \o seqs[i], f[i - 1], seqs[i])
        BY <3>2, ConcatJoins, Zenon
      <4> QED
        BY <3>2, <4>1, Zenon
    <3> QED
      BY <3>3, <3>4 DEF Joined
  <2> QED
    BY <2>1, <2>2
<1>6. ASSUME NEW i \in 1..N, NEW n \in 1..Len(seqs[i])
      PROVE  f[N][off[i - 1] + n] = seqs[i][n]
  <2>0. /\ off[i] = off[i - 1] + Len(seqs[i]) /\ Len(seqs[i]) \in Nat
        /\ off[i - 1] \in Nat /\ off[i] = Len(f[i])
    BY <1>3, <1>5
  <2>1. off[i - 1] + n \in 1..Len(f[i])
    <3>1. \A a, b \in Nat : n \in 1..b => a + n \in 1..(a + b)
      OBVIOUS
    <3>2. off[i - 1] + n \in 1..(off[i - 1] + Len(seqs[i]))
      BY <2>0, <3>1, Zenon
    <3>3. off[i - 1] + Len(seqs[i]) = Len(f[i])
      BY <2>0, Zenon
    <3> QED
      BY <3>2, <3>3, Zenon
  <2>2. f[N][off[i - 1] + n] = f[i][off[i - 1] + n]
    BY <1>2, <2>1 DEF Begins
  <2> QED
    BY <1>5, <2>2
<1>7. off[N] = Len(f[N])
  BY <1>3
<1>8. \A i \in 1..N : off[i] <= Len(f[N])
  BY <1>2, <1>3 DEF Begins
<1> HIDE DEF Chain
<1> QED
  BY <1>2, <1>3, <1>4, <1>5, <1>6, <1>7, <1>8 DEF Laid

(* FlattenSeq lays the sequences end to end. *)
LEMMA FlattenIsLaid ==
  ASSUME NEW M, NEW seqs \in Seq(Seq(M))
  PROVE  /\ FlattenSeq(seqs) \in Seq(M)
         /\ \E off \in [0..Len(seqs) -> Nat] : Laid(seqs, FlattenSeq(seqs), off)
<1> DEFINE N == Len(seqs)
<1>0. N \in Nat /\ \A i \in 1..N : seqs[i] \in Seq(M)
  OBVIOUS
<1>1. CASE N = 0
  <2>1. FlattenSeq(seqs) = seqs /\ seqs = <<>>
    BY <1>1 DEF FlattenSeq
  <2>2. seqs \in Seq(M) /\ Len(seqs) = 0
    BY <2>1
  <2>3. PICK off \in [0..0 -> Nat] : off[0] = 0
    <3>1. [i \in 0..0 |-> 0] \in [0..0 -> Nat] /\ [i \in 0..0 |-> 0][0] = 0
      OBVIOUS
    <3> QED
      BY <3>1
  <2>4. Laid(seqs, seqs, off)
    BY <2>2, <2>3 DEF Laid
  <2> QED
    BY <2>1, <2>2, <2>3, <2>4
<1>2. CASE N # 0
  <2>1. PICK f : /\ f = [i \in 1..N |-> IF i = 1 THEN seqs[i] ELSE f[i - 1] \o seqs[i]]
                 /\ FlattenSeq(seqs) = f[N]
    BY <1>0, <1>2, FlattenUnfolds
  <2>2. Chain(f, seqs, N)
    <3>1. 1 \in 1..N
      BY <1>0, <1>2
    <3>2. \A i \in 2..N : i \in 1..N /\ i # 1
      BY <1>0
    <3> HIDE DEF N
    <3>3. f[1] = seqs[1]
      BY <2>1, <3>1
    <3>4. ASSUME NEW i \in 2..N PROVE f[i] = f[i - 1] \o seqs[i]
      BY <2>1, <3>2
    <3> QED
      BY <3>3, <3>4 DEF Chain
  <2> HIDE DEF N
  <2>4. N \in Nat \ {0} /\ N = Len(seqs)
    BY <1>0, <1>2 DEF N
  <2>5. f[N] \in Seq(M) /\ \E off \in [0..N -> Nat] : Laid(seqs, f[N], off)
    BY <1>0, <2>2, <2>4, ChainIsLaid
  <2> QED
    BY <2>1, <2>4, <2>5
<1> QED
  BY <1>0, <1>1, <1>2

LEMMA MinIsLeast ==
  ASSUME NEW T \in SUBSET Nat, T # {}
  PROVE  Min(T) \in T /\ \A m \in T : Min(T) <= m
<1>1. PICK n \in T : \A m \in T : ~(m < n)
  BY LeastNumber
<1>2. \A m \in T : n <= m
  BY <1>1
<1> QED
  BY <1>2 DEF Min

(* Every rank up to the size of a set of numbers is taken by one of them.   *)
LEMMA RanksAreTaken ==
  ASSUME NEW L \in Nat, NEW keep \in SUBSET (1..L),
         NEW n \in 1..Cardinality(keep)
  PROVE  \E k \in keep : Cardinality({l \in keep : l <= k}) = n
<1> DEFINE Upto(k) == {l \in keep : l <= k}
           T == {k \in Nat : n <= Cardinality(Upto(k))}
<1>0. \A l \in keep : l \in Int /\ 1 <= l /\ l <= L
  OBVIOUS
<1>1. IsFiniteSet(keep)
  <2>1. IsFiniteSet(1..L)
    BY FS_Interval
  <2> QED
    BY <2>1, FS_Subset, Zenon
<1>2. \A k \in Nat : IsFiniteSet(Upto(k)) /\ Cardinality(Upto(k)) \in Nat
  BY <1>1, FS_Subset, FS_CardinalityType
<1>3. L \in T
  <2>1. Upto(L) = keep
    <3>1. \A l \in keep : l <= L
      BY <1>0, Zenon
    <3> QED
      BY <3>1, Zenon
  <2>2. Cardinality(keep) \in Nat
    BY <1>1, FS_CardinalityType
  <2> QED
    BY <2>1, <2>2
<1>4. PICK k \in T : \A m \in T : ~(m < k)
  <2>1. T \in SUBSET Nat /\ T # {}
    BY <1>3
  <2> QED
    BY <2>1, LeastNumber
<1>5. k # 0
  <2>1. Upto(0) = {}
    <3>1. \A l \in keep : ~(l <= 0)
      BY <1>0
    <3> QED
      BY <3>1, Zenon
  <2>2. Cardinality(Upto(0)) = 0
    BY <2>1, FS_EmptySet
  <2>3. n \in Nat /\ n # 0
    BY <1>1, FS_CardinalityType
  <2> QED
    BY <2>2, <2>3
<1>6. k \in Nat /\ k - 1 \in Nat /\ k - 1 < k
  BY <1>5
<1>7. Cardinality(Upto(k - 1)) < n /\ n <= Cardinality(Upto(k))
  <2>1. n \in Nat
    BY <1>1, FS_CardinalityType
  <2> HIDE DEF Upto
  <2> QED
    BY <1>2, <1>4, <1>6, <2>1
<1>8. Upto(k) = Upto(k - 1) \cup (keep \cap {k})
  <2>1. \A l \in Int : l <= k <=> l <= k - 1 \/ l = k
    BY <1>6
  <2>2. \A l \in keep : l <= k <=> l <= k - 1 \/ l = k
    BY <1>0, <2>1, Zenon
  <2> QED
    BY <2>2, Zenon
<1>9. CASE k \in keep
  <2>1. Upto(k) = Upto(k - 1) \cup {k}
    BY <1>8, <1>9
  <2>2. Cardinality(Upto(k)) <= Cardinality(Upto(k - 1)) + 1
    <3> HIDE DEF Upto
    <3>1. IsFiniteSet(Upto(k - 1)) /\ Cardinality(Upto(k - 1)) \in Nat
      BY <1>2, <1>6
    <3>2. Cardinality(Upto(k)) = IF k \in Upto(k - 1) THEN Cardinality(Upto(k - 1))
                                 ELSE Cardinality(Upto(k - 1)) + 1
      BY <2>1, <3>1, FS_AddElement, Zenon
    <3> QED
      BY <3>1, <3>2
  <2>3. Cardinality(Upto(k)) = n
    <3> HIDE DEF Upto
    <3> QED
      BY <1>2, <1>6, <1>7, <2>2
  <2> QED
    BY <1>9, <2>3
<1>10. CASE k \notin keep
  <2>1. Upto(k) = Upto(k - 1)
    BY <1>8, <1>10
  <2> HIDE DEF Upto
  <2> QED
    BY <2>1, <1>2, <1>6, <1>7
<1> QED
  BY <1>9, <1>10

(* A list of n different things has n elements. *)
AllDiffer(f, n) == \A i, j \in 1..n : f[i] = f[j] => i = j
Values(f, n) == {f[i] : i \in 1..n}

LEMMA DistinctCount ==
  ASSUME NEW n \in Nat, NEW f, AllDiffer(f, n)
  PROVE  Cardinality(Values(f, n)) = n
<1> DEFINE T == Values(f, n)
           g == [i \in 1..n |-> f[i]]
<1>1. g \in Injection(1..n, T) /\ g \in Surjection(1..n, T)
  BY DEF AllDiffer, Values, Injection, Surjection, IsInjective
<1>2. IsFiniteSet(1..n) /\ Cardinality(1..n) = n
  BY FS_Interval
<1> QED
  BY <1>1, <1>2, FS_Surjection

-----------------------------------------------------------------------------
(* Sequences put together *)

LEMMA AppendJoins ==
  ASSUME NEW M, NEW s \in Seq(M), NEW m \in M
  PROVE  /\ Append(s, m) = s \o <<m>>
         /\ <<m>> \in Seq(M) /\ Len(<<m>>) = 1 /\ <<m>>[1] = m
OBVIOUS

LEMMA TableIsSeq ==
  ASSUME NEW M, NEW n \in Nat, NEW f \in [1..n -> M]
  PROVE  f \in Seq(M) /\ Len(f) = n
OBVIOUS

(* u is s and then t, element by element. *)
After(u, s, t) ==
  /\ Len(u) = Len(s) + Len(t)
  /\ \A i \in 1..Len(s) : u[i] = s[i]
  /\ \A i \in 1..Len(t) : u[Len(s) + i] = t[i]
  /\ \A i \in 1..Len(u) : i \in 1..Len(s) \/ \E k \in 1..Len(t) : i = Len(s) + k

LEMMA ConcatIsAfter ==
  ASSUME NEW M, NEW s \in Seq(M), NEW t \in Seq(M)
  PROVE  s \o t \in Seq(M) /\ After(s \o t, s, t)
<1>1. /\ s \o t \in Seq(M) /\ Len(s \o t) = Len(s) + Len(t)
      /\ Len(s) \in Nat /\ Len(t) \in Nat
      /\ \A i \in 1..Len(s) : (s \o t)[i] = s[i]
      /\ \A i \in 1..Len(t) : (s \o t)[Len(s) + i] = t[i]
  OBVIOUS
<1>2. ASSUME NEW i \in 1..(Len(s) + Len(t)), i \notin 1..Len(s)
      PROVE  \E k \in 1..Len(t) : i = Len(s) + k
  <2>1. i - Len(s) \in 1..Len(t) /\ i = Len(s) + (i - Len(s))
    BY <1>1, <1>2
  <2> QED
    BY <2>1
<1> QED
  BY <1>1, <1>2 DEF After

LEMMA SameSeq ==
  ASSUME NEW M, NEW s \in Seq(M), NEW t \in Seq(M), Len(s) = Len(t),
         \A i \in 1..Len(s) : s[i] = t[i]
  PROVE  s = t
OBVIOUS

Associated(r, s, t) == r \o (s \o t) = (r \o s) \o t

LEMMA ConcatAssociates ==
  ASSUME NEW M, NEW r \in Seq(M), NEW s \in Seq(M), NEW t \in Seq(M)
  PROVE  Associated(r, s, t)
<1> DEFINE p == s \o t
           q == r \o s
           x == r \o p
           y == q \o t
<1>1. p \in Seq(M) /\ After(p, s, t) /\ q \in Seq(M) /\ After(q, r, s)
  BY ConcatIsAfter
<1> HIDE DEF p, q
<1>2. x \in Seq(M) /\ After(x, r, p) /\ y \in Seq(M) /\ After(y, q, t)
  BY <1>1, ConcatIsAfter
<1> HIDE DEF x, y
<1>3. Len(r) \in Nat /\ Len(s) \in Nat /\ Len(t) \in Nat
  OBVIOUS
<1>4. /\ Len(p) = Len(s) + Len(t) /\ Len(q) = Len(r) + Len(s)
      /\ Len(x) = Len(r) + (Len(s) + Len(t)) /\ Len(y) = (Len(r) + Len(s)) + Len(t)
  BY <1>1, <1>2 DEF After
<1>5. ASSUME NEW i \in 1..Len(x) PROVE x[i] = y[i]
  <2>1. CASE i \in 1..Len(r)
    <3>1. i \in 1..Len(q)
      BY <1>3, <1>4, <2>1
    <3>2. x[i] = r[i] /\ y[i] = q[i] /\ q[i] = r[i]
      BY <1>1, <1>2, <2>1, <3>1, Zenon DEF After
    <3> QED
      BY <3>2
  <2>2. CASE i \in (Len(r) + 1)..(Len(r) + Len(s))
    <3>1. PICK k \in 1..Len(s) : i = Len(r) + k
      <4>1. i - Len(r) \in 1..Len(s) /\ i = Len(r) + (i - Len(r))
        BY <1>3, <2>2
      <4> QED
        BY <4>1
    <3>2. i \in 1..Len(q) /\ k \in 1..Len(p)
      BY <1>3, <1>4, <2>2
    <3>3. x[Len(r) + k] = p[k] /\ p[k] = s[k] /\ y[i] = q[i] /\ q[Len(r) + k] = s[k]
      BY <1>1, <1>2, <3>2, Zenon DEF After
    <3> QED
      BY <3>1, <3>3
  <2>3. CASE i \in (Len(r) + Len(s) + 1)..(Len(r) + Len(s) + Len(t))
    <3>1. PICK k \in 1..Len(t) : i = Len(r) + Len(s) + k
      <4>1. i - (Len(r) + Len(s)) \in 1..Len(t) /\ i = Len(r) + Len(s) + (i - (Len(r) + Len(s)))
        BY <1>3, <2>3
      <4> QED
        BY <4>1
    <3>2. Len(s) + k \in 1..Len(p) /\ i = Len(r) + (Len(s) + k) /\ i = Len(q) + k
      BY <1>3, <1>4, <3>1
    <3>3. x[Len(r) + (Len(s) + k)] = p[Len(s) + k] /\ p[Len(s) + k] = t[k]
          /\ y[Len(q) + k] = t[k]
      BY <1>1, <1>2, <3>2, Zenon DEF After
    <3> QED
      BY <3>2, <3>3
  <2> QED
    BY <1>3, <1>4, <2>1, <2>2, <2>3
<1>6. Len(x) = Len(y)
  BY <1>3, <1>4
<1>7. x = y
  BY <1>2, <1>5, <1>6, SameSeq
<1> QED
  BY <1>7 DEF Associated, p, q, x, y

-----------------------------------------------------------------------------
(* Recursive functions *)

(* w is what the sequences come to, laid one behind the other. *)
Concats(seqs, w, M) ==
  \E g \in [0..Len(seqs) -> Seq(M)] :
    /\ g[0] = <<>> /\ g[Len(seqs)] = w
    /\ \A i \in 1..Len(seqs) : g[i] = g[i - 1] \o seqs[i]

LEMMA NothingConcats ==
  ASSUME NEW M
  PROVE  Concats(<<>>, <<>>, M)
<1> DEFINE g == [i \in 0..0 |-> <<>>]
<1>1. Len(<<>>) = 0 /\ g \in [0..0 -> Seq(M)] /\ g[0] = <<>>
  OBVIOUS
<1>2. \A i \in 1..0 : FALSE
  OBVIOUS
<1> HIDE DEF g
<1> QED
  BY <1>1, <1>2 DEF Concats

LEMMA ConcatsOneMore ==
  ASSUME NEW M, NEW seqs \in Seq(Seq(M)), NEW w, Concats(seqs, w, M), NEW x \in Seq(M)
  PROVE  w \in Seq(M) /\ Concats(Append(seqs, x), w \o x, M)
<1> DEFINE n == Len(seqs)
           all == Append(seqs, x)
<1>1. PICK g \in [0..n -> Seq(M)] :
        /\ g[0] = <<>> /\ g[n] = w
        /\ \A i \in 1..n : g[i] = g[i - 1] \o seqs[i]
  BY DEF Concats
<1>2. /\ n \in Nat /\ Len(all) = n + 1 /\ all[n + 1] = x
      /\ \A i \in 1..n : all[i] = seqs[i]
  OBVIOUS
<1> HIDE DEF n, all
<1>3. w \in Seq(M)
  <2>1. n \in 0..n
    BY <1>2
  <2> QED
    BY <1>1, <2>1
<1>4. w \o x \in Seq(M)
  BY <1>3
<1> DEFINE h == [i \in 0..(n + 1) |-> IF i = n + 1 THEN w \o x ELSE g[i]]
<1>5. h \in [0..(n + 1) -> Seq(M)]
  <2>1. \A i \in 0..(n + 1) : i = n + 1 \/ i \in 0..n
    BY <1>2
  <2> QED
    BY <1>1, <1>4, <2>1
<1>6. h[0] = <<>> /\ h[n + 1] = w \o x
  BY <1>1, <1>2
<1>7. ASSUME NEW i \in 1..(n + 1) PROVE h[i] = h[i - 1] \o all[i]
  <2>1. i - 1 \in 0..(n + 1) /\ i \in 0..(n + 1) /\ i - 1 # n + 1
    BY <1>2
  <2>2. h[i - 1] = g[i - 1]
    BY <2>1
  <2>3. CASE i = n + 1
    <3>1. i - 1 = n
      BY <1>2, <2>3
    <3> QED
      BY <1>1, <1>2, <1>6, <2>2, <2>3, <3>1
  <2>4. CASE i # n + 1
    <3>1. i \in 1..n
      BY <1>2, <2>4
    <3>2. h[i] = g[i]
      BY <2>1, <2>4
    <3> QED
      BY <1>1, <1>2, <2>2, <3>1, <3>2
  <2> QED
    BY <2>3, <2>4
<1> HIDE DEF h
<1>8. Concats(all, w \o x, M)
  BY <1>2, <1>5, <1>6, <1>7 DEF Concats
<1> QED
  BY <1>3, <1>8 DEF all

LEMMA ConcatsSilent ==
  ASSUME NEW M, NEW seqs \in Seq(Seq(M)), NEW w, Concats(seqs, w, M),
         NEW t \in Seq(Seq(M)), \A i \in 1..Len(t) : t[i] = <<>>
  PROVE  Concats(seqs \o t, w, M)
<1> DEFINE n == Len(seqs)
           all == seqs \o t
           N == Len(all)
<1>1. PICK g \in [0..n -> Seq(M)] :
        /\ g[0] = <<>> /\ g[n] = w
        /\ \A i \in 1..n : g[i] = g[i - 1] \o seqs[i]
  BY DEF Concats
<1>2. /\ n \in Nat /\ N \in Nat /\ n <= N
      /\ \A i \in 1..n : all[i] = seqs[i]
  OBVIOUS
<1>3. \A i \in 1..N : i \notin 1..n => all[i] = <<>>
  <2>1. After(all, seqs, t)
    BY ConcatIsAfter
  <2>2. \A i \in 1..N : i \in 1..n \/ \E k \in 1..Len(t) : i = n + k
    BY <2>1 DEF After
  <2>3. \A k \in 1..Len(t) : all[n + k] = t[k]
    BY <2>1 DEF After
  <2> HIDE DEF all, N, n
  <2> QED
    BY <2>2, <2>3
<1> HIDE DEF n, all, N
<1>4. w \in Seq(M)
  <2>1. n \in 0..n
    BY <1>2
  <2> QED
    BY <1>1, <2>1
<1>5. w \o <<>> = w
  BY <1>4
<1> DEFINE h == [i \in 0..N |-> IF i <= n THEN g[i] ELSE w]
<1>6. h \in [0..N -> Seq(M)]
  <2>1. \A i \in 0..N : i <= n => i \in 0..n
    BY <1>2
  <2> QED
    BY <1>1, <1>4, <2>1
<1>7. h[0] = <<>> /\ h[N] = w
  <2>1. 0 \in 0..N /\ N \in 0..N /\ 0 <= n /\ (N <= n => N = n)
    BY <1>2
  <2> QED
    BY <1>1, <2>1
<1>8. ASSUME NEW i \in 1..N PROVE h[i] = h[i - 1] \o all[i]
  <2>1. i - 1 \in 0..N /\ i \in 0..N
    BY <1>2
  <2>2. CASE i <= n
    <3>1. i \in 1..n /\ i - 1 <= n
      BY <1>2, <2>2
    <3>2. h[i] = g[i] /\ h[i - 1] = g[i - 1]
      BY <2>1, <2>2, <3>1
    <3> QED
      BY <1>1, <1>2, <3>1, <3>2
  <2>3. CASE ~(i <= n)
    <3>0. \A k, m \in Nat : ~(k <= m) => k \notin 1..m /\ (k - 1 <= m => k - 1 = m)
      OBVIOUS
    <3>1. i \notin 1..n /\ (i - 1 <= n => i - 1 = n)
      <4>1. i \in Nat /\ n \in Nat
        BY <1>2
      <4> QED
        BY <2>3, <3>0, <4>1
    <3>2. h[i] = w /\ h[i - 1] = w
      BY <1>1, <2>1, <2>3, <3>1
    <3> QED
      BY <1>3, <1>5, <3>1, <3>2
  <2> QED
    BY <2>2, <2>3
<1> HIDE DEF h
<1>9. Concats(all, w, M)
  BY <1>6, <1>7, <1>8 DEF Concats, N
<1> QED
  BY <1>9 DEF all

(* FlattenSeq comes to the same. *)
LEMMA ConcatsFlattens ==
  ASSUME NEW M, NEW seqs \in Seq(Seq(M)), NEW w, Concats(seqs, w, M)
  PROVE  FlattenSeq(seqs) = w
<1> DEFINE n == Len(seqs)
<1>1. PICK g \in [0..n -> Seq(M)] :
        /\ g[0] = <<>> /\ g[n] = w
        /\ \A i \in 1..n : g[i] = g[i - 1] \o seqs[i]
  BY DEF Concats
<1>2. n \in Nat /\ \A i \in 1..n : seqs[i] \in Seq(M)
  OBVIOUS
<1>3. CASE n = 0
  <2>1. FlattenSeq(seqs) = seqs /\ seqs = <<>>
    BY <1>3 DEF FlattenSeq
  <2> QED
    BY <1>1, <1>3, <2>1
<1>4. CASE n # 0
  <2>1. PICK f : /\ f = [i \in 1..n |-> IF i = 1 THEN seqs[i] ELSE f[i - 1] \o seqs[i]]
                 /\ FlattenSeq(seqs) = f[n]
    BY <1>2, <1>4, FlattenUnfolds
  <2> HIDE DEF n
  <2> DEFINE S == {k \in Nat : k + 1 \in 1..n => f[k + 1] = g[k + 1]}
  <2>2. 0 \in S
    <3>1. 1 \in 1..n /\ 1 - 1 = 0 /\ 0 + 1 = 1
      BY <1>2, <1>4
    <3>2. f[1] = seqs[1] /\ g[1] = <<>> \o seqs[1]
      BY <1>1, <2>1, <3>1
    <3>3. <<>> \o seqs[1] = seqs[1]
      BY <1>2, <3>1
    <3> QED
      BY <3>1, <3>2, <3>3
  <2>3. ASSUME NEW k \in Nat, k \in S PROVE k + 1 \in S
    <3> SUFFICES ASSUME (k + 1) + 1 \in 1..n PROVE f[(k + 1) + 1] = g[(k + 1) + 1]
      OBVIOUS
    <3>1. k + 1 \in 1..n /\ ((k + 1) + 1) - 1 = k + 1 /\ (k + 1) + 1 # 1
      BY <1>2
    <3>2. f[(k + 1) + 1] = f[k + 1] \o seqs[(k + 1) + 1]
      BY <2>1, <3>1
    <3>3. g[(k + 1) + 1] = g[k + 1] \o seqs[(k + 1) + 1]
      BY <1>1, <3>1
    <3> QED
      BY <2>3, <3>1, <3>2, <3>3
  <2>4. Nat \subseteq S
    <3> HIDE DEF S
    <3> QED
      BY <2>2, <2>3, NumbersInduct
  <2>5. n - 1 \in S /\ (n - 1) + 1 = n /\ n \in 1..n
    <3>1. n - 1 \in Nat /\ (n - 1) + 1 = n /\ n \in 1..n
      BY <1>2, <1>4
    <3> HIDE DEF S
    <3> QED
      BY <2>4, <3>1
  <2>6. f[n] = g[n]
    BY <2>5
  <2> QED
    BY <1>1, <2>1, <2>6
<1> QED
  BY <1>3, <1>4

=============================================================================
