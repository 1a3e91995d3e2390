--------------------------- MODULE CommandTextProofs ---------------------------
(***************************************************************************)
(* Proofs about CommandText and OutputPager: however the text of a command *)
(* is cut into pieces, its output is found, streamed and answered, and in  *)
(* pages of any size it is whole.  First what the recursive functions on   *)
(* texts compute, then where the markers are, then the parser's invariant, *)
(* and in the end the pages.                                               *)
(***************************************************************************)
EXTENDS CommandText, NaturalSets, SequenceTheorems, TLAPS

(* A concatenation of sequences is what is found by going along them.      *)
LEMMA FlattenIs ==
  ASSUME NEW S, NEW seqs \in Seq(Seq(S)), NEW f \in [0..Len(seqs) -> Seq(S)],
         f[0] = <<>>, \A i \in 1..Len(seqs) : f[i] = f[i - 1] \o seqs[i]
  PROVE  FlattenSeq(seqs) = f[Len(seqs)]
<1>0. Len(seqs) \in Nat
  BY LenProperties
<1>1. CASE Len(seqs) = 0
  <2>1. seqs = <<>>
    BY <1>1, EmptySeq
  <2> QED BY <1>1, <2>1 DEF FlattenSeq
<1>2. CASE Len(seqs) # 0
  <2> DEFINE Body(g) == [i \in 1..Len(seqs) |-> IF i = 1 THEN seqs[i] ELSE g[i - 1] \o seqs[i]]
  <2>1. \A i \in 1..Len(seqs) : f[i] = IF i = 1 THEN seqs[i] ELSE f[i - 1] \o seqs[i]
    <3>1. f[1] = f[0] \o seqs[1] /\ seqs[1] \in Seq(S)
      <4>1. 1 \in 1..Len(seqs) /\ 1 - 1 = 0
        BY <1>0, <1>2
      <4> QED BY <4>1, ElementOfSeq
    <3>2. f[1] = seqs[1]
      BY <3>1, ConcatEmptySeq
    <3> QED BY <3>2
  <2>2. \E g : g = Body(g)
    <3>1. [i \in 1..Len(seqs) |-> f[i]] = Body([i \in 1..Len(seqs) |-> f[i]])
      <4>1. \A i \in 1..Len(seqs) : i # 1 => i - 1 \in 1..Len(seqs)
        BY <1>0
      <4> QED BY <2>1, <4>1
    <3> QED BY <3>1
  <2>3. PICK g : g = Body(g) /\ FlattenSeq(seqs) = g[Len(seqs)]
    <3>1. FlattenSeq(seqs) = (CHOOSE g : g = Body(g))[Len(seqs)]
      BY <1>2 DEF FlattenSeq
    <3> HIDE DEF Body
    <3> QED BY <2>2, <3>1
  <2>4. \A i \in 1..Len(seqs) : g[i] = IF i = 1 THEN seqs[i] ELSE g[i - 1] \o seqs[i]
    BY <2>3
  <2> DEFINE P == {i \in Nat : i \in 1..Len(seqs) => g[i] = f[i]}
  <2>5. 0 \in P
    OBVIOUS
  <2>6. \A i \in Nat : i \in P => i + 1 \in P
    <3> SUFFICES ASSUME NEW i \in Nat, i \in P, i + 1 \in 1..Len(seqs) PROVE g[i + 1] = f[i + 1]
      OBVIOUS
    <3>1. CASE i = 0
      BY <2>1, <2>4, <3>1
    <3>2. CASE i # 0
      <4>1. i \in 1..Len(seqs) /\ i + 1 # 1 /\ (i + 1) - 1 = i /\ g[i] = f[i]
        BY <1>0, <3>2
      <4> QED BY <2>1, <2>4, <4>1
    <3> QED BY <3>1, <3>2
  <2>7. Len(seqs) \in P
    <3> HIDE DEF P
    <3> QED BY <1>0, <2>5, <2>6, SetInduction
  <2>8. g[Len(seqs)] = f[Len(seqs)]
    BY <1>0, <1>2, <2>7
  <2> QED BY <2>3, <2>8
<1> QED BY <1>1, <1>2
(* The lines of the first n symbols of a text t are those between the      *)
(* positions e[0], ..., e[m], of which all but the outer two are breaks.   *)
Cuts(e, m, t, n) ==
  /\ m \in Nat \ {0} /\ e \in [0..m -> 0..(n + 1)] /\ e[0] = 0 /\ e[m] = n + 1
  /\ \A k, l \in 0..m : k < l => e[k] < e[l]
  /\ \A i \in 1..n : t[i] = "n" <=> \E l \in 1..(m - 1) : e[l] = i
Between(e, m, t) == [l \in 1..m |-> SubSeq(t, e[l - 1] + 1, e[l] - 1)]

LEMMA LinesSolved ==
  ASSUME NEW S, NEW t \in Seq(S)
  PROVE  \E g : /\ \A i \in 0..Len(t) : g[i] =
                     IF i = 0 THEN <<<<>>>>
                     ELSE IF t[i] = "n" THEN Append(g[i - 1], <<>>)
                     ELSE [g[i - 1] EXCEPT ![Len(g[i - 1])] = Append(g[i - 1][Len(g[i - 1])], t[i])]
                /\ Lines(t) = g[Len(t)]
<1> DEFINE Step(v, i) == IF t[i] = "n" THEN Append(v, <<>>)
                         ELSE [v EXCEPT ![Len(v)] = Append(v[Len(v)], t[i])]
           Body(g) == [i \in 0..Len(t) |-> IF i = 0 THEN <<<<>>>> ELSE Step(g[i - 1], i)]
           Solves(g, k) == \A i \in 0..k : g[i] = IF i = 0 THEN <<<<>>>> ELSE Step(g[i - 1], i)
           P == {k \in Nat : \E g : Solves(g, k)}
<1>0. Len(t) \in Nat
  BY LenProperties
<1>1. 0 \in P
  <2>1. Solves([i \in {0} |-> <<<<>>>>], 0)
    OBVIOUS
  <2> QED BY <2>1
<1>2. ASSUME NEW k \in Nat, NEW g, Solves(g, k) PROVE \E h : Solves(h, k + 1)
  <2> HIDE DEF Step
  <2> DEFINE h == [i \in 0..(k + 1) |-> IF i = k + 1 THEN Step(g[k], k + 1) ELSE g[i]]
  <2>1. ASSUME NEW i \in 0..(k + 1) PROVE h[i] = IF i = 0 THEN <<<<>>>> ELSE Step(h[i - 1], i)
    <3>1. CASE i = k + 1
      <4>1. i # 0 /\ i - 1 = k /\ h[i - 1] = g[k] /\ h[i] = Step(g[k], k + 1)
        BY <3>1
      <4> QED BY <3>1, <4>1
    <3>2. CASE i \in 1..k
      <4>1. i # 0 /\ h[i] = g[i] /\ i - 1 \in 0..k /\ h[i - 1] = g[i - 1]
        BY <3>2
      <4> QED BY <1>2, <3>2, <4>1
    <3>3. CASE i = 0
      BY <1>2, <3>3
    <3> QED BY <3>1, <3>2, <3>3
  <2> HIDE DEF h
  <2> QED BY <2>1
<1>3. Nat \subseteq P
  <2>1. \A k \in Nat : k \in P => k + 1 \in P
    <3> HIDE DEF Solves
    <3> QED BY <1>2
  <2> HIDE DEF P
  <2> QED BY <1>1, <2>1, SetInduction
<1>4. PICK g : Solves(g, Len(t))
  <2> HIDE DEF Solves
  <2> QED BY <1>0, <1>3
<1>5. \E f : f = Body(f)
  <2> HIDE DEF Step
  <2> DEFINE f == [i \in 0..Len(t) |-> g[i]]
  <2>1. \A i \in 0..Len(t) : f[i] = IF i = 0 THEN <<<<>>>> ELSE Step(f[i - 1], i)
    <3>1. \A i \in 0..Len(t) : i # 0 => i - 1 \in 0..Len(t)
      BY <1>0
    <3> QED BY <1>4, <3>1
  <2>2. f = Body(f)
    BY <2>1
  <2> QED BY <2>2
<1>6. Lines(t) = (CHOOSE f : f = Body(f))[Len(t)]
  BY DEF Lines
<1>7. PICK f : f = Body(f) /\ Lines(t) = f[Len(t)]
  <2> HIDE DEF Body
  <2> QED BY <1>5, <1>6
<1>8. \A i \in 0..Len(t) : f[i] = IF i = 0 THEN <<<<>>>> ELSE Step(f[i - 1], i)
  <2> HIDE DEF Step
  <2> QED BY <1>7
<1> QED BY <1>7, <1>8

LEMMA SeqOfFcn ==
  ASSUME NEW T, NEW n \in Nat, NEW f \in [1..n -> T]
  PROVE  f \in Seq(T) /\ Len(f) = n
OBVIOUS

(* The symbols of a text behind position a up to position b.               *)
LEMMA PieceIs ==
  ASSUME NEW S, NEW t \in Seq(S), NEW a \in 0..Len(t), NEW b \in a..Len(t)
  PROVE  /\ SubSeq(t, a + 1, b) \in Seq(S) /\ Len(SubSeq(t, a + 1, b)) = b - a
         /\ \A i \in 1..(b - a) : SubSeq(t, a + 1, b)[i] = t[a + i]
<1>0. Len(t) \in Nat /\ a \in Nat /\ b \in Nat /\ a <= b /\ b <= Len(t) /\ a + 1 \in Int
  BY LenProperties
<1>1. \A i \in (a + 1)..b : t[i] \in S
  BY <1>0, ElementOfSeq
<1>2. /\ SubSeq(t, a + 1, b) \in Seq(S)
      /\ Len(SubSeq(t, a + 1, b)) = IF a + 1 <= b THEN b - (a + 1) + 1 ELSE 0
      /\ \A i \in 1..(b - (a + 1) + 1) : SubSeq(t, a + 1, b)[i] = t[a + 1 + i - 1]
  BY <1>0, <1>1, SubSeqProperties
<1>3. ASSUME NEW i \in 1..(b - a) PROVE i \in 1..(b - (a + 1) + 1) /\ a + 1 + i - 1 = a + i
  BY <1>0
<1> QED BY <1>0, <1>2, <1>3

LEMMA PieceGrows ==
  ASSUME NEW S, NEW t \in Seq(S), NEW a \in Nat, NEW b \in Nat, a <= b, b + 1 <= Len(t)
  PROVE  SubSeq(t, a + 1, b + 1) = Append(SubSeq(t, a + 1, b), t[b + 1])
<1>0. /\ Len(t) \in Nat /\ a + 1 \in 1..Len(t) /\ b + 1 \in (a + 1)..Len(t) /\ b + 1 - 1 = b
      /\ a \in 0..Len(t) /\ b \in a..Len(t)
  BY LenProperties
<1>1. SubSeq(t, a + 1, b + 1) = SubSeq(t, a + 1, b + 1 - 1) \o <<t[b + 1]>>
  BY <1>0, SubSeqRecursiveSecond
<1>2. SubSeq(t, a + 1, b) \in Seq(S) /\ t[b + 1] \in S
  BY <1>0, PieceIs, ElementOfSeq
<1> QED BY <1>0, <1>1, <1>2, AppendIsConcat

LEMMA BetweenType ==
  ASSUME NEW S, NEW t \in Seq(S), NEW n \in 0..Len(t), NEW e, NEW m, Cuts(e, m, t, n)
  PROVE  /\ m \in Nat \ {0} /\ Between(e, m, t) \in Seq(Seq(S)) /\ Len(Between(e, m, t)) = m
         /\ \A l \in 1..m :
              /\ e[l - 1] \in 0..n /\ e[l] \in 1..(n + 1) /\ e[l - 1] < e[l]
              /\ Between(e, m, t)[l] = SubSeq(t, e[l - 1] + 1, e[l] - 1)
              /\ Between(e, m, t)[l] \in Seq(S)
              /\ Len(Between(e, m, t)[l]) = e[l] - 1 - e[l - 1]
              /\ \A i \in 1..(e[l] - 1 - e[l - 1]) : Between(e, m, t)[l][i] = t[e[l - 1] + i]
<1>0. Len(t) \in Nat /\ n \in Nat /\ m \in Nat \ {0} /\ \A i \in 1..Len(t) : t[i] \in S
  BY LenProperties, ElementOfSeq DEF Cuts
<1>1. ASSUME NEW l \in 1..m
      PROVE  /\ e[l - 1] \in 0..n /\ e[l] \in 1..(n + 1) /\ e[l - 1] < e[l]
             /\ SubSeq(t, e[l - 1] + 1, e[l] - 1) \in Seq(S)
             /\ Len(SubSeq(t, e[l - 1] + 1, e[l] - 1)) = e[l] - 1 - e[l - 1]
             /\ \A i \in 1..(e[l] - 1 - e[l - 1]) :
                  SubSeq(t, e[l - 1] + 1, e[l] - 1)[i] = t[e[l - 1] + i]
  <2>1. l - 1 \in 0..m /\ l \in 0..m /\ l - 1 < l
    BY <1>0
  <2>2. e[l - 1] \in 0..(n + 1) /\ e[l] \in 0..(n + 1) /\ e[l - 1] < e[l]
    BY <2>1 DEF Cuts
  <2>3. e[l - 1] \in 0..n /\ e[l - 1] \in 0..Len(t) /\ e[l] \in 1..(n + 1) /\ e[l] - 1 \in e[l - 1]..Len(t)
    BY <1>0, <2>2
  <2> QED BY <2>2, <2>3, PieceIs, SMTT(30)
<1>2. Between(e, m, t) \in Seq(Seq(S)) /\ Len(Between(e, m, t)) = m
  <2>1. Between(e, m, t) \in [1..m -> Seq(S)] /\ m \in Nat
    BY <1>0, <1>1 DEF Between
  <2> QED BY <2>1, SeqOfFcn
<1> QED BY <1>0, <1>1, <1>2 DEF Between

Laid(t, n, e, m) ==
  \A l \in 1..m : e[l] \in 1..(n + 1) /\ Between(e, m, t)[l] = SubSeq(t, e[l - 1] + 1, e[l] - 1)
LEMMA LaidOut ==
  ASSUME NEW n \in Nat, NEW t, NEW e, NEW m, Cuts(e, m, t, n)
  PROVE  Laid(t, n, e, m)
<1>1. ASSUME NEW l \in 1..m
      PROVE  e[l] \in 1..(n + 1) /\ Between(e, m, t)[l] = SubSeq(t, e[l - 1] + 1, e[l] - 1)
  <2>1. m \in Nat \ {0} /\ e \in [0..m -> 0..(n + 1)] /\ e[0] = 0 /\ \A k, j \in 0..m : k < j => e[k] < e[j]
    BY DEF Cuts
  <2>2. 0 \in 0..m /\ l \in 0..m /\ 0 < l
    BY <2>1
  <2>3. e[l] \in 0..(n + 1) /\ 0 < e[l]
    BY <2>1, <2>2
  <2>4. e[l] \in 1..(n + 1)
    BY <2>3
  <2>5. Between(e, m, t)[l] = SubSeq(t, e[l - 1] + 1, e[l] - 1)
    BY DEF Between
  <2> QED BY <2>4, <2>5
<1> QED BY <1>1 DEF Laid

LEMMA CutsBreak ==
  ASSUME NEW S, NEW t \in Seq(S), NEW k \in Nat, k + 1 <= Len(t), t[k + 1] = "n",
         NEW e, NEW m, Cuts(e, m, t, k)
  PROVE  \E f : Cuts(f, m + 1, t, k + 1) /\ Between(f, m + 1, t) = Append(Between(e, m, t), <<>>)
<1> DEFINE f == [l \in 0..(m + 1) |-> IF l = m + 1 THEN k + 2 ELSE e[l]]
<1>0. /\ m \in Nat \ {0} /\ e[m] = k + 1 /\ e[0] = 0
      /\ \A l \in 0..m : e[l] \in 0..(k + 1)
  BY DEF Cuts
<1>f. /\ f \in [0..(m + 1) -> 0..(k + 2)] /\ f[m + 1] = k + 2
      /\ \A l \in 0..m : f[l] = e[l]
  <2>1. \A l \in 0..(m + 1) : (IF l = m + 1 THEN k + 2 ELSE e[l]) \in 0..(k + 2)
    BY <1>0
  <2>2. m + 1 \in 0..(m + 1) /\ \A l \in 0..m : l \in 0..(m + 1) /\ l # m + 1
    BY <1>0
  <2> QED BY <2>1, <2>2
<1> HIDE DEF f
<1>1. Cuts(f, m + 1, t, k + 1)
  <2>1. f \in [0..(m + 1) -> 0..(k + 1 + 1)] /\ f[0] = 0 /\ f[m + 1] = k + 1 + 1
    BY <1>0, <1>f
  <2>2. ASSUME NEW i \in 0..(m + 1), NEW l \in 0..(m + 1), i < l PROVE f[i] < f[l]
    <3>1. CASE l = m + 1
      <4>1. i \in 0..m
        BY <1>0, <2>2, <3>1
      <4> QED BY <1>0, <1>f, <3>1, <4>1
    <3>2. CASE l # m + 1
      <4>1. i \in 0..m /\ l \in 0..m
        BY <1>0, <2>2, <3>2
      <4> QED BY <1>f, <2>2, <4>1 DEF Cuts
    <3> QED BY <3>1, <3>2
  <2>3. ASSUME NEW i \in 1..(k + 1) PROVE t[i] = "n" <=> \E l \in 1..(m + 1 - 1) : f[l] = i
    <3>1. CASE i = k + 1
      <4>1. f[m] = k + 1 /\ m \in 1..(m + 1 - 1)
        BY <1>0, <1>f
      <4> QED BY <3>1, <4>1
    <3>2. CASE i # k + 1
      <4>1. i \in 1..k /\ \A l \in 1..m : f[l] = i => l \in 1..(m - 1)
        BY <1>0, <1>f, <3>2, SMTT(30)
      <4>2. \A l \in 1..(m - 1) : l \in 1..(m + 1 - 1) /\ f[l] = e[l]
        BY <1>0, <1>f
      <4>3. m + 1 - 1 = m
        BY <1>0
      <4>4. t[i] = "n" <=> \E l \in 1..(m - 1) : e[l] = i
        BY <4>1 DEF Cuts
      <4> QED BY <4>1, <4>2, <4>3, <4>4
    <3> QED BY <3>1, <3>2
  <2> QED BY <1>0, <2>1, <2>2, <2>3 DEF Cuts
<1>2. Len(t) \in Nat /\ k \in 0..Len(t) /\ k + 1 \in 0..Len(t)
  BY LenProperties
<1> DEFINE b == Between(e, m, t)
           c == Between(f, m + 1, t)
<1>3. b \in Seq(Seq(S)) /\ Len(b) = m /\ c \in Seq(Seq(S)) /\ Len(c) = m + 1
  <2> QED BY <1>1, <1>2, BetweenType
<1>4. <<>> \in Seq(S)
  BY EmptySeq
<1>5. ASSUME NEW l \in 1..(m + 1) PROVE c[l] = Append(b, <<>>)[l]
  <2>1. CASE l = m + 1
    <3>1. c[l] = SubSeq(t, k + 1 + 1, k + 2 - 1)
      <4>1. f[l - 1] = k + 1 /\ f[l] = k + 2
        <5>1. l - 1 = m /\ m \in 0..m
          BY <1>0, <2>1
        <5> QED BY <1>0, <1>f, <2>1, <5>1
      <4> QED BY <4>1 DEF Between
    <3>2. k + 1 + 1 \in Int /\ k + 2 - 1 \in Int /\ k + 2 - 1 < k + 1 + 1
      OBVIOUS
    <3>3. c[l] = <<>>
      BY <3>1, <3>2, SubSeqEmpty
    <3> QED BY <1>3, <1>4, <2>1, <3>3, AppendProperties
  <2>2. CASE l # m + 1
    <3>1. l \in 1..m /\ l - 1 \in 0..m /\ l \in 0..m
      BY <1>0, <2>2
    <3>2. c[l] = b[l]
      <4>1. f[l] = e[l] /\ f[l - 1] = e[l - 1]
        BY <1>f, <3>1
      <4> QED BY <3>1, <4>1 DEF Between
    <3> QED BY <1>3, <1>4, <3>1, <3>2, AppendProperties
  <2> QED BY <2>1, <2>2
<1>6. Append(b, <<>>) \in Seq(Seq(S)) /\ Len(Append(b, <<>>)) = m + 1
  BY <1>3, <1>4, AppendProperties
<1>7. c = Append(b, <<>>)
  <2> HIDE DEF b, c
  <2> QED BY <1>3, <1>5, <1>6, SeqEqual
<1> QED BY <1>1, <1>7

LEMMA CutsOn ==
  ASSUME NEW S, NEW t \in Seq(S), NEW k \in Nat, k + 1 <= Len(t), t[k + 1] # "n",
         NEW e, NEW m, Cuts(e, m, t, k)
  PROVE  \E f : /\ Cuts(f, m, t, k + 1)
                /\ LET b == Between(e, m, t)
                   IN  Between(f, m, t) = [b EXCEPT ![Len(b)] = Append(b[Len(b)], t[k + 1])]
<1> DEFINE f == [e EXCEPT ![m] = k + 2]
<1>0. /\ m \in Nat \ {0} /\ e[m] = k + 1 /\ e[0] = 0 /\ e \in [0..m -> 0..(k + 1)]
      /\ Len(t) \in Nat /\ k \in 0..Len(t) /\ k + 1 \in 0..Len(t)
  BY LenProperties DEF Cuts
<1>f. /\ f \in [0..m -> 0..(k + 2)] /\ f[m] = k + 2
      /\ \A l \in 0..(m - 1) : l \in 0..m /\ f[l] = e[l]
  BY <1>0
<1> HIDE DEF f
<1>1. Cuts(f, m, t, k + 1)
  <2>1. f \in [0..m -> 0..(k + 1 + 1)] /\ f[0] = 0 /\ f[m] = k + 1 + 1
    BY <1>0, <1>f
  <2>2. ASSUME NEW i \in 0..m, NEW l \in 0..m, i < l PROVE f[i] < f[l]
    <3>1. i \in 0..(m - 1) /\ e[i] < e[l] /\ e[i] \in 0..(k + 1)
      BY <1>0, <2>2 DEF Cuts
    <3>2. CASE l = m
      BY <1>0, <1>f, <3>1, <3>2
    <3>3. CASE l # m
      BY <1>0, <1>f, <3>1, <3>3
    <3> QED BY <3>2, <3>3
  <2>3. ASSUME NEW i \in 1..(k + 1) PROVE t[i] = "n" <=> \E l \in 1..(m - 1) : f[l] = i
    <3>1. \A l \in 1..(m - 1) : f[l] = e[l] /\ l \in 0..m /\ m \in 0..m /\ l < m
      <4>1. \A l \in 1..(m - 1) : l \in 0..(m - 1) /\ l < m /\ m \in 0..m
        BY <1>0
      <4> QED BY <1>f, <4>1
    <3>2. CASE i = k + 1
      <4>1. ASSUME NEW l \in 1..(m - 1) PROVE f[l] < k + 1
        BY <1>0, <3>1 DEF Cuts
      <4> QED BY <1>0, <3>1, <3>2, <4>1
    <3>3. CASE i # k + 1
      <4>1. i \in 1..k
        BY <3>3
      <4>2. t[i] = "n" <=> \E l \in 1..(m - 1) : e[l] = i
        BY <4>1 DEF Cuts
      <4> QED BY <3>1, <4>2
    <3> QED BY <3>2, <3>3
  <2>4. m \in Nat \ {0}
    BY <1>0
  <2> QED BY <2>1, <2>2, <2>3, <2>4 DEF Cuts
<1> DEFINE b == Between(e, m, t)
           c == Between(f, m, t)
<1>2. /\ b \in Seq(Seq(S)) /\ Len(b) = m /\ \A l \in 1..m : b[l] \in Seq(S)
      /\ c \in Seq(Seq(S)) /\ Len(c) = m
  BY <1>0, <1>1, BetweenType
<1>3. ASSUME NEW l \in 1..m, l # m PROVE c[l] = b[l]
  <2>1. f[l] = e[l] /\ f[l - 1] = e[l - 1]
    BY <1>0, <1>f, <1>3
  <2> QED BY <2>1 DEF Between
<1>4. c[m] = Append(b[m], t[k + 1])
  <2>1. m \in 1..m /\ m - 1 \in 0..m /\ m - 1 < m /\ f[m - 1] = e[m - 1]
    BY <1>0, <1>f
  <2>2. e[m - 1] \in 0..k
    BY <1>0, <2>1 DEF Cuts
  <2>3. c[m] = SubSeq(t, e[m - 1] + 1, k + 1) /\ b[m] = SubSeq(t, e[m - 1] + 1, k)
    <3>1. k + 2 - 1 = k + 1 /\ k + 1 - 1 = k
      OBVIOUS
    <3>2. c[m] = SubSeq(t, f[m - 1] + 1, f[m] - 1) /\ b[m] = SubSeq(t, e[m - 1] + 1, e[m] - 1)
      BY <2>1 DEF Between
    <3> HIDE DEF b, c
    <3> QED BY <1>0, <1>f, <2>1, <3>1, <3>2
  <2>4. e[m - 1] \in Nat /\ e[m - 1] <= k
    BY <2>2
  <2> HIDE DEF b, c
  <2> QED BY <2>3, <2>4, PieceGrows
<1>5. c = [b EXCEPT ![m] = Append(b[m], t[k + 1])]
  <2>1. b = [l \in 1..m |-> b[l]] /\ c = [l \in 1..m |-> c[l]]
    BY DEF Between
  <2> HIDE DEF b, c
  <2> QED BY <1>0, <1>3, <1>4, <2>1
<1> QED BY <1>1, <1>2, <1>5

(* The lines of a text are what is between the breaks.                     *)
LEMMA LinesAre ==
  ASSUME NEW S, NEW t \in Seq(S)
  PROVE  \E e, m : Cuts(e, m, t, Len(t)) /\ Lines(t) = Between(e, m, t)
<1>0. Len(t) \in Nat
  BY LenProperties
<1>1. PICK g : /\ \A i \in 0..Len(t) : g[i] =
                     IF i = 0 THEN <<<<>>>>
                     ELSE IF t[i] = "n" THEN Append(g[i - 1], <<>>)
                     ELSE [g[i - 1] EXCEPT ![Len(g[i - 1])] = Append(g[i - 1][Len(g[i - 1])], t[i])]
               /\ Lines(t) = g[Len(t)]
  BY LinesSolved
<1> DEFINE Good(k) == \E e, m : Cuts(e, m, t, k) /\ g[k] = Between(e, m, t)
           P == {k \in Nat : k <= Len(t) => Good(k)}
<1>2. Good(0)
  <2> DEFINE a == [l \in 0..1 |-> l]
  <2>1. Cuts(a, 1, t, 0)
    BY DEF Cuts
  <2>2. Between(a, 1, t) = <<SubSeq(t, 1, 0)>>
    BY DEF Between
  <2>3. SubSeq(t, 1, 0) = <<>>
    <3>1. 1 \in Int /\ 0 \in Int /\ 0 < 1
      OBVIOUS
    <3> QED BY <3>1, SubSeqEmpty
  <2>4. g[0] = <<<<>>>>
    <3>1. 0 \in 0..Len(t)
      BY <1>0
    <3> QED BY <1>1, <3>1, Zenon
  <2>5. g[0] = Between(a, 1, t)
    BY <2>2, <2>3, <2>4
  <2>6. Cuts(a, 1, t, 0) /\ g[0] = Between(a, 1, t)
    BY <2>1, <2>5
  <2> HIDE DEF a
  <2> QED BY <2>6, Zenon
<1>3. ASSUME NEW k \in Nat, k + 1 <= Len(t), Good(k) PROVE Good(k + 1)
  <2>1. PICK e, m : Cuts(e, m, t, k) /\ g[k] = Between(e, m, t)
    BY <1>3
  <2>2. k + 1 \in 0..Len(t) /\ k + 1 # 0 /\ k + 1 - 1 = k
    BY <1>0, <1>3
  <2>3. g[k + 1] = IF t[k + 1] = "n" THEN Append(g[k], <<>>)
                   ELSE [g[k] EXCEPT ![Len(g[k])] = Append(g[k][Len(g[k])], t[k + 1])]
    BY <1>1, <2>2
  <2>4. CASE t[k + 1] = "n"
    <3>1. \E f : Cuts(f, m + 1, t, k + 1) /\ Between(f, m + 1, t) = Append(Between(e, m, t), <<>>)
      BY <1>3, <2>1, <2>4, CutsBreak
    <3> QED BY <2>1, <2>3, <2>4, <3>1
  <2>5. CASE t[k + 1] # "n"
    <3>1. \E f : /\ Cuts(f, m, t, k + 1)
                 /\ Between(f, m, t) = [g[k] EXCEPT ![Len(g[k])] = Append(g[k][Len(g[k])], t[k + 1])]
      BY <1>3, <2>1, <2>5, CutsOn
    <3> QED BY <2>3, <2>5, <3>1
  <2> QED BY <2>4, <2>5
<1>4. Len(t) \in P
  <2> HIDE DEF Good
  <2>1. 0 \in P
    BY <1>2
  <2>2. \A k \in Nat : k \in P => k + 1 \in P
    BY <1>0, <1>3
  <2> HIDE DEF P
  <2> QED BY <1>0, <2>1, <2>2, SetInduction
<1> QED BY <1>0, <1>1, <1>4

-----------------------------------------------------------------------------
(* Pieces: the symbols of a text behind position a up to position b.       *)
Piece(t, a, b) == SubSeq(t, a + 1, b)

LEMMA PieceType ==
  ASSUME NEW S, NEW t \in Seq(S), NEW a \in 0..Len(t), NEW b \in a..Len(t)
  PROVE  /\ Piece(t, a, b) \in Seq(S) /\ Len(Piece(t, a, b)) = b - a
         /\ \A i \in 1..(b - a) : Piece(t, a, b)[i] = t[a + i]
BY PieceIs DEF Piece

LEMMA PieceOfPiece ==
  ASSUME NEW S, NEW t \in Seq(S), NEW a \in 0..Len(t), NEW b \in a..Len(t),
         NEW c \in 0..(b - a), NEW d \in c..(b - a)
  PROVE  Piece(Piece(t, a, b), c, d) = Piece(t, a + c, a + d)
<1>0. /\ Len(t) \in Nat /\ a \in Nat /\ b \in Nat /\ c \in Nat /\ d \in Nat /\ a <= b /\ b <= Len(t)
      /\ c <= d /\ d <= b - a
  BY LenProperties
<1>1. a + c \in 0..Len(t) /\ a + d \in (a + c)..Len(t)
  BY <1>0
<1> DEFINE p == Piece(t, a, b)
           q == Piece(p, c, d)
           r == Piece(t, a + c, a + d)
<1>2. p \in Seq(S) /\ Len(p) = b - a /\ \A i \in 1..(b - a) : p[i] = t[a + i]
  BY PieceType
<1>3. q \in Seq(S) /\ Len(q) = d - c /\ \A i \in 1..(d - c) : q[i] = p[c + i]
  <2>1. c \in 0..Len(p) /\ d \in c..Len(p)
    BY <1>2
  <2> HIDE DEF p
  <2> QED BY <1>2, <2>1, PieceType
<1>4. r \in Seq(S) /\ Len(r) = d - c /\ \A i \in 1..(d - c) : r[i] = t[a + c + i]
  <2>1. /\ r \in Seq(S) /\ Len(r) = (a + d) - (a + c)
        /\ \A i \in 1..((a + d) - (a + c)) : r[i] = t[a + c + i]
    BY <1>1, PieceType
  <2>2. (a + d) - (a + c) = d - c
    BY <1>0
  <2> HIDE DEF r
  <2> QED BY <2>1, <2>2
<1> HIDE DEF p, q, r
<1>5. ASSUME NEW i \in 1..(d - c) PROVE q[i] = r[i]
  <2>1. c + i \in 1..(b - a) /\ a + (c + i) = a + c + i
    BY <1>0
  <2> QED BY <1>2, <1>3, <1>4, <2>1
<1>6. q = r
  BY <1>3, <1>4, <1>5, SeqEqual
<1> QED BY <1>6 DEF p, q, r

LEMMA PieceJoin ==
  ASSUME NEW S, NEW t \in Seq(S), NEW a \in 0..Len(t), NEW b \in a..Len(t), NEW c \in b..Len(t)
  PROVE  Piece(t, a, b) \o Piece(t, b, c) = Piece(t, a, c)
<1>0. Len(t) \in Nat /\ a + 1 \in 1..(Len(t) + 1) /\ b \in (a + 1 - 1)..Len(t) /\ c \in b..Len(t)
  BY LenProperties
<1> QED BY <1>0, ConcatAdjacentSubSeq DEF Piece

LEMMA PieceFirst ==
  ASSUME NEW S, NEW t \in Seq(S), NEW a \in 1..Len(t), NEW b \in a..Len(t)
  PROVE  <<t[a]>> \o Piece(t, a, b) = Piece(t, a - 1, b)
<1>0. a - 1 + 1 = a
  OBVIOUS
<1> QED BY <1>0, SubSeqRecursiveFirst DEF Piece

LEMMA PieceAll ==
  ASSUME NEW S, NEW t \in Seq(S)
  PROVE  Piece(t, 0, Len(t)) = t
BY SubSeqFull DEF Piece

LEMMA PieceNone ==
  ASSUME NEW t, NEW a \in Int
  PROVE  Piece(t, a, a) = <<>>
<1>1. a + 1 \in Int /\ a < a + 1
  OBVIOUS
<1> QED BY <1>1, SubSeqEmpty DEF Piece

(* The smallest and the largest position with a property.                  *)
LEMMA MinIs ==
  ASSUME NEW T \in SUBSET Nat, T # {}
  PROVE  Min(T) \in T /\ \A y \in T : Min(T) <= y
BY SmallestOfNat DEF Min

LEMMA MaxIs ==
  ASSUME NEW n \in Nat, NEW T \in SUBSET (1..n), T # {}
  PROVE  Max(T) \in T /\ \A y \in T : y <= Max(T)
<1>1. PICK x \in T : \A y \in T : y <= x
  BY LargestUpTo
<1>2. \A y \in T : x >= y
  BY <1>1
<1>3. Max(T) \in T /\ \A y \in T : Max(T) >= y
  BY <1>1, <1>2 DEF Max
<1> QED BY <1>3

-----------------------------------------------------------------------------
(* Lines that follow each other in a text, joined, are the piece of it that*)
(* they came from.                                                         *)
LEMMA JoinBetween ==
  ASSUME NEW S, "n" \in S, NEW t \in Seq(S), NEW n \in 0..Len(t),
         NEW e, NEW m, Cuts(e, m, t, n), NEW a \in 1..m, NEW b \in a..m
  PROVE  Join(SubSeq(Between(e, m, t), a, b)) = Piece(t, e[a - 1], e[b] - 1)
<1> DEFINE B    == Between(e, m, t)
           len  == b - a + 1
           ls   == SubSeq(B, a, b)
           seqs == [l \in DOMAIN ls |-> IF l = 1 THEN ls[l] ELSE <<"n">> \o ls[l]]
           f    == [i \in 0..len |-> IF i = 0 THEN <<>> ELSE Piece(t, e[a - 1], e[a + i - 1] - 1)]
<1>0. /\ m \in Nat \ {0} /\ n \in Nat /\ n <= Len(t) /\ Len(t) \in Nat
      /\ a \in Nat /\ b \in Nat /\ 1 <= a /\ a <= b /\ b <= m /\ len \in Nat \ {0}
      /\ e \in [0..m -> 0..(n + 1)]
      /\ \A k, l \in 0..m : k < l => e[k] < e[l]
      /\ \A l \in 1..(m - 1) : e[l] \in 1..n => t[e[l]] = "n"
  BY LenProperties DEF Cuts
<1>1. /\ B \in Seq(Seq(S)) /\ Len(B) = m
      /\ \A l \in 1..m : /\ B[l] = Piece(t, e[l - 1], e[l] - 1) /\ B[l] \in Seq(S)
                         /\ e[l - 1] \in 0..n /\ e[l] \in 1..(n + 1) /\ e[l - 1] < e[l]
  BY BetweenType DEF Piece
<1> HIDE DEF B
<1>2. ls \in Seq(Seq(S)) /\ Len(ls) = len /\ \A i \in 1..len : ls[i] = B[a + i - 1]
  <2>1. \A i \in a..b : B[i] \in Seq(S)
    BY <1>0, <1>1
  <2>2. a \in Int /\ b \in Int
    BY <1>0
  <2>3. /\ SubSeq(B, a, b) \in Seq(Seq(S)) /\ Len(SubSeq(B, a, b)) = IF a <= b THEN b - a + 1 ELSE 0
        /\ \A i \in 1..(b - a + 1) : SubSeq(B, a, b)[i] = B[a + i - 1]
    BY <2>1, <2>2, SubSeqProperties
  <2> QED BY <1>0, <2>3
<1> HIDE DEF ls
<1>3. \A i \in 1..len : ls[i] \in Seq(S)
  BY <1>2, ElementOfSeq
<1>4. /\ seqs \in Seq(Seq(S)) /\ Len(seqs) = len
      /\ \A i \in 1..len : seqs[i] = IF i = 1 THEN ls[i] ELSE <<"n">> \o ls[i]
  <2>1. DOMAIN ls = 1..len
    BY <1>2, LenProperties
  <2>2. \A i \in 1..len : <<"n">> \o ls[i] \in Seq(S)
    <3>1. <<"n">> \in Seq(S)
      OBVIOUS
    <3> QED BY <1>3, <3>1, ConcatProperties
  <2>3. seqs \in [1..len -> Seq(S)] /\ len \in Nat
    BY <1>0, <1>3, <2>1, <2>2
  <2> QED BY <2>1, <2>3, SeqOfFcn
<1> HIDE DEF seqs
<1>5. ASSUME NEW i \in 1..len
      PROVE  /\ a + i - 1 \in 1..m /\ a - 1 \in 0..m
             /\ e[a - 1] \in 0..Len(t) /\ e[a + i - 1] - 1 \in e[a - 1]..Len(t)
  <2>1. a + i - 1 \in 1..m /\ a - 1 \in 0..m /\ a - 1 < a + i - 1
    BY <1>0
  <2>2. e[a - 1] < e[a + i - 1] /\ e[a - 1] \in 0..(n + 1) /\ e[a + i - 1] \in 0..(n + 1)
    BY <1>0, <2>1
  <2> QED BY <1>0, <2>1, <2>2
<1>6. /\ f \in [0..len -> Seq(S)] /\ f[0] = <<>>
      /\ \A i \in 1..len : f[i] = Piece(t, e[a - 1], e[a + i - 1] - 1)
  <2>1. \A i \in 0..len : (IF i = 0 THEN <<>> ELSE Piece(t, e[a - 1], e[a + i - 1] - 1)) \in Seq(S)
    <3>1. ASSUME NEW i \in 1..len PROVE Piece(t, e[a - 1], e[a + i - 1] - 1) \in Seq(S)
      BY <1>5, PieceType
    <3>2. \A i \in 0..len : i # 0 => i \in 1..len
      BY <1>0
    <3> QED BY <3>1, <3>2, EmptySeq
  <2>2. 0 \in 0..len /\ \A i \in 1..len : i \in 0..len /\ i # 0
    BY <1>0
  <2> QED BY <2>1, <2>2
<1> HIDE DEF f
<1>7. ASSUME NEW i \in 1..len PROVE f[i] = f[i - 1] \o seqs[i]
  <2>1. CASE i = 1
    <3>1. f[i - 1] = <<>> /\ seqs[i] = B[a]
      BY <1>2, <1>4, <1>6, <2>1
    <3>2. f[i] = B[a]
      BY <1>0, <1>1, <1>6, <2>1
    <3>3. B[a] \in Seq(S)
      BY <1>0, <1>1
    <3> QED BY <3>1, <3>2, <3>3, ConcatEmptySeq
  <2>2. CASE i # 1
    <3> DEFINE c == a + i - 2
    <3>1. /\ i - 1 \in 1..len /\ a + (i - 1) - 1 = c /\ a + i - 1 \in 1..m /\ (a + i - 1) - 1 = c
          /\ c \in 1..(m - 1) /\ c \in 0..m /\ a - 1 \in 0..m /\ a - 1 < c /\ a + i - 1 \in 0..m /\ c < a + i - 1
      BY <1>0, <2>2
    <3> DEFINE d == a + i - 1
    <3> HIDE DEF c
    <3>2. /\ e[c] \in 1..n /\ e[a - 1] < e[c] /\ e[c] < e[d] /\ e[d] \in 1..(n + 1) /\ e[a - 1] \in 0..n
          /\ t[e[c]] = "n"
      <4>1. e[a - 1] < e[c] /\ e[c] < e[d] /\ e[a - 1] \in 0..(n + 1) /\ e[c] \in 0..(n + 1) /\ e[d] \in 0..(n + 1)
        BY <1>0, <3>1
      <4>2. e[c] \in 1..n
        BY <1>0, <4>1
      <4> QED BY <1>0, <3>1, <4>1, <4>2
    <3>3. f[i - 1] = Piece(t, e[a - 1], e[c] - 1) /\ f[i] = Piece(t, e[a - 1], e[d] - 1)
      BY <1>6, <3>1
    <3>4. seqs[i] = <<t[e[c]]>> \o Piece(t, e[c], e[d] - 1)
      <4>1. seqs[i] = <<"n">> \o ls[i]
        BY <1>4, <2>2
      <4>2. ls[i] = B[d]
        BY <1>2
      <4>3. B[d] = Piece(t, e[d - 1], e[d] - 1) /\ d - 1 = c
        BY <1>1, <3>1
      <4> HIDE DEF d
      <4> QED BY <3>2, <4>1, <4>2, <4>3
    <3>5. seqs[i] = Piece(t, e[c] - 1, e[d] - 1)
      <4>1. e[c] \in 1..Len(t) /\ e[d] - 1 \in e[c]..Len(t)
        BY <1>0, <3>2
      <4> QED BY <3>4, <4>1, PieceFirst
    <3>6. e[a - 1] \in 0..Len(t) /\ e[c] - 1 \in e[a - 1]..Len(t) /\ e[d] - 1 \in (e[c] - 1)..Len(t)
      BY <1>0, <3>2
    <3> QED BY <3>3, <3>5, <3>6, PieceJoin
  <2> QED BY <2>1, <2>2
<1>8. FlattenSeq(seqs) = f[len]
  <2> HIDE DEF len
  <2>1. /\ f \in [0..Len(seqs) -> Seq(S)] /\ f[0] = <<>> /\ seqs \in Seq(Seq(S))
        /\ \A i \in 1..Len(seqs) : f[i] = f[i - 1] \o seqs[i]
    BY <1>4, <1>6, <1>7
  <2>2. FlattenSeq(seqs) = f[Len(seqs)]
    BY <2>1, FlattenIs
  <2> QED BY <1>4, <2>2
<1>9. f[len] = Piece(t, e[a - 1], e[b] - 1)
  <2>1. len \in 1..len /\ a + len - 1 = b
    BY <1>0
  <2> QED BY <1>6, <2>1
<1>10. Join(ls) = FlattenSeq(seqs)
  BY DEF Join, seqs
<1> QED BY <1>8, <1>9, <1>10 DEF ls, B

(* The first n symbols of a text without the line ends around them.        *)
Core(t, n) ==
  LET full == {i \in 1..n : t[i] # "n"}
  IN  IF full = {} THEN <<>> ELSE Piece(t, Min(full) - 1, Max(full))

(* What Core is, without Min and Max.                                      *)
LEMMA CoreIs ==
  ASSUME NEW t, NEW n \in Nat
  PROVE  \/ Core(t, n) = <<>> /\ \A i \in 1..n : t[i] = "n"
         \/ \E x \in 1..n : \E y \in x..n :
              /\ t[x] # "n" /\ t[y] # "n"
              /\ \A i \in 1..n : t[i] # "n" => x <= i /\ i <= y
              /\ Core(t, n) = Piece(t, x - 1, y)
<1> DEFINE full == {i \in 1..n : t[i] # "n"}
<1>1. CASE full = {}
  BY <1>1 DEF Core
<1>2. CASE full # {}
  <2>1. Min(full) \in full /\ \A y \in full : Min(full) <= y
    <3>1. full \in SUBSET Nat
      OBVIOUS
    <3> HIDE DEF full
    <3> QED BY <1>2, <3>1, MinIs
  <2>2. Max(full) \in full /\ \A y \in full : y <= Max(full)
    <3>1. full \in SUBSET (1..n)
      OBVIOUS
    <3> HIDE DEF full
    <3> QED BY <1>2, <3>1, MaxIs
  <2>3. Core(t, n) = Piece(t, Min(full) - 1, Max(full))
    BY <1>2 DEF Core
  <2> DEFINE x == Min(full)
             y == Max(full)
  <2>4. /\ x \in 1..n /\ y \in 1..n /\ t[x] # "n" /\ t[y] # "n"
        /\ \A i \in 1..n : t[i] # "n" => x <= i /\ i <= y
        /\ Core(t, n) = Piece(t, x - 1, y)
    BY <2>1, <2>2, <2>3
  <2> HIDE DEF x, y
  <2>5. y \in x..n
    BY <2>4
  <2> QED BY <2>4, <2>5
<1> QED BY <1>1, <1>2

(* It is known from its ends.                                              *)
LEMMA CoreFrom ==
  ASSUME NEW t, NEW n \in Nat, NEW x \in 1..n, NEW y \in x..n, t[x] # "n", t[y] # "n",
         \A i \in 1..n : t[i] # "n" => x <= i /\ i <= y
  PROVE  Core(t, n) = Piece(t, x - 1, y)
<1>1. y \in 1..n
  OBVIOUS
<1>2. \E u \in 1..n : \E v \in u..n :
         /\ t[u] # "n" /\ t[v] # "n"
         /\ \A i \in 1..n : t[i] # "n" => u <= i /\ i <= v
         /\ Core(t, n) = Piece(t, u - 1, v)
  <2>1. ~ \A i \in 1..n : t[i] = "n"
    OBVIOUS
  <2> QED BY <2>1, CoreIs
<1>3. PICK u \in 1..n, v \in 1..n :
         /\ t[u] # "n" /\ t[v] # "n"
         /\ \A i \in 1..n : t[i] # "n" => u <= i /\ i <= v
         /\ Core(t, n) = Piece(t, u - 1, v)
  <2>1. \A u \in 1..n : \A v \in u..n : v \in 1..n
    OBVIOUS
  <2> QED BY <1>2, <2>1
<1>4. u <= x /\ x <= u /\ v <= y /\ y <= v
  BY <1>1, <1>3
<1>5. u = x /\ v = y
  BY <1>1, <1>4
<1> QED BY <1>3, <1>5

LEMMA CoreBlank ==
  ASSUME NEW t, NEW n \in Nat, \A i \in 1..n : t[i] = "n"
  PROVE  Core(t, n) = <<>>
BY CoreIs

-----------------------------------------------------------------------------
(* Positions and lines.                                                    *)
LEMMA CutsFacts ==
  ASSUME NEW n \in Nat, NEW t, NEW e, NEW m, Cuts(e, m, t, n)
  PROVE  /\ m \in Nat \ {0} /\ e[0] = 0 /\ e[m] = n + 1
         /\ \A l \in 0..m : e[l] \in 0..(n + 1)
         /\ \A k, l \in 0..m : (k <= l => e[k] <= e[l]) /\ (e[k] < e[l] => k < l)
         /\ \A l \in 1..(m - 1) : e[l] \in 1..n /\ t[e[l]] = "n"
<1>0. /\ m \in Nat \ {0} /\ e[0] = 0 /\ e[m] = n + 1 /\ e \in [0..m -> 0..(n + 1)]
      /\ \A k, l \in 0..m : k < l => e[k] < e[l]
  BY DEF Cuts
<1>1. \A l \in 0..m : e[l] \in 0..(n + 1)
  BY <1>0
<1>2. ASSUME NEW k \in 0..m, NEW l \in 0..m PROVE (k <= l => e[k] <= e[l]) /\ (e[k] < e[l] => k < l)
  <2>1. e[k] \in Nat /\ e[l] \in Nat
    BY <1>1
  <2>2. k < l \/ k = l \/ l < k
    OBVIOUS
  <2> QED BY <1>0, <2>1, <2>2
<1>3. ASSUME NEW l \in 1..(m - 1) PROVE e[l] \in 1..n /\ t[e[l]] = "n"
  <2>1. l \in 0..m /\ 0 \in 0..m /\ m \in 0..m /\ 0 < l /\ l < m
    BY <1>0
  <2>2. 0 < e[l] /\ e[l] < n + 1 /\ e[l] \in 0..(n + 1)
    BY <1>0, <1>1, <2>1
  <2>3. e[l] \in 1..n
    BY <2>2
  <2> QED BY <2>3 DEF Cuts
<1> QED BY <1>0, <1>1, <1>2, <1>3

LEMMA CutsInside ==
  ASSUME NEW n \in Nat, NEW t, NEW e, NEW m, Cuts(e, m, t, n),
         NEW l \in 1..m, NEW x \in 1..n, e[l - 1] < x, x < e[l]
  PROVE  t[x] # "n"
<1> SUFFICES ASSUME t[x] = "n" PROVE FALSE
  OBVIOUS
<1>1. PICK k \in 1..(m - 1) : e[k] = x
  BY DEF Cuts
<1>2. m \in Nat \ {0} /\ k \in 0..m /\ l \in 0..m /\ l - 1 \in 0..m
  BY CutsFacts
<1>3. l - 1 < k /\ k < l
  BY <1>1, <1>2, CutsFacts
<1> QED BY <1>2, <1>3

LEMMA OnALine ==
  ASSUME NEW n \in Nat, NEW t, NEW e, NEW m, Cuts(e, m, t, n), NEW i \in 1..n, t[i] # "n"
  PROVE  \E l \in 1..m : e[l - 1] < i /\ i < e[l]
<1> DEFINE T == {l \in 1..m : i < e[l]}
<1>0. m \in Nat \ {0} /\ e[0] = 0 /\ e[m] = n + 1 /\ m \in 1..m /\ \A l \in 0..m : e[l] \in 0..(n + 1)
  BY CutsFacts
<1>1. PICK l \in T : \A k \in T : l <= k
  <2>1. T \in SUBSET Nat /\ T # {}
    BY <1>0
  <2> HIDE DEF T
  <2> QED BY <2>1, SmallestOfNat
<1>2. CASE l = 1
  BY <1>0, <1>1, <1>2
<1>3. CASE l # 1
  <2>1. l - 1 \in 1..m /\ l - 1 \in 1..(m - 1) /\ l - 1 \in 0..m /\ ~(l <= l - 1)
    BY <1>0, <1>1, <1>3
  <2>2. ~(i < e[l - 1])
    BY <1>1, <2>1
  <2>3. t[e[l - 1]] = "n"
    BY <2>1, CutsFacts
  <2>4. e[l - 1] # i /\ e[l - 1] \in 0..(n + 1)
    BY <1>0, <2>1, <2>3
  <2> QED BY <1>1, <2>2, <2>4
<1> QED BY <1>2, <1>3

LEMMA JoinNothing == Join(<<<<>>>>) = <<>>
<1> DEFINE seqs == [l \in DOMAIN <<<<>>>> |-> IF l = 1 THEN <<<<>>>>[l] ELSE <<"n">> \o <<<<>>>>[l]]
           f == [i \in 0..1 |-> <<>>]
<1>1. seqs = <<<<>>>>
  OBVIOUS
<1>2. <<<<>>>> \in Seq(Seq({})) /\ Len(<<<<>>>>) = 1 /\ f \in [0..1 -> Seq({})]
  OBVIOUS
<1>3. f[0] = <<>> /\ f[1] = <<>> /\ \A i \in 1..1 : f[i] = f[i - 1] \o <<<<>>>>[i]
  <2>1. <<>> \o <<>> = <<>>
    BY EmptySeq, ConcatEmptySeq
  <2> QED BY <2>1
<1>4. FlattenSeq(<<<<>>>>) = <<>>
  <2> HIDE DEF f
  <2> QED BY <1>2, <1>3, FlattenIs
<1> QED BY <1>1, <1>4 DEF Join

(* The lines of a text, without the blank ones around them, joined.        *)
LEMMA JoinTrimmed ==
  ASSUME NEW S, "n" \in S, NEW t \in Seq(S), NEW n \in 0..Len(t), NEW e, NEW m, Cuts(e, m, t, n)
  PROVE  Join(Trimmed(Between(e, m, t))) = Core(t, n)
<1> DEFINE B    == Between(e, m, t)
           full == {i \in DOMAIN B : B[i] # <<>>}
<1>n. n \in Nat /\ Len(t) \in Nat /\ n <= Len(t)
  BY LenProperties
<1>0. /\ m \in Nat \ {0} /\ e[m] = n + 1
      /\ \A l \in 0..m : e[l] \in 0..(n + 1)
      /\ \A k, l \in 0..m : k <= l => e[k] <= e[l]
      /\ B \in Seq(Seq(S)) /\ Len(B) = m
      /\ \A l \in 1..m : /\ B[l] \in Seq(S) /\ Len(B[l]) = e[l] - 1 - e[l - 1]
                         /\ e[l - 1] \in 0..n /\ e[l] \in 1..(n + 1) /\ e[l - 1] < e[l]
  BY <1>n, CutsFacts, BetweenType
<1>1. full = {l \in 1..m : e[l - 1] + 1 < e[l]}
  <2>1. DOMAIN B = 1..m
    BY <1>0, LenProperties
  <2> HIDE DEF B
  <2>2. ASSUME NEW l \in 1..m PROVE B[l] # <<>> <=> e[l - 1] + 1 < e[l]
    <3>1. B[l] = <<>> <=> Len(B[l]) = 0
      BY <1>0, EmptySeq
    <3>2. Len(B[l]) = e[l] - 1 - e[l - 1] /\ e[l - 1] \in 0..n /\ e[l] \in 1..(n + 1) /\ e[l - 1] < e[l]
      BY <1>0
    <3> DEFINE u == e[l - 1]
               v == e[l]
    <3>3. \A k : k = v - 1 - u => (k = 0 <=> ~(u + 1 < v))
      <4>1. u \in Int /\ v \in Int /\ u < v
        BY <3>2
      <4> HIDE DEF u, v
      <4> QED BY <4>1
    <3> QED BY <3>1, <3>2, <3>3
  <2> QED BY <2>1, <2>2
<1>2. Trimmed(B) = IF full = {} THEN <<<<>>>> ELSE SubSeq(B, Min(full), Max(full))
  BY DEF Trimmed
<1>3. ASSUME NEW i \in 1..n, t[i] # "n"
      PROVE  \E l \in full : e[l - 1] < i /\ i < e[l]
  <2>1. PICK l \in 1..m : e[l - 1] < i /\ i < e[l]
    BY <1>n, <1>3, OnALine
  <2>2. e[l - 1] + 1 < e[l]
    <3>1. e[l - 1] \in 0..n /\ e[l] \in 1..(n + 1)
      BY <1>0
    <3>2. \A u \in 0..n, v \in 1..(n + 1) : u < i /\ i < v => u + 1 < v
      BY <1>n
    <3> QED BY <2>1, <3>1, <3>2
  <2> QED BY <1>1, <2>1, <2>2
<1> HIDE DEF full, B
<1>4. CASE full = {}
  <2>1. Core(t, n) = <<>>
    BY <1>n, <1>3, <1>4, CoreBlank
  <2> QED BY <1>2, <1>4, <2>1, JoinNothing DEF B
<1>5. CASE full # {}
  <2> DEFINE a == Min(full)
             b == Max(full)
  <2>1. /\ a \in full /\ b \in full /\ \A l \in full : a <= l /\ l <= b
    <3>1. full \in SUBSET Nat /\ full \in SUBSET (1..m) /\ m \in Nat
      BY <1>0, <1>1
    <3>2. Min(full) \in full /\ \A l \in full : Min(full) <= l
      BY <1>5, <3>1, MinIs
    <3>3. Max(full) \in full /\ \A l \in full : l <= Max(full)
      BY <1>5, <3>1, MaxIs
    <3> QED BY <3>2, <3>3
  <2>2. Trimmed(B) = SubSeq(B, a, b)
    BY <1>2, <1>5
  <2> HIDE DEF a, b
  <2>3. a \in 1..m /\ b \in a..m /\ b \in 1..m /\ e[a - 1] + 1 < e[a] /\ e[b - 1] + 1 < e[b]
    BY <1>1, <2>1
  <2>4. Join(Trimmed(B)) = Piece(t, e[a - 1], e[b] - 1)
    BY <2>2, <2>3, JoinBetween DEF B
  <2> DEFINE x == e[a - 1] + 1
             y == e[b] - 1
  <2>5. /\ a - 1 \in 0..m /\ a \in 0..m /\ b - 1 \in 0..m /\ b \in 0..m /\ a <= b /\ a - 1 <= b - 1
        /\ e[a - 1] \in 0..n /\ e[b] \in 1..(n + 1) /\ e[a] \in 1..(n + 1) /\ e[b - 1] \in 0..n
    BY <1>0, <2>3
  <2>6. e[a] <= e[b] /\ e[a - 1] <= e[b - 1]
    BY <1>0, <2>5
  <2>7. x \in 1..n /\ y \in x..n /\ y \in 1..n /\ e[a - 1] < x /\ x < e[a] /\ e[b - 1] < y /\ y < e[b]
    <3> DEFINE p == e[a - 1]
               q == e[a]
               r == e[b - 1]
               s == e[b]
    <3>1. /\ p \in 0..n /\ q \in 1..(n + 1) /\ r \in 0..n /\ s \in 1..(n + 1)
          /\ p + 1 < q /\ r + 1 < s /\ q <= s /\ p <= r
      BY <2>3, <2>5, <2>6
    <3>2. /\ p + 1 \in 1..n /\ s - 1 \in (p + 1)..n /\ s - 1 \in 1..n
          /\ p < p + 1 /\ p + 1 < q /\ r < s - 1 /\ s - 1 < s
      <4> HIDE DEF p, q, r, s
      <4> QED BY <1>n, <3>1
    <3> QED BY <3>2
  <2>8. t[x] # "n" /\ t[y] # "n"
    <3> HIDE DEF x, y
    <3> QED BY <1>n, <2>3, <2>7, CutsInside
  <2>9. ASSUME NEW i \in 1..n, t[i] # "n" PROVE x <= i /\ i <= y
    <3>1. PICK l \in full : e[l - 1] < i /\ i < e[l]
      BY <1>3, <2>9
    <3>2. l \in 1..m /\ a <= l /\ l <= b
      BY <1>1, <2>1, <3>1
    <3>3. a - 1 <= l - 1 /\ l - 1 \in 0..m /\ l \in 0..m /\ e[l - 1] \in 0..n /\ e[l] \in 1..(n + 1)
      BY <1>0, <2>5, <3>2
    <3>4. e[a - 1] <= e[l - 1] /\ e[l] <= e[b]
      BY <1>0, <2>5, <3>2, <3>3
    <3> DEFINE p == e[a - 1]
               q == e[l - 1]
               r == e[l]
               s == e[b]
    <3>5. /\ p \in Int /\ q \in Int /\ r \in Int /\ s \in Int /\ q < i /\ i < r /\ p <= q /\ r <= s
      BY <2>5, <3>1, <3>3, <3>4
    <3>6. p + 1 <= i /\ i <= s - 1
      <4> HIDE DEF p, q, r, s
      <4> QED BY <3>5
    <3> QED BY <3>6
  <2>10. Core(t, n) = Piece(t, x - 1, y)
    <3> HIDE DEF x, y
    <3> QED BY <1>n, <2>7, <2>8, <2>9, CoreFrom
  <2>11. x - 1 = e[a - 1]
    BY <2>5
  <2> QED BY <2>4, <2>10, <2>11 DEF B
<1> QED BY <1>4, <1>5

-----------------------------------------------------------------------------
(* Blank lines before a text change nothing.                               *)
LEMMA CoreShift ==
  ASSUME NEW S, NEW t \in Seq(S), NEW j \in 0..Len(t), NEW q \in j..Len(t),
         \A i \in 1..j : t[i] = "n", NEW k \in 0..(q - j)
  PROVE  Core(Piece(t, j, q), k) = Core(t, j + k)
<1> DEFINE p == Piece(t, j, q)
<1>0. Len(t) \in Nat /\ j \in Nat /\ q \in Nat /\ k \in Nat /\ j <= q /\ q <= Len(t) /\ k <= q - j /\ j + k \in Nat
  BY LenProperties
<1>1. \A i \in 1..k : p[i] = t[j + i] /\ j + i \in 1..(j + k)
  <2>1. \A i \in 1..k : i \in 1..(q - j)
    BY <1>0
  <2> QED BY <1>0, <2>1, PieceType
<1>2. ASSUME NEW i \in 1..(j + k), t[i] # "n" PROVE i - j \in 1..k /\ j + (i - j) = i /\ p[i - j] = t[i]
  <2>1. i - j \in 1..k /\ j + (i - j) = i
    <3>1. ~(i \in 1..j)
      BY <1>2
    <3> QED BY <1>0, <3>1
  <2> QED BY <1>1, <2>1
<1>3. CASE \A i \in 1..k : p[i] = "n"
  <2>1. \A i \in 1..(j + k) : t[i] = "n"
    BY <1>2, <1>3
  <2>2. Core(t, j + k) = <<>>
    BY <1>0, <2>1, CoreBlank
  <2>3. Core(p, k) = <<>>
    <3> HIDE DEF p
    <3>1. k \in Nat
      BY <1>0
    <3> QED BY <1>3, <3>1, CoreBlank, Zenon
  <2> QED BY <2>2, <2>3
<1>4. CASE ~ \A i \in 1..k : p[i] = "n"
  <2>1. PICK x \in 1..k : \E y \in x..k :
          /\ p[x] # "n" /\ p[y] # "n" /\ \A i \in 1..k : p[i] # "n" => x <= i /\ i <= y
          /\ Core(p, k) = Piece(p, x - 1, y)
    <3> HIDE DEF p
    <3> QED BY <1>0, <1>4, CoreIs
  <2>2. PICK y \in x..k :
          /\ p[x] # "n" /\ p[y] # "n" /\ \A i \in 1..k : p[i] # "n" => x <= i /\ i <= y
          /\ Core(p, k) = Piece(p, x - 1, y)
    BY <2>1
  <2>3. /\ y \in 1..k /\ j + x \in 1..(j + k) /\ j + y \in (j + x)..(j + k) /\ j + (x - 1) = j + x - 1
        /\ x - 1 \in 0..(q - j) /\ y \in (x - 1)..(q - j)
    BY <1>0
  <2>4. t[j + x] # "n" /\ t[j + y] # "n"
    BY <1>1, <2>2, <2>3
  <2>5. ASSUME NEW i \in 1..(j + k), t[i] # "n" PROVE j + x <= i /\ i <= j + y
    <3>1. i - j \in 1..k /\ p[i - j] # "n"
      BY <1>2, <2>5
    <3>2. x <= i - j /\ i - j <= y
      <4> HIDE DEF p
      <4> QED BY <2>2, <3>1
    <3> QED BY <1>0, <2>3, <3>1, <3>2
  <2>6. Core(t, j + k) = Piece(t, j + x - 1, j + y)
    BY <1>0, <2>3, <2>4, <2>5, CoreFrom
  <2>7. Piece(p, x - 1, y) = Piece(t, j + (x - 1), j + y)
    BY <2>3, PieceOfPiece
  <2>8. Core(p, k) = Core(t, j + k)
    <3> HIDE DEF p
    <3> QED BY <2>2, <2>3, <2>6, <2>7
  <2> QED BY <2>8
<1> QED BY <1>3, <1>4

LEMMA CoreType ==
  ASSUME NEW S, NEW t \in Seq(S), NEW n \in 0..Len(t)
  PROVE  Core(t, n) \in Seq(S)
<1>0. Len(t) \in Nat /\ n \in Nat
  BY LenProperties
<1>1. CASE Core(t, n) = <<>>
  BY <1>1, EmptySeq
<1>2. CASE \E x \in 1..n : \E y \in x..n : Core(t, n) = Piece(t, x - 1, y)
  <2>1. PICK x \in 1..n : \E y \in x..n : Core(t, n) = Piece(t, x - 1, y)
    BY <1>2
  <2>2. PICK y \in x..n : Core(t, n) = Piece(t, x - 1, y)
    BY <2>1
  <2>3. x - 1 \in 0..Len(t) /\ y \in (x - 1)..Len(t)
    BY <1>0
  <2> QED BY <2>2, <2>3, PieceType
<1> QED BY <1>0, <1>1, <1>2, CoreIs

(* What is left of a longer text begins with what is left of a shorter one.*)
LEMMA CoreGrows ==
  ASSUME NEW S, NEW t \in Seq(S), NEW n \in 0..Len(t), NEW k \in 0..n
  PROVE  \E r \in Seq(S) : Core(t, n) = Core(t, k) \o r
<1>0. Len(t) \in Nat /\ n \in Nat /\ k \in Nat /\ k <= n /\ n <= Len(t)
  BY LenProperties
<1>1. CASE Core(t, k) = <<>>
  <2>1. Core(t, n) \in Seq(S)
    BY CoreType
  <2> QED BY <1>1, <2>1, ConcatEmptySeq
<1>2. CASE Core(t, k) # <<>>
  <2>1. PICK x \in 1..k : \E y \in x..k :
          /\ t[x] # "n" /\ t[y] # "n" /\ \A i \in 1..k : t[i] # "n" => x <= i /\ i <= y
          /\ Core(t, k) = Piece(t, x - 1, y)
    BY <1>0, <1>2, CoreIs
  <2>2. PICK y \in x..k :
          /\ t[x] # "n" /\ t[y] # "n" /\ \A i \in 1..k : t[i] # "n" => x <= i /\ i <= y
          /\ Core(t, k) = Piece(t, x - 1, y)
    BY <2>1
  <2>3. x \in 1..n /\ y \in 1..n
    BY <1>0
  <2>4. PICK u \in 1..n : \E v \in u..n :
          /\ t[u] # "n" /\ t[v] # "n" /\ \A i \in 1..n : t[i] # "n" => u <= i /\ i <= v
          /\ Core(t, n) = Piece(t, u - 1, v)
    BY <1>0, <2>2, <2>3, CoreIs
  <2>5. PICK v \in u..n :
          /\ t[u] # "n" /\ t[v] # "n" /\ \A i \in 1..n : t[i] # "n" => u <= i /\ i <= v
          /\ Core(t, n) = Piece(t, u - 1, v)
    BY <2>4
  <2>6. u <= x /\ y <= v
    BY <2>2, <2>3, <2>5
  <2>7. u = x
    <3>1. u \in 1..k
      BY <1>0, <2>6
    <3>2. x <= u
      BY <2>2, <2>5, <3>1
    <3> QED BY <2>6, <3>2
  <2>8. x - 1 \in 0..Len(t) /\ y \in (x - 1)..Len(t) /\ v \in y..Len(t) /\ y \in 0..Len(t)
    BY <1>0, <2>6
  <2>9. Piece(t, x - 1, y) \o Piece(t, y, v) = Piece(t, x - 1, v)
    BY <2>8, PieceJoin
  <2>10. Piece(t, y, v) \in Seq(S)
    BY <2>8, PieceType
  <2> QED BY <2>2, <2>5, <2>7, <2>9, <2>10
<1> QED BY <1>1, <1>2

(* What is new in a text that goes on is what was appended.                *)
LEMMA PrefixIs ==
  ASSUME NEW S, NEW u \in Seq(S), NEW r \in Seq(S)
  PROVE  /\ IsPrefix(u, u \o r) /\ From(u \o r, Len(u) + 1) = r
<1> DEFINE w == u \o r
<1>1. /\ w \in Seq(S) /\ Len(w) = Len(u) + Len(r) /\ Len(u) \in Nat /\ Len(r) \in Nat
      /\ \A i \in 1..(Len(u) + Len(r)) : w[i] = IF i <= Len(u) THEN u[i] ELSE r[i - Len(u)]
  BY ConcatProperties, LenProperties
<1> HIDE DEF w
<1>2. Piece(w, 0, Len(u)) = u /\ Piece(w, Len(u), Len(w)) = r
  <2>1. 0 \in 0..Len(w) /\ Len(u) \in 0..Len(w) /\ Len(w) \in Len(u)..Len(w)
    BY <1>1
  <2> DEFINE p == Piece(w, 0, Len(u))
             q == Piece(w, Len(u), Len(w))
  <2>2. p \in Seq(S) /\ Len(p) = Len(u) - 0 /\ \A i \in 1..(Len(u) - 0) : p[i] = w[0 + i]
    BY <1>1, <2>1, PieceType
  <2>3. q \in Seq(S) /\ Len(q) = Len(w) - Len(u) /\ \A i \in 1..(Len(w) - Len(u)) : q[i] = w[Len(u) + i]
    BY <1>1, <2>1, PieceType
  <2> HIDE DEF p, q
  <2>4. p = u
    <3>1. Len(p) = Len(u) /\ \A i \in 1..Len(p) : p[i] = u[i]
      BY <1>1, <2>2
    <3> QED BY <2>2, <3>1, SeqEqual
  <2>5. q = r
    <3>1. Len(q) = Len(r)
      BY <1>1, <2>3
    <3>2. \A i \in 1..Len(q) : i \in 1..(Len(w) - Len(u)) /\ Len(u) + i \in 1..(Len(u) + Len(r)) /\ Len(u) + i - Len(u) = i /\ ~(Len(u) + i <= Len(u))
      BY <1>1, <2>3
    <3>3. \A i \in 1..Len(q) : q[i] = r[i]
      BY <1>1, <2>3, <3>2
    <3> QED BY <2>3, <3>1, <3>3, SeqEqual
  <2> QED BY <2>4, <2>5 DEF p, q
<1>3. SubSeq(w, 1, Len(u)) = u /\ SubSeq(u, 1, Len(u)) = u
  <2>1. 0 + 1 = 1
    OBVIOUS
  <2> QED BY <1>2, <2>1, SubSeqFull DEF Piece
<1>4. IsPrefix(u, w)
  BY <1>1, <1>3 DEF IsPrefix
<1>5. From(w, Len(u) + 1) = r
  BY <1>2 DEF From, Piece
<1> QED BY <1>4, <1>5 DEF w

-----------------------------------------------------------------------------
StepsOn(T, n) == [1..n -> [T -> T]]

(* Functions defined along the numbers up to n exist.                      *)
LEMMA FunctionAlong ==
  ASSUME NEW T, NEW n \in Nat, NEW a \in T, NEW step \in StepsOn(T, n)
  PROVE  \E f \in [0..n -> T] : f[0] = a /\ \A i \in 1..n : f[i] = step[i][f[i - 1]]
<1> DEFINE Solves(f, k) == f \in [0..k -> T] /\ f[0] = a /\ \A i \in 1..k : f[i] = step[i][f[i - 1]]
           P == {k \in Nat : k <= n => \E f : Solves(f, k)}
<1>0. step \in [1..n -> [T -> T]]
  BY DEF StepsOn
<1>1. 0 \in P
  <2>1. Solves([i \in 0..0 |-> a], 0)
    OBVIOUS
  <2> HIDE DEF Solves
  <2> QED BY <2>1
<1>2. ASSUME NEW k \in Nat, k + 1 <= n, NEW f, Solves(f, k) PROVE \E h : Solves(h, k + 1)
  <2> DEFINE h == [i \in 0..(k + 1) |-> IF i = k + 1 THEN step[k + 1][f[k]] ELSE f[i]]
  <2>1. step[k + 1][f[k]] \in T /\ \A i \in 0..k : f[i] \in T
    <3>1. f[k] \in T /\ k + 1 \in 1..n
      BY <1>2
    <3> QED BY <1>0, <1>2, <3>1
  <2>2. h \in [0..(k + 1) -> T] /\ h[k + 1] = step[k + 1][f[k]] /\ \A i \in 0..k : h[i] = f[i]
    <3>1. \A i \in 0..(k + 1) : (IF i = k + 1 THEN step[k + 1][f[k]] ELSE f[i]) \in T
      BY <2>1
    <3>2. k + 1 \in 0..(k + 1) /\ \A i \in 0..k : i \in 0..(k + 1) /\ i # k + 1
      OBVIOUS
    <3> QED BY <3>1, <3>2
  <2> HIDE DEF h
  <2>3. ASSUME NEW i \in 1..(k + 1) PROVE h[i] = step[i][h[i - 1]]
    <3>1. CASE i = k + 1
      <4>1. i - 1 = k /\ k \in 0..k
        BY <3>1
      <4> QED BY <2>2, <3>1, <4>1
    <3>2. CASE i # k + 1
      <4>1. i \in 1..k /\ i \in 0..k /\ i - 1 \in 0..k
        BY <3>2
      <4> QED BY <1>2, <2>2, <4>1
    <3> QED BY <3>1, <3>2
  <2>4. h[0] = a
    BY <1>2, <2>2
  <2>5. Solves(h, k + 1)
    BY <2>2, <2>3, <2>4
  <2> HIDE DEF Solves
  <2> QED BY <2>5
<1>3. n \in P
  <2>1. \A k \in Nat : k \in P => k + 1 \in P
    <3> HIDE DEF Solves
    <3> QED BY <1>2
  <2> HIDE DEF P
  <2> QED BY <1>1, <2>1, SetInduction
<1> QED BY <1>3

LEMMA WithoutMarkersAre ==
  ASSUME NEW L, NEW ls \in Seq(L)
  PROVE  \E f \in [0..Len(ls) -> Seq(L)] :
           /\ f[0] = <<>> /\ WithoutMarkers(ls) = f[Len(ls)]
           /\ \A i \in 1..Len(ls) : f[i] = IF HasMarker(ls[i]) THEN f[i - 1] ELSE Append(f[i - 1], ls[i])
<1> DEFINE Step(v, i) == IF HasMarker(ls[i]) THEN v ELSE Append(v, ls[i])
           step == [i \in 1..Len(ls) |-> [v \in Seq(L) |-> Step(v, i)]]
           Body(g) == [i \in 0..Len(ls) |-> IF i = 0 THEN <<>> ELSE Step(g[i - 1], i)]
<1>0. Len(ls) \in Nat /\ \A i \in 1..Len(ls) : ls[i] \in L
  BY LenProperties, ElementOfSeq
<1>1. \A v \in Seq(L) : \A i \in 1..Len(ls) : Step(v, i) \in Seq(L)
  BY <1>0, AppendProperties
<1> HIDE DEF Step
<1>2. step \in [1..Len(ls) -> [Seq(L) -> Seq(L)]]
  BY <1>1
<1>3. \A v \in Seq(L) : \A i \in 1..Len(ls) : step[i][v] = Step(v, i)
  OBVIOUS
<1> HIDE DEF step
<1>4. PICK f \in [0..Len(ls) -> Seq(L)] : f[0] = <<>> /\ \A i \in 1..Len(ls) : f[i] = step[i][f[i - 1]]
  <2>1. <<>> \in Seq(L)
    BY EmptySeq
  <2> DEFINE n == Len(ls)
             T == Seq(L)
  <2>2. n \in Nat /\ <<>> \in T /\ step \in StepsOn(T, n)
    BY <1>0, <1>2, <2>1 DEF StepsOn
  <2>3. \E f \in [0..n -> T] : f[0] = <<>> /\ \A i \in 1..n : f[i] = step[i][f[i - 1]]
    <3> DEFINE a == <<>>
    <3>1. a \in T
      BY <2>2
    <3> HIDE DEF n, T, a
    <3>2. \E f \in [0..n -> T] : f[0] = a /\ \A i \in 1..n : f[i] = step[i][f[i - 1]]
      BY <2>2, <3>1, FunctionAlong
    <3> QED BY <3>2 DEF a
  <2> QED BY <2>3
<1>5. \A i \in 1..Len(ls) : i \in 0..Len(ls) /\ i - 1 \in 0..Len(ls)
  BY <1>0
<1>6. f = Body(f)
  <2>1. ASSUME NEW i \in 0..Len(ls) PROVE f[i] = IF i = 0 THEN <<>> ELSE Step(f[i - 1], i)
    <3>1. i # 0 => i \in 1..Len(ls)
      BY <1>0
    <3> QED BY <1>3, <1>4, <1>5, <3>1
  <2>2. f = [i \in 0..Len(ls) |-> f[i]]
    BY <1>4
  <2> QED BY <2>1, <2>2
<1>7. WithoutMarkers(ls) = (CHOOSE g : g = Body(g))[Len(ls)]
  BY DEF WithoutMarkers, Step
<1>8. PICK g : g = Body(g) /\ WithoutMarkers(ls) = g[Len(ls)]
  <2> HIDE DEF Body
  <2> QED BY <1>6, <1>7
<1>9. DOMAIN g = 0..Len(ls) /\ \A i \in 0..Len(ls) : g[i] = IF i = 0 THEN <<>> ELSE Step(g[i - 1], i)
  BY <1>8
<1>10. \A i \in 0..Len(ls) : g[i] \in Seq(L)
  <2> DEFINE P == {i \in Nat : i <= Len(ls) => g[i] \in Seq(L)}
  <2>1. 0 \in P
    <3>1. 0 \in 0..Len(ls)
      BY <1>0
    <3>2. g[0] = <<>>
      BY <1>9, <3>1, Zenon
    <3> QED BY <3>2, EmptySeq
  <2>2. ASSUME NEW i \in Nat, i \in P PROVE i + 1 \in P
    <3> SUFFICES ASSUME i + 1 <= Len(ls) PROVE g[i + 1] \in Seq(L)
      OBVIOUS
    <3>1. i + 1 \in 0..Len(ls) /\ i + 1 # 0 /\ i + 1 - 1 = i /\ i + 1 \in 1..Len(ls) /\ g[i] \in Seq(L)
      BY <1>0, <2>2
    <3>2. g[i + 1] = Step(g[i], i + 1)
      BY <1>9, <3>1
    <3> QED BY <1>1, <3>1, <3>2
  <2>3. \A i \in Nat : i \in P
    <3> HIDE DEF P
    <3> QED BY <2>1, <2>2, SetInduction
  <2> QED BY <1>0, <2>3
<1>11. g \in [0..Len(ls) -> Seq(L)]
  <2>1. g = [i \in 0..Len(ls) |-> g[i]]
    BY <1>8
  <2> HIDE DEF Body
  <2> QED BY <1>10, <2>1
<1>12. \A i \in 1..Len(ls) : g[i] = Step(g[i - 1], i)
  <2>1. \A i \in 1..Len(ls) : i # 0
    OBVIOUS
  <2> HIDE DEF Body
  <2> QED BY <1>5, <1>9, <2>1
<1>13. g[0] = <<>>
  <2>1. 0 \in 0..Len(ls)
    BY <1>0
  <2> QED BY <1>9, <2>1, Zenon
<1> HIDE DEF Body
<1> QED BY <1>8, <1>11, <1>12, <1>13 DEF Step

(* Lines without a marker all stay.                                        *)
LEMMA NoMarkers ==
  ASSUME NEW L, NEW ls \in Seq(L), \A i \in 1..Len(ls) : ~HasMarker(ls[i])
  PROVE  WithoutMarkers(ls) = ls
<1>0. Len(ls) \in Nat
  BY LenProperties
<1>1. PICK f \in [0..Len(ls) -> Seq(L)] :
           /\ f[0] = <<>> /\ WithoutMarkers(ls) = f[Len(ls)]
           /\ \A i \in 1..Len(ls) : f[i] = IF HasMarker(ls[i]) THEN f[i - 1] ELSE Append(f[i - 1], ls[i])
  BY WithoutMarkersAre
<1> DEFINE P == {i \in Nat : i <= Len(ls) => f[i] = Piece(ls, 0, i)}
<1>2. 0 \in P
  BY <1>1, PieceNone
<1>3. ASSUME NEW i \in Nat, i \in P PROVE i + 1 \in P
  <2> SUFFICES ASSUME i + 1 <= Len(ls) PROVE f[i + 1] = Piece(ls, 0, i + 1)
    OBVIOUS
  <2>1. i + 1 \in 1..Len(ls) /\ i + 1 - 1 = i /\ f[i] = Piece(ls, 0, i) /\ 0 <= i
    BY <1>0, <1>3
  <2>2. f[i + 1] = Append(Piece(ls, 0, i), ls[i + 1])
    <3>1. ~HasMarker(ls[i + 1])
      BY <2>1
    <3>2. f[i + 1] = Append(f[i + 1 - 1], ls[i + 1])
      <4> DEFINE k == i + 1
      <4>1. k \in 1..Len(ls) /\ ~HasMarker(ls[k])
        BY <2>1, <3>1
      <4> HIDE DEF k
      <4>2. f[k] = IF HasMarker(ls[k]) THEN f[k - 1] ELSE Append(f[k - 1], ls[k])
        BY <1>1, <4>1, Zenon
      <4>3. f[k] = Append(f[k - 1], ls[k])
        BY <4>1, <4>2, Zenon
      <4> QED BY <4>3 DEF k
    <3> QED BY <2>1, <3>2
  <2> QED BY <2>1, <2>2, PieceGrows DEF Piece
<1>4. Len(ls) \in P
  <2> HIDE DEF P
  <2> QED BY <1>0, <1>2, <1>3, SetInduction
<1> QED BY <1>0, <1>1, <1>4, PieceAll

-----------------------------------------------------------------------------
(* A line that is the command itself is its two halves between line ends.  *)
EchoAt(t, p) == /\ t[p] = "c" /\ t[p + 1] = "a"
                /\ p = 1 \/ t[p - 1] = "n"
                /\ p + 1 = Len(t) \/ t[p + 2] = "n"

LEMMA LineIsEcho ==
  ASSUME NEW S, "c" \in S, "a" \in S, NEW t \in Seq(S), NEW e, NEW m, Cuts(e, m, t, Len(t)), NEW l \in 1..m
  PROVE  Between(e, m, t)[l] = Command <=>
           e[l] = e[l - 1] + 3 /\ t[e[l - 1] + 1] = "c" /\ t[e[l - 1] + 2] = "a"
<1> DEFINE b == Between(e, m, t)[l]
           u == e[l - 1]
           v == e[l]
<1>1. /\ u \in 0..Len(t) /\ v \in 1..(Len(t) + 1) /\ u < v /\ b \in Seq(S) /\ Len(b) = v - 1 - u
      /\ \A i \in 1..(v - 1 - u) : b[i] = t[u + i]
  <2>1. Len(t) \in 0..Len(t)
    BY LenProperties
  <2> QED BY <2>1, BetweenType
<1>2. Command \in Seq(S) /\ Len(Command) = 2 /\ Command[1] = "c" /\ Command[2] = "a"
  BY DEF Command
<1> HIDE DEF b, u, v
<1>3. ASSUME b = Command PROVE v = u + 3 /\ t[u + 1] = "c" /\ t[u + 2] = "a"
  <2>1. v - 1 - u = 2 /\ b[1] = "c" /\ b[2] = "a"
    BY <1>1, <1>2, <1>3
  <2>2. u \in Int /\ v \in Int /\ 1 \in 1..(v - 1 - u) /\ 2 \in 1..(v - 1 - u)
    BY <1>1, <2>1
  <2>3. b[1] = t[u + 1] /\ b[2] = t[u + 2]
    BY <1>1, <2>2
  <2> QED BY <2>1, <2>2, <2>3
<1>4. ASSUME v = u + 3, t[u + 1] = "c", t[u + 2] = "a" PROVE b = Command
  <2>1. v - 1 - u = 2 /\ 1 \in 1..2 /\ 2 \in 1..2 /\ \A i \in 1..2 : i = 1 \/ i = 2
    BY <1>1, <1>4
  <2>2. Len(b) = 2 /\ b[1] = "c" /\ b[2] = "a"
    BY <1>1, <1>4, <2>1
  <2>3. Len(b) = Len(Command) /\ \A i \in 1..Len(b) : b[i] = Command[i]
    BY <1>2, <2>1, <2>2
  <2> QED BY <1>1, <1>2, <2>3, SeqEqual
<1>5. b = Command <=> v = u + 3 /\ t[u + 1] = "c" /\ t[u + 2] = "a"
  BY <1>3, <1>4
<1> QED BY <1>5 DEF b, u, v

LEMMA EchoOfLine ==
  ASSUME NEW S, "c" \in S, "a" \in S, NEW t \in Seq(S), NEW e, NEW m, Cuts(e, m, t, Len(t)), NEW l \in 1..m,
         Between(e, m, t)[l] = Command
  PROVE  e[l - 1] + 1 \in 1..(Len(t) - 1) /\ EchoAt(t, e[l - 1] + 1) /\ e[l] = e[l - 1] + 3
<1>1. e[l] = e[l - 1] + 3 /\ t[e[l - 1] + 1] = "c" /\ t[e[l - 1] + 2] = "a"
  BY LineIsEcho
<1>2. /\ Len(t) \in Nat /\ m \in Nat \ {0} /\ e[0] = 0 /\ e[m] = Len(t) + 1
      /\ \A k \in 0..m : e[k] \in 0..(Len(t) + 1)
      /\ \A k \in 1..(m - 1) : e[k] \in 1..Len(t) /\ t[e[k]] = "n"
  BY LenProperties, CutsFacts
<1>3. PICK u \in Int : u = e[l - 1] /\ u \in 0..(Len(t) + 1) /\ e[l] \in 0..(Len(t) + 1)
  <2>1. l - 1 \in 0..m /\ l \in 0..m
    BY <1>2
  <2>2. e[l - 1] \in 0..(Len(t) + 1) /\ e[l] \in 0..(Len(t) + 1)
    BY <1>2, <2>1
  <2> QED BY <2>2
<1>4. PICK p \in Int : p = u + 1
  BY <1>3
<1>5. p = 1 \/ t[p - 1] = "n"
  <2>1. CASE l = 1
    BY <1>2, <1>3, <1>4, <2>1
  <2>2. CASE l # 1
    <3>1. l - 1 \in 1..(m - 1)
      BY <1>2, <2>2
    <3>2. t[u] = "n"
      BY <1>2, <1>3, <3>1
    <3>3. p - 1 = u
      BY <1>3, <1>4
    <3> QED BY <3>2, <3>3
  <2> QED BY <2>1, <2>2
<1>6. p + 1 = Len(t) \/ t[p + 2] = "n"
  <2>1. e[l] = p + 2
    BY <1>1, <1>3, <1>4
  <2>2. CASE l = m
    BY <1>2, <2>1, <2>2
  <2>3. CASE l # m
    <3>1. l \in 1..(m - 1)
      BY <1>2, <2>3
    <3>2. t[e[l]] = "n"
      BY <1>2, <3>1
    <3> QED BY <2>1, <3>2
  <2> QED BY <2>2, <2>3
<1>7. p \in 1..(Len(t) - 1)
  <2>1. u + 3 \in 0..(Len(t) + 1)
    BY <1>1, <1>3
  <2> QED BY <1>2, <1>3, <1>4, <2>1
<1>8. t[p] = "c" /\ t[p + 1] = "a"
  <2>1. p = u + 1 /\ p + 1 = u + 2
    BY <1>3, <1>4
  <2> QED BY <1>1, <1>3, <2>1
<1>9. EchoAt(t, p)
  BY <1>5, <1>6, <1>8 DEF EchoAt
<1>10. p = e[l - 1] + 1
  BY <1>3, <1>4
<1> QED BY <1>1, <1>7, <1>9, <1>10

LEMMA LineOfEcho ==
  ASSUME NEW S, "c" \in S, "a" \in S, NEW t \in Seq(S), NEW e, NEW m, Cuts(e, m, t, Len(t)),
         NEW p \in 1..(Len(t) - 1), EchoAt(t, p)
  PROVE  \E l \in 1..m : Between(e, m, t)[l] = Command
<1>0. /\ Len(t) \in Nat /\ m \in Nat \ {0} /\ e[0] = 0 /\ e[m] = Len(t) + 1
      /\ \A k \in 0..m : e[k] \in 0..(Len(t) + 1)
      /\ \A k \in 1..(m - 1) : e[k] \in 1..Len(t) /\ t[e[k]] = "n"
      /\ t[p] = "c" /\ t[p + 1] = "a" /\ p \in Nat /\ p \in 1..Len(t) /\ p + 1 \in 1..Len(t)
  <2>1. Len(t) \in Nat
    BY LenProperties
  <2>2. p \in Nat /\ p \in 1..Len(t) /\ p + 1 \in 1..Len(t)
    BY <2>1
  <2>3. t[p] = "c" /\ t[p + 1] = "a"
    BY DEF EchoAt
  <2> QED BY <2>1, <2>2, <2>3, CutsFacts
<1>1. PICK l \in 1..m : e[l - 1] < p /\ p < e[l]
  <2>1. t[p] # "n"
    BY <1>0
  <2> QED BY <1>0, <2>1, OnALine
<1>2. l - 1 \in 0..m /\ l \in 0..m /\ e[l - 1] \in 0..(Len(t) + 1) /\ e[l] \in 0..(Len(t) + 1)
  <2>1. l - 1 \in 0..m /\ l \in 0..m
    BY <1>0
  <2> QED BY <1>0, <2>1
<1>3. e[l - 1] = p - 1
  <2> SUFFICES ASSUME e[l - 1] # p - 1 PROVE FALSE
    OBVIOUS
  <2>1. p - 1 \in 1..Len(t) /\ e[l - 1] < p - 1 /\ p - 1 < e[l] /\ p # 1
    BY <1>0, <1>1, <1>2
  <2>2. t[p - 1] # "n"
    BY <1>0, <2>1, CutsInside
  <2> QED BY <2>1, <2>2 DEF EchoAt
<1>a. e[l] # p + 1
  <2> SUFFICES ASSUME e[l] = p + 1 PROVE FALSE
    OBVIOUS
  <2>1. l # m
    BY <1>0, <1>3
  <2>2. l \in 1..(m - 1)
    BY <1>0, <2>1
  <2>3. t[e[l]] = "n"
    BY <1>0, <2>2
  <2> QED BY <1>0, <2>3
<1>4. e[l] = p + 2
  <2> SUFFICES ASSUME e[l] # p + 2 PROVE FALSE
    OBVIOUS
  <2>1. p + 2 \in 1..Len(t) /\ e[l - 1] < p + 2 /\ p + 2 < e[l] /\ p + 1 # Len(t)
    BY <1>0, <1>1, <1>2, <1>a
  <2>2. t[p + 2] # "n"
    BY <1>0, <2>1, CutsInside
  <2> QED BY <2>1, <2>2 DEF EchoAt
<1>5. e[l] = e[l - 1] + 3 /\ e[l - 1] + 1 = p /\ e[l - 1] + 2 = p + 1
  BY <1>0, <1>3, <1>4
<1>6. Between(e, m, t)[l] = Command
  <2>1. t[e[l - 1] + 1] = "c" /\ t[e[l - 1] + 2] = "a"
    BY <1>0, <1>5
  <2> QED BY <1>5, <2>1, LineIsEcho
<1> QED BY <1>6

LEMMA EchoIs ==
  ASSUME NEW S, "c" \in S, "a" \in S, NEW t \in Seq(S)
  PROVE  HasEcho(t) <=> \E p \in 1..(Len(t) - 1) : EchoAt(t, p)
<1>1. PICK e, m : Cuts(e, m, t, Len(t)) /\ Lines(t) = Between(e, m, t)
  BY LinesAre
<1>2. Len(Lines(t)) = m
  <2>1. Len(t) \in 0..Len(t)
    BY LenProperties
  <2> QED BY <1>1, <2>1, BetweenType
<1>3. HasEcho(t) <=> \E l \in 1..m : Between(e, m, t)[l] = Command
  BY <1>1, <1>2 DEF HasEcho, Contains
<1>4. ASSUME NEW l \in 1..m, Between(e, m, t)[l] = Command PROVE \E p \in 1..(Len(t) - 1) : EchoAt(t, p)
  BY <1>1, <1>4, EchoOfLine
<1>5. ASSUME NEW p \in 1..(Len(t) - 1), EchoAt(t, p) PROVE \E l \in 1..m : Between(e, m, t)[l] = Command
  BY <1>1, <1>5, LineOfEcho
<1> QED BY <1>3, <1>4, <1>5

(* Where no line but the last can be the command, the last one is.         *)
LEMMA EchoIsLast ==
  ASSUME NEW S, "c" \in S, "a" \in S, NEW t \in Seq(S), HasEcho(t),
         \A p \in 1..(Len(t) - 1) : EchoAt(t, p) => p = Len(t) - 1
  PROVE  Last(Lines(t)) = Command
<1>1. PICK e, m : Cuts(e, m, t, Len(t)) /\ Lines(t) = Between(e, m, t)
  BY LinesAre
<1>0. /\ Len(t) \in Nat /\ m \in Nat \ {0} /\ e[m] = Len(t) + 1 /\ Len(Lines(t)) = m
      /\ \A k \in 0..m : e[k] \in 0..(Len(t) + 1)
      /\ \A k, l \in 0..m : k < l => e[k] < e[l]
  <2>1. Len(t) \in 0..Len(t) /\ Len(t) \in Nat
    BY LenProperties
  <2>2. Len(Lines(t)) = m
    BY <1>1, <2>1, BetweenType
  <2> QED BY <1>1, <2>1, <2>2, CutsFacts DEF Cuts
<1>2. PICK l \in 1..m : Lines(t)[l] = Command
  BY <1>0 DEF HasEcho, Contains
<1>3. e[l - 1] + 1 \in 1..(Len(t) - 1) /\ EchoAt(t, e[l - 1] + 1) /\ e[l] = e[l - 1] + 3
  BY <1>1, <1>2, EchoOfLine
<1>4. e[l - 1] + 1 = Len(t) - 1
  BY <1>3
<1>5. l \in 0..m /\ m \in 0..m /\ l - 1 \in 0..m
  BY <1>0
<1>6. e[l] = e[m]
  <2>1. PICK u \in 0..(Len(t) + 1) : u = e[l - 1]
    BY <1>0, <1>5
  <2>2. u = Len(t) - 2
    BY <1>0, <1>4, <2>1
  <2>3. e[l] = Len(t) + 1
    BY <1>0, <1>3, <2>1, <2>2
  <2> QED BY <1>0, <2>3
<1>7. l = m
  <2> SUFFICES ASSUME l # m PROVE FALSE
    OBVIOUS
  <2>1. l < m
    BY <1>0
  <2>2. e[l] < e[m] /\ e[m] \in Int
    BY <1>0, <1>5, <2>1
  <2> QED BY <1>6, <2>2
<1> QED BY <1>0, <1>2, <1>7 DEF Last

-----------------------------------------------------------------------------
(* What _cleanup_shell_output makes of a text without a marker.            *)
LEMMA CleanLines ==
  ASSUME NEW S, "n" \in S, NEW t \in Seq(S), \A i \in 1..Len(t) : t[i] # "k",
         NEW n \in 0..Len(t), NEW e, NEW m, Cuts(e, m, t, n)
  PROVE  Join(Trimmed(WithoutMarkers(Between(e, m, t)))) = Core(t, n)
<1> DEFINE B == Between(e, m, t)
<1>0. Len(t) \in Nat /\ n \in Nat /\ n <= Len(t)
  BY LenProperties
<1>1. /\ B \in Seq(Seq(S)) /\ Len(B) = m
      /\ \A l \in 1..m : /\ e[l - 1] \in 0..n /\ e[l] \in 1..(n + 1) /\ e[l - 1] < e[l]
                         /\ Len(B[l]) = e[l] - 1 - e[l - 1]
                         /\ \A i \in 1..(e[l] - 1 - e[l - 1]) : B[l][i] = t[e[l - 1] + i]
  BY BetweenType
<1>2. ASSUME NEW l \in 1..m PROVE ~HasMarker(B[l])
  <2> HIDE DEF B
  <2> SUFFICES ASSUME NEW i \in 1..Len(B[l]), B[l][i] = "k" PROVE FALSE
    BY DEF HasMarker, Contains
  <2>1. PICK u \in Int, v \in Int : /\ u = e[l - 1] /\ v = e[l] /\ u \in 0..n /\ v \in 1..(n + 1) /\ u < v
    <3>1. e[l - 1] \in 0..n /\ e[l] \in 1..(n + 1) /\ e[l - 1] < e[l]
      BY <1>1
    <3> QED BY <3>1
  <2>2. i \in 1..(v - 1 - u) /\ B[l][i] = t[u + i]
    BY <1>1, <2>1
  <2>3. u + i \in 1..Len(t)
    BY <1>0, <2>1, <2>2, SMTT(30)
  <2> QED BY <2>2, <2>3
<1>3. WithoutMarkers(B) = B
  <2> HIDE DEF B
  <2> QED BY <1>1, <1>2, NoMarkers
<1> QED BY <1>3, JoinTrimmed

(* A text that has no line of the command itself is left as it is without  *)
(* the blank lines around it.                                              *)
LEMMA CleanedIs ==
  ASSUME NEW S, "n" \in S, NEW t \in Seq(S), \A i \in 1..Len(t) : t[i] # "k", ~HasEcho(t)
  PROVE  Cleaned(t) = Core(t, Len(t))
<1>1. PICK e, m : Cuts(e, m, t, Len(t)) /\ Lines(t) = Between(e, m, t)
  BY LinesAre
<1>0. Len(t) \in 0..Len(t)
  BY LenProperties
<1> DEFINE B == Between(e, m, t)
<1>3. Join(Trimmed(WithoutMarkers(B))) = Core(t, Len(t))
  BY <1>0, <1>1, CleanLines
<1>4. RemoveFirst(B, Command) = B
  <2>1. ~ \E l \in 1..Len(B) : B[l] = Command
    BY <1>1 DEF HasEcho, Contains
  <2> HIDE DEF B
  <2> QED BY <2>1 DEF RemoveFirst
<1>5. Cleaned(t) = Join(Trimmed(WithoutMarkers(IF stripped THEN B ELSE RemoveFirst(B, Command))))
  BY <1>1 DEF Cleaned
<1> HIDE DEF B
<1> QED BY <1>3, <1>4, <1>5

LEMMA FlattenAlong ==
  ASSUME NEW S, NEW seqs \in Seq(Seq(S))
  PROVE  \E f \in [0..Len(seqs) -> Seq(S)] :
           /\ f[0] = <<>> /\ FlattenSeq(seqs) = f[Len(seqs)]
           /\ \A i \in 1..Len(seqs) : f[i] = f[i - 1] \o seqs[i]
<1> DEFINE step == [i \in 1..Len(seqs) |-> [v \in Seq(S) |-> v \o seqs[i]]]
<1>0. Len(seqs) \in Nat /\ \A i \in 1..Len(seqs) : seqs[i] \in Seq(S)
  BY LenProperties, ElementOfSeq
<1>1. step \in StepsOn(Seq(S), Len(seqs))
  <2>1. \A i \in 1..Len(seqs) : \A v \in Seq(S) : v \o seqs[i] \in Seq(S)
    BY <1>0, ConcatProperties
  <2> QED BY <2>1 DEF StepsOn
<1>2. \A i \in 1..Len(seqs) : \A v \in Seq(S) : step[i][v] = v \o seqs[i]
  OBVIOUS
<1> HIDE DEF step
<1>3. PICK f \in [0..Len(seqs) -> Seq(S)] : f[0] = <<>> /\ \A i \in 1..Len(seqs) : f[i] = step[i][f[i - 1]]
  <2> DEFINE n == Len(seqs)
             T == Seq(S)
             a == <<>>
  <2>1. n \in Nat /\ a \in T /\ step \in StepsOn(T, n)
    BY <1>0, <1>1, EmptySeq
  <2>2. \E f \in [0..n -> T] : f[0] = a /\ \A i \in 1..n : f[i] = step[i][f[i - 1]]
    <3> HIDE DEF n, T, a
    <3> QED BY <2>1, FunctionAlong
  <2> QED BY <2>2
<1>4. \A i \in 1..Len(seqs) : f[i] = f[i - 1] \o seqs[i]
  <2>1. \A i \in 1..Len(seqs) : i - 1 \in 0..Len(seqs)
    BY <1>0
  <2> QED BY <1>2, <1>3, <2>1
<1>5. FlattenSeq(seqs) = f[Len(seqs)]
  BY <1>3, <1>4, FlattenIs
<1> QED BY <1>3, <1>4, <1>5

LEMMA FlattenType ==
  ASSUME NEW S, NEW seqs \in Seq(Seq(S))
  PROVE  FlattenSeq(seqs) \in Seq(S)
<1>1. Len(seqs) \in 0..Len(seqs)
  BY LenProperties
<1>2. PICK f \in [0..Len(seqs) -> Seq(S)] : FlattenSeq(seqs) = f[Len(seqs)]
  BY FlattenAlong
<1> QED BY <1>1, <1>2

LEMMA JoinType ==
  ASSUME NEW S, "n" \in S, NEW ls \in Seq(Seq(S))
  PROVE  Join(ls) \in Seq(S)
<1> DEFINE seqs == [l \in DOMAIN ls |-> IF l = 1 THEN ls[l] ELSE <<"n">> \o ls[l]]
<1>1. /\ Len(ls) \in Nat /\ DOMAIN ls = 1..Len(ls) /\ <<"n">> \in Seq(S)
      /\ \A l \in 1..Len(ls) : ls[l] \in Seq(S)
  BY LenProperties, ElementOfSeq
<1>2. \A l \in 1..Len(ls) : <<"n">> \o ls[l] \in Seq(S)
  BY <1>1, ConcatProperties
<1>3. seqs \in [1..Len(ls) -> Seq(S)]
  BY <1>1, <1>2
<1>4. seqs \in Seq(Seq(S))
  BY <1>1, <1>3, SeqOfFcn
<1> QED BY <1>4, FlattenType DEF Join

LEMMA CleanedType ==
  ASSUME NEW S, "n" \in S, NEW t \in Seq(S)
  PROVE  Cleaned(t) \in Seq(S)
<1>1. Lines(t) \in Seq(Seq(S))
  <2>1. Len(t) \in 0..Len(t)
    BY LenProperties
  <2> QED BY <2>1, LinesAre, BetweenType
<1>2. ASSUME NEW ls \in Seq(Seq(S)) PROVE RemoveFirst(ls, Command) \in Seq(Seq(S))
  <2> DEFINE I == {i \in 1..Len(ls) : ls[i] = Command}
  <2>1. RemoveFirst(ls, Command) = IF \E i \in 1..Len(ls) : ls[i] = Command
                                   THEN RemoveAt(ls, IF I # {} THEN Min(I) ELSE 0) ELSE ls
    BY DEF RemoveFirst, SelectInSeq
  <2>2. CASE I = {}
    BY <2>1, <2>2
  <2>3. CASE I # {}
    <3>1. PICK i \in 1..Len(ls) : i = Min(I)
      <4>1. I \in SUBSET Nat
        OBVIOUS
      <4>2. Min(I) \in I
        <5> HIDE DEF I
        <5> QED BY <2>3, <4>1, MinIs
      <4> QED BY <4>2
    <3>2. RemoveFirst(ls, Command) = SubSeq(ls, 1, i - 1) \o SubSeq(ls, i + 1, Len(ls))
      BY <2>1, <2>3, <3>1 DEF RemoveAt
    <3>3. Len(ls) \in Nat /\ 0 \in 0..Len(ls) /\ i - 1 \in 0..Len(ls) /\ i \in 0..Len(ls) /\ Len(ls) \in i..Len(ls)
      BY LenProperties
    <3>4. Piece(ls, 0, i - 1) \in Seq(Seq(S)) /\ Piece(ls, i, Len(ls)) \in Seq(Seq(S))
      BY <3>3, PieceType
    <3>5. SubSeq(ls, 1, i - 1) \in Seq(Seq(S)) /\ SubSeq(ls, i + 1, Len(ls)) \in Seq(Seq(S))
      BY <3>4 DEF Piece
    <3> QED BY <3>2, <3>5, ConcatProperties
  <2> QED BY <2>2, <2>3
<1>3. ASSUME NEW ls \in Seq(Seq(S)) PROVE WithoutMarkers(ls) \in Seq(Seq(S))
  <2>1. Len(ls) \in 0..Len(ls)
    BY LenProperties
  <2>2. PICK f \in [0..Len(ls) -> Seq(Seq(S))] : WithoutMarkers(ls) = f[Len(ls)]
    BY WithoutMarkersAre
  <2> QED BY <2>1, <2>2
<1>4. ASSUME NEW ls \in Seq(Seq(S)) PROVE Trimmed(ls) \in Seq(Seq(S))
  <2> DEFINE full == {i \in DOMAIN ls : ls[i] # <<>>}
  <2>1. CASE full = {}
    <3>1. <<<<>>>> \in Seq(Seq(S))
      OBVIOUS
    <3> QED BY <2>1, <3>1 DEF Trimmed
  <2>2. CASE full # {}
    <3>1. full \in SUBSET (1..Len(ls)) /\ full \in SUBSET Nat /\ Len(ls) \in Nat
      BY LenProperties
    <3>2. Min(full) \in full /\ Max(full) \in full
      <4> HIDE DEF full
      <4> QED BY <2>2, <3>1, MinIs, MaxIs
    <3>3. Trimmed(ls) = SubSeq(ls, Min(full), Max(full))
      BY <2>2 DEF Trimmed
    <3> HIDE DEF full
    <3>4. PICK a \in 1..Len(ls), b \in 1..Len(ls) : a = Min(full) /\ b = Max(full)
      BY <3>1, <3>2
    <3>5. /\ a \in Int /\ b \in Int /\ \A i \in a..b : i \in 1..Len(ls)
      BY <3>1
    <3>6. \A i \in a..b : ls[i] \in Seq(S)
      BY <3>5, ElementOfSeq
    <3>7. SubSeq(ls, a, b) \in Seq(Seq(S))
      BY <3>5, <3>6, SubSeqProperties
    <3> QED BY <3>3, <3>4, <3>7
  <2> QED BY <2>1, <2>2
<1>5. (IF stripped THEN Lines(t) ELSE RemoveFirst(Lines(t), Command)) \in Seq(Seq(S))
  BY <1>1, <1>2
<1> QED BY <1>3, <1>4, <1>5, JoinType DEF Cleaned

(* The first line goes up to the first break.                              *)
LEMMA FirstLine ==
  ASSUME NEW S, NEW t \in Seq(S), NEW x \in 1..(Len(t) + 1),
         \A i \in 1..(x - 1) : t[i] # "n", x = Len(t) + 1 \/ t[x] = "n"
  PROVE  Head(Lines(t)) = SubSeq(t, 1, x - 1)
<1>1. PICK e, m : Cuts(e, m, t, Len(t)) /\ Lines(t) = Between(e, m, t)
  BY LinesAre
<1>0. /\ Len(t) \in Nat /\ Len(t) \in 0..Len(t) /\ m \in Nat \ {0} /\ e[0] = 0 /\ e[m] = Len(t) + 1
      /\ \A l \in 0..m : e[l] \in 0..(Len(t) + 1)
      /\ \A k, l \in 0..m : k <= l => e[k] <= e[l]
      /\ \A l \in 1..(m - 1) : e[l] \in 1..Len(t) /\ t[e[l]] = "n"
      /\ \A i \in 1..Len(t) : t[i] = "n" => \E l \in 1..(m - 1) : e[l] = i
  <2>1. Len(t) \in Nat /\ Len(t) \in 0..Len(t)
    BY LenProperties
  <2>2. /\ m \in Nat \ {0} /\ e[0] = 0 /\ e[m] = Len(t) + 1
        /\ \A l \in 0..m : e[l] \in 0..(Len(t) + 1)
        /\ \A k, l \in 0..m : (k <= l => e[k] <= e[l]) /\ (e[k] < e[l] => k < l)
        /\ \A l \in 1..(m - 1) : e[l] \in 1..Len(t) /\ t[e[l]] = "n"
    <3>1. PICK k \in Nat : k = Len(t)
      BY <2>1
    <3>2. Cuts(e, m, t, k)
      BY <1>1, <3>1
    <3>3. /\ m \in Nat \ {0} /\ e[0] = 0 /\ e[m] = k + 1
          /\ \A l \in 0..m : e[l] \in 0..(k + 1)
          /\ \A i, l \in 0..m : (i <= l => e[i] <= e[l]) /\ (e[i] < e[l] => i < l)
          /\ \A l \in 1..(m - 1) : e[l] \in 1..k /\ t[e[l]] = "n"
      BY <3>2, CutsFacts
    <3> QED BY <3>1, <3>3
  <2>3. \A i \in 1..Len(t) : t[i] = "n" => \E l \in 1..(m - 1) : e[l] = i
    BY <1>1, ZenonT(40) DEF Cuts
  <2> QED BY <2>1, <2>2, <2>3, ZenonT(40)
<1>2. 1 \in 1..m /\ 1 - 1 = 0
  BY <1>0
<1>3. Head(Between(e, m, t)) = SubSeq(t, 1, e[1] - 1)
  <2>1. Between(e, m, t)[1] = SubSeq(t, e[1 - 1] + 1, e[1] - 1) /\ e[1] \in 1..(Len(t) + 1)
    <3>0. Len(t) \in 0..Len(t)
      BY <1>0
    <3>a. Cuts(e, m, t, Len(t))
      BY <1>1
    <3>1. \A l \in 1..m : Between(e, m, t)[l] = SubSeq(t, e[l - 1] + 1, e[l] - 1) /\ e[l] \in 1..(Len(t) + 1)
      <4>1. PICK k \in Nat : k = Len(t)
        BY <1>0
      <4>2. Cuts(e, m, t, k)
        BY <3>a, <4>1
      <4>3. Laid(t, k, e, m)
        BY <4>2, LaidOut
      <4> QED BY <4>1, <4>3 DEF Laid
    <3> QED BY <1>2, <3>1, Zenon
  <2>2. Between(e, m, t)[1] = SubSeq(t, 1, e[1] - 1)
    <3>1. e[1 - 1] + 1 = 1
      BY <1>0, <1>2
    <3> QED BY <2>1, <3>1
  <2> QED BY <2>2
<1>4. PICK y \in 1..(Len(t) + 1) : y = e[1]
  <2>1. \A l \in 1..m : e[l] \in 1..(Len(t) + 1)
    BY <1>0, <1>1, BetweenType
  <2> QED BY <1>2, <2>1
<1>5. y <= x
  <2>1. CASE x = Len(t) + 1
    BY <1>0, <1>4, <2>1
  <2>2. CASE x # Len(t) + 1
    <3>1. x \in 1..Len(t) /\ t[x] = "n"
      BY <1>0, <2>2
    <3>2. PICK l \in 1..(m - 1) : e[l] = x
      BY <1>0, <3>1
    <3>3. 1 \in 0..m /\ l \in 0..m /\ 1 <= l
      BY <1>0
    <3>4. e[1] <= e[l]
      BY <1>0, <3>3
    <3> QED BY <1>4, <3>2, <3>4
  <2> QED BY <2>1, <2>2
<1>6. x <= y
  <2> SUFFICES ASSUME y < x PROVE FALSE
    BY <1>4
  <2>1. CASE m = 1
    BY <1>0, <1>4, <2>1
  <2>2. CASE m # 1
    <3>1. 1 \in 1..(m - 1)
      BY <1>0, <2>2
    <3>2. t[y] = "n"
      BY <1>0, <1>4, <3>1
    <3>3. y \in 1..(x - 1)
      BY <1>0, <1>4
    <3> QED BY <3>2, <3>3
  <2> QED BY <2>1, <2>2
<1>7. x = y
  BY <1>0, <1>4, <1>5, <1>6
<1> QED BY <1>1, <1>3, <1>4, <1>7

(* str.find, where the text is known.                                      *)
Matches(t, p, i) == i + Len(p) - 1 <= Len(t) /\ \A d \in 1..Len(p) : t[i + d - 1] = p[d]
LEMMA StartsIs ==
  ASSUME NEW S, NEW t \in Seq(S), NEW p \in Seq(S), NEW i \in 1..(Len(t) + 1)
  PROVE  Starts(t, p, i) <=> Matches(t, p, i)
<1>0. Len(t) \in Nat /\ Len(p) \in Nat
  BY LenProperties
<1>1. CASE i + Len(p) - 1 <= Len(t)
  <2> DEFINE s == SubSeq(t, i, i + Len(p) - 1)
  <2>1. PICK a \in 0..Len(t), b \in 0..Len(t) :
          a = i - 1 /\ b = i + Len(p) - 1 /\ a + 1 = i /\ b - a = Len(p) /\ b \in a..Len(t)
    <3>1. i - 1 \in 0..Len(t) /\ i + Len(p) - 1 \in 0..Len(t) /\ i + Len(p) - 1 \in (i - 1)..Len(t) /\ i - 1 + 1 = i /\ (i + Len(p) - 1) - (i - 1) = Len(p)
      BY <1>0, <1>1
    <3> QED BY <3>1
  <2>2. s = Piece(t, a, b)
    BY <2>1 DEF Piece
  <2>3. Piece(t, a, b) \in Seq(S) /\ Len(Piece(t, a, b)) = b - a /\ \A d \in 1..(b - a) : Piece(t, a, b)[d] = t[a + d]
    BY <2>1, PieceType, ZenonT(40)
  <2>4. s \in Seq(S) /\ Len(s) = Len(p) /\ \A d \in 1..Len(p) : s[d] = t[i + d - 1]
    <3> HIDE DEF s
    <3>1. \A d \in 1..Len(p) : a + d = i + d - 1
      BY <2>1
    <3> QED BY <2>1, <2>2, <2>3, <3>1
  <2>5. s = p <=> \A d \in 1..Len(p) : t[i + d - 1] = p[d]
    <3> HIDE DEF s
    <3>1. ASSUME \A d \in 1..Len(p) : t[i + d - 1] = p[d] PROVE s = p
      BY <2>4, <3>1, SeqEqual
    <3> QED BY <2>4, <3>1
  <2>6. Starts(t, p, i) <=> s = p
    BY <1>1 DEF Starts
  <2>7. Matches(t, p, i) <=> \A d \in 1..Len(p) : t[i + d - 1] = p[d]
    BY <1>1 DEF Matches
  <2> HIDE DEF s
  <2> QED BY <2>5, <2>6, <2>7
<1>2. CASE ~(i + Len(p) - 1 <= Len(t))
  BY <1>2 DEF Starts, Matches
<1> QED BY <1>1, <1>2

LEMMA FindAt ==
  ASSUME NEW t, NEW p, NEW x \in 1..Len(t), \A i \in 1..Len(t) : Starts(t, p, i) <=> i = x
  PROVE  Find(t, p) = x
<1>1. {i \in 1..Len(t) : Starts(t, p, i)} = {x}
  OBVIOUS
<1>2. Min({x}) = x
  <2>1. {x} \in SUBSET Nat /\ {x} # {}
    OBVIOUS
  <2> QED BY <2>1, MinIs
<1> QED BY <1>1, <1>2 DEF Find

LEMMA FindNone ==
  ASSUME NEW t, NEW p, \A i \in 1..Len(t) : ~Starts(t, p, i)
  PROVE  Find(t, p) = 0
<1>1. {i \in 1..Len(t) : Starts(t, p, i)} = {}
  OBVIOUS
<1> QED BY <1>1 DEF Find

-----------------------------------------------------------------------------
(* Line ends made normal: symbol by symbol.                                *)
LEMMA NormalIs ==
  ASSUME NEW t \in Seq(Symbols)
  PROVE  /\ Normal(t) \in Seq(Symbols) /\ Len(Normal(t)) = Len(t)
         /\ \A i \in 1..Len(t) : Normal(t)[i] = IF t[i] = "r" THEN "n" ELSE t[i]
<1>1. Len(t) \in Nat /\ DOMAIN t = 1..Len(t) /\ \A i \in 1..Len(t) : t[i] \in Symbols
  BY LenProperties, ElementOfSeq
<1>2. "n" \in Symbols
  BY DEF Symbols
<1>3. Normal(t) \in [1..Len(t) -> Symbols]
  BY <1>1, <1>2 DEF Normal
<1>4. Normal(t) \in Seq(Symbols) /\ Len(Normal(t)) = Len(t)
  BY <1>1, <1>3, SeqOfFcn
<1>5. \A i \in 1..Len(t) : Normal(t)[i] = IF t[i] = "r" THEN "n" ELSE t[i]
  BY <1>1 DEF Normal
<1> QED BY <1>4, <1>5

LEMMA NormalFrom ==
  ASSUME NEW t \in Seq(Symbols), NEW u \in Seq(Symbols), Len(u) = Len(t),
         \A i \in 1..Len(t) : u[i] = IF t[i] = "r" THEN "n" ELSE t[i]
  PROVE  Normal(t) = u
<1> DEFINE v == Normal(t)
<1>1. v \in Seq(Symbols) /\ Len(v) = Len(t) /\ \A i \in 1..Len(t) : v[i] = IF t[i] = "r" THEN "n" ELSE t[i]
  BY NormalIs
<1> HIDE DEF v
<1>2. Len(v) = Len(u) /\ \A i \in 1..Len(v) : v[i] = u[i]
  BY <1>1
<1>3. v = u
  BY <1>1, <1>2, SeqEqual
<1> QED BY <1>3 DEF v

LEMMA NormalKept ==
  ASSUME NEW t \in Seq(Symbols), \A i \in 1..Len(t) : t[i] # "r"
  PROVE  Normal(t) = t
BY NormalFrom

(* A normal text is left as it is.                                         *)
LEMMA NormalAgain ==
  ASSUME NEW t \in Seq(Symbols)
  PROVE  Normal(Normal(t)) = Normal(t)
<1> DEFINE u == Normal(t)
<1>1. u \in Seq(Symbols) /\ Len(u) = Len(t) /\ \A i \in 1..Len(t) : u[i] = IF t[i] = "r" THEN "n" ELSE t[i]
  BY NormalIs
<1> HIDE DEF u
<1>2. \A i \in 1..Len(u) : u[i] # "r"
  BY <1>1
<1>3. Normal(u) = u
  BY <1>1, <1>2, NormalKept
<1> QED BY <1>3 DEF u

LEMMA NormalConcat ==
  ASSUME NEW u \in Seq(Symbols), NEW v \in Seq(Symbols)
  PROVE  Normal(u \o v) = Normal(u) \o Normal(v)
<1> DEFINE w == u \o v
           x == Normal(u)
           y == Normal(v)
           z == x \o y
<1>1. /\ w \in Seq(Symbols) /\ Len(w) = Len(u) + Len(v) /\ Len(u) \in Nat /\ Len(v) \in Nat
      /\ \A i \in 1..(Len(u) + Len(v)) : w[i] = IF i <= Len(u) THEN u[i] ELSE v[i - Len(u)]
  BY ConcatProperties, LenProperties
<1>2. /\ x \in Seq(Symbols) /\ Len(x) = Len(u)
      /\ \A i \in 1..Len(u) : x[i] = IF u[i] = "r" THEN "n" ELSE u[i]
  BY NormalIs
<1>3. /\ y \in Seq(Symbols) /\ Len(y) = Len(v)
      /\ \A i \in 1..Len(v) : y[i] = IF v[i] = "r" THEN "n" ELSE v[i]
  BY NormalIs
<1> HIDE DEF w, x, y
<1>4. /\ z \in Seq(Symbols) /\ Len(z) = Len(x) + Len(y)
      /\ \A i \in 1..(Len(x) + Len(y)) : z[i] = IF i <= Len(x) THEN x[i] ELSE y[i - Len(x)]
  <2>1. x \in Seq(Symbols) /\ y \in Seq(Symbols)
    BY <1>2, <1>3
  <2> QED BY <2>1, ConcatProperties
<1> HIDE DEF z
<1>5. ASSUME NEW i \in 1..Len(w) PROVE z[i] = IF w[i] = "r" THEN "n" ELSE w[i]
  <2>1. CASE i <= Len(u)
    <3>1. i \in 1..Len(u) /\ i \in 1..(Len(u) + Len(v))
      BY <1>1, <2>1
    <3> QED BY <1>1, <1>2, <1>3, <1>4, <2>1, <3>1
  <2>2. CASE ~(i <= Len(u))
    <3>1. i - Len(u) \in 1..Len(v) /\ i \in 1..(Len(u) + Len(v))
      BY <1>1, <2>2
    <3> QED BY <1>1, <1>2, <1>3, <1>4, <2>2, <3>1
  <2> QED BY <2>1, <2>2
<1>6. Len(z) = Len(w)
  BY <1>1, <1>2, <1>3, <1>4
<1>7. Normal(w) = z
  BY <1>1, <1>4, <1>5, <1>6, NormalFrom
<1> QED BY <1>7 DEF w, x, y, z

LEMMA NormalPiece ==
  ASSUME NEW t \in Seq(Symbols), NEW a \in 0..Len(t), NEW b \in a..Len(t)
  PROVE  Normal(Piece(t, a, b)) = Piece(Normal(t), a, b)
<1> DEFINE u == Normal(t)
           p == Piece(t, a, b)
           q == Piece(u, a, b)
<1>1. u \in Seq(Symbols) /\ Len(u) = Len(t) /\ \A i \in 1..Len(t) : u[i] = IF t[i] = "r" THEN "n" ELSE t[i]
  BY NormalIs
<1>2. p \in Seq(Symbols) /\ Len(p) = b - a /\ \A i \in 1..(b - a) : p[i] = t[a + i]
  BY PieceType
<1> HIDE DEF u
<1>3. q \in Seq(Symbols) /\ Len(q) = b - a /\ \A i \in 1..(b - a) : q[i] = u[a + i]
  <2>1. a \in 0..Len(u) /\ b \in a..Len(u)
    BY <1>1
  <2> QED BY <1>1, <2>1, PieceType
<1> HIDE DEF p, q
<1>4. \A i \in 1..(b - a) : a + i \in 1..Len(t)
  BY LenProperties
<1>5. \A i \in 1..Len(p) : q[i] = IF p[i] = "r" THEN "n" ELSE p[i]
  BY <1>1, <1>2, <1>3, <1>4
<1>6. Normal(p) = q
  BY <1>2, <1>3, <1>5, NormalFrom
<1> QED BY <1>6 DEF p, q, u

LEMMA PrintedIs ==
  ASSUME printed \in Printed
  PROVE  /\ printed \in Seq({"n", "c", "a", "x"}) /\ printed \in Seq(Symbols) /\ Len(printed) \in Nat
         /\ \A i \in 1..Len(printed) : printed[i] \in {"n", "c", "a", "x"}
<1>1. PICK l \in 0..MaxLen : printed \in [1..l -> {"n", "c", "a", "x"}]
  BY DEF Printed
<1>2. l \in Nat
  BY BoundsAssumption
<1>3. printed \in Seq({"n", "c", "a", "x"}) /\ Len(printed) = l
  BY <1>1, <1>2, SeqOfFcn
<1>4. printed \in Seq(Symbols)
  <2>1. {"n", "c", "a", "x"} \subseteq Symbols
    BY DEF Symbols
  <2> QED BY <1>3, <2>1, SeqMonotonic
<1> QED BY <1>1, <1>2, <1>3, <1>4

(* A text with its line ends written in some way.                          *)
EachSymbol(t, e) == [i \in DOMAIN t |-> IF t[i] = "n" THEN e ELSE <<t[i]>>]
LEMMA LineEndsType ==
  ASSUME NEW S, NEW t \in Seq(S), NEW e \in Seq(S)
  PROVE  /\ EachSymbol(t, e) \in Seq(Seq(S)) /\ Len(EachSymbol(t, e)) = Len(t)
         /\ WithLineEnds(t, e) = FlattenSeq(EachSymbol(t, e)) /\ WithLineEnds(t, e) \in Seq(S)
<1>1. Len(t) \in Nat /\ DOMAIN t = 1..Len(t) /\ \A i \in 1..Len(t) : t[i] \in S
  BY LenProperties, ElementOfSeq
<1>2. \A i \in 1..Len(t) : <<t[i]>> \in Seq(S)
  BY <1>1
<1>3. EachSymbol(t, e) \in [1..Len(t) -> Seq(S)]
  BY <1>1, <1>2 DEF EachSymbol
<1>4. EachSymbol(t, e) \in Seq(Seq(S)) /\ Len(EachSymbol(t, e)) = Len(t)
  BY <1>1, <1>3, SeqOfFcn
<1>5. WithLineEnds(t, e) = FlattenSeq(EachSymbol(t, e))
  BY DEF WithLineEnds, EachSymbol
<1> QED BY <1>4, <1>5, FlattenType

(* Both symbols of the terminal's line end become one line end each.       *)
LEMMA OutputIs ==
  ASSUME printed \in Printed
  PROVE  /\ Output \in Seq(Symbols) /\ Len(Output) \in Nat
         /\ \A i \in 1..Len(Output) : Output[i] \in {"n", "c", "a", "x"}
         /\ WithLineEnds(printed, CRLF) \in Seq(Symbols)
         /\ Normal(WithLineEnds(printed, CRLF)) = Output
<1> DEFINE two == <<"n", "n">>
           s1 == EachSymbol(printed, CRLF)
           s2 == EachSymbol(printed, two)
           n == Len(printed)
<1>0. /\ printed \in Seq({"n", "c", "a", "x"}) /\ printed \in Seq(Symbols) /\ n \in Nat /\ DOMAIN printed = 1..n
      /\ \A i \in 1..n : printed[i] \in {"n", "c", "a", "x"}
  BY PrintedIs, LenProperties
<1>1. two \in Seq({"n", "c", "a", "x"}) /\ two \in Seq(Symbols) /\ CRLF \in Seq(Symbols)
  BY DEF CRLF, Symbols
<1>2. Output \in Seq({"n", "c", "a", "x"}) /\ Output \in Seq(Symbols)
  BY <1>0, <1>1, LineEndsType DEF Output
<1>3. Len(Output) \in Nat /\ \A i \in 1..Len(Output) : Output[i] \in {"n", "c", "a", "x"}
  BY <1>2, LenProperties, ElementOfSeq
<1>4. /\ s1 \in Seq(Seq(Symbols)) /\ Len(s1) = n
      /\ WithLineEnds(printed, CRLF) = FlattenSeq(s1) /\ WithLineEnds(printed, CRLF) \in Seq(Symbols)
  BY <1>0, <1>1, LineEndsType
<1>5. s2 \in Seq(Seq(Symbols)) /\ Len(s2) = n /\ Output = FlattenSeq(s2)
  <2>1. /\ s2 \in Seq(Seq(Symbols)) /\ Len(s2) = n
        /\ WithLineEnds(printed, two) = FlattenSeq(s2)
    BY <1>0, <1>1, LineEndsType
  <2> QED BY <2>1 DEF Output
<1>6. ASSUME NEW i \in 1..n PROVE s1[i] \in Seq(Symbols) /\ Normal(s1[i]) = s2[i]
  <2>1. CASE printed[i] = "n"
    <3>1. s1[i] = CRLF /\ s2[i] = two
      BY <1>0, <2>1 DEF EachSymbol
    <3>2. Len(CRLF) = 2 /\ CRLF[1] = "r" /\ CRLF[2] = "n" /\ Len(two) = 2 /\ two[1] = "n" /\ two[2] = "n"
      BY DEF CRLF
    <3>3. \A x \in 1..Len(CRLF) : two[x] = IF CRLF[x] = "r" THEN "n" ELSE CRLF[x]
      <4>1. \A x \in 1..Len(CRLF) : x = 1 \/ x = 2
        BY <3>2
      <4> QED BY <3>2, <4>1
    <3> HIDE DEF two
    <3>4. Normal(CRLF) = two
      BY <1>1, <3>2, <3>3, NormalFrom
    <3> QED BY <1>1, <3>1, <3>4
  <2>2. CASE printed[i] # "n"
    <3>1. PICK y \in Symbols : y = printed[i] /\ y # "r"
      BY <1>0, ElementOfSeq
    <3>2. s1[i] = <<y>> /\ s2[i] = <<y>>
      BY <1>0, <2>2, <3>1 DEF EachSymbol
    <3>3. <<y>> \in Seq(Symbols) /\ \A x \in 1..Len(<<y>>) : (<<y>>)[x] # "r"
      BY <3>1
    <3>4. Normal(<<y>>) = <<y>>
      BY <3>3, NormalKept
    <3> QED BY <3>2, <3>3, <3>4
  <2> QED BY <2>1, <2>2
<1> HIDE DEF two, s1, s2, n
<1>7. PICK f \in [0..n -> Seq(Symbols)] :
         /\ f[0] = <<>> /\ FlattenSeq(s1) = f[n]
         /\ \A i \in 1..n : f[i] = f[i - 1] \o s1[i]
  BY <1>4, FlattenAlong
<1> DEFINE g == [i \in 0..n |-> Normal(f[i])]
<1>8. g \in [0..n -> Seq(Symbols)]
  <2>1. \A t \in Seq(Symbols) : Normal(t) \in Seq(Symbols)
    BY NormalIs
  <2> QED BY <2>1
<1>9. g[0] = <<>>
  <2>1. 0 \in 0..n /\ <<>> \in Seq(Symbols) /\ \A i \in 1..Len(<<>>) : (<<>>)[i] # "r"
    BY <1>0 DEF n
  <2>2. Normal(<<>>) = <<>>
    BY <2>1, NormalKept
  <2> QED BY <1>7, <2>1, <2>2
<1>10. ASSUME NEW i \in 1..n PROVE g[i] = g[i - 1] \o s2[i]
  <2>1. n \in Nat
    BY <1>0 DEF n
  <2>2. i \in 0..n /\ i - 1 \in 0..n
    BY <2>1
  <2>3. f[i] = f[i - 1] \o s1[i] /\ f[i - 1] \in Seq(Symbols) /\ s1[i] \in Seq(Symbols) /\ Normal(s1[i]) = s2[i]
    BY <1>6, <1>7, <2>2
  <2>4. Normal(f[i - 1] \o s1[i]) = Normal(f[i - 1]) \o Normal(s1[i])
    BY <2>3, NormalConcat
  <2>5. g[i] = Normal(f[i]) /\ g[i - 1] = Normal(f[i - 1])
    BY <2>2
  <2> QED BY <2>3, <2>4, <2>5
<1>11. g[n] = Normal(FlattenSeq(s1))
  <2>1. n \in 0..n
    BY <1>0 DEF n
  <2> QED BY <1>7, <2>1
<1> HIDE DEF g
<1>12. FlattenSeq(s2) = g[n]
  BY <1>5, <1>8, <1>9, <1>10, FlattenIs
<1>13. Normal(WithLineEnds(printed, CRLF)) = Output
  BY <1>4, <1>5, <1>11, <1>12
<1> QED BY <1>2, <1>3, <1>4, <1>13

(* What the shell writes behind the BEGIN marker, its line ends made       *)
(* normal, and where in it what is.                                        *)
NN   == <<"n", "n">>
N    == Len(Output) + 1
Full == NN \o Output \o End \o Status \o Cwd \o NN

LEMMA MarkersAre ==
  /\ End \in Seq(Symbols) /\ Len(End) = 3 /\ End[1] = "m" /\ End[2] = "k" /\ End[3] = "E"
  /\ Status \in Seq(Symbols) /\ Len(Status) = 2 /\ Status[1] = "0" /\ Status[2] = "|"
  /\ Cwd \in Seq(Symbols) /\ Len(Cwd) = 2 /\ Cwd[1] = "d" /\ Cwd[2] = "d"
  /\ Begin \in Seq(Symbols) /\ Len(Begin) = 2 /\ Begin[1] = "b" /\ Begin[2] = "B"
  /\ NN \in Seq(Symbols) /\ Len(NN) = 2 /\ NN[1] = "n" /\ NN[2] = "n"
BY DEF End, Status, Cwd, Begin, NN, Symbols

LEMMA ConcatAt ==
  ASSUME NEW S, NEW u \in Seq(S), NEW v \in Seq(S)
  PROVE  /\ u \o v \in Seq(S) /\ Len(u \o v) = Len(u) + Len(v)
         /\ \A i \in 1..Len(u) : (u \o v)[i] = u[i]
         /\ \A i \in 1..Len(v) : (u \o v)[Len(u) + i] = v[i]
<1>0. Len(u) \in Nat /\ Len(v) \in Nat
  BY LenProperties
<1> DEFINE w == u \o v
<1>1. /\ w \in Seq(S) /\ Len(w) = Len(u) + Len(v)
      /\ \A i \in 1..(Len(u) + Len(v)) : w[i] = IF i <= Len(u) THEN u[i] ELSE v[i - Len(u)]
  BY ConcatProperties
<1> HIDE DEF w
<1>2. /\ \A i \in 1..Len(u) : i \in 1..(Len(u) + Len(v)) /\ i <= Len(u)
      /\ \A i \in 1..Len(v) : /\ Len(u) + i \in 1..(Len(u) + Len(v)) /\ ~(Len(u) + i <= Len(u))
                              /\ Len(u) + i - Len(u) = i
  BY <1>0
<1>3. /\ \A i \in 1..Len(u) : w[i] = u[i]
      /\ \A i \in 1..Len(v) : w[Len(u) + i] = v[i]
  BY <1>1, <1>2
<1> QED BY <1>1, <1>3 DEF w

LEMMA FullIs ==
  ASSUME printed \in Printed
  PROVE  /\ Full \in Seq(Symbols) /\ Len(Full) = N + 10 /\ N \in Nat /\ N = Len(Output) + 1
         /\ Full[1] = "n" /\ Full[2] = "n" /\ \A i \in 1..Len(Output) : Full[i + 2] = Output[i]
         /\ Full[N + 2] = "m" /\ Full[N + 3] = "k" /\ Full[N + 4] = "E"
         /\ Full[N + 5] = "0" /\ Full[N + 6] = "|" /\ Full[N + 7] = "d" /\ Full[N + 8] = "d"
         /\ Full[N + 9] = "n" /\ Full[N + 10] = "n"
<1>0. Output \in Seq(Symbols) /\ N \in Nat /\ N = Len(Output) + 1 /\ Len(Output) \in Nat
  BY OutputIs DEF N
<1> DEFINE a == NN \o Output
           b == a \o End
           c == b \o Status
           d == c \o Cwd
<1>n. PICK n1 \in Nat, n2 \in Nat, n3 \in Nat, n4 \in Nat :
        n1 = 1 + N /\ n2 = n1 + 3 /\ n3 = n2 + 2 /\ n4 = n3 + 2
  <2>1. 1 + N \in Nat /\ 1 + N + 3 \in Nat /\ 1 + N + 3 + 2 \in Nat /\ 1 + N + 3 + 2 + 2 \in Nat
    BY <1>0
  <2> QED BY <2>1
<1>1. /\ a \in Seq(Symbols) /\ Len(a) = n1
      /\ \A i \in 1..2 : a[i] = NN[i]
      /\ \A i \in 1..Len(Output) : a[2 + i] = Output[i]
  <2>0. NN \in Seq(Symbols) /\ Len(NN) = 2
    BY MarkersAre
  <2>1. /\ a \in Seq(Symbols) /\ Len(a) = 2 + Len(Output)
        /\ \A i \in 1..2 : a[i] = NN[i]
        /\ \A i \in 1..Len(Output) : a[2 + i] = Output[i]
    <3>1. /\ a \in Seq(Symbols) /\ Len(a) = Len(NN) + Len(Output)
          /\ \A i \in 1..Len(NN) : a[i] = NN[i]
          /\ \A i \in 1..Len(Output) : a[Len(NN) + i] = Output[i]
      <4>1. NN \in Seq(Symbols) /\ Output \in Seq(Symbols)
        BY <1>0, <2>0
      <4> HIDE DEF NN
      <4> QED BY <4>1, ConcatAt
    <3> HIDE DEF a
    <3> QED BY <2>0, <3>1
  <2>2. 2 + Len(Output) = n1
    BY <1>0, <1>n
  <2> QED BY <2>1, <2>2
<1> HIDE DEF a
<1>2. /\ b \in Seq(Symbols) /\ Len(b) = n2
      /\ \A i \in 1..n1 : b[i] = a[i]
      /\ \A i \in 1..3 : b[n1 + i] = End[i]
  <2>1. End \in Seq(Symbols) /\ Len(End) = 3
    BY MarkersAre
  <2>2. /\ b \in Seq(Symbols) /\ Len(b) = n1 + 3
        /\ \A i \in 1..n1 : b[i] = a[i]
        /\ \A i \in 1..3 : b[n1 + i] = End[i]
    <3>1. a \in Seq(Symbols)
      BY <1>1
    <3>2. /\ b \in Seq(Symbols) /\ Len(b) = Len(a) + Len(End)
          /\ \A i \in 1..Len(a) : b[i] = a[i]
          /\ \A i \in 1..Len(End) : b[Len(a) + i] = End[i]
      <4>1. \A u, v \in Seq(Symbols) :
              /\ u \o v \in Seq(Symbols) /\ Len(u \o v) = Len(u) + Len(v)
              /\ \A i \in 1..Len(u) : (u \o v)[i] = u[i]
              /\ \A i \in 1..Len(v) : (u \o v)[Len(u) + i] = v[i]
        BY ConcatAt
      <4> QED BY <2>1, <3>1, <4>1, Zenon
    <3> HIDE DEF b
    <3> QED BY <1>1, <2>1, <3>2
  <2> QED BY <1>n, <2>2
<1> HIDE DEF b
<1>3. /\ c \in Seq(Symbols) /\ Len(c) = n3
      /\ \A i \in 1..n2 : c[i] = b[i]
      /\ \A i \in 1..2 : c[n2 + i] = Status[i]
  <2>1. Status \in Seq(Symbols) /\ Len(Status) = 2
    BY MarkersAre
  <2>2. /\ c \in Seq(Symbols) /\ Len(c) = n2 + 2
        /\ \A i \in 1..n2 : c[i] = b[i]
        /\ \A i \in 1..2 : c[n2 + i] = Status[i]
    <3>1. b \in Seq(Symbols)
      BY <1>2
    <3>2. /\ c \in Seq(Symbols) /\ Len(c) = Len(b) + Len(Status)
          /\ \A i \in 1..Len(b) : c[i] = b[i]
          /\ \A i \in 1..Len(Status) : c[Len(b) + i] = Status[i]
      BY <2>1, <3>1, ConcatAt
    <3> HIDE DEF c
    <3> QED BY <1>2, <2>1, <3>2
  <2> QED BY <1>n, <2>2
<1> HIDE DEF c
<1>4. /\ d \in Seq(Symbols) /\ Len(d) = n4
      /\ \A i \in 1..n3 : d[i] = c[i]
      /\ \A i \in 1..2 : d[n3 + i] = Cwd[i]
  <2>1. Cwd \in Seq(Symbols) /\ Len(Cwd) = 2
    BY MarkersAre
  <2>2. /\ d \in Seq(Symbols) /\ Len(d) = n3 + 2
        /\ \A i \in 1..n3 : d[i] = c[i]
        /\ \A i \in 1..2 : d[n3 + i] = Cwd[i]
    <3>1. c \in Seq(Symbols)
      BY <1>3
    <3>2. /\ d \in Seq(Symbols) /\ Len(d) = Len(c) + Len(Cwd)
          /\ \A i \in 1..Len(c) : d[i] = c[i]
          /\ \A i \in 1..Len(Cwd) : d[Len(c) + i] = Cwd[i]
      BY <2>1, <3>1, ConcatAt
    <3> HIDE DEF d
    <3> QED BY <1>3, <2>1, <3>2
  <2> QED BY <1>n, <2>2
<1> HIDE DEF d
<1>5. /\ Full \in Seq(Symbols) /\ Len(Full) = n4 + 2
      /\ \A i \in 1..n4 : Full[i] = d[i]
      /\ \A i \in 1..2 : Full[n4 + i] = NN[i]
  <2>1. Full = d \o NN
    BY DEF Full, a, b, c, d
  <2>2. NN \in Seq(Symbols) /\ Len(NN) = 2 /\ d \in Seq(Symbols)
    BY <1>4, MarkersAre
  <2>3. /\ d \o NN \in Seq(Symbols) /\ Len(d \o NN) = Len(d) + Len(NN)
        /\ \A i \in 1..Len(d) : (d \o NN)[i] = d[i]
        /\ \A i \in 1..Len(NN) : (d \o NN)[Len(d) + i] = NN[i]
    BY <2>2, ConcatAt
  <2> QED BY <1>4, <2>1, <2>2, <2>3
<1>6. /\ \A i \in 1..n1 : Full[i] = a[i]
      /\ \A i \in 1..n2 : Full[i] = b[i]
      /\ \A i \in 1..n3 : Full[i] = c[i]
  <2>1. /\ \A i \in 1..n1 : i \in 1..n2
        /\ \A i \in 1..n2 : i \in 1..n3
        /\ \A i \in 1..n3 : i \in 1..n4
    BY <1>0, <1>n
  <2> QED BY <1>2, <1>3, <1>4, <1>5, <2>1, ZenonT(40)
<1>7. Full[1] = "n" /\ Full[2] = "n" /\ \A i \in 1..Len(Output) : Full[i + 2] = Output[i]
  <2>1. /\ 1 \in 1..n1 /\ 2 \in 1..n1 /\ 1 \in 1..2 /\ 2 \in 1..2
        /\ \A i \in 1..Len(Output) : i + 2 \in 1..n1 /\ i + 2 = 2 + i
    BY <1>0, <1>n
  <2> QED BY <1>1, <1>6, <2>1, MarkersAre
<1>8. \A i \in 1..3 : Full[n1 + i] = End[i]
  <2>1. \A i \in 1..3 : n1 + i \in 1..n2
    BY <1>n
  <2> QED BY <1>2, <1>6, <2>1
<1>9. \A i \in 1..2 : Full[n2 + i] = Status[i]
  <2>1. \A i \in 1..2 : n2 + i \in 1..n3
    BY <1>n
  <2> QED BY <1>3, <1>6, <2>1
<1>10. \A i \in 1..2 : Full[n3 + i] = Cwd[i]
  <2>1. \A i \in 1..2 : n3 + i \in 1..n4
    BY <1>n
  <2> QED BY <1>4, <1>5, <2>1
<1>11. /\ n1 + 1 = N + 2 /\ n1 + 2 = N + 3 /\ n1 + 3 = N + 4 /\ n2 + 1 = N + 5 /\ n2 + 2 = N + 6
       /\ n3 + 1 = N + 7 /\ n3 + 2 = N + 8 /\ n4 + 1 = N + 9 /\ n4 + 2 = N + 10
       /\ 1 \in 1..2 /\ 2 \in 1..2 /\ 1 \in 1..3 /\ 2 \in 1..3 /\ 3 \in 1..3
  BY <1>0, <1>n
<1>12. /\ Full[N + 2] = "m" /\ Full[N + 3] = "k" /\ Full[N + 4] = "E"
  BY <1>8, <1>11, MarkersAre
<1>13. Full[N + 5] = "0" /\ Full[N + 6] = "|"
  BY <1>9, <1>11, MarkersAre
<1>14. Full[N + 7] = "d" /\ Full[N + 8] = "d" /\ Full[N + 9] = "n" /\ Full[N + 10] = "n" /\ Len(Full) = N + 10
  BY <1>5, <1>10, <1>11, MarkersAre
<1> QED BY <1>0, <1>5, <1>7, <1>12, <1>13, <1>14

(* The text behind BEGIN that has been read, from position j up to q, when *)
(* what lies before j is only line ends.                                   *)
Read(j, q) == /\ q \in 0..(N + 10) /\ j \in 0..q /\ j <= N + 1
              /\ \A i \in 1..j : Full[i] = "n"

LEMMA ReadIs ==
  ASSUME printed \in Printed, NEW j, NEW q, Read(j, q)
  PROVE  /\ N \in Nat /\ j \in Nat /\ q \in Nat /\ j <= q /\ q <= N + 10 /\ j <= N + 1
         /\ j \in 0..Len(Full) /\ q \in j..Len(Full)
         /\ Piece(Full, j, q) \in Seq(Symbols) /\ Len(Piece(Full, j, q)) = q - j
         /\ \A i \in 1..(q - j) : Piece(Full, j, q)[i] = Full[j + i]
<1>1. /\ N \in Nat /\ j \in Nat /\ q \in Nat /\ j <= q /\ q <= N + 10 /\ j <= N + 1
      /\ j \in 0..Len(Full) /\ q \in j..Len(Full) /\ Full \in Seq(Symbols)
  <2>1. N \in Nat /\ Len(Full) = N + 10 /\ Full \in Seq(Symbols)
    BY FullIs
  <2> QED BY <2>1 DEF Read
<1> QED BY <1>1, PieceType

(* The symbols of the output are not those of a marker.                    *)
LEMMA OutputSymbols ==
  ASSUME printed \in Printed, NEW i \in 1..(N + 1)
  PROVE  Full[i] \in {"n", "c", "a", "x"}
<1>0. /\ N \in Nat /\ N = Len(Output) + 1 /\ Len(Output) \in Nat /\ Full[1] = "n" /\ Full[2] = "n"
      /\ \A x \in 1..Len(Output) : Full[x + 2] = Output[x]
      /\ \A x \in 1..Len(Output) : Output[x] \in {"n", "c", "a", "x"}
  BY FullIs, OutputIs
<1>1. CASE i = 1 \/ i = 2
  BY <1>0, <1>1
<1>2. CASE ~(i = 1 \/ i = 2)
  <2>1. PICK x \in 1..Len(Output) : x + 2 = i
    <3>1. i - 2 \in 1..Len(Output) /\ i - 2 + 2 = i
      BY <1>0, <1>2
    <3> QED BY <3>1
  <2> QED BY <1>0, <2>1
<1> QED BY <1>1, <1>2

(* Where END begins, and when it is complete.                              *)
LEMMA EndStarts ==
  ASSUME printed \in Printed, NEW j, NEW q, Read(j, q), NEW i \in 1..(q - j)
  PROVE  Starts(Piece(Full, j, q), End, i) <=> j + i = N + 2 /\ N + 4 <= q
<1> DEFINE t == Piece(Full, j, q)
<1>0. /\ N \in Nat /\ j \in Nat /\ q \in Nat /\ j <= q /\ q <= N + 10 /\ j <= N + 1
      /\ t \in Seq(Symbols) /\ Len(t) = q - j
      /\ \A x \in 1..(q - j) : t[x] = Full[j + x]
  BY ReadIs
<1>1. /\ Full[N + 2] = "m" /\ Full[N + 3] = "k" /\ Full[N + 4] = "E" /\ Full[N + 5] = "0" /\ Full[N + 6] = "|"
      /\ Full[N + 7] = "d" /\ Full[N + 8] = "d" /\ Full[N + 9] = "n" /\ Full[N + 10] = "n"
  BY FullIs
<1>2. End \in Seq(Symbols) /\ Len(End) = 3 /\ End[1] = "m" /\ End[2] = "k" /\ End[3] = "E"
  BY MarkersAre
<1> HIDE DEF t
<1>3. Starts(t, End, i) <=> i + Len(End) - 1 <= Len(t) /\ \A d \in 1..Len(End) : t[i + d - 1] = End[d]
  <2>1. i \in 1..(Len(t) + 1)
    BY <1>0
  <2>2. t \in Seq(Symbols) /\ End \in Seq(Symbols)
    BY <1>0, <1>2
  <2>3. Starts(t, End, i) <=> Matches(t, End, i)
    BY <2>1, <2>2, StartsIs
  <2> QED BY <2>3 DEF Matches
<1>4. ASSUME Starts(t, End, i) PROVE j + i = N + 2 /\ N + 4 <= q
  <2>1. i + 2 <= q - j
    BY <1>0, <1>2, <1>3, <1>4
  <2>2. t[i + 1 - 1] = "m"
    <3>1. 1 \in 1..Len(End)
      BY <1>2
    <3> QED BY <1>2, <1>3, <1>4, <3>1
  <2>3. Full[j + i] = "m"
    <3>1. i + 1 - 1 = i
      OBVIOUS
    <3> QED BY <1>0, <2>2, <3>1
  <2>4. ~(j + i \in 1..(N + 1))
    BY <2>3, OutputSymbols
  <2>5. j + i \in {N + 2, N + 3, N + 4, N + 5, N + 6, N + 7, N + 8, N + 9, N + 10}
    BY <1>0, <2>4
  <2>6. j + i = N + 2
    BY <1>1, <2>3, <2>5
  <2> QED BY <1>0, <2>1, <2>6
<1>5. ASSUME j + i = N + 2, N + 4 <= q PROVE Starts(t, End, i)
  <2>1. i + Len(End) - 1 <= Len(t)
    BY <1>0, <1>2, <1>5
  <2>2. /\ i + 1 - 1 \in 1..(q - j) /\ i + 2 - 1 \in 1..(q - j) /\ i + 3 - 1 \in 1..(q - j)
        /\ j + (i + 1 - 1) = N + 2 /\ j + (i + 2 - 1) = N + 3 /\ j + (i + 3 - 1) = N + 4
    BY <1>0, <1>5
  <2>3. t[i + 1 - 1] = "m" /\ t[i + 2 - 1] = "k" /\ t[i + 3 - 1] = "E"
    BY <1>0, <1>1, <2>2
  <2>4. \A d \in 1..Len(End) : d = 1 \/ d = 2 \/ d = 3
    BY <1>2
  <2>5. \A d \in 1..Len(End) : t[i + d - 1] = End[d]
    BY <1>2, <2>3, <2>4
  <2> QED BY <1>3, <2>1, <2>5
<1>6. Starts(t, End, i) <=> j + i = N + 2 /\ N + 4 <= q
  BY <1>4, <1>5
<1> QED BY <1>6 DEF t

LEMMA EndFound ==
  ASSUME printed \in Printed, NEW j, NEW q, Read(j, q)
  PROVE  Find(Piece(Full, j, q), End) = IF N + 4 <= q THEN N + 2 - j ELSE 0
<1> DEFINE t == Piece(Full, j, q)
<1>0. /\ N \in Nat /\ j \in Nat /\ q \in Nat /\ j <= q /\ q <= N + 10 /\ j <= N + 1 /\ Len(t) = q - j
  BY ReadIs
<1>1. \A i \in 1..Len(t) : Starts(t, End, i) <=> j + i = N + 2 /\ N + 4 <= q
  BY <1>0, EndStarts
<1> HIDE DEF t
<1>2. CASE N + 4 <= q
  <2>1. PICK x \in 1..Len(t) : x = N + 2 - j
    <3>1. N + 2 - j \in 1..Len(t)
      BY <1>0, <1>2
    <3> QED BY <3>1
  <2>2. \A i \in 1..Len(t) : j + i = N + 2 <=> i = x
    BY <1>0, <2>1
  <2>3. \A i \in 1..Len(t) : Starts(t, End, i) <=> i = x
    BY <1>1, <1>2, <2>2
  <2>4. Find(t, End) = x
    BY <2>3, FindAt
  <2> QED BY <1>2, <2>1, <2>4 DEF t
<1>3. CASE ~(N + 4 <= q)
  <2>1. Find(t, End) = 0
    BY <1>1, <1>3, FindNone
  <2> QED BY <1>3, <2>1 DEF t
<1> QED BY <1>2, <1>3

(* What is behind END: the exit code and the directory, as far as it came. *)
LEMMA TailIs ==
  ASSUME printed \in Printed, NEW j, NEW q, Read(j, q), N + 4 <= q
  PROVE  /\ TailOf(Piece(Full, j, q), N + 2 - j) = Piece(Full, N + 4, q)
         /\ Read(0, q) /\ Piece(Full, N + 4, q) \in Seq(Symbols) /\ Len(Piece(Full, N + 4, q)) = q - (N + 4)
         /\ \A i \in 1..(q - (N + 4)) : Piece(Full, N + 4, q)[i] = Full[N + 4 + i]
<1>0. /\ N \in Nat /\ j \in Nat /\ q \in Nat /\ j <= q /\ q <= N + 10 /\ j <= N + 1
      /\ j \in 0..Len(Full) /\ q \in j..Len(Full) /\ Len(Piece(Full, j, q)) = q - j
      /\ Full \in Seq(Symbols) /\ Len(Full) = N + 10
  BY ReadIs, FullIs
<1>1. PICK a \in 0..(q - j) : a = N + 4 - j /\ a + 1 = N + 2 - j + 3 /\ j + a = N + 4 /\ j + (q - j) = q
  <2>1. N + 4 - j \in 0..(q - j) /\ N + 4 - j + 1 = N + 2 - j + 3 /\ j + (N + 4 - j) = N + 4 /\ j + (q - j) = q
    BY <1>0
  <2> QED BY <2>1
<1>2. TailOf(Piece(Full, j, q), N + 2 - j) = Piece(Piece(Full, j, q), a, q - j)
  <2>1. Len(End) = 3
    BY MarkersAre
  <2>2. N + 2 - j + Len(End) = a + 1
    BY <1>1, <2>1
  <2> QED BY <1>0, <2>2 DEF TailOf, From, Piece
<1>3. q - j \in a..(q - j)
  BY <1>0, <1>1
<1>4. Piece(Piece(Full, j, q), a, q - j) = Piece(Full, j + a, j + (q - j))
  BY <1>0, <1>3, PieceOfPiece
<1>5. Read(0, q)
  BY <1>0 DEF Read
<1>6. N + 4 \in 0..Len(Full) /\ q \in (N + 4)..Len(Full)
  BY <1>0
<1>7. PICK b \in 0..Len(Full) : b = N + 4
  BY <1>6
<1>8. /\ Piece(Full, b, q) \in Seq(Symbols) /\ Len(Piece(Full, b, q)) = q - b
      /\ \A i \in 1..(q - b) : Piece(Full, b, q)[i] = Full[b + i]
  BY <1>0, <1>6, <1>7, PieceType, ZenonT(40)
<1> QED BY <1>1, <1>2, <1>4, <1>5, <1>7, <1>8

LEMMA StatusIs ==
  ASSUME printed \in Printed, NEW q, Read(0, q), N + 4 <= q
  PROVE  HasStatus(Piece(Full, N + 4, q)) <=> N + 7 <= q
<1> DEFINE t == Piece(Full, N + 4, q)
<1>0. /\ N \in Nat /\ q \in Nat /\ q <= N + 10
      /\ t \in Seq(Symbols) /\ Len(t) = q - (N + 4)
      /\ \A i \in 1..(q - (N + 4)) : t[i] = Full[N + 4 + i]
  BY ReadIs, TailIs
<1>1. Full[N + 5] = "0" /\ Full[N + 6] = "|" /\ Full[N + 7] = "d"
  BY FullIs
<1>2. Status \in Seq(Symbols) /\ Len(Status) = 2 /\ Status[1] = "0" /\ Status[2] = "|"
  BY MarkersAre
<1> HIDE DEF t
<1>3. CASE N + 7 <= q
  <2>1. t[1] = "0" /\ t[2] = "|" /\ t[3] = "d"
    <3>1. /\ 1 \in 1..(q - (N + 4)) /\ 2 \in 1..(q - (N + 4)) /\ 3 \in 1..(q - (N + 4))
          /\ N + 4 + 1 = N + 5 /\ N + 4 + 2 = N + 6 /\ N + 4 + 3 = N + 7
      BY <1>0, <1>3
    <3> QED BY <1>0, <1>1, <3>1
  <2>2. Starts(t, Status, 1)
    <3>1. 1 \in 1..(Len(t) + 1) /\ 1 + Len(Status) - 1 <= Len(t)
      BY <1>0, <1>2, <1>3
    <3>2. \A d \in 1..Len(Status) : (d = 1 \/ d = 2) /\ 1 + d - 1 = d
      BY <1>2
    <3>3. \A d \in 1..Len(Status) : t[1 + d - 1] = Status[d]
      BY <1>2, <2>1, <3>2
    <3>4. Matches(t, Status, 1)
      BY <3>1, <3>3 DEF Matches
    <3>5. t \in Seq(Symbols) /\ Status \in Seq(Symbols) /\ 1 \in 1..(Len(t) + 1)
      BY <1>0, <1>2, <3>1
    <3> QED BY <3>4, <3>5, StartsIs
  <2>3. Len(t) > Len(Status) /\ Len(Status) + 1 = 3
    BY <1>0, <1>2, <1>3
  <2> QED BY <1>3, <2>1, <2>2, <2>3 DEF HasStatus, t
<1>4. CASE ~(N + 7 <= q)
  <2>1. ~(Len(t) > Len(Status))
    BY <1>0, <1>2, <1>4
  <2> QED BY <1>4, <2>1 DEF HasStatus, t
<1> QED BY <1>3, <1>4

LEMMA DirectoryIs ==
  ASSUME printed \in Printed, NEW q, Read(0, q), N + 7 <= q
  PROVE  Directory(Piece(Full, N + 4, q)) \in Seq(Symbols) /\ (q # N + 7 => Directory(Piece(Full, N + 4, q)) = Cwd)
<1> DEFINE t == Piece(Full, N + 4, q)
           r == From(t, Len(Status) + 1)
<1>0. /\ N \in Nat /\ q \in Nat /\ q <= N + 10 /\ N + 4 <= q
      /\ t \in Seq(Symbols) /\ Len(t) = q - (N + 4)
      /\ \A i \in 1..(q - (N + 4)) : t[i] = Full[N + 4 + i]
  BY ReadIs, TailIs
<1>1. Full[N + 7] = "d" /\ Full[N + 8] = "d" /\ Full[N + 9] = "n" /\ Full[N + 10] = "n"
  BY FullIs
<1>2. /\ r \in Seq(Symbols) /\ Len(r) = q - (N + 6)
      /\ \A i \in 1..(q - (N + 6)) : r[i] = Full[N + 6 + i]
  <2>1. r = Piece(t, 2, Len(t))
    BY MarkersAre DEF From, Piece
  <2>2. 2 \in 0..Len(t) /\ Len(t) \in 2..Len(t) /\ Len(t) - 2 = q - (N + 6)
    BY <1>0
  <2> HIDE DEF t, r
  <2>3. /\ Piece(t, 2, Len(t)) \in Seq(Symbols) /\ Len(Piece(t, 2, Len(t))) = Len(t) - 2
        /\ \A i \in 1..(Len(t) - 2) : Piece(t, 2, Len(t))[i] = t[2 + i]
    BY <1>0, <2>2, PieceType, ZenonT(40)
  <2>4. \A i \in 1..(q - (N + 6)) : 2 + i \in 1..(q - (N + 4)) /\ N + 4 + (2 + i) = N + 6 + i
    BY <1>0
  <2> QED BY <1>0, <2>1, <2>2, <2>3, <2>4
<1>3. Directory(t) = Head(Lines(r))
  BY DEF Directory
<1> HIDE DEF t, r
<1>4. CASE q = N + 7
  <2>1. Len(r) = 1 /\ r[1] = "d"
    <3>1. Len(r) = 1 /\ 1 \in 1..(q - (N + 6)) /\ N + 6 + 1 = N + 7
      BY <1>0, <1>2, <1>4
    <3> QED BY <1>1, <1>2, <3>1
  <2>2. Head(Lines(r)) = SubSeq(r, 1, 2 - 1)
    <3>1. 2 \in 1..(Len(r) + 1) /\ \A i \in 1..(2 - 1) : r[i] # "n"
      BY <2>1
    <3> QED BY <1>2, <2>1, <3>1, FirstLine
  <2>3. SubSeq(r, 1, 2 - 1) = r
    <3>1. SubSeq(r, 1, Len(r)) = r
      BY <1>2, SubSeqFull
    <3> QED BY <2>1, <3>1
  <2> QED BY <1>2, <1>3, <1>4, <2>2, <2>3 DEF t
<1>5. CASE q # N + 7
  <2>1. /\ Len(r) >= 2 /\ r[1] = "d" /\ r[2] = "d" /\ (Len(r) = 2 \/ r[3] = "n") /\ Len(r) \in Nat
    <3>1. /\ Len(r) >= 2 /\ 1 \in 1..(q - (N + 6)) /\ 2 \in 1..(q - (N + 6)) /\ (Len(r) # 2 => 3 \in 1..(q - (N + 6)))
          /\ N + 6 + 1 = N + 7 /\ N + 6 + 2 = N + 8 /\ N + 6 + 3 = N + 9 /\ Len(r) \in Nat
      BY <1>0, <1>2, <1>5
    <3> QED BY <1>1, <1>2, <3>1
  <2>2. Head(Lines(r)) = SubSeq(r, 1, 3 - 1)
    <3>1. 3 \in 1..(Len(r) + 1) /\ (3 = Len(r) + 1 \/ r[3] = "n")
      BY <2>1
    <3>2. \A i \in 1..(3 - 1) : r[i] # "n"
      <4>1. \A i \in 1..(3 - 1) : i = 1 \/ i = 2
        OBVIOUS
      <4> QED BY <2>1, <4>1
    <3> QED BY <1>2, <3>1, <3>2, FirstLine
  <2>3. SubSeq(r, 1, 3 - 1) = Cwd
    <3>1. PICK a \in 0..Len(r), b \in 0..Len(r) : a = 0 /\ b = 2 /\ b - a = 2 /\ b \in a..Len(r)
      <4>1. 0 \in 0..Len(r) /\ 2 \in 0..Len(r) /\ 2 \in 0..Len(r)
        BY <2>1
      <4> QED BY <4>1
    <3>2. /\ Piece(r, 0, 2) \in Seq(Symbols) /\ Len(Piece(r, 0, 2)) = 2 - 0
          /\ \A i \in 1..(2 - 0) : Piece(r, 0, 2)[i] = r[0 + i]
      <4>1. /\ Piece(r, a, b) \in Seq(Symbols) /\ Len(Piece(r, a, b)) = b - a
            /\ \A i \in 1..(b - a) : Piece(r, a, b)[i] = r[a + i]
        <5>1. b \in a..Len(r) /\ r \in Seq(Symbols)
          BY <1>2, <3>1
        <5> QED BY <5>1, PieceType
      <4> QED BY <3>1, <4>1
    <3>3. \A i \in 1..2 : (i = 1 \/ i = 2) /\ 0 + i = i
      OBVIOUS
    <3>4. Piece(r, 0, 2) \in Seq(Symbols) /\ Len(Piece(r, 0, 2)) = Len(Cwd) /\ \A i \in 1..Len(Cwd) : Piece(r, 0, 2)[i] = Cwd[i]
      BY <2>1, <3>2, <3>3, MarkersAre
    <3>5. Piece(r, 0, 2) = Cwd
      BY <3>4, MarkersAre, SeqEqual
    <3> QED BY <3>5 DEF Piece
  <2>4. Cwd \in Seq(Symbols)
    BY MarkersAre
  <2> QED BY <1>3, <2>2, <2>3, <2>4 DEF t
<1> QED BY <1>4, <1>5

-----------------------------------------------------------------------------
(* The output that is found: it begins with what was streamed before, and  *)
(* in the end it is what the command printed.                              *)
LEMMA EchoIsPrinted ==
  ASSUME printed \in Printed, ~HasEcho(Output), NEW j, NEW q, Read(j, q), q <= N + 1,
         NEW p \in 1..(q - j - 1), EchoAt(Piece(Full, j, q), p)
  PROVE  p = q - j - 1 /\ q # N + 1
<1> DEFINE t == Piece(Full, j, q)
<1>0. /\ N \in Nat /\ j \in Nat /\ q \in Nat /\ j <= q /\ t \in Seq(Symbols) /\ Len(t) = q - j
      /\ \A i \in 1..(q - j) : t[i] = Full[j + i]
      /\ \A i \in 1..j : Full[i] = "n"
  BY ReadIs DEF Read
<1>1. /\ Output \in Seq(Symbols) /\ Len(Output) \in Nat /\ N = Len(Output) + 1
      /\ Full[1] = "n" /\ Full[2] = "n" /\ \A i \in 1..Len(Output) : Full[i + 2] = Output[i]
  BY OutputIs, FullIs
<1>2. /\ t[p] = "c" /\ t[p + 1] = "a" /\ (p = 1 \/ t[p - 1] = "n") /\ (p + 1 = Len(t) \/ t[p + 2] = "n")
  BY DEF EchoAt
<1> HIDE DEF t
<1>3. Full[j + p] = "c" /\ Full[j + p + 1] = "a" /\ p \in Nat
  <2>1. p \in Nat /\ p \in 1..(q - j) /\ p + 1 \in 1..(q - j) /\ j + (p + 1) = j + p + 1
    BY <1>0
  <2> QED BY <1>0, <1>2, <2>1
<1>4. PICK x \in 1..(Len(Output) - 1) : x + 2 = j + p
  <2>1. j + p # 1 /\ j + p # 2
    BY <1>1, <1>3
  <2>2. j + p - 2 \in 1..(Len(Output) - 1) /\ j + p - 2 + 2 = j + p
    BY <1>0, <1>1, <1>3, <2>1
  <2> QED BY <2>2
<1>5. Output[x] = "c" /\ Output[x + 1] = "a"
  <2>1. x \in 1..Len(Output) /\ x + 1 \in 1..Len(Output) /\ x + 1 + 2 = j + p + 1
    BY <1>0, <1>1, <1>3, <1>4
  <2> QED BY <1>1, <1>3, <1>4, <2>1
<1>6. Full[x + 1] = "n"
  <2>1. CASE p = 1
    <3>1. x + 1 \in 1..j
      BY <1>0, <1>4, <2>1
    <3> QED BY <1>0, <3>1
  <2>2. CASE p # 1
    <3>1. p - 1 \in 1..(q - j) /\ j + (p - 1) = x + 1
      BY <1>0, <1>3, <1>4, <2>2
    <3>2. t[p - 1] = "n"
      BY <1>2, <2>2
    <3> QED BY <1>0, <3>1, <3>2
  <2> QED BY <2>1, <2>2
<1>7. x = 1 \/ Output[x - 1] = "n"
  <2>1. CASE x # 1
    <3>1. x - 1 \in 1..Len(Output) /\ x - 1 + 2 = x + 1
      BY <1>1, <2>1
    <3>2. Full[x - 1 + 2] = Output[x - 1]
      BY <1>1, <3>1
    <3> QED BY <1>6, <3>1, <3>2
  <2> QED BY <2>1
<1>8. ASSUME x + 1 = Len(Output) \/ Output[x + 2] = "n" PROVE FALSE
  <2>1. EchoAt(Output, x)
    BY <1>5, <1>7, <1>8 DEF EchoAt
  <2>2. "c" \in Symbols /\ "a" \in Symbols
    BY DEF Symbols
  <2> QED BY <1>1, <2>1, <2>2, EchoIs
<1>9. p = q - j - 1
  <2> SUFFICES ASSUME p # q - j - 1 PROVE FALSE
    OBVIOUS
  <2>1. p + 2 \in 1..(q - j) /\ j + (p + 2) = x + 2 + 2 /\ x + 2 \in 1..Len(Output)
    BY <1>0, <1>1, <1>3, <1>4
  <2>2. t[p + 2] = "n"
    BY <1>0, <1>2, <1>3
  <2>3. Full[x + 2 + 2] = "n"
    BY <1>0, <2>1, <2>2
  <2>4. Output[x + 2] = "n"
    BY <1>1, <2>1, <2>3
  <2> QED BY <1>8, <2>4
<1>10. q # N + 1
  <2> SUFFICES ASSUME q = N + 1 PROVE FALSE
    OBVIOUS
  <2>1. x + 1 = Len(Output)
    BY <1>0, <1>1, <1>4, <1>9
  <2> QED BY <1>8, <2>1
<1> QED BY <1>9, <1>10

(* So no line that was read is taken for an echo, unless it is the last and*)
(* not whole.                                                              *)
LEMMA EchoIsCut ==
  ASSUME printed \in Printed, ~HasEcho(Output), NEW j, NEW q, Read(j, q), q <= N + 1,
         HasEcho(Piece(Full, j, q))
  PROVE  q # N + 1 /\ Last(Lines(Piece(Full, j, q))) = Command
<1> DEFINE t == Piece(Full, j, q)
<1>0. q - j \in Int /\ t \in Seq(Symbols) /\ Len(t) = q - j
  BY ReadIs
<1>1. "c" \in Symbols /\ "a" \in Symbols
  BY DEF Symbols
<1>2. \A p \in 1..(Len(t) - 1) : EchoAt(t, p) => p = Len(t) - 1 /\ q # N + 1
  BY <1>0, EchoIsPrinted
<1> HIDE DEF t
<1>3. HasEcho(t)
  BY DEF t
<1>4. PICK p \in 1..(Len(t) - 1) : EchoAt(t, p)
  BY <1>0, <1>1, <1>3, EchoIs
<1>5. Last(Lines(t)) = Command
  BY <1>0, <1>1, <1>2, <1>3, EchoIsLast
<1> QED BY <1>2, <1>4, <1>5 DEF t

LEMMA CleanedText ==
  ASSUME printed \in Printed, NEW j, NEW q, Read(j, q), q <= N + 1, ~HasEcho(Piece(Full, j, q))
  PROVE  Cleaned(Piece(Full, j, q)) = Core(Full, q)
<1> DEFINE t == Piece(Full, j, q)
<1>0. /\ N \in Nat /\ j \in Nat /\ q \in Nat /\ j <= q /\ t \in Seq(Symbols) /\ Len(t) = q - j
      /\ j \in 0..Len(Full) /\ q \in j..Len(Full) /\ Full \in Seq(Symbols)
      /\ \A i \in 1..(q - j) : t[i] = Full[j + i]
      /\ \A i \in 1..j : Full[i] = "n"
  <2>1. Full \in Seq(Symbols)
    BY FullIs, ZenonT(40)
  <2>2. \A i \in 1..j : Full[i] = "n"
    BY ZenonT(40) DEF Read
  <2> QED BY <2>1, <2>2, ReadIs, ZenonT(40)
<1>1. \A i \in 1..Len(t) : t[i] # "k"
  <2>1. \A i \in 1..(q - j) : j + i \in 1..(N + 1)
    BY <1>0
  <2>2. \A i \in 1..(N + 1) : Full[i] # "k"
    BY OutputSymbols
  <2> HIDE DEF t
  <2> QED BY <1>0, <2>1, <2>2
<1>2. \A k \in 0..(q - j) : Core(t, k) = Core(Full, j + k)
  BY <1>0, CoreShift
<1>3. "n" \in Symbols
  BY DEF Symbols
<1>4. ~HasEcho(t)
  OBVIOUS
<1> HIDE DEF t
<1>5. Cleaned(t) = Core(t, Len(t))
  BY <1>0, <1>1, <1>3, <1>4, CleanedIs
<1>6. q - j \in 0..(q - j) /\ j + (q - j) = q
  BY <1>0
<1>7. Core(t, q - j) = Core(Full, q)
  BY <1>2, <1>6
<1> QED BY <1>0, <1>5, <1>7 DEF t

LEMMA ExpectedIs ==
  ASSUME printed \in Printed
  PROVE  Expected = Core(Full, N + 1) /\ Core(Full, N + 1) \in Seq(Symbols)
<1> DEFINE n == Len(Output)
<1>0. /\ Output \in Seq(Symbols) /\ N = n + 1 /\ n \in Nat /\ Full \in Seq(Symbols) /\ Len(Full) = N + 10
      /\ Full[1] = "n" /\ Full[2] = "n" /\ \A i \in 1..n : Full[i + 2] = Output[i]
  BY OutputIs, FullIs
<1>1. "n" \in Symbols
  BY DEF Symbols
<1>2. PICK e, m : Cuts(e, m, Output, Len(Output)) /\ Lines(Output) = Between(e, m, Output)
  BY <1>0, LinesAre
<1>3. Expected = Core(Output, n)
  <2>1. Len(Output) \in 0..Len(Output)
    BY <1>0
  <2> QED BY <1>0, <1>1, <1>2, <2>1, JoinTrimmed DEF Expected
<1> HIDE DEF n
<1>a. PICK a \in 0..Len(Full) : a = 2
  <2>1. 2 \in 0..Len(Full)
    BY <1>0
  <2> QED BY <2>1
<1>b. PICK b \in 0..Len(Full) : b = N + 1
  <2>1. N + 1 \in 0..Len(Full)
    BY <1>0
  <2> QED BY <2>1
<1>4. a = 2 /\ b = N + 1 /\ b \in a..Len(Full) /\ b - a = n
  BY <1>0, <1>a, <1>b
<1>5. Piece(Full, a, b) = Output
  <2>1. /\ Piece(Full, a, b) \in Seq(Symbols) /\ Len(Piece(Full, a, b)) = b - a
        /\ \A i \in 1..(b - a) : Piece(Full, a, b)[i] = Full[a + i]
    <3>1. b \in a..Len(Full) /\ Full \in Seq(Symbols)
      BY <1>0, <1>4
    <3> QED BY <3>1, PieceType
  <2>2. \A i \in 1..n : a + i = i + 2
    BY <1>4
  <2>3. Len(Output) = n
    BY DEF n
  <2>4. Len(Piece(Full, a, b)) = Len(Output) /\ \A i \in 1..Len(Piece(Full, a, b)) : Piece(Full, a, b)[i] = Output[i]
    BY <1>0, <1>4, <2>1, <2>2, <2>3
  <2> QED BY <1>0, <2>1, <2>4, SeqEqual
<1>6. Core(Piece(Full, a, b), n) = Core(Full, a + n)
  <2>1. \A i \in 1..a : Full[i] = "n"
    <3>1. \A i \in 1..a : i = 1 \/ i = 2
      BY <1>4
    <3> QED BY <1>0, <3>1
  <2>2. b \in a..Len(Full) /\ n \in 0..(b - a) /\ Full \in Seq(Symbols)
    BY <1>0, <1>4
  <2> QED BY <2>1, <2>2, CoreShift
<1>7. a + n = N + 1 /\ N + 1 \in 0..Len(Full)
  BY <1>0, <1>4
<1> QED BY <1>0, <1>3, <1>5, <1>6, <1>7, CoreType

(* One more piece, of texts whose line ends are normal.                    *)
LEMMA PieceArrives ==
  ASSUME NEW A \in Seq(Symbols), NEW j \in 0..Len(A), NEW q \in j..Len(A),
         NEW k \in 1..Len(Piece(A, q, Len(A)))
  PROVE  /\ q + k \in j..Len(A) /\ q + k \in q..Len(A)
         /\ Piece(A, j, q) \o SubSeq(Piece(A, q, Len(A)), 1, k) = Piece(A, j, q + k)
         /\ From(Piece(A, q, Len(A)), k + 1) = Piece(A, q + k, Len(A))
         /\ Piece(A, q, Len(A))[k] = A[q + k]
<1> DEFINE w == Piece(A, q, Len(A))
<1>0. /\ Len(A) \in Nat /\ j \in Nat /\ q \in Nat /\ j <= q /\ q <= Len(A)
      /\ q \in 0..Len(A) /\ Len(A) \in q..Len(A)
  BY LenProperties
<1>1. /\ w \in Seq(Symbols) /\ Len(w) = Len(A) - q /\ \A i \in 1..(Len(A) - q) : w[i] = A[q + i]
  BY <1>0, PieceType
<1>2. /\ k \in Nat /\ k <= Len(A) - q /\ q + k \in j..Len(A) /\ q + k \in q..Len(A)
      /\ k \in 0..(Len(A) - q) /\ q + (Len(A) - q) = Len(A)
  BY <1>0, <1>1
<1>p. \A c \in 0..(Len(A) - q) : \A d \in c..(Len(A) - q) :
        Piece(Piece(A, q, Len(A)), c, d) = Piece(A, q + c, q + d)
  <2>1. \A y \in q..Len(A) : \A c \in 0..(y - q) : \A d \in c..(y - q) :
          Piece(Piece(A, q, y), c, d) = Piece(A, q + c, q + d)
    <3>1. q \in 0..Len(A)
      BY <1>0
    <3> QED BY <3>1, PieceOfPiece
  <2> QED BY <1>0, <2>1, Zenon
<1>3. SubSeq(w, 1, k) = Piece(A, q, q + k)
  <2>1. PICK z \in 0..(Len(A) - q) : z = 0 /\ k \in z..(Len(A) - q) /\ q + z = q
    BY <1>0, <1>1
  <2>2. Piece(Piece(A, q, Len(A)), z, k) = Piece(A, q + z, q + k)
    <3>1. k \in z..(Len(A) - q)
      BY <2>1
    <3> QED BY <1>p, <3>1
  <2>3. SubSeq(w, 1, k) = Piece(Piece(A, q, Len(A)), z, k)
    BY <2>1 DEF Piece
  <2> QED BY <2>1, <2>2, <2>3
<1>4. From(w, k + 1) = Piece(A, q + k, Len(A))
  <2>1. PICK z \in 0..(Len(A) - q) : z = Len(A) - q /\ z \in k..(Len(A) - q) /\ q + z = Len(A)
    <3>1. Len(A) - q \in 0..(Len(A) - q) /\ Len(A) - q \in k..(Len(A) - q)
      BY <1>0, <1>2
    <3> QED BY <1>2, <3>1
  <2>2. Piece(Piece(A, q, Len(A)), k, z) = Piece(A, q + k, q + z)
    <3>1. z \in k..(Len(A) - q)
      BY <2>1
    <3> QED BY <1>p, <1>2, <3>1
  <2>3. From(w, k + 1) = Piece(Piece(A, q, Len(A)), k, z)
    BY <1>1, <2>1 DEF From, Piece
  <2> QED BY <2>1, <2>2, <2>3
<1>5. Piece(A, j, q) \o SubSeq(w, 1, k) = Piece(A, j, q + k)
  <2>1. Piece(A, j, q) \o SubSeq(w, 1, k) = Piece(A, j, q) \o Piece(A, q, q + k)
    BY <1>3
  <2> QED BY <1>0, <1>2, <2>1, PieceJoin
<1>6. w[k] = A[q + k]
  BY <1>1
<1> QED BY <1>2, <1>4, <1>5, <1>6

(* One more piece.                                                         *)
LEMMA ArrivedIs ==
  ASSUME NEW A \in Seq(Symbols), NEW j \in 0..Len(A), NEW q \in j..Len(A),
         buffer \in Seq(Symbols), Normal(buffer) = Piece(A, j, q),
         wire \in Seq(Symbols), Normal(wire) = Piece(A, q, Len(A)), NEW k \in 1..Len(wire)
  PROVE  /\ q + k \in j..Len(A) /\ q + k \in q..Len(A)
         /\ Arrived(k) \in Seq(Symbols) /\ Normal(Arrived(k)) = Piece(A, j, q + k)
         /\ From(wire, k + 1) \in Seq(Symbols) /\ Normal(From(wire, k + 1)) = Piece(A, q + k, Len(A))
         /\ A[q + k] # "n" => wire[k] = A[q + k]
<1> DEFINE b == Normal(buffer)
           w == Normal(wire)
           l == Len(wire)
<1>1. /\ w \in Seq(Symbols) /\ Len(w) = l /\ l \in Nat
      /\ \A i \in 1..l : w[i] = IF wire[i] = "r" THEN "n" ELSE wire[i]
  BY NormalIs, LenProperties
<1>2. /\ q + k \in j..Len(A) /\ q + k \in q..Len(A) /\ b \o SubSeq(w, 1, k) = Piece(A, j, q + k)
      /\ From(w, k + 1) = Piece(A, q + k, Len(A))
      /\ w[k] = A[q + k]
  <2>1. k \in 1..Len(Piece(A, q, Len(A))) /\ b = Piece(A, j, q) /\ w = Piece(A, q, Len(A))
    BY <1>1
  <2>2. /\ q + k \in j..Len(A) /\ q + k \in q..Len(A)
        /\ Piece(A, j, q) \o SubSeq(Piece(A, q, Len(A)), 1, k) = Piece(A, j, q + k)
        /\ From(Piece(A, q, Len(A)), k + 1) = Piece(A, q + k, Len(A))
        /\ Piece(A, q, Len(A))[k] = A[q + k]
    BY <2>1, PieceArrives
  <2> HIDE DEF b, w
  <2> QED BY <2>1, <2>2, Zenon
<1>z. PICK z \in 0..l : z = 0 /\ k \in z..l /\ z + 1 = 1
  BY <1>1
<1>y. PICK y \in k..l : y = l
  <2>1. l \in k..l
    BY <1>1
  <2> QED BY <2>1
<1>k. k \in 0..l /\ k \in z..l
  BY <1>1, <1>z
<1>3. SubSeq(wire, 1, k) = Piece(wire, z, k) /\ SubSeq(w, 1, k) = Piece(w, z, k)
  BY <1>z DEF Piece
<1>4. Piece(wire, z, k) \in Seq(Symbols) /\ Normal(Piece(wire, z, k)) = Piece(w, z, k)
  BY <1>k, PieceType, NormalPiece
<1>5. Arrived(k) \in Seq(Symbols) /\ Normal(Arrived(k)) = b \o SubSeq(w, 1, k)
  <2> DEFINE v == Piece(wire, z, k)
  <2>1. Arrived(k) = buffer \o v
    BY <1>3 DEF Arrived
  <2>2. v \in Seq(Symbols) /\ Normal(v) = SubSeq(w, 1, k)
    BY <1>3, <1>4
  <2> HIDE DEF v, w
  <2>3. buffer \o v \in Seq(Symbols)
    BY <2>2, ConcatProperties
  <2>4. Normal(buffer \o v) = Normal(buffer) \o Normal(v)
    BY <2>2, NormalConcat
  <2> QED BY <2>1, <2>2, <2>3, <2>4
<1>6. From(wire, k + 1) = Piece(wire, k, y) /\ From(w, k + 1) = Piece(w, k, y)
  BY <1>1, <1>y DEF From, Piece
<1>7. Piece(wire, k, y) \in Seq(Symbols) /\ Normal(Piece(wire, k, y)) = Piece(w, k, y)
  BY <1>k, PieceType, NormalPiece
<1>8. w[k] # "n" => wire[k] = w[k]
  BY <1>1
<1> QED BY <1>2, <1>5, <1>6, <1>7, <1>8

-----------------------------------------------------------------------------
(* All that the shell writes: the end of its own start, BEGIN and the rest,*)
(* the line ends normal.                                                   *)
All(before) == before \o Begin \o Full

LEMMA FullSymbols ==
  ASSUME printed \in Printed, NEW i \in 1..(N + 10)
  PROVE  Full[i] # "b" /\ Full[i] # "r"
<1>0. /\ N \in Nat
      /\ Full[N + 2] = "m" /\ Full[N + 3] = "k" /\ Full[N + 4] = "E" /\ Full[N + 5] = "0" /\ Full[N + 6] = "|"
      /\ Full[N + 7] = "d" /\ Full[N + 8] = "d" /\ Full[N + 9] = "n" /\ Full[N + 10] = "n"
  BY FullIs
<1>1. CASE i \in 1..(N + 1)
  BY <1>1, OutputSymbols
<1>2. CASE ~(i \in 1..(N + 1))
  <2>1. i \in {N + 2, N + 3, N + 4, N + 5, N + 6, N + 7, N + 8, N + 9, N + 10}
    BY <1>0, <1>2
  <2> QED BY <1>0, <2>1
<1> QED BY <1>1, <1>2

(* It is normal wherever a piece ends.                                     *)
LEMMA FullNormal ==
  ASSUME printed \in Printed, NEW j, NEW q, Read(j, q)
  PROVE  Normal(Piece(Full, j, q)) = Piece(Full, j, q)
<1> DEFINE t == Piece(Full, j, q)
<1>0. /\ N \in Nat /\ j \in Nat /\ q \in Nat /\ q <= N + 10
      /\ t \in Seq(Symbols) /\ Len(t) = q - j /\ \A i \in 1..(q - j) : t[i] = Full[j + i]
  BY ReadIs
<1> HIDE DEF t
<1>1. ASSUME NEW i \in 1..Len(t) PROVE t[i] # "r"
  <2>1. j + i \in 1..(N + 10) /\ i \in 1..(q - j)
    BY <1>0
  <2>2. Full[j + i] # "r"
    BY <2>1, FullSymbols
  <2> QED BY <1>0, <2>1, <2>2
<1>2. Normal(t) = t
  BY <1>0, <1>1, NormalKept
<1> QED BY <1>2 DEF t

LEMMA BeforeIs ==
  ASSUME NEW before \in {<<>>, <<"x", "n", "n">>}
  PROVE  /\ before \in Seq(Symbols) /\ Len(before) \in Nat
         /\ \A i \in 1..Len(before) : before[i] # "b"
<1>1. CASE before = <<>>
  BY <1>1
<1>2. CASE before = <<"x", "n", "n">>
  <2>1. /\ before \in Seq(Symbols) /\ Len(before) = 3
        /\ before[1] = "x" /\ before[2] = "n" /\ before[3] = "n"
    BY <1>2 DEF Symbols
  <2>2. \A i \in 1..Len(before) : i = 1 \/ i = 2 \/ i = 3
    BY <2>1
  <2> QED BY <2>1, <2>2
<1> QED BY <1>1, <1>2

(* Where the BEGIN marker and the text behind it are.                      *)
LEMMA AllIs ==
  ASSUME printed \in Printed, NEW before \in {<<>>, <<"x", "n", "n">>}
  PROVE  /\ All(before) \in Seq(Symbols) /\ Len(All(before)) = Len(before) + 2 + (N + 10)
         /\ \A i \in 1..Len(before) : All(before)[i] # "b"
         /\ All(before)[Len(before) + 1] = "b" /\ All(before)[Len(before) + 2] = "B"
         /\ \A i \in 1..(N + 10) : All(before)[Len(before) + 2 + i] = Full[i]
<1>0. /\ before \in Seq(Symbols) /\ Len(before) \in Nat
      /\ \A i \in 1..Len(before) : before[i] # "b"
  BY BeforeIs
<1>1. Begin \in Seq(Symbols) /\ Len(Begin) = 2 /\ Begin[1] = "b" /\ Begin[2] = "B"
  BY MarkersAre
<1>2. Full \in Seq(Symbols) /\ Len(Full) = N + 10 /\ N \in Nat
  BY FullIs
<1> DEFINE u == before \o Begin
           w == u \o Full
<1>3. /\ u \in Seq(Symbols) /\ Len(u) = Len(before) + 2
      /\ \A i \in 1..Len(before) : u[i] = before[i]
      /\ \A i \in 1..2 : u[Len(before) + i] = Begin[i]
  <2>1. /\ u \in Seq(Symbols) /\ Len(u) = Len(before) + Len(Begin)
        /\ \A i \in 1..Len(before) : u[i] = before[i]
        /\ \A i \in 1..Len(Begin) : u[Len(before) + i] = Begin[i]
    <3>1. \A p \in Seq(Symbols) :
            /\ before \o p \in Seq(Symbols) /\ Len(before \o p) = Len(before) + Len(p)
            /\ \A i \in 1..Len(before) : (before \o p)[i] = before[i]
            /\ \A i \in 1..Len(p) : (before \o p)[Len(before) + i] = p[i]
      BY <1>0, ConcatAt
    <3> QED BY <1>1, <3>1, Zenon
  <2> HIDE DEF u
  <2> QED BY <1>1, <2>1
<1> HIDE DEF u
<1>4. /\ w \in Seq(Symbols) /\ Len(w) = Len(u) + Len(Full)
      /\ \A i \in 1..Len(u) : w[i] = u[i]
      /\ \A i \in 1..Len(Full) : w[Len(u) + i] = Full[i]
  <2>1. u \in Seq(Symbols) /\ Full \in Seq(Symbols)
    BY <1>2, <1>3
  <2> HIDE DEF w
  <2>2. /\ u \o Full \in Seq(Symbols) /\ Len(u \o Full) = Len(u) + Len(Full)
        /\ \A i \in 1..Len(u) : (u \o Full)[i] = u[i]
        /\ \A i \in 1..Len(Full) : (u \o Full)[Len(u) + i] = Full[i]
    <3>1. \A p \in Seq(Symbols) :
            /\ u \o p \in Seq(Symbols) /\ Len(u \o p) = Len(u) + Len(p)
            /\ \A i \in 1..Len(u) : (u \o p)[i] = u[i]
            /\ \A i \in 1..Len(p) : (u \o p)[Len(u) + i] = p[i]
      BY <2>1, ConcatAt
    <3> QED BY <2>1, <3>1, Zenon
  <2> QED BY <2>2, Zenon DEF w
<1>5. w = All(before)
  BY DEF w, u, All
<1> HIDE DEF w
<1>6. \A i \in 1..Len(before) : w[i] # "b"
  <2>1. \A i \in 1..Len(before) : i \in 1..Len(u)
    BY <1>0, <1>3
  <2> QED BY <1>0, <1>3, <1>4, <2>1
<1>7. w[Len(before) + 1] = "b" /\ w[Len(before) + 2] = "B"
  <2>1. 1 \in 1..2 /\ 2 \in 1..2 /\ Len(before) + 1 \in 1..Len(u) /\ Len(before) + 2 \in 1..Len(u)
    BY <1>0, <1>3
  <2> QED BY <1>1, <1>3, <1>4, <2>1
<1>8. Len(w) = Len(before) + 2 + (N + 10) /\ \A i \in 1..(N + 10) : w[Len(before) + 2 + i] = Full[i]
  BY <1>2, <1>3, <1>4
<1> QED BY <1>4, <1>5, <1>6, <1>7, <1>8

LEMMA JoinTwice ==
  ASSUME NEW S, NEW h \in Seq(S)
  PROVE  \A u \in Seq(S), x \in Seq(S) : u \o x \in Seq(S) /\ (h \o u) \o x = h \o (u \o x)
<1>1. \A u \in Seq(S), x \in Seq(S) : u \o x \in Seq(S)
  BY ConcatProperties
<1>2. \A u \in Seq(S), x \in Seq(S) : (h \o u) \o x = h \o (u \o x)
  BY ConcatAssociative, SMT
<1> QED BY <1>1, <1>2

(* Init writes it from left to right, with the terminal's line ends.       *)
LEMMA NormalEnds ==
  /\ CRLF \in Seq(Symbols) /\ Normal(CRLF) = NN
  /\ Normal(Begin) = Begin /\ Normal(End) = End /\ Normal(Status) = Status /\ Normal(Cwd) = Cwd
<1>1. CRLF \in Seq(Symbols) /\ Len(CRLF) = 2 /\ CRLF[1] = "r" /\ CRLF[2] = "n"
  BY DEF CRLF, Symbols
<1>2. Normal(CRLF) = NN
  <2>1. NN \in Seq(Symbols) /\ Len(NN) = 2 /\ NN[1] = "n" /\ NN[2] = "n"
    BY MarkersAre
  <2>2. \A i \in 1..Len(CRLF) : i = 1 \/ i = 2
    BY <1>1
  <2>3. Len(NN) = Len(CRLF) /\ \A i \in 1..Len(CRLF) : NN[i] = IF CRLF[i] = "r" THEN "n" ELSE CRLF[i]
    BY <1>1, <2>1, <2>2
  <2> HIDE DEF CRLF, NN
  <2> QED BY <1>1, <2>1, <2>3, NormalFrom
<1>3. Normal(Begin) = Begin
  <2>1. \A i \in 1..Len(Begin) : i = 1 \/ i = 2
    BY MarkersAre
  <2>2. \A i \in 1..Len(Begin) : Begin[i] # "r"
    BY <2>1, MarkersAre
  <2> QED BY <2>2, MarkersAre, NormalKept
<1>4. Normal(End) = End
  <2>1. \A i \in 1..Len(End) : i = 1 \/ i = 2 \/ i = 3
    BY MarkersAre
  <2>2. \A i \in 1..Len(End) : End[i] # "r"
    BY <2>1, MarkersAre
  <2> QED BY <2>2, MarkersAre, NormalKept
<1>5. Normal(Status) = Status
  <2>1. \A i \in 1..Len(Status) : i = 1 \/ i = 2
    BY MarkersAre
  <2>2. \A i \in 1..Len(Status) : Status[i] # "r"
    BY <2>1, MarkersAre
  <2> QED BY <2>2, MarkersAre, NormalKept
<1>6. Normal(Cwd) = Cwd
  <2>1. \A i \in 1..Len(Cwd) : i = 1 \/ i = 2
    BY MarkersAre
  <2>2. \A i \in 1..Len(Cwd) : Cwd[i] # "r"
    BY <2>1, MarkersAre
  <2> QED BY <2>2, MarkersAre, NormalKept
<1> QED BY <1>1, <1>2, <1>3, <1>4, <1>5, <1>6

LEMMA NormalBefore ==
  ASSUME NEW raw \in {<<>>, <<"x", "r", "n">>}
  PROVE  raw \in Seq(Symbols) /\ Normal(raw) \in {<<>>, <<"x", "n", "n">>}
<1>1. CASE raw = <<>>
  <2>1. PICK e \in Seq(Symbols) : e = <<>>
    BY EmptySeq
  <2>2. Len(e) = 0 /\ \A i \in 1..Len(e) : e[i] # "r"
    BY <2>1
  <2>3. Normal(e) = e
    BY <2>2, NormalKept
  <2> QED BY <1>1, <2>1, <2>3
<1>2. CASE raw = <<"x", "r", "n">>
  <2> DEFINE u == <<"x", "n", "n">>
  <2>1. raw \in Seq(Symbols) /\ Len(raw) = 3 /\ raw[1] = "x" /\ raw[2] = "r" /\ raw[3] = "n"
    BY <1>2 DEF Symbols
  <2>2. u \in Seq(Symbols) /\ Len(u) = 3 /\ u[1] = "x" /\ u[2] = "n" /\ u[3] = "n"
    BY DEF Symbols
  <2>3. \A i \in 1..Len(raw) : i = 1 \/ i = 2 \/ i = 3
    BY <2>1
  <2>4. \A i \in 1..Len(raw) : u[i] = IF raw[i] = "r" THEN "n" ELSE raw[i]
    BY <2>1, <2>2, <2>3
  <2> HIDE DEF u
  <2>5. Normal(raw) = u
    BY <2>1, <2>2, <2>4, NormalFrom
  <2> QED BY <2>1, <2>5 DEF u
<1> QED BY <1>1, <1>2

LEMMA NormalJoins ==
  \A u \in Seq(Symbols), x \in Seq(Symbols) : u \o x \in Seq(Symbols) /\ Normal(u \o x) = Normal(u) \o Normal(x)
BY NormalConcat, ConcatProperties

LEMMA NormalSix ==
  ASSUME NEW h \in Seq(Symbols), NEW l \in Seq(Symbols), NEW o \in Seq(Symbols)
  PROVE  /\ h \o l \o o \o End \o Status \o Cwd \o l \in Seq(Symbols)
         /\ Normal(h \o l \o o \o End \o Status \o Cwd \o l)
              = Normal(h) \o Normal(l) \o Normal(o) \o End \o Status \o Cwd \o Normal(l)
<1>e. End \in Seq(Symbols) /\ Normal(End) = End
  BY MarkersAre, NormalEnds
<1>s. Status \in Seq(Symbols) /\ Normal(Status) = Status
  BY MarkersAre, NormalEnds
<1>c. Cwd \in Seq(Symbols) /\ Normal(Cwd) = Cwd
  BY MarkersAre, NormalEnds
<1>2. h \o l \in Seq(Symbols) /\ Normal(h \o l) = Normal(h) \o Normal(l)
  BY NormalJoins, Zenon
<1>b. PICK b \in Seq(Symbols) : b = h \o l
  BY <1>2
<1>3. b \o o \in Seq(Symbols) /\ Normal(b \o o) = Normal(b) \o Normal(o)
  BY NormalJoins, Zenon
<1>d. PICK d \in Seq(Symbols) : d = b \o o
  BY <1>3
<1>4. d \o End \in Seq(Symbols) /\ Normal(d \o End) = Normal(d) \o Normal(End)
  BY <1>e, NormalJoins, Zenon
<1>f. PICK f \in Seq(Symbols) : f = d \o End
  BY <1>4
<1>5. f \o Status \in Seq(Symbols) /\ Normal(f \o Status) = Normal(f) \o Normal(Status)
  BY <1>s, NormalJoins, Zenon
<1>g. PICK g \in Seq(Symbols) : g = f \o Status
  BY <1>5
<1>6. g \o Cwd \in Seq(Symbols) /\ Normal(g \o Cwd) = Normal(g) \o Normal(Cwd)
  BY <1>c, NormalJoins, Zenon
<1>i. PICK i \in Seq(Symbols) : i = g \o Cwd
  BY <1>6
<1>7. i \o l \in Seq(Symbols) /\ Normal(i \o l) = Normal(i) \o Normal(l)
  BY NormalJoins, Zenon
<1>8. Normal(i) = Normal(h) \o Normal(l) \o Normal(o) \o End \o Status \o Cwd
  BY <1>2, <1>b, <1>3, <1>d, <1>4, <1>f, <1>5, <1>g, <1>6, <1>i, <1>e, <1>s, <1>c, Zenon
<1>9. i \o l = h \o l \o o \o End \o Status \o Cwd \o l
  BY <1>b, <1>d, <1>f, <1>g, <1>i, Zenon
<1> QED BY <1>7, <1>8, <1>9, Zenon

LEMMA FullJoined ==
  ASSUME printed \in Printed, NEW h \in Seq(Symbols)
  PROVE  h \o NN \o Output \o End \o Status \o Cwd \o NN = h \o Full
<1>0. /\ NN \in Seq(Symbols) /\ Output \in Seq(Symbols) /\ End \in Seq(Symbols) /\ Status \in Seq(Symbols)
      /\ Cwd \in Seq(Symbols)
  BY OutputIs, MarkersAre
<1>a. \A u \in Seq(Symbols), x \in Seq(Symbols) : u \o x \in Seq(Symbols) /\ (h \o u) \o x = h \o (u \o x)
  BY JoinTwice
<1>1. PICK ab \in Seq(Symbols) : ab = NN \o Output /\ h \o NN \o Output = h \o ab
  BY <1>0, <1>a, Zenon
<1>2. PICK ac \in Seq(Symbols) : ac = ab \o End /\ h \o ab \o End = h \o ac
  BY <1>0, <1>a, Zenon
<1>3. PICK ad \in Seq(Symbols) : ad = ac \o Status /\ h \o ac \o Status = h \o ad
  BY <1>0, <1>a, Zenon
<1>4. PICK ae \in Seq(Symbols) : ae = ad \o Cwd /\ h \o ad \o Cwd = h \o ae
  BY <1>0, <1>a, Zenon
<1>5. h \o ae \o NN = h \o (ae \o NN)
  BY <1>0, <1>a, Zenon
<1>6. /\ h \o NN \o Output \o End \o Status \o Cwd = h \o ae
      /\ NN \o Output \o End \o Status \o Cwd = ae
  BY <1>1, <1>2, <1>3, <1>4, Zenon
<1>7. Full = ae \o NN
  BY <1>6, Zenon DEF Full
<1> QED BY <1>5, <1>6, <1>7, Zenon

LEMMA WrittenIs ==
  ASSUME printed \in Printed, NEW raw \in {<<>>, <<"x", "r", "n">>}, NEW w,
         w = raw \o Begin \o CRLF \o WithLineEnds(printed, CRLF) \o End \o Status \o Cwd \o CRLF
  PROVE  w \in Seq(Symbols) /\ Normal(w) = All(Normal(raw))
<1> DEFINE out == WithLineEnds(printed, CRLF)
           nl  == CRLF
           nn  == NN
           before == Normal(raw)
           h   == raw \o Begin
           hn  == before \o Begin
<1>1. raw \in Seq(Symbols) /\ before \in Seq(Symbols)
  BY NormalBefore, NormalIs
<1>2. out \in Seq(Symbols) /\ Normal(out) = Output /\ Output \in Seq(Symbols)
  BY OutputIs
<1>3. nl \in Seq(Symbols) /\ Normal(nl) = nn /\ nn \in Seq(Symbols)
  BY NormalEnds, MarkersAre
<1>4. Begin \in Seq(Symbols) /\ End \in Seq(Symbols) /\ Status \in Seq(Symbols) /\ Cwd \in Seq(Symbols)
  BY MarkersAre
<1>5. h \in Seq(Symbols) /\ Normal(h) = hn /\ hn \in Seq(Symbols)
  <2>1. Normal(Begin) = Begin
    BY NormalEnds
  <2>2. Normal(raw) = before
    OBVIOUS
  <2> HIDE DEF before
  <2>n. h \in Seq(Symbols) /\ Normal(h) = Normal(raw) \o Normal(Begin)
    BY <1>1, <1>4, NormalJoins, Zenon
  <2>3. h \in Seq(Symbols) /\ Normal(h) = hn
    BY <2>1, <2>2, <2>n, Zenon
  <2>4. hn \in Seq(Symbols)
    BY <1>1, <1>4, ConcatProperties
  <2> QED BY <2>3, <2>4
<1>w. w = h \o nl \o out \o End \o Status \o Cwd \o nl
  OBVIOUS
<1>f. All(before) = hn \o Full
  BY DEF All
<1>b. before = Normal(raw)
  OBVIOUS
<1> HIDE DEF out, nl, nn, before, h, hn
<1>6. w \in Seq(Symbols) /\ Normal(w) = hn \o nn \o Output \o End \o Status \o Cwd \o nn
  <2>1. /\ h \o nl \o out \o End \o Status \o Cwd \o nl \in Seq(Symbols)
        /\ Normal(h \o nl \o out \o End \o Status \o Cwd \o nl)
             = Normal(h) \o Normal(nl) \o Normal(out) \o End \o Status \o Cwd \o Normal(nl)
    <3>1. h \in Seq(Symbols) /\ nl \in Seq(Symbols) /\ out \in Seq(Symbols)
      BY <1>2, <1>3, <1>5
    <3> QED BY <3>1, NormalSix
  <2> QED BY <1>w, <1>2, <1>3, <1>5, <2>1, Zenon
<1>7. hn \o nn \o Output \o End \o Status \o Cwd \o nn = hn \o Full
  <2>1. hn \in Seq(Symbols)
    BY <1>5
  <2> QED BY <2>1, FullJoined DEF nn
<1> QED BY <1>6, <1>7, <1>f, <1>b, Zenon

LEMMA BehindBegin ==
  ASSUME printed \in Printed, NEW before \in {<<>>, <<"x", "n", "n">>}, NEW x \in 0..(N + 10), NEW y \in x..(N + 10)
  PROVE  Piece(All(before), Len(before) + 2 + x, Len(before) + 2 + y) = Piece(Full, x, y)
<1> DEFINE A == All(before)
<1>0. /\ A \in Seq(Symbols) /\ Len(A) = Len(before) + 2 + (N + 10) /\ Len(before) \in Nat /\ N \in Nat
      /\ \A i \in 1..(N + 10) : A[Len(before) + 2 + i] = Full[i]
      /\ Full \in Seq(Symbols) /\ Len(Full) = N + 10
  BY AllIs, BeforeIs, FullIs
<1>s. A \in Seq(Symbols)
  BY AllIs
<1> HIDE DEF A
<1>1. PICK a \in 0..Len(A) : a = Len(before) + 2 + x
  <2>1. Len(before) + 2 + x \in 0..Len(A)
    BY <1>0
  <2> QED BY <2>1
<1>2. PICK b \in a..Len(A) : b = Len(before) + 2 + y
  <2>1. Len(before) + 2 + y \in a..Len(A)
    BY <1>0, <1>1
  <2> QED BY <2>1
<1>3. /\ Piece(A, a, b) \in Seq(Symbols) /\ Len(Piece(A, a, b)) = b - a
      /\ \A i \in 1..(b - a) : Piece(A, a, b)[i] = A[a + i]
  BY <1>s, PieceType
<1>4. /\ Piece(Full, x, y) \in Seq(Symbols) /\ Len(Piece(Full, x, y)) = y - x
      /\ \A i \in 1..(y - x) : Piece(Full, x, y)[i] = Full[x + i]
  <2>1. x \in 0..Len(Full) /\ y \in x..Len(Full)
    BY <1>0
  <2> QED BY <1>0, <2>1, PieceType
<1>5. b - a = y - x /\ \A i \in 1..(y - x) : x + i \in 1..(N + 10) /\ a + i = Len(before) + 2 + (x + i)
  BY <1>0, <1>1, <1>2
<1>6. ASSUME NEW i \in 1..(y - x) PROVE Piece(A, a, b)[i] = Piece(Full, x, y)[i]
  <2>1. PICK d \in 1..(N + 10) : d = x + i /\ a + i = Len(before) + 2 + d
    BY <1>5
  <2>2. A[Len(before) + 2 + d] = Full[d]
    BY <1>0
  <2>3. Piece(A, a, b)[i] = A[a + i] /\ Piece(Full, x, y)[i] = Full[x + i]
    BY <1>3, <1>4, <1>5
  <2> QED BY <2>1, <2>2, <2>3
<1>7. Piece(A, a, b) = Piece(Full, x, y)
  BY <1>3, <1>4, <1>5, <1>6, SeqEqual
<1> QED BY <1>1, <1>2, <1>7 DEF A

(* BEGIN is found when both its symbols have come, and nowhere else.       *)
LEMMA BeginFound ==
  ASSUME printed \in Printed, NEW before \in {<<>>, <<"x", "n", "n">>}, NEW q \in 0..Len(All(before))
  PROVE  Find(Piece(All(before), 0, q), Begin) = IF Len(before) + 2 <= q THEN Len(before) + 1 ELSE 0
<1> DEFINE A == All(before)
           b == Len(before)
<1>0. /\ A \in Seq(Symbols) /\ Len(A) = b + 2 + (N + 10) /\ b \in Nat /\ N \in Nat /\ q \in Nat /\ q <= Len(A)
      /\ \A i \in 1..b : A[i] # "b"
      /\ A[b + 1] = "b" /\ A[b + 2] = "B"
      /\ \A i \in 1..(N + 10) : A[b + 2 + i] = Full[i]
  <2>1. Len(A) \in Nat
    BY AllIs, LenProperties
  <2>2. q \in Nat /\ q <= Len(A)
    BY <2>1
  <2> QED BY <2>2, AllIs, BeforeIs, FullIs
<1>s. A \in Seq(Symbols)
  BY AllIs
<1> HIDE DEF A, b
<1> DEFINE t == Piece(A, 0, q)
<1>1. t \in Seq(Symbols) /\ Len(t) = q /\ \A i \in 1..q : t[i] = A[i]
  <2>1. PICK z \in 0..Len(A) : z = 0
    BY <1>0
  <2>2. q \in z..Len(A)
    BY <1>0, <2>1
  <2>3. /\ Piece(A, z, q) \in Seq(Symbols) /\ Len(Piece(A, z, q)) = q - z
        /\ \A i \in 1..(q - z) : Piece(A, z, q)[i] = A[z + i]
    BY <1>s, <2>2, PieceType
  <2> QED BY <1>0, <2>1, <2>3
<1> HIDE DEF t
<1>2. Begin \in Seq(Symbols) /\ Len(Begin) = 2 /\ Begin[1] = "b" /\ Begin[2] = "B"
  BY MarkersAre
<1>3. \A i \in 1..Len(A) : A[i] = "b" => i = b + 1
  <2> SUFFICES ASSUME NEW i \in 1..Len(A), A[i] = "b", i # b + 1 PROVE FALSE
    OBVIOUS
  <2>1. ~(i \in 1..b) /\ i # b + 2
    BY <1>0
  <2>2. i - (b + 2) \in 1..(N + 10) /\ b + 2 + (i - (b + 2)) = i
    BY <1>0, <2>1
  <2>3. Full[i - (b + 2)] = "b"
    BY <1>0, <2>2
  <2> QED BY <2>2, <2>3, FullSymbols
<1>4. ASSUME NEW i \in 1..q
      PROVE  Starts(t, Begin, i) <=> i + Len(Begin) - 1 <= Len(t) /\ \A d \in 1..Len(Begin) : t[i + d - 1] = Begin[d]
  <2>1. i \in 1..(Len(t) + 1)
    BY <1>1, <1>0
  <2>2. t \in Seq(Symbols) /\ Begin \in Seq(Symbols)
    BY <1>1, <1>2
  <2>3. Starts(t, Begin, i) <=> Matches(t, Begin, i)
    BY <2>1, <2>2, StartsIs
  <2> QED BY <2>3 DEF Matches
<1>5. ASSUME NEW i \in 1..q, Starts(t, Begin, i) PROVE i = b + 1 /\ b + 2 <= q
  <2>1. i + 1 <= q
    BY <1>0, <1>1, <1>2, <1>4, <1>5
  <2>2. t[i + 1 - 1] = "b"
    <3>1. 1 \in 1..Len(Begin)
      BY <1>2
    <3> QED BY <1>2, <1>4, <1>5, <3>1
  <2>3. A[i] = "b"
    <3>1. i + 1 - 1 = i
      OBVIOUS
    <3> QED BY <1>1, <2>2, <3>1
  <2>4. i = b + 1
    BY <1>0, <1>3, <2>3
  <2> QED BY <1>0, <2>1, <2>4
<1>6. ASSUME NEW i \in 1..q, i = b + 1, b + 2 <= q PROVE Starts(t, Begin, i)
  <2>1. i + Len(Begin) - 1 <= Len(t)
    BY <1>0, <1>1, <1>2, <1>6
  <2>2. i + 1 - 1 \in 1..q /\ i + 2 - 1 \in 1..q /\ i + 1 - 1 = b + 1 /\ i + 2 - 1 = b + 2
    BY <1>0, <1>6
  <2>3. t[i + 1 - 1] = "b" /\ t[i + 2 - 1] = "B"
    BY <1>0, <1>1, <2>2
  <2>4. \A d \in 1..Len(Begin) : d = 1 \/ d = 2
    BY <1>2
  <2>5. \A d \in 1..Len(Begin) : t[i + d - 1] = Begin[d]
    BY <1>2, <2>3, <2>4
  <2> QED BY <1>4, <2>1, <2>5
<1>7. CASE b + 2 <= q
  <2>1. PICK x \in 1..Len(t) : x = b + 1
    <3>1. b + 1 \in 1..Len(t)
      BY <1>0, <1>1, <1>7
    <3> QED BY <3>1
  <2>2. \A i \in 1..Len(t) : Starts(t, Begin, i) <=> i = x
    BY <1>1, <1>5, <1>6, <1>7, <2>1
  <2>3. Find(t, Begin) = x
    BY <2>2, FindAt
  <2> QED BY <1>7, <2>1, <2>3 DEF t, A, b
<1>8. CASE ~(b + 2 <= q)
  <2>1. \A i \in 1..Len(t) : ~Starts(t, Begin, i)
    BY <1>1, <1>5, <1>8
  <2>2. Find(t, Begin) = 0
    BY <2>1, FindNone
  <2> QED BY <1>8, <2>2 DEF t, A, b
<1> QED BY <1>7, <1>8

(* lstrip leaves the text behind some line ends.                           *)
LEMMA StrippedIs ==
  ASSUME NEW S, NEW t \in Seq(S)
  PROVE  \E j \in 0..Len(t) : Stripped(t) = Piece(t, j, Len(t)) /\ \A i \in 1..j : t[i] = "n"
<1>0. Len(t) \in Nat /\ DOMAIN t = 1..Len(t)
  BY LenProperties
<1>1. CASE \A i \in DOMAIN t : t[i] = "n"
  <2>1. Piece(t, Len(t), Len(t)) = <<>>
    <3>1. Len(t) + 1 > Len(t)
      BY <1>0
    <3> QED BY <1>0, <3>1, SubSeqEmpty DEF Piece
  <2>2. Stripped(t) = <<>>
    BY <1>1 DEF Stripped
  <2>3. Len(t) \in 0..Len(t)
    BY <1>0
  <2> QED BY <1>0, <1>1, <2>1, <2>2, <2>3
<1>2. CASE ~(\A i \in DOMAIN t : t[i] = "n")
  <2> DEFINE F == {i \in DOMAIN t : t[i] # "n"}
             m == Min(F)
  <2>1. F \in SUBSET Nat /\ F # {}
    BY <1>0, <1>2
  <2>2. m \in F /\ \A i \in F : m <= i
    <3> HIDE DEF F
    <3> QED BY <2>1, MinIs
  <2>3. Stripped(t) = From(t, m)
    BY <1>2 DEF Stripped
  <2>4. m \in 1..Len(t) /\ \A i \in DOMAIN t : t[i] # "n" => m <= i
    BY <1>0, <2>2
  <2> HIDE DEF F, m
  <2>5. m - 1 \in 0..Len(t) /\ m - 1 + 1 = m /\ \A i \in 1..(m - 1) : i \in DOMAIN t /\ ~(m <= i)
    BY <1>0, <2>4
  <2>6. From(t, m) = Piece(t, m - 1, Len(t))
    BY <2>5 DEF From, Piece
  <2> QED BY <2>3, <2>4, <2>5, <2>6
<1> QED BY <1>1, <1>2

-----------------------------------------------------------------------------
(* The state of the parser: BEGIN has not come whole, the text behind it is*)
(* read but its END is not, or the command is answered.                    *)
NotBegun ==
  /\ result = None /\ ~started /\ ~stripped /\ streamed = <<>> /\ shown = <<>>
  /\ buffer \in Seq(Symbols) /\ wire \in Seq(Symbols)
  /\ \E before \in {<<>>, <<"x", "n", "n">>} : \E q \in 0..(Len(before) + 1) :
       /\ Normal(buffer) = Piece(All(before), 0, q)
       /\ Normal(wire) = Piece(All(before), q, Len(All(before)))
(* While END is not begun and no line was taken for an echo, what was      *)
(* streamed is the core of a text that was read.                           *)
StreamedBefore(q) ==
  ~cutEnd /\ ~cutEcho /\ ~HasEcho(Output) =>
    \E p \in 0..q : p <= N + 1 /\ streamed = Core(Full, p) /\ shown = streamed
Begun ==
  /\ result = None /\ started
  /\ buffer \in Seq(Symbols) /\ wire \in Seq(Symbols)
  /\ \E q \in 0..(N + 6) : \E j \in 0..q :
       /\ Normal(buffer) = Piece(Full, j, q) /\ Normal(wire) = Piece(Full, q, N + 10)
       /\ Read(j, q)
       /\ q \in {N + 2, N + 3} => cutEnd
       /\ StreamedBefore(q)
Answered ==
  /\ result # None
  /\ HasEcho(Output) \/ result.output = Core(Full, N + 1)
  /\ cutCwd \/ result.cwd = Cwd
  /\ ~HasEcho(Output) => streamed = Core(Full, N + 1)
  /\ ~cutEnd /\ ~cutEcho /\ ~HasEcho(Output) => shown = Core(Full, N + 1)
(* What was streamed last is what was shown last, whatever came before.    *)
ShownLast == streamed \in Seq(Symbols) /\ \E h \in Seq(Symbols) : shown = h \o streamed
ParserInv ==
  /\ printed \in Printed /\ stripped \in BOOLEAN /\ ShownLast
  /\ NotBegun \/ Begun \/ Answered

(* A piece of k symbols leads to the text between j and q.                 *)
Fetched(k, j, q) ==
  /\ Read(j, q) /\ Normalized(k) = {Piece(Full, j, q)}
  /\ From(wire, k + 1) \in Seq(Symbols) /\ Normal(From(wire, k + 1)) = Piece(Full, q, N + 10)
  /\ q # 0 /\ Full[q] # "n" => wire[k] = Full[q]
  /\ StreamedBefore(q)

LEMMA FetchedLater ==
  ASSUME printed \in Printed, Begun, NEW k \in 1..Len(wire)
  PROVE  \E q \in 0..(N + 10) : \E j \in 0..q : Fetched(k, j, q)
<1>0. /\ N \in Nat /\ Full \in Seq(Symbols) /\ Len(Full) = N + 10
      /\ buffer \in Seq(Symbols) /\ wire \in Seq(Symbols) /\ started
  BY FullIs DEF Begun
<1>1. PICK p \in 0..(N + 6) : \E j \in 0..p :
        /\ Normal(buffer) = Piece(Full, j, p) /\ Normal(wire) = Piece(Full, p, N + 10)
        /\ Read(j, p) /\ StreamedBefore(p)
  BY DEF Begun
<1>j. PICK j \in 0..p :
        /\ Normal(buffer) = Piece(Full, j, p) /\ Normal(wire) = Piece(Full, p, N + 10)
        /\ Read(j, p) /\ StreamedBefore(p)
  BY <1>1
<1>2. j \in 0..Len(Full) /\ p \in j..Len(Full) /\ Normal(wire) = Piece(Full, p, Len(Full))
  BY <1>0, <1>j
<1>3. /\ p + k \in j..Len(Full) /\ p + k \in p..Len(Full)
      /\ Normal(Arrived(k)) = Piece(Full, j, p + k)
      /\ From(wire, k + 1) \in Seq(Symbols) /\ Normal(From(wire, k + 1)) = Piece(Full, p + k, Len(Full))
      /\ Full[p + k] # "n" => wire[k] = Full[p + k]
  BY <1>0, <1>j, <1>2, ArrivedIs
<1>4. PICK q \in 0..(N + 10) : q = p + k /\ p <= q
  BY <1>0, <1>3
<1>5. Read(j, q)
  BY <1>0, <1>j, <1>3, <1>4 DEF Read
<1>6. Normalized(k) = {Piece(Full, j, q)}
  BY <1>0, <1>3, <1>4 DEF Normalized
<1>7. StreamedBefore(q)
  <2> SUFFICES ASSUME ~cutEnd, ~cutEcho, ~HasEcho(Output)
               PROVE  \E x \in 0..q : x <= N + 1 /\ streamed = Core(Full, x) /\ shown = streamed
    BY DEF StreamedBefore
  <2>1. PICK x \in 0..p : x <= N + 1 /\ streamed = Core(Full, x) /\ shown = streamed
    BY <1>j DEF StreamedBefore
  <2>2. x \in 0..q
    BY <1>0, <1>4
  <2> QED BY <2>1, <2>2
<1>8. Fetched(k, j, q)
  BY <1>0, <1>3, <1>4, <1>5, <1>6, <1>7 DEF Fetched
<1>9. j \in 0..q
  BY <1>5 DEF Read
<1> QED BY <1>8, <1>9

(* Before BEGIN is whole the text is only kept; with it the text behind it *)
(* is taken, the line ends it begins with stripped.                        *)
LEMMA FetchedFirst ==
  ASSUME printed \in Printed, NotBegun, NEW k \in 1..Len(wire)
  PROVE  \/ /\ Normalized(k) = {}
            /\ \E before \in {<<>>, <<"x", "n", "n">>} : \E q \in 0..(Len(before) + 1) :
                 /\ Arrived(k) \in Seq(Symbols) /\ Normal(Arrived(k)) = Piece(All(before), 0, q)
                 /\ From(wire, k + 1) \in Seq(Symbols)
                 /\ Normal(From(wire, k + 1)) = Piece(All(before), q, Len(All(before)))
         \/ \E q \in 0..(N + 10) : \E j \in 0..q : Fetched(k, j, q)
<1>0. /\ N \in Nat /\ Full \in Seq(Symbols) /\ Len(Full) = N + 10
  BY FullIs
<1>m. buffer \in Seq(Symbols) /\ wire \in Seq(Symbols)
  BY DEF NotBegun
<1>b. PICK before \in {<<>>, <<"x", "n", "n">>} : \E p \in 0..(Len(before) + 1) :
        Normal(buffer) = Piece(All(before), 0, p) /\ Normal(wire) = Piece(All(before), p, Len(All(before)))
  BY DEF NotBegun
<1>1. PICK p \in 0..(Len(before) + 1) :
        Normal(buffer) = Piece(All(before), 0, p) /\ Normal(wire) = Piece(All(before), p, Len(All(before)))
  BY <1>b
<1> DEFINE A == All(before)
           b == Len(before)
           arrived == Normal(Arrived(k))
<1>2. A \in Seq(Symbols) /\ Len(A) = b + 2 + (N + 10) /\ b \in Nat
  BY AllIs, BeforeIs
<1>3. /\ p + k \in 0..Len(A) /\ p + k \in p..Len(A)
      /\ Arrived(k) \in Seq(Symbols) /\ Normal(Arrived(k)) = Piece(A, 0, p + k)
      /\ From(wire, k + 1) \in Seq(Symbols) /\ Normal(From(wire, k + 1)) = Piece(A, p + k, Len(A))
      /\ A[p + k] # "n" => wire[k] = A[p + k]
  <2>1. PICK z \in 0..Len(A) : z = 0
    BY <1>0, <1>2
  <2>2. p \in z..Len(A)
    BY <1>0, <1>2, <2>1
  <2>3. Normal(buffer) = Piece(A, z, p) /\ Normal(wire) = Piece(A, p, Len(A)) /\ A \in Seq(Symbols)
    BY <1>1, <1>2, <2>1
  <2> HIDE DEF A
  <2>4. /\ p + k \in z..Len(A) /\ p + k \in p..Len(A)
        /\ Arrived(k) \in Seq(Symbols) /\ Normal(Arrived(k)) = Piece(A, z, p + k)
        /\ From(wire, k + 1) \in Seq(Symbols) /\ Normal(From(wire, k + 1)) = Piece(A, p + k, Len(A))
        /\ A[p + k] # "n" => wire[k] = A[p + k]
    BY <1>m, <2>2, <2>3, ArrivedIs
  <2> QED BY <2>1, <2>4
<1>4. PICK r \in 0..Len(A) : r = p + k
  BY <1>3
<1>5. Find(Piece(A, 0, r), Begin) = IF b + 2 <= r THEN b + 1 ELSE 0
  BY BeginFound
<1>6. ~started /\ streamed = <<>> /\ shown = streamed
  BY DEF NotBegun
<1>7. CASE ~(b + 2 <= r)
  <2>1. Find(arrived, Begin) = 0
    BY <1>3, <1>4, <1>5, <1>7
  <2>2. Normalized(k) = {}
    BY <1>6, <2>1 DEF Normalized
  <2>3. /\ r \in 0..(b + 1) /\ Arrived(k) \in Seq(Symbols) /\ Normal(Arrived(k)) = Piece(A, 0, r)
        /\ From(wire, k + 1) \in Seq(Symbols) /\ Normal(From(wire, k + 1)) = Piece(A, r, Len(A))
    BY <1>2, <1>3, <1>4, <1>7
  <2> QED BY <2>2, <2>3
<1>8. CASE b + 2 <= r
  <2>1. PICK q \in 0..(N + 10) : r = b + 2 + q
    <3>1. r - (b + 2) \in 0..(N + 10) /\ r = b + 2 + (r - (b + 2))
      BY <1>0, <1>2, <1>8
    <3> QED BY <3>1
  <2>2. Find(arrived, Begin) = b + 1 /\ b + 1 # 0
    BY <1>2, <1>3, <1>4, <1>5, <1>8
  <2>3. From(arrived, b + 1 + Len(Begin)) = Piece(Full, 0, q)
    <3>1. arrived = Piece(A, 0, r) /\ Len(arrived) = r
      <4>1. PICK z \in 0..Len(A) : z = 0 /\ r \in z..Len(A) /\ r - z = r
        BY <1>0, <1>2
      <4>2. A \in Seq(Symbols)
        BY <1>2
      <4> HIDE DEF A
      <4>3. r \in z..Len(A)
        BY <4>1
      <4>4. Len(Piece(A, z, r)) = r - z
        BY <4>2, <4>3, PieceType
      <4> QED BY <1>3, <1>4, <4>1, <4>4
    <3>2. From(arrived, b + 1 + Len(Begin)) = Piece(arrived, b + 2, r)
      <4>1. b + 1 + Len(Begin) = b + 2 + 1
        BY <1>2, MarkersAre
      <4> QED BY <3>1, <4>1 DEF From, Piece
    <3>3. Piece(Piece(A, 0, r), b + 2, r) = Piece(A, b + 2, r)
      <4>1. PICK z \in 0..Len(A) : z = 0 /\ r \in z..Len(A) /\ r - z = r
        BY <1>0, <1>2
      <4>2. PICK c \in 0..(r - z) : c = b + 2 /\ r \in c..(r - z)
        <5>1. b + 2 \in 0..(r - z) /\ r \in (b + 2)..(r - z)
          BY <1>2, <1>8, <4>1
        <5> QED BY <5>1
      <4>3. A \in Seq(Symbols)
        BY <1>2
      <4> HIDE DEF A
      <4>4. r \in z..Len(A) /\ r \in c..(r - z)
        BY <4>1, <4>2
      <4>5. \A x \in 0..(r - z) : \A y \in x..(r - z) : Piece(Piece(A, z, r), x, y) = Piece(A, z + x, z + y)
        <5>1. r \in z..Len(A)
          BY <4>4
        <5> QED BY <4>3, <5>1, PieceOfPiece
      <4>6. Piece(Piece(A, z, r), c, r) = Piece(A, z + c, z + r)
        BY <4>4, <4>5, Zenon
      <4> QED BY <1>2, <4>1, <4>2, <4>6
    <3>4. Piece(A, b + 2, r) = Piece(Full, 0, q)
      <4>1. PICK x \in 0..(N + 10) : x = 0 /\ q \in x..(N + 10) /\ b + 2 + x = b + 2
        BY <1>0, <1>2
      <4>2. q \in x..(N + 10)
        BY <4>1
      <4>3. Piece(All(before), Len(before) + 2 + x, Len(before) + 2 + q) = Piece(Full, x, q)
        BY <4>2, BehindBegin
      <4> QED BY <2>1, <4>1, <4>3
    <3> QED BY <3>1, <3>2, <3>3, <3>4
  <2>4. /\ Piece(Full, 0, q) \in Seq(Symbols) /\ Len(Piece(Full, 0, q)) = q
        /\ \A i \in 1..q : Piece(Full, 0, q)[i] = Full[i]
    <3>1. PICK z \in 0..Len(Full) : z = 0 /\ q \in z..Len(Full) /\ q - z = q /\ \A i \in 1..q : z + i = i
      BY <1>0
    <3>2. q \in z..Len(Full) /\ Full \in Seq(Symbols)
      BY <1>0, <3>1
    <3>3. /\ Piece(Full, z, q) \in Seq(Symbols) /\ Len(Piece(Full, z, q)) = q - z
          /\ \A i \in 1..(q - z) : Piece(Full, z, q)[i] = Full[z + i]
      BY <3>2, PieceType
    <3> QED BY <3>1, <3>3
  <2>5. PICK j \in 0..q : /\ Stripped(Piece(Full, 0, q)) = Piece(Piece(Full, 0, q), j, q)
                          /\ \A i \in 1..j : Piece(Full, 0, q)[i] = "n"
    BY <2>4, StrippedIs
  <2>6. \A i \in 1..j : Full[i] = "n"
    <3>1. \A i \in 1..j : i \in 1..q
      BY <1>0
    <3> QED BY <2>4, <2>5, <3>1
  <2>7. j <= N + 1
    <3> SUFFICES ASSUME ~(j <= N + 1) PROVE FALSE
      OBVIOUS
    <3>1. N + 2 \in 1..j
      BY <1>0
    <3>2. Full[N + 2] = "m"
      BY FullIs
    <3> QED BY <2>6, <3>1, <3>2
  <2>8. Read(j, q)
    BY <2>6, <2>7 DEF Read
  <2>9. Piece(Piece(Full, 0, q), j, q) = Piece(Full, j, q)
    <3>1. PICK z \in 0..Len(Full) : z = 0 /\ q \in z..Len(Full) /\ q - z = q /\ z + j = j /\ z + q = q
      BY <1>0
    <3>2. q \in z..Len(Full) /\ Full \in Seq(Symbols) /\ j \in 0..(q - z) /\ q \in j..(q - z)
      BY <1>0, <3>1
    <3>3. \A x \in 0..(q - z) : \A y \in x..(q - z) :
            Piece(Piece(Full, z, q), x, y) = Piece(Full, z + x, z + y)
      <4>1. q \in z..Len(Full) /\ Full \in Seq(Symbols)
        BY <3>2
      <4> QED BY <4>1, PieceOfPiece
    <3>4. Piece(Piece(Full, z, q), j, q) = Piece(Full, z + j, z + q)
      BY <3>2, <3>3, Zenon
    <3> QED BY <3>1, <3>4
  <2>10. Normalized(k) = {Piece(Full, j, q)}
    <3>1. Normalized(k) = {Stripped(From(arrived, i + Len(Begin))) : i \in {b + 1}}
      BY <1>6, <2>2 DEF Normalized
    <3>2. Stripped(From(arrived, b + 1 + Len(Begin))) = Piece(Full, j, q)
      BY <2>3, <2>5, <2>9
    <3> HIDE DEF b
    <3> QED BY <3>1, <3>2
  <2>11. From(wire, k + 1) \in Seq(Symbols) /\ Normal(From(wire, k + 1)) = Piece(Full, q, N + 10)
    <3>1. PICK y \in q..(N + 10) : y = N + 10 /\ b + 2 + y = Len(A)
      <4>1. N + 10 \in q..(N + 10)
        BY <1>0
      <4> QED BY <1>2, <4>1
    <3>2. Piece(All(before), Len(before) + 2 + q, Len(before) + 2 + y) = Piece(Full, q, y)
      BY BehindBegin
    <3> QED BY <1>3, <1>4, <2>1, <3>1, <3>2
  <2>12. q # 0 /\ Full[q] # "n" => wire[k] = Full[q]
    <3>1. q # 0 => q \in 1..(N + 10)
      BY <1>0
    <3>2. \A i \in 1..(N + 10) : All(before)[Len(before) + 2 + i] = Full[i]
      BY AllIs
    <3> QED BY <1>3, <1>4, <2>1, <3>1, <3>2
  <2>13. Core(Full, 0) = <<>>
    BY CoreBlank
  <2>14. StreamedBefore(q)
    <3>1. 0 \in 0..q /\ 0 <= N + 1 /\ streamed = Core(Full, 0) /\ shown = streamed
      BY <1>0, <1>6, <2>13
    <3> QED BY <3>1 DEF StreamedBefore
  <2>15. Fetched(k, j, q)
    BY <2>8, <2>10, <2>11, <2>12, <2>14 DEF Fetched
  <2> QED BY <2>15
<1> QED BY <1>7, <1>8

-----------------------------------------------------------------------------
(* What is streamed when the text grows.                                   *)
LEMMA EmittedIs ==
  ASSUME printed \in Printed, NEW n \in 0..(N + 10), NEW p \in 0..n,
         streamed = Core(Full, p), shown = streamed, Emit(Core(Full, n))
  PROVE  streamed' = Core(Full, n) /\ shown' = Core(Full, n)
<1>0. /\ N \in Nat /\ Full \in Seq(Symbols) /\ Len(Full) = N + 10
  BY FullIs
<1>1. n \in 0..Len(Full) /\ p \in 0..Len(Full)
  BY <1>0
<1>2. PICK r \in Seq(Symbols) : Core(Full, n) = Core(Full, p) \o r
  BY <1>0, <1>1, CoreGrows
<1>3. Core(Full, p) \in Seq(Symbols)
  BY <1>0, <1>1, CoreType
<1>4. IsPrefix(streamed, Core(Full, n)) /\ From(Core(Full, n), Len(streamed) + 1) = r
  BY <1>2, <1>3, PrefixIs
<1>5. Delta(Core(Full, n)) = r
  BY <1>4 DEF Delta
<1> QED BY <1>2, <1>5 DEF Emit

(* A text that begins with another is that one and what is behind it.      *)
LEMMA PrefixGoes ==
  ASSUME NEW S, NEW u \in Seq(S), NEW t \in Seq(S), IsPrefix(u, t)
  PROVE  From(t, Len(u) + 1) \in Seq(S) /\ t = u \o From(t, Len(u) + 1)
<1>0. Len(u) \in Nat /\ Len(t) \in Nat /\ Len(u) <= Len(t) /\ SubSeq(t, 1, Len(u)) = SubSeq(u, 1, Len(u))
  BY LenProperties DEF IsPrefix
<1>z. PICK z \in 0..Len(t) : z = 0 /\ z + 1 = 1
  BY <1>0
<1>m. PICK m \in z..Len(t) : m = Len(u)
  BY <1>0, <1>z
<1>e. PICK e \in m..Len(t) : e = Len(t)
  BY <1>0, <1>m
<1>1. Piece(t, z, m) = u
  <2>1. Piece(t, z, m) = SubSeq(u, 1, Len(u))
    BY <1>0, <1>z, <1>m DEF Piece
  <2>2. SubSeq(u, 1, Len(u)) = u
    BY SubSeqFull
  <2> QED BY <2>1, <2>2
<1>2. Piece(t, m, e) = From(t, Len(u) + 1)
  BY <1>m, <1>e DEF Piece, From
<1>3. Piece(t, z, m) \o Piece(t, m, e) = Piece(t, z, e)
  BY PieceJoin
<1>4. Piece(t, z, e) = t
  <2>1. Piece(t, 0, Len(t)) = t
    BY PieceAll
  <2> QED BY <1>z, <1>e, <2>1
<1>5. Piece(t, m, e) \in Seq(S)
  <2>1. m \in 0..Len(t)
    BY <1>0, <1>m
  <2> QED BY <2>1, PieceType
<1> QED BY <1>1, <1>2, <1>3, <1>4, <1>5

(* Whatever is streamed is shown last.                                     *)
LEMMA EmittedLast ==
  ASSUME ShownLast, NEW t \in Seq(Symbols), Emit(t)
  PROVE  streamed' = t /\ ShownLast'
<1>1. PICK h \in Seq(Symbols) : streamed \in Seq(Symbols) /\ shown = h \o streamed
  BY DEF ShownLast
<1>2. streamed' = t /\ shown' = IF t = streamed THEN shown ELSE shown \o Delta(t)
  BY DEF Emit
<1>3. \E g \in Seq(Symbols) : shown' = g \o t
  <2>1. CASE t = streamed
    BY <1>1, <1>2, <2>1
  <2>2. CASE t # streamed /\ IsPrefix(streamed, t)
    <3> DEFINE r == From(t, Len(streamed) + 1)
    <3>1. r \in Seq(Symbols) /\ t = streamed \o r
      BY <1>1, <2>2, PrefixGoes
    <3>2. Delta(t) = r
      BY <2>2 DEF Delta
    <3> HIDE DEF r
    <3>3. \A x \in Seq(Symbols), y \in Seq(Symbols) : (h \o x) \o y = h \o (x \o y)
      BY JoinTwice
    <3>4. shown' = (h \o streamed) \o r
      BY <1>1, <1>2, <2>2, <3>2
    <3>5. (h \o streamed) \o r = h \o (streamed \o r)
      BY <1>1, <3>1, <3>3, Zenon
    <3>6. shown' = h \o t
      BY <3>1, <3>4, <3>5, Zenon
    <3> QED BY <3>6
  <2>3. CASE t # streamed /\ ~IsPrefix(streamed, t)
    <3>1. Delta(t) = t
      BY <2>3 DEF Delta
    <3>2. shown \in Seq(Symbols)
      BY <1>1, ConcatProperties
    <3>3. shown' = shown \o t
      BY <1>2, <2>3, <3>1
    <3> QED BY <3>2, <3>3
  <2> QED BY <2>1, <2>2, <2>3
<1> QED BY <1>2, <1>3 DEF ShownLast

(* What the reading of one more piece leaves of the state.                 *)
LEMMA ReadsOn ==
  ASSUME printed \in Printed, NEW k \in 1..Len(wire), Reads(k), NEW j, NEW q, Fetched(k, j, q)
  PROVE  /\ printed' = printed /\ N' = N /\ Full' = Full /\ wire' \in Seq(Symbols)
         /\ Normal(wire') = Piece(Full, q, N + 10) /\ (HasEcho(Output))' = HasEcho(Output)
         /\ cutEnd => cutEnd'
         /\ q \in {N + 2, N + 3} => cutEnd'
         /\ q = N + 7 => cutCwd'
<1>0. /\ N \in Nat /\ Full \in Seq(Symbols) /\ Len(Full) = N + 10
      /\ Full[N + 3] = "k" /\ Full[N + 4] = "E" /\ Full[N + 7] = "d" /\ Full[N + 8] = "d"
  BY FullIs
<1>1. /\ printed' = printed /\ wire' = From(wire, k + 1)
      /\ cutEnd' = (cutEnd \/ (wire' # <<>> /\ Head(wire') \in {"k", "E"}))
      /\ cutCwd' = (cutCwd \/ (wire' # <<>> /\ Head(wire') = "d" /\ wire[k] = "d"))
  BY DEF Reads
<1>2. wire' \in Seq(Symbols) /\ Normal(wire') = Piece(Full, q, N + 10)
  BY <1>1 DEF Fetched
<1>o. Output' = Output
  BY <1>1 DEF Output, WithLineEnds
<1>3. N' = N /\ Full' = Full
  BY <1>o DEF N, Full
<1>4. (HasEcho(Output))' = HasEcho(Output)
  BY <1>o DEF HasEcho
<1>5. ASSUME q # N + 10, Full[q + 1] # "n" PROVE wire' # <<>> /\ Head(wire') = Full[q + 1]
  <2>1. q \in 0..Len(Full) /\ N + 10 - q \in Nat /\ N + 10 - q # 0
    BY <1>0, <1>5 DEF Fetched, Read
  <2>2. PICK y \in q..Len(Full) : y = N + 10
    BY <1>0, <2>1
  <2>3. /\ Piece(Full, q, y) \in Seq(Symbols) /\ Len(Piece(Full, q, y)) = y - q
        /\ \A i \in 1..(y - q) : Piece(Full, q, y)[i] = Full[q + i]
    BY <1>0, <2>1, PieceType, ZenonT(40)
  <2> DEFINE w == Piece(Full, q, y)
  <2>4. w \in Seq(Symbols) /\ Len(w) # 0 /\ w[1] = Full[q + 1]
    <3>1. 1 \in 1..(y - q) /\ y - q # 0
      BY <1>0, <2>1, <2>2
    <3> QED BY <2>3, <3>1
  <2>5. Normal(wire') = w
    BY <1>2, <2>2
  <2> HIDE DEF w
  <2>6. PICK u \in Seq(Symbols) : u = wire'
    BY <1>2
  <2>7. Len(w) = Len(u) /\ \A i \in 1..Len(u) : w[i] = IF u[i] = "r" THEN "n" ELSE u[i]
    BY <2>5, <2>6, NormalIs
  <2>8. Len(u) \in Nat /\ 1 \in 1..Len(u)
    BY <2>4, <2>7, LenProperties
  <2>9. u[1] = Full[q + 1] /\ u # <<>> /\ Head(u) = u[1]
    BY <1>5, <2>4, <2>7, <2>8
  <2> QED BY <2>6, <2>9
<1>6. q \in {N + 2, N + 3} => cutEnd'
  <2> SUFFICES ASSUME q \in {N + 2, N + 3} PROVE cutEnd'
    OBVIOUS
  <2>1. q # N + 10 /\ (q = N + 2 => q + 1 = N + 3) /\ (q = N + 3 => q + 1 = N + 4)
    BY <1>0
  <2>2. Full[q + 1] \in {"k", "E"} /\ Full[q + 1] # "n"
    BY <1>0, <2>1
  <2> QED BY <1>1, <1>5, <2>1, <2>2
<1>7. q = N + 7 => cutCwd'
  <2> SUFFICES ASSUME q = N + 7 PROVE cutCwd'
    OBVIOUS
  <2>1. q # N + 10 /\ q + 1 = N + 8 /\ q # 0 /\ Full[q] = "d" /\ Full[q + 1] = "d"
    BY <1>0
  <2>2. wire[k] = "d"
    BY <1>0, <2>1 DEF Fetched
  <2> QED BY <1>0, <1>1, <1>5, <2>1, <2>2
<1> QED BY <1>1, <1>2, <1>3, <1>4, <1>6, <1>7

-----------------------------------------------------------------------------
(* The invariant, one action at a time.                                    *)
LEMMA ParserInit == Init => ParserInv
<1> SUFFICES ASSUME Init PROVE ParserInv
  OBVIOUS
<1>1. printed \in Printed /\ result = None /\ ~started /\ ~stripped /\ stripped \in BOOLEAN /\ streamed = <<>> /\ shown = <<>> /\ buffer = <<>>
  BY DEF Init
<1>2. PICK raw \in {<<>>, <<"x", "r", "n">>} :
        wire = raw \o Begin \o CRLF \o WithLineEnds(printed, CRLF) \o End \o Status \o Cwd \o CRLF
  BY DEF Init
<1>b. PICK before \in {<<>>, <<"x", "n", "n">>} : before = Normal(raw)
  BY NormalBefore
<1>3. wire \in Seq(Symbols) /\ Normal(wire) = All(before)
  BY <1>1, <1>2, <1>b, WrittenIs
<1>4. All(before) \in Seq(Symbols)
  BY <1>1, AllIs
<1>5. Normal(wire) = Piece(All(before), 0, Len(All(before)))
  BY <1>3, <1>4, PieceAll
<1>6. buffer \in Seq(Symbols) /\ Normal(buffer) = Piece(All(before), 0, 0)
  <2>1. PICK z \in Int : z = 0
    OBVIOUS
  <2>2. Piece(All(before), z, z) = <<>>
    BY PieceNone
  <2>3. PICK e \in Seq(Symbols) : e = <<>>
    BY EmptySeq
  <2>4. Len(e) = 0 /\ \A i \in 1..Len(e) : e[i] # "r"
    BY <2>3
  <2>5. Normal(e) = e
    BY <2>4, NormalKept
  <2> QED BY <1>1, <2>1, <2>2, <2>3, <2>5
<1>7. 0 \in 0..(Len(before) + 1)
  BY BeforeIs
<1>8. NotBegun
  BY <1>1, <1>3, <1>5, <1>6, <1>7 DEF NotBegun
<1>9. ShownLast
  <2>1. PICK e \in Seq(Symbols) : e = <<>>
    BY EmptySeq
  <2>2. e \o e = e
    BY ConcatEmptySeq, <2>1
  <2> QED BY <1>1, <2>1, <2>2 DEF ShownLast
<1> QED BY <1>1, <1>8, <1>9 DEF ParserInv

LEMMA KeptBeforeBegin ==
  ASSUME ParserInv, NEW k \in 1..Len(wire), ReadBeforeBegin(k)
  PROVE  ParserInv'
<1>1. printed \in Printed /\ stripped \in BOOLEAN /\ ShownLast /\ (NotBegun \/ Begun)
  BY DEF ParserInv, Answered, ReadBeforeBegin, Reads
<1>2. Normalized(k) = {}
  BY DEF ReadBeforeBegin
<1>3. ~Begun
  <2> SUFFICES ASSUME Begun PROVE FALSE
    OBVIOUS
  <2>1. PICK q \in 0..(N + 10) : \E j \in 0..q : Fetched(k, j, q)
    BY <1>1, FetchedLater
  <2>2. Normalized(k) # {}
    BY <2>1 DEF Fetched
  <2> QED BY <1>2, <2>2
<1>4. NotBegun
  BY <1>1, <1>3
<1>5. PICK before \in {<<>>, <<"x", "n", "n">>} : \E q \in 0..(Len(before) + 1) :
        /\ Arrived(k) \in Seq(Symbols) /\ Normal(Arrived(k)) = Piece(All(before), 0, q)
        /\ From(wire, k + 1) \in Seq(Symbols)
        /\ Normal(From(wire, k + 1)) = Piece(All(before), q, Len(All(before)))
  <2>1. \A q, j : ~Fetched(k, j, q)
    BY <1>2 DEF Fetched
  <2> QED BY <1>1, <1>4, <2>1, FetchedFirst
<1>6. /\ printed' = printed /\ wire' = From(wire, k + 1) /\ buffer' = Arrived(k) /\ started' = started
      /\ stripped' = stripped /\ streamed' = streamed /\ shown' = shown /\ result' = result
  BY DEF ReadBeforeBegin, Reads
<1>7. All(before)' = All(before)
  BY <1>6 DEF All, Full, Output, WithLineEnds
<1>8. NotBegun'
  <2>1. /\ result' = None /\ ~started' /\ ~stripped' /\ streamed' = <<>> /\ shown' = <<>>
    BY <1>4, <1>6 DEF NotBegun
  <2>2. \E q \in 0..(Len(before) + 1) :
          Normal(buffer') = Piece(All(before)', 0, q) /\ Normal(wire') = Piece(All(before)', q, Len(All(before)'))
    BY <1>5, <1>6, <1>7
  <2>3. buffer' \in Seq(Symbols) /\ wire' \in Seq(Symbols)
    BY <1>5, <1>6
  <2> QED BY <2>1, <2>2, <2>3 DEF NotBegun
<1>9. ShownLast'
  BY <1>1, <1>6 DEF ShownLast
<1> QED BY <1>1, <1>6, <1>8, <1>9 DEF ParserInv

(* The other actions read the text behind BEGIN.                           *)
LEMMA FetchedIs ==
  ASSUME ParserInv, NEW k \in 1..Len(wire), Reads(k), NEW t \in Normalized(k)
  PROVE  \E q \in 0..(N + 10) : \E j \in 0..q : Fetched(k, j, q) /\ t = Piece(Full, j, q)
<1>1. printed \in Printed /\ (NotBegun \/ Begun)
  BY DEF ParserInv, Answered, Reads
<1>2. PICK q \in 0..(N + 10) : \E j \in 0..q : Fetched(k, j, q)
  BY <1>1, FetchedFirst, FetchedLater
<1>3. PICK j \in 0..q : Fetched(k, j, q)
  BY <1>2
<1>4. t = Piece(Full, j, q)
  BY <1>3 DEF Fetched
<1> QED BY <1>3, <1>4

LEMMA KeptByOutput ==
  ASSUME ParserInv, NEW k \in 1..Len(wire), ReadOutput(k)
  PROVE  ParserInv'
<1>0. printed \in Printed /\ stripped \in BOOLEAN /\ ShownLast /\ N \in Nat
  BY FullIs DEF ParserInv
<1>1. Reads(k) /\ started' = TRUE /\ result' = result /\ result = None
  BY DEF ReadOutput, Reads
<1>2. PICK t \in Normalized(k) :
        /\ Find(t, End) = 0 /\ Cleans(t) /\ Emit(Cleaned(t)) /\ buffer' = t
        /\ cutEcho' = (cutEcho \/ Last(Lines(t)) = Command)
  BY DEF ReadOutput
<1>3. PICK q \in 0..(N + 10) : \E j \in 0..q : Fetched(k, j, q) /\ t = Piece(Full, j, q)
  BY <1>1, FetchedIs
<1>4. PICK j \in 0..q : Fetched(k, j, q) /\ t = Piece(Full, j, q)
  BY <1>3
<1>5. Read(j, q)
  BY <1>4 DEF Fetched
<1>6. /\ printed' = printed /\ N' = N /\ Full' = Full /\ wire' \in Seq(Symbols) /\ Normal(wire') = Piece(Full, q, N + 10)
      /\ (HasEcho(Output))' = HasEcho(Output) /\ (cutEnd => cutEnd')
      /\ (q \in {N + 2, N + 3} => cutEnd')
  BY <1>0, <1>1, <1>4, ReadsOn
<1>7. q <= N + 3
  <2>1. Find(t, End) = IF N + 4 <= q THEN N + 2 - j ELSE 0
    BY <1>0, <1>4, <1>5, EndFound
  <2>2. j <= N + 1 /\ j \in Nat
    BY <1>0, <1>5 DEF Read
  <2> QED BY <1>0, <1>2, <2>1, <2>2
<1>8. stripped' \in BOOLEAN
  BY <1>0, <1>2 DEF Cleans
<1>t. t \in Seq(Symbols) /\ Normal(t) = t
  BY <1>0, <1>4, <1>5, ReadIs, FullNormal
<1>9. ASSUME ~cutEnd', ~cutEcho', ~HasEcho(Output)
      PROVE  \E p \in 0..q : p <= N + 1 /\ streamed' = Core(Full, p) /\ shown' = streamed'
  <2>1. ~cutEnd /\ ~cutEcho /\ q <= N + 1 /\ Last(Lines(t)) # Command
    <3>1. ~cutEnd
      BY <1>6, <1>9, Zenon
    <3>2. cutEcho' = (cutEcho \/ Last(Lines(t)) = Command)
      BY <1>2
    <3>3. ~cutEcho /\ Last(Lines(t)) # Command
      BY <1>9, <3>2, Zenon
    <3>4. q \notin {N + 2, N + 3}
      BY <1>6, <1>9, Zenon
    <3>5. q <= N + 1
      BY <1>0, <1>7, <3>4
    <3> QED BY <3>1, <3>3, <3>5
  <2>2. PICK p \in 0..q : p <= N + 1 /\ streamed = Core(Full, p) /\ shown = streamed
    BY <1>4, <1>9, <2>1 DEF Fetched, StreamedBefore
  <2>3. ~HasEcho(t)
    BY <1>0, <1>4, <1>5, <1>9, <2>1, EchoIsCut
  <2>4. Cleaned(t) = Core(Full, q)
    BY <1>0, <1>4, <1>5, <2>1, <2>3, CleanedText
  <2>5. Emit(Core(Full, q))
    BY <1>2, <2>4
  <2>6. streamed' = Core(Full, q) /\ shown' = Core(Full, q)
    BY <1>0, <2>2, <2>5, EmittedIs
  <2>7. q \in 0..q
    BY <1>0
  <2> QED BY <2>1, <2>6, <2>7
<1>l. ShownLast'
  <2>1. "n" \in Symbols
    BY DEF Symbols
  <2>2. Cleaned(t) \in Seq(Symbols)
    BY <1>t, <2>1, CleanedType
  <2> QED BY <1>0, <1>2, <2>2, EmittedLast
<1>10. Begun'
  <2>1. q \in 0..(N + 6)
    BY <1>0, <1>7
  <2>2. (StreamedBefore(q))'
    BY <1>6, <1>9 DEF StreamedBefore
  <2>3. (Read(j, q))'
    BY <1>5, <1>6 DEF Read
  <2>4. /\ Normal(buffer') = Piece(Full', j, q) /\ Normal(wire') = Piece(Full', q, N' + 10)
        /\ buffer' \in Seq(Symbols) /\ wire' \in Seq(Symbols) /\ q \in 0..(N' + 6)
        /\ (q \in {N' + 2, N' + 3} => cutEnd')
    BY <1>2, <1>4, <1>6, <1>t, <2>1
  <2> QED BY <1>1, <2>2, <2>3, <2>4 DEF Begun
<1> QED BY <1>0, <1>6, <1>8, <1>l, <1>10 DEF ParserInv

LEMMA KeptByPartOfEnd ==
  ASSUME ParserInv, NEW k \in 1..Len(wire), ReadPartOfEnd(k)
  PROVE  ParserInv'
<1>0. printed \in Printed /\ stripped \in BOOLEAN /\ ShownLast /\ N \in Nat
  BY FullIs DEF ParserInv
<1>1. Reads(k) /\ started' = TRUE /\ result' = result /\ result = None /\ stripped' = stripped
      /\ streamed' = streamed /\ shown' = shown /\ cutEcho' = cutEcho
  BY DEF ReadPartOfEnd, Reads
<1>2. PICK t \in Normalized(k) : \E i \in {Find(t, End)} \ {0} : ~HasStatus(TailOf(t, i)) /\ buffer' = t
  BY DEF ReadPartOfEnd
<1>3. PICK q \in 0..(N + 10) : \E j \in 0..q : Fetched(k, j, q) /\ t = Piece(Full, j, q)
  BY <1>1, FetchedIs
<1>4. PICK j \in 0..q : Fetched(k, j, q) /\ t = Piece(Full, j, q)
  BY <1>3
<1>5. Read(j, q)
  BY <1>4 DEF Fetched
<1>6. /\ printed' = printed /\ N' = N /\ Full' = Full /\ wire' \in Seq(Symbols) /\ Normal(wire') = Piece(Full, q, N + 10)
      /\ (HasEcho(Output))' = HasEcho(Output) /\ (cutEnd => cutEnd')
      /\ (q \in {N + 2, N + 3} => cutEnd')
  BY <1>0, <1>1, <1>4, ReadsOn
<1>7. q <= N + 6
  <2>1. Find(t, End) = IF N + 4 <= q THEN N + 2 - j ELSE 0
    BY <1>0, <1>4, <1>5, EndFound
  <2>2. N + 4 <= q /\ ~HasStatus(TailOf(t, N + 2 - j))
    BY <1>2, <2>1
  <2>3. TailOf(t, N + 2 - j) = Piece(Full, N + 4, q) /\ Read(0, q)
    BY <1>0, <1>4, <1>5, <2>2, TailIs
  <2>4. ~(N + 7 <= q)
    BY <1>0, <2>2, <2>3, StatusIs
  <2> QED BY <1>0, <2>4
<1>t. t \in Seq(Symbols) /\ Normal(t) = t
  BY <1>0, <1>4, <1>5, ReadIs, FullNormal
<1>8. (StreamedBefore(q))'
  <2> SUFFICES ASSUME ~cutEnd', ~cutEcho', ~HasEcho(Output)
               PROVE  \E p \in 0..q : p <= N + 1 /\ streamed' = Core(Full, p) /\ shown' = streamed'
    BY <1>6 DEF StreamedBefore
  <2>1. PICK p \in 0..q : p <= N + 1 /\ streamed = Core(Full, p) /\ shown = streamed
    BY <1>1, <1>4, <1>6 DEF Fetched, StreamedBefore
  <2> QED BY <1>1, <2>1
<1>9. Begun'
  <2>1. q \in 0..(N + 6)
    BY <1>0, <1>7
  <2>2. (Read(j, q))'
    BY <1>5, <1>6 DEF Read
  <2>3. /\ Normal(buffer') = Piece(Full', j, q) /\ Normal(wire') = Piece(Full', q, N' + 10)
        /\ buffer' \in Seq(Symbols) /\ wire' \in Seq(Symbols) /\ q \in 0..(N' + 6)
        /\ (q \in {N' + 2, N' + 3} => cutEnd')
    BY <1>2, <1>4, <1>6, <1>t, <2>1
  <2> QED BY <1>1, <1>8, <2>2, <2>3 DEF Begun
<1>10. ShownLast'
  BY <1>0, <1>1 DEF ShownLast
<1> QED BY <1>0, <1>1, <1>6, <1>9, <1>10 DEF ParserInv

LEMMA KeptByEnd ==
  ASSUME ParserInv, NEW k \in 1..Len(wire), ReadEnd(k)
  PROVE  ParserInv'
<1>0. printed \in Printed /\ stripped \in BOOLEAN /\ ShownLast /\ N \in Nat /\ Full \in Seq(Symbols) /\ Len(Full) = N + 10
  BY FullIs DEF ParserInv
<1>1. Reads(k)
  BY DEF ReadEnd
<1>2. PICK t \in Normalized(k) : \E i \in {Find(t, End)} \ {0} :
         /\ HasStatus(TailOf(t, i))
         /\ Cleans(SubSeq(t, 1, i - 1)) /\ Emit(Cleaned(SubSeq(t, 1, i - 1)))
         /\ result' = [output |-> Cleaned(SubSeq(t, 1, i - 1)), cwd |-> Directory(TailOf(t, i))]
  BY DEF ReadEnd
<1>3. PICK q \in 0..(N + 10) : \E j \in 0..q : Fetched(k, j, q) /\ t = Piece(Full, j, q)
  BY <1>1, FetchedIs
<1>4. PICK j \in 0..q : Fetched(k, j, q) /\ t = Piece(Full, j, q)
  BY <1>3
<1>5. Read(j, q) /\ j \in Nat /\ j <= N + 1 /\ j <= q
  BY <1>0, <1>4 DEF Fetched, Read
<1>6. /\ printed' = printed /\ N' = N /\ Full' = Full
      /\ (HasEcho(Output))' = HasEcho(Output) /\ (cutEnd => cutEnd') /\ cutEcho' = cutEcho
      /\ (q = N + 7 => cutCwd')
  BY <1>0, <1>1, <1>4, ReadsOn DEF ReadEnd
<1>7. PICK i : i = N + 2 - j
  OBVIOUS
<1>8. /\ N + 4 <= q /\ HasStatus(TailOf(t, i))
      /\ Cleans(SubSeq(t, 1, i - 1)) /\ Emit(Cleaned(SubSeq(t, 1, i - 1)))
      /\ result' = [output |-> Cleaned(SubSeq(t, 1, i - 1)), cwd |-> Directory(TailOf(t, i))]
  <2>1. Find(t, End) = IF N + 4 <= q THEN N + 2 - j ELSE 0
    BY <1>0, <1>4, <1>5, EndFound
  <2>2. N + 4 <= q /\ Find(t, End) = i
    BY <1>2, <1>7, <2>1
  <2> QED BY <1>2, <2>2
<1>9. TailOf(t, i) = Piece(Full, N + 4, q) /\ Read(0, q)
  BY <1>0, <1>4, <1>5, <1>7, <1>8, TailIs
<1>10. N + 7 <= q
  BY <1>0, <1>8, <1>9, StatusIs
<1>11. PICK e \in 0..(N + 10) : e = N + 1 /\ Read(j, e) /\ e <= N + 1 /\ e \in j..q
  <2>1. N + 1 \in 0..(N + 10) /\ j \in 0..(N + 1) /\ N + 1 \in j..q
    BY <1>0, <1>5, <1>10
  <2>2. Read(j, N + 1)
    BY <1>5, <2>1 DEF Read
  <2> QED BY <1>0, <2>1, <2>2
<1> DEFINE output == SubSeq(t, 1, i - 1)
           cwd    == Directory(TailOf(t, i))
<1>12. output = Piece(Full, j, e)
  <2>1. j \in 0..Len(Full) /\ q \in j..Len(Full)
    BY <1>0, <1>5, <1>10
  <2>2. \A x \in 0..(q - j) : \A y \in x..(q - j) : Piece(Piece(Full, j, q), x, y) = Piece(Full, j + x, j + y)
    <3>1. Full \in Seq(Symbols)
      BY <1>0
    <3> QED BY <2>1, <3>1, PieceOfPiece
  <2>3. PICK z \in 0..(q - j) : z = 0
    BY <1>0, <1>5
  <2>4. PICK y \in z..(q - j) : y = i - 1 /\ j + y = e /\ j + z = j
    <3>1. i - 1 \in z..(q - j) /\ j + (i - 1) = e /\ j + z = j
      BY <1>0, <1>5, <1>7, <1>10, <1>11, <2>3
    <3> QED BY <3>1
  <2>5. Piece(t, z, y) = Piece(Full, j, e)
    BY <1>4, <2>2, <2>4
  <2> QED BY <2>3, <2>4, <2>5 DEF Piece
<1>13. output \in Seq(Symbols)
  BY <1>0, <1>11, <1>12, ReadIs
<1>14. Cleaned(output) \in Seq(Symbols)
  <2>1. "n" \in Symbols
    BY DEF Symbols
  <2> HIDE DEF output
  <2> QED BY <1>13, <2>1, CleanedType
<1>15. cwd \in Seq(Symbols) /\ (q # N + 7 => cwd = Cwd)
  BY <1>0, <1>9, <1>10, DirectoryIs
<1>16. result' = [output |-> Cleaned(output), cwd |-> cwd] /\ Emit(Cleaned(output)) /\ stripped' \in BOOLEAN
  BY <1>0, <1>8 DEF Cleans
<1> HIDE DEF output, cwd
<1>17. result' # None /\ result'.output = Cleaned(output) /\ result'.cwd = cwd
  <2>1. result' \in [output : Seq(Symbols), cwd : Seq(Symbols)]
    BY <1>14, <1>15, <1>16
  <2> QED BY <1>16, <2>1, NoneAssumption
<1>18. ASSUME ~HasEcho(Output) PROVE Cleaned(output) = Core(Full, N + 1)
  <2>1. ~HasEcho(Piece(Full, j, e))
    BY <1>0, <1>11, <1>18, EchoIsCut
  <2>2. Cleaned(Piece(Full, j, e)) = Core(Full, e)
    BY <1>0, <1>11, <2>1, CleanedText
  <2> QED BY <1>11, <1>12, <2>2
<1>l. streamed' = Cleaned(output) /\ ShownLast'
  BY <1>0, <1>14, <1>16, EmittedLast
<1>19. ASSUME ~cutEnd', ~cutEcho', ~HasEcho(Output) PROVE shown' = Core(Full, N + 1)
  <2>1. PICK p \in 0..q : p <= N + 1 /\ streamed = Core(Full, p) /\ shown = streamed
    BY <1>4, <1>6, <1>19 DEF Fetched, StreamedBefore
  <2>2. p \in 0..e
    BY <1>0, <1>11, <2>1
  <2>3. Emit(Core(Full, e))
    BY <1>11, <1>16, <1>18, <1>19
  <2>4. streamed' = Core(Full, e) /\ shown' = Core(Full, e)
    BY <1>0, <2>1, <2>2, <2>3, EmittedIs
  <2> QED BY <1>11, <2>4
<1>20. Answered'
  <2>1. HasEcho(Output)' \/ result'.output = Core(Full', N' + 1)
    BY <1>6, <1>17, <1>18
  <2>2. cutCwd' \/ result'.cwd = Cwd
    BY <1>6, <1>15, <1>17
  <2>3. ~cutEnd' /\ ~cutEcho' /\ ~HasEcho(Output)' => shown' = Core(Full', N' + 1)
    BY <1>6, <1>19
  <2>4. ~HasEcho(Output)' => streamed' = Core(Full', N' + 1)
    BY <1>6, <1>18, <1>l
  <2> QED BY <1>17, <2>1, <2>2, <2>3, <2>4 DEF Answered
<1> QED BY <1>0, <1>6, <1>16, <1>l, <1>20 DEF ParserInv

LEMMA ParserStep == ParserInv /\ [Next]_vars => ParserInv'
<1> SUFFICES ASSUME ParserInv, [Next]_vars PROVE ParserInv'
  OBVIOUS
<1>1. ASSUME NEW k \in 1..Len(wire), ReadBeforeBegin(k) PROVE ParserInv'
  BY <1>1, KeptBeforeBegin
<1>2. ASSUME NEW k \in 1..Len(wire), ReadOutput(k) PROVE ParserInv'
  BY <1>2, KeptByOutput
<1>3. ASSUME NEW k \in 1..Len(wire), ReadPartOfEnd(k) PROVE ParserInv'
  BY <1>3, KeptByPartOfEnd
<1>4. ASSUME NEW k \in 1..Len(wire), ReadEnd(k) PROVE ParserInv'
  BY <1>4, KeptByEnd
<1>5. CASE UNCHANGED vars
  <2>1. /\ printed' = printed /\ wire' = wire /\ buffer' = buffer /\ started' = started /\ stripped' = stripped
        /\ streamed' = streamed /\ result' = result /\ shown' = shown /\ cutEnd' = cutEnd /\ cutCwd' = cutCwd
        /\ cutEcho' = cutEcho
    BY <1>5 DEF vars, parser
  <2>2. Output' = Output /\ Full' = Full /\ N' = N /\ (HasEcho(Output))' = HasEcho(Output)
    <3>1. Output' = Output
      BY <2>1 DEF Output, WithLineEnds
    <3> QED BY <3>1 DEF Full, N, HasEcho
  <2>3. ShownLast' /\ printed' \in Printed /\ stripped' \in BOOLEAN
    BY <2>1 DEF ParserInv, ShownLast
  <2>4. NotBegun => NotBegun'
    BY <2>1, <2>2 DEF NotBegun, All
  <2>5. Begun => Begun'
    BY <2>1, <2>2 DEF Begun, StreamedBefore, Read
  <2>6. Answered => Answered'
    BY <2>1, <2>2 DEF Answered
  <2> QED BY <2>3, <2>4, <2>5, <2>6 DEF ParserInv
<1> QED BY <1>1, <1>2, <1>3, <1>4, <1>5 DEF Next

LEMMA ParserHolds == Spec => []ParserInv
<1>1. Init => ParserInv
  BY ParserInit
<1>2. ParserInv /\ [Next]_vars => ParserInv'
  BY ParserStep
<1> QED BY <1>1, <1>2, PTL DEF Spec

-----------------------------------------------------------------------------
(* The command is answered as soon as all that the shell writes has been   *)
(* read, wherever the pieces ended (_try_finish_command): as long as there *)
(* is no answer some of the text behind BEGIN, or BEGIN, has not come.     *)
THEOREM IsAnsweredHolds == Spec => []IsAnswered
<1>1. ParserInv => IsAnswered
  <2> SUFFICES ASSUME ParserInv, result = None, wire = <<>> PROVE FALSE
    BY DEF IsAnswered
  <2>0. printed \in Printed /\ N \in Nat /\ Full \in Seq(Symbols) /\ Len(Full) = N + 10 /\ Len(Normal(wire)) = 0
    <3>1. Normal(wire) = <<>>
      BY DEF Normal
    <3>2. Len(Normal(wire)) = 0
      BY <3>1
    <3> QED BY <3>2, FullIs DEF ParserInv
  <2>1. CASE NotBegun
    <3>1. PICK before \in {<<>>, <<"x", "n", "n">>} : \E q \in 0..(Len(before) + 1) : Normal(wire) = Piece(All(before), q, Len(All(before)))
      BY <2>1 DEF NotBegun
    <3>2. PICK q \in 0..(Len(before) + 1) : Normal(wire) = Piece(All(before), q, Len(All(before)))
      BY <3>1
    <3> DEFINE A == All(before)
    <3>3. A \in Seq(Symbols) /\ Len(A) = Len(before) + 2 + (N + 10) /\ Len(before) \in Nat
      BY <2>0, AllIs, BeforeIs
    <3> HIDE DEF A
    <3>4. q \in 0..Len(A) /\ Len(A) \in q..Len(A) /\ Len(A) - q # 0
      BY <2>0, <3>3
    <3>5. Len(Piece(A, q, Len(A))) = Len(A) - q
      <4>1. \A b \in q..Len(A) : Len(Piece(A, q, b)) = b - q
        BY <3>3, <3>4, PieceType
      <4> QED BY <3>4, <4>1, Zenon
    <3> QED BY <2>0, <3>2, <3>4, <3>5 DEF A
  <2>2. CASE Begun
    <3>1. PICK q \in 0..(N + 6) : Normal(wire) = Piece(Full, q, N + 10)
      BY <2>2 DEF Begun
    <3>b. PICK b \in q..Len(Full) : b = N + 10
      <4>1. N + 10 \in q..Len(Full)
        BY <2>0
      <4> QED BY <4>1
    <3>2. b - q # 0 /\ q \in 0..Len(Full)
      BY <2>0, <3>b
    <3>3. Len(Piece(Full, q, b)) = b - q
      BY <2>0, <3>2, PieceType
    <3> QED BY <2>0, <3>1, <3>b, <3>2, <3>3
  <2> QED BY <2>1, <2>2 DEF ParserInv, Answered
<1> QED BY <1>1, ParserHolds, PTL

(* The output in the answer is what the command printed between the markers*)
(* without the blank lines around it, every line end of the terminal two   *)
(* line ends, however the text came, for every text that a command may     *)
(* print and every way to cut it (_try_finish_command,                     *)
(* _cleanup_shell_output).                                                 *)
THEOREM ResultIsOutputHolds == Spec => []ResultIsOutput
<1>1. ParserInv => ResultIsOutput
  <2> SUFFICES ASSUME ParserInv, result # None
               PROVE  (HasEcho(Output) \/ result.output = Expected) /\ (cutCwd \/ result.cwd = Cwd)
    BY DEF ResultIsOutput
  <2>1. Answered
    BY DEF ParserInv, NotBegun, Begun
  <2>2. Expected = Core(Full, N + 1)
    BY ExpectedIs DEF ParserInv
  <2> QED BY <2>1, <2>2 DEF Answered
<1> QED BY <1>1, ParserHolds, PTL

(* A text behind another one is its end.                                   *)
LEMMA SuffixIs ==
  ASSUME NEW S, NEW h \in Seq(S), NEW r \in Seq(S)
  PROVE  IsSuffix(r, h \o r)
<1> DEFINE w == h \o r
           a == Reverse(r)
           b == Reverse(w)
<1>1. /\ w \in Seq(S) /\ Len(w) = Len(h) + Len(r) /\ Len(h) \in Nat /\ Len(r) \in Nat
      /\ \A i \in 1..Len(r) : w[Len(h) + i] = r[i]
  BY ConcatAt, LenProperties
<1> HIDE DEF w
<1>2. a \in Seq(S) /\ Len(a) = Len(r) /\ \A i \in 1..Len(r) : a[i] = r[Len(r) - i + 1]
  <2>1. a = [i \in 1..Len(r) |-> r[Len(r) - i + 1]]
    BY DEF Reverse
  <2>2. \A i \in 1..Len(r) : Len(r) - i + 1 \in 1..Len(r)
    BY <1>1
  <2>3. \A i \in 1..Len(r) : r[i] \in S
    BY ElementOfSeq
  <2>4. a \in [1..Len(r) -> S]
    BY <2>1, <2>2, <2>3
  <2> QED BY <1>1, <2>1, <2>4, SeqOfFcn
<1>3. b \in Seq(S) /\ Len(b) = Len(w) /\ \A i \in 1..Len(w) : b[i] = w[Len(w) - i + 1]
  <2>1. b = [i \in 1..Len(w) |-> w[Len(w) - i + 1]]
    BY DEF Reverse
  <2>2. \A i \in 1..Len(w) : Len(w) - i + 1 \in 1..Len(w)
    BY <1>1
  <2>3. \A i \in 1..Len(w) : w[i] \in S
    BY <1>1, ElementOfSeq
  <2>4. b \in [1..Len(w) -> S]
    BY <2>1, <2>2, <2>3
  <2>5. Len(w) \in Nat
    BY <1>1
  <2> QED BY <2>1, <2>4, <2>5, SeqOfFcn
<1> HIDE DEF a, b
<1>4. ASSUME NEW i \in 1..Len(r) PROVE b[i] = a[i]
  <2>1. i \in 1..Len(w) /\ Len(w) - i + 1 = Len(h) + (Len(r) - i + 1) /\ Len(r) - i + 1 \in 1..Len(r)
    BY <1>1
  <2>2. b[i] = w[Len(h) + (Len(r) - i + 1)]
    BY <1>3, <2>1
  <2> QED BY <1>1, <1>2, <2>1, <2>2
<1>z. PICK z \in 0..Len(b) : z = 0 /\ z + 1 = 1 /\ Len(r) \in z..Len(b)
  BY <1>1, <1>3
<1>5. Piece(b, z, Len(r)) = a
  <2>1. /\ Piece(b, z, Len(r)) \in Seq(S) /\ Len(Piece(b, z, Len(r))) = Len(r) - z
        /\ \A i \in 1..(Len(r) - z) : Piece(b, z, Len(r))[i] = b[z + i]
    <3>1. Len(r) \in z..Len(b)
      BY <1>z
    <3> QED BY <1>3, <3>1, PieceType
  <2>2. Len(r) - z = Len(a) /\ \A i \in 1..Len(a) : z + i = i /\ i \in 1..Len(r)
    BY <1>1, <1>2, <1>z
  <2>3. \A i \in 1..Len(a) : Piece(b, z, Len(r))[i] = a[i]
    BY <1>4, <2>1, <2>2
  <2> QED BY <1>2, <2>1, <2>2, <2>3, SeqEqual
<1>6. SubSeq(a, 1, Len(a)) = a
  BY <1>2, SubSeqFull
<1>7. SubSeq(b, 1, Len(a)) = a /\ Len(a) <= Len(b)
  BY <1>1, <1>2, <1>3, <1>5, <1>z DEF Piece
<1>8. IsPrefix(a, b)
  BY <1>6, <1>7 DEF IsPrefix
<1> QED BY <1>8 DEF IsSuffix, a, b, w

(* Unless the output holds the command as a line, all of it was streamed   *)
(* last when the command is answered; and what has been given to the output*)
(* callback is a beginning of it at every moment, and all of it once when  *)
(* the command is answered, unless a piece ended inside the END marker or  *)
(* where the last line so far was the command (_emit_command_stream_delta).*)
THEOREM StreamIsOutputHolds == Spec => []StreamIsOutput
<1>1. ParserInv => StreamIsOutput
  <2> SUFFICES ASSUME ParserInv, ~HasEcho(Output)
               PROVE  /\ result # None => IsSuffix(Expected, shown)
                      /\ ~cutEnd /\ ~cutEcho =>
                           IsPrefix(shown, Expected) /\ (result # None => shown = Expected)
    BY DEF StreamIsOutput
  <2>0. printed \in Printed /\ N \in Nat /\ Full \in Seq(Symbols) /\ Len(Full) = N + 10
    BY FullIs DEF ParserInv
  <2>1. Expected = Core(Full, N + 1) /\ Expected \in Seq(Symbols)
    BY <2>0, ExpectedIs
  <2>2. ASSUME NEW p \in 0..(N + 1) PROVE IsPrefix(Core(Full, p), Expected)
    <3>0. PICK n \in 0..Len(Full) : n = N + 1
      <4>1. N + 1 \in 0..Len(Full)
        BY <2>0
      <4> QED BY <4>1
    <3>1. n = N + 1 /\ p \in 0..n /\ p \in 0..Len(Full)
      BY <2>0, <3>0
    <3>2. PICK r \in Seq(Symbols) : Core(Full, n) = Core(Full, p) \o r
      <4>1. p \in 0..n /\ Full \in Seq(Symbols)
        BY <2>0, <3>1
      <4> QED BY <4>1, CoreGrows
    <3>3. Core(Full, p) \in Seq(Symbols)
      BY <2>0, <3>1, CoreType
    <3>4. IsPrefix(Core(Full, p), Core(Full, p) \o r)
      BY <3>3, PrefixIs
    <3> QED BY <2>1, <3>1, <3>2, <3>4
  <2>e. ASSUME Answered PROVE IsSuffix(Expected, shown)
    <3>1. streamed = Expected
      BY <2>1, <2>e DEF Answered
    <3>2. PICK h \in Seq(Symbols) : shown = h \o streamed
      BY DEF ParserInv, ShownLast
    <3> QED BY <2>1, <3>1, <3>2, SuffixIs
  <2>3. CASE NotBegun
    <3>1. Core(Full, 0) = <<>> /\ 0 \in 0..(N + 1)
      BY <2>0, CoreBlank
    <3>2. shown = Core(Full, 0) /\ result = None
      BY <2>3, <3>1 DEF NotBegun
    <3> QED BY <2>2, <3>1, <3>2
  <2>4. CASE Begun
    <3>1. PICK q \in 0..(N + 6) : StreamedBefore(q)
      BY <2>4 DEF Begun
    <3>2. result = None
      BY <2>4 DEF Begun
    <3>3. ASSUME ~cutEnd, ~cutEcho PROVE IsPrefix(shown, Expected)
      <4>1. PICK p \in 0..q : p <= N + 1 /\ shown = Core(Full, p)
        BY <3>1, <3>3 DEF StreamedBefore
      <4>2. p \in 0..(N + 1)
        BY <2>0, <4>1
      <4> QED BY <2>2, <4>1, <4>2
    <3> QED BY <3>2, <3>3
  <2>5. CASE Answered
    <3>1. ASSUME ~cutEnd, ~cutEcho PROVE IsPrefix(shown, Expected) /\ shown = Expected
      <4>1. shown = Core(Full, N + 1) /\ N + 1 \in 0..(N + 1)
        BY <2>0, <2>5, <3>1 DEF Answered
      <4> QED BY <2>1, <2>2, <4>1
    <3> QED BY <2>5, <2>e, <3>1
  <2> QED BY <2>3, <2>4, <2>5 DEF ParserInv
<1> QED BY <1>1, ParserHolds, PTL

-----------------------------------------------------------------------------
(* Pages (OutputPager).                                                    *)

(* The first of the sequences that are concatenated.                       *)
LEMMA FlattenFirst ==
  ASSUME NEW S, NEW u \in Seq(S), NEW seqs \in Seq(Seq(S)), NEW w \in Seq(Seq(S)),
         Len(w) = Len(seqs) + 1, w[1] = u, \A i \in 1..Len(seqs) : w[i + 1] = seqs[i]
  PROVE  FlattenSeq(w) = u \o FlattenSeq(seqs)
<1>0. Len(seqs) \in Nat
  BY LenProperties
<1>a. \A v \in Seq(S), x \in Seq(S) : u \o v \in Seq(S) /\ (u \o v) \o x = u \o (v \o x)
  BY JoinTwice, SMTT(30)
<1>1. PICK f \in [0..Len(seqs) -> Seq(S)] :
        /\ f[0] = <<>> /\ FlattenSeq(seqs) = f[Len(seqs)]
        /\ \A i \in 1..Len(seqs) : f[i] = f[i - 1] \o seqs[i]
  BY FlattenAlong
<1> DEFINE h == [i \in 0..Len(w) |-> IF i = 0 THEN <<>> ELSE u \o f[i - 1]]
<1>2. /\ h[0] = <<>> /\ \A i \in 1..Len(w) : h[i] = u \o f[i - 1] /\ i - 1 \in 0..Len(seqs)
  <2>1. 0 \in 0..Len(w) /\ \A i \in 1..Len(w) : i \in 0..Len(w) /\ i # 0 /\ i - 1 \in 0..Len(seqs)
    BY <1>0
  <2> QED BY <2>1
<1>3. h \in [0..Len(w) -> Seq(S)]
  <2>1. \A i \in 0..Len(w) : (IF i = 0 THEN <<>> ELSE u \o f[i - 1]) \in Seq(S)
    <3> TAKE i \in 0..Len(w)
    <3>1. CASE i = 0
      BY <3>1, EmptySeq
    <3>2. CASE i # 0
      <4>1. i - 1 \in 0..Len(seqs)
        BY <1>0, <3>2
      <4>2. f[i - 1] \in Seq(S)
        BY <4>1
      <4> QED BY <3>2, <4>2, ConcatProperties
    <3> QED BY <3>1, <3>2
  <2> QED BY <2>1
<1> HIDE DEF h
<1>4. ASSUME NEW i \in 1..Len(w) PROVE h[i] = h[i - 1] \o w[i]
  <2>1. CASE i = 1
    <3>1. i - 1 = 0 /\ h[i] = u \o f[0]
      BY <1>2, <2>1
    <3>2. u \o <<>> = u /\ <<>> \o u = u
      BY ConcatEmptySeq
    <3> QED BY <1>1, <1>2, <2>1, <3>1, <3>2
  <2>2. CASE i # 1
    <3>1. PICK d \in 1..Len(seqs) : d = i - 1 /\ d + 1 = i /\ d \in 1..Len(w)
      <4>1. i - 1 \in 1..Len(seqs) /\ (i - 1) + 1 = i /\ i - 1 \in 1..Len(w)
        BY <1>0, <2>2
      <4> QED BY <4>1
    <3>2. h[i] = u \o f[d] /\ h[d] = u \o f[d - 1] /\ w[i] = seqs[d] /\ d - 1 \in 0..Len(seqs)
      BY <1>2, <3>1
    <3>3. f[d] = f[d - 1] \o seqs[d] /\ f[d - 1] \in Seq(S) /\ seqs[d] \in Seq(S)
      BY <1>1, <3>2, ElementOfSeq
    <3>4. (u \o f[d - 1]) \o seqs[d] = u \o (f[d - 1] \o seqs[d])
      BY <1>a, <3>3, Zenon
    <3> QED BY <3>1, <3>2, <3>3, <3>4
  <2> QED BY <2>1, <2>2
<1>5. FlattenSeq(w) = h[Len(w)]
  BY <1>2, <1>3, <1>4, FlattenIs
<1>6. Len(w) \in 1..Len(w) /\ Len(w) - 1 = Len(seqs)
  BY <1>0
<1> QED BY <1>1, <1>2, <1>5, <1>6

(* What the pages are put together again from.                             *)
WithNewline(p, size) == IF Len(p) < size THEN Append(p, "n") ELSE p
Ended(pages, size) ==
  [i \in DOMAIN pages |-> IF i < Len(pages) /\ Len(pages[i]) < size THEN Append(pages[i], "n") ELSE pages[i]]

LEMMA EndedAre ==
  ASSUME NEW S, "n" \in S, NEW size, NEW pages \in Seq(Seq(S))
  PROVE  /\ Rejoined(pages, size) = FlattenSeq(Ended(pages, size))
         /\ Ended(pages, size) \in Seq(Seq(S)) /\ Len(Ended(pages, size)) = Len(pages)
         /\ \A i \in 1..Len(pages) : Ended(pages, size)[i] = IF i < Len(pages) THEN WithNewline(pages[i], size) ELSE pages[i]
<1>0. Len(pages) \in Nat /\ DOMAIN pages = 1..Len(pages) /\ \A i \in 1..Len(pages) : pages[i] \in Seq(S)
  BY LenProperties, ElementOfSeq
<1> DEFINE e == Ended(pages, size)
<1>1. \A i \in 1..Len(pages) : e[i] = IF i < Len(pages) THEN WithNewline(pages[i], size) ELSE pages[i]
  BY <1>0 DEF Ended, WithNewline
<1>2. \A i \in 1..Len(pages) : Append(pages[i], "n") \in Seq(S)
  BY <1>0, AppendProperties
<1>3. e \in [1..Len(pages) -> Seq(S)]
  BY <1>0, <1>2 DEF Ended
<1> HIDE DEF e
<1>4. e \in Seq(Seq(S)) /\ Len(e) = Len(pages)
  BY <1>0, <1>3, SeqOfFcn
<1> QED BY <1>1, <1>4 DEF e, Rejoined, Ended

LEMMA RejoinedNone ==
  ASSUME NEW size
  PROVE  Rejoined(<<>>, size) = <<>>
<1> DEFINE S == {"n"}
<1>1. "n" \in S /\ <<>> \in Seq(Seq(S)) /\ Len(<<>>) = 0
  BY EmptySeq
<1> HIDE DEF S
<1>2. Rejoined(<<>>, size) = FlattenSeq(Ended(<<>>, size)) /\ Ended(<<>>, size) \in Seq(Seq(S)) /\ Len(Ended(<<>>, size)) = 0
  BY <1>1, EndedAre
<1>3. Ended(<<>>, size) = <<>>
  BY <1>2, EmptySeq
<1>4. PICK f \in [0..Len(<<>>) -> Seq(S)] : f[0] = <<>> /\ FlattenSeq(<<>>) = f[Len(<<>>)]
  BY <1>1, FlattenAlong
<1> QED BY <1>1, <1>2, <1>3, <1>4

LEMMA ConsIs ==
  ASSUME NEW T, NEW p \in T, NEW q \in Seq(T)
  PROVE  /\ Cons(p, q) \in Seq(T) /\ Len(Cons(p, q)) = Len(q) + 1 /\ Cons(p, q)[1] = p
         /\ \A i \in 1..Len(q) : Cons(p, q)[i + 1] = q[i]
<1> DEFINE w == Cons(p, q)
           o == <<p>>
<1>0. Len(q) \in Nat
  BY LenProperties
<1>1. o \in Seq(T) /\ Len(o) = 1 /\ o[1] = p
  OBVIOUS
<1>2. w = o \o q
  BY DEF Cons
<1> HIDE DEF w, o
<1>3. /\ o \o q \in Seq(T) /\ Len(o \o q) = Len(o) + Len(q)
      /\ \A i \in 1..Len(o) : (o \o q)[i] = o[i]
      /\ \A i \in 1..Len(q) : (o \o q)[Len(o) + i] = q[i]
  <2>1. \A x \in Seq(T) :
          /\ o \o x \in Seq(T) /\ Len(o \o x) = Len(o) + Len(x)
          /\ \A i \in 1..Len(o) : (o \o x)[i] = o[i]
          /\ \A i \in 1..Len(x) : (o \o x)[Len(o) + i] = x[i]
    <3>1. o \in Seq(T)
      BY <1>1
    <3> QED BY <3>1, ConcatAt
  <2> QED BY <2>1, Zenon
<1>4. 1 \in 1..Len(o) /\ Len(o) + Len(q) = Len(q) + 1 /\ \A i \in 1..Len(q) : Len(o) + i = i + 1
  BY <1>0, <1>1
<1>5. w \in Seq(T) /\ Len(w) = Len(q) + 1 /\ w[1] = p /\ \A i \in 1..Len(q) : w[i + 1] = q[i]
  BY <1>1, <1>2, <1>3, <1>4
<1> QED BY <1>5 DEF w

LEMMA RejoinedFirst ==
  ASSUME NEW S, "n" \in S, NEW size, NEW p \in Seq(S), NEW q \in Seq(Seq(S))
  PROVE  Rejoined(Cons(p, q), size) = IF Len(q) = 0 THEN p ELSE WithNewline(p, size) \o Rejoined(q, size)
<1> DEFINE w == Cons(p, q)
<1>0. Len(q) \in Nat
  BY LenProperties
<1>1. w \in Seq(Seq(S)) /\ Len(w) = Len(q) + 1 /\ w[1] = p /\ \A i \in 1..Len(q) : w[i + 1] = q[i]
  BY ConsIs
<1> HIDE DEF w
<1>2. /\ Rejoined(w, size) = FlattenSeq(Ended(w, size))
      /\ Ended(w, size) \in Seq(Seq(S)) /\ Len(Ended(w, size)) = Len(w)
      /\ \A i \in 1..Len(w) : Ended(w, size)[i] = IF i < Len(w) THEN WithNewline(w[i], size) ELSE w[i]
  BY <1>1, EndedAre
<1>3. /\ Rejoined(q, size) = FlattenSeq(Ended(q, size))
      /\ Ended(q, size) \in Seq(Seq(S)) /\ Len(Ended(q, size)) = Len(q)
      /\ \A i \in 1..Len(q) : Ended(q, size)[i] = IF i < Len(q) THEN WithNewline(q[i], size) ELSE q[i]
  BY EndedAre
<1> DEFINE u == IF Len(q) = 0 THEN p ELSE WithNewline(p, size)
<1>4. Ended(w, size)[1] = u
  <2>1. 1 \in 1..Len(w) /\ (1 < Len(w) <=> Len(q) # 0)
    BY <1>0, <1>1
  <2> QED BY <1>1, <1>2, <2>1
<1>5. ASSUME NEW i \in 1..Len(q) PROVE Ended(w, size)[i + 1] = Ended(q, size)[i]
  <2>1. i + 1 \in 1..Len(w) /\ (i + 1 < Len(w) <=> i < Len(q))
    BY <1>0, <1>1
  <2>2. w[i + 1] = q[i]
    BY <1>1
  <2>3. Ended(w, size)[i + 1] = IF i + 1 < Len(w) THEN WithNewline(w[i + 1], size) ELSE w[i + 1]
    BY <1>2, <2>1
  <2>4. Ended(q, size)[i] = IF i < Len(q) THEN WithNewline(q[i], size) ELSE q[i]
    BY <1>3
  <2> QED BY <2>1, <2>2, <2>3, <2>4
<1>6. u \in Seq(S)
  <2>1. Append(p, "n") \in Seq(S)
    BY AppendProperties
  <2> QED BY <2>1 DEF WithNewline
<1> HIDE DEF u
<1>7. FlattenSeq(Ended(w, size)) = u \o FlattenSeq(Ended(q, size))
  <2> DEFINE a == Ended(w, size)
             b == Ended(q, size)
  <2>1. /\ a \in Seq(Seq(S)) /\ b \in Seq(Seq(S)) /\ Len(a) = Len(b) + 1 /\ a[1] = u
        /\ \A i \in 1..Len(b) : a[i + 1] = b[i]
    BY <1>1, <1>2, <1>3, <1>4, <1>5
  <2> HIDE DEF a, b
  <2>2. FlattenSeq(a) = u \o FlattenSeq(b)
    BY <1>6, <2>1, FlattenFirst
  <2> QED BY <2>2 DEF a, b
<1>8. Rejoined(w, size) = u \o Rejoined(q, size)
  BY <1>2, <1>3, <1>7
<1>9. CASE Len(q) = 0
  <2>1. q = <<>>
    BY <1>9, EmptySeq
  <2>2. Rejoined(q, size) = <<>>
    BY <2>1, RejoinedNone
  <2>3. u \o <<>> = u
    BY <1>6, ConcatEmptySeq
  <2> QED BY <1>8, <1>9, <2>2, <2>3 DEF w, u
<1>10. CASE Len(q) # 0
  BY <1>8, <1>10 DEF w, u
<1> QED BY <1>9, <1>10

(* rfind: the last newline of a text, if there is one.                     *)
LEMMA NewlineIs ==
  ASSUME NEW S, NEW t \in Seq(S)
  PROVE  NewlineIdx(t) = -1 \/ \E x \in 1..Len(t) : t[x] = "n" /\ NewlineIdx(t) = x - 1
<1> DEFINE I == {i \in 1..Len(t) : t[i] = "n"}
<1>0. Len(t) \in Nat
  BY LenProperties
<1>1. NewlineIdx(t) = (IF I # {} THEN Max(I) ELSE 0) - 1
  BY DEF NewlineIdx, SelectLastInSeq
<1>2. CASE I = {}
  <2>1. NewlineIdx(t) = 0 - 1
    BY <1>1, <1>2
  <2> QED BY <2>1
<1>3. CASE I # {}
  <2>1. I \in SUBSET (1..Len(t))
    OBVIOUS
  <2>2. Max(I) \in I
    <3> HIDE DEF I
    <3> QED BY <1>0, <1>3, <2>1, MaxIs
  <2>3. NewlineIdx(t) = Max(I) - 1
    BY <1>1, <1>3
  <2> QED BY <2>2, <2>3
<1> QED BY <1>2, <1>3

(* How long the next page is, and what is taken away with it.              *)
LEMMA PageIs ==
  ASSUME NEW S, NEW rest \in Seq(S), NEW size \in Nat \ {0}
  PROVE  LET p == PageLength(rest, size)
             k == Taken(rest, size)
         IN  /\ p \in Nat /\ k \in Nat /\ p <= size /\ p <= Len(rest) /\ p <= k /\ k <= Len(rest)
             /\ Len(rest) # 0 => k # 0
             /\ Len(rest) <= size => p = Len(rest) /\ k = p
             /\ Len(rest) > size => /\ p > size \div 2 /\ k < Len(rest)
                                    /\ \/ p = size /\ k = p
                                       \/ p < size /\ k = p + 1 /\ rest[p + 1] = "n"
<1> DEFINE p == PageLength(rest, size)
           k == Taken(rest, size)
           chunk == SubSeq(rest, 1, size)
           i == NewlineIdx(chunk)
<1>0. Len(rest) \in Nat /\ size \in Nat /\ size # 0 /\ size \div 2 \in Nat /\ size > size \div 2
  BY LenProperties
<1>1. k = IF p < Len(rest) /\ p < size THEN p + 1 ELSE p
  BY DEF Taken
<1>2. p = IF Len(rest) <= size THEN Len(rest) ELSE IF i > size \div 2 THEN i ELSE size
  BY DEF PageLength, LateEnough
<1>3. CASE Len(rest) <= size
  <2>1. p = Len(rest)
    BY <1>2, <1>3
  <2> HIDE DEF p, k
  <2>2. k = p
    BY <1>0, <1>1, <2>1
  <2> QED BY <1>0, <1>3, <2>1, <2>2 DEF p, k
<1>4. CASE Len(rest) > size
  <2>1. i = -1 \/ \E x \in 1..size : rest[x] = "n" /\ i = x - 1
    <3>1. chunk \in Seq(S) /\ Len(chunk) = size /\ \A x \in 1..size : chunk[x] = rest[x]
      <4>1. size \in 0..Len(rest) /\ chunk = Piece(rest, 0, size)
        BY <1>0, <1>4 DEF Piece
      <4>2. PICK z \in 0..Len(rest) : z = 0
        BY <1>0
      <4>3. size \in z..Len(rest)
        BY <1>0, <1>4, <4>2
      <4>4. /\ Piece(rest, z, size) \in Seq(S) /\ Len(Piece(rest, z, size)) = size - z
            /\ \A x \in 1..(size - z) : Piece(rest, z, size)[x] = rest[z + x]
        BY <4>3, PieceType
      <4> QED BY <1>0, <4>1, <4>2, <4>4
    <3> HIDE DEF chunk
    <3>2. i = -1 \/ \E x \in 1..Len(chunk) : chunk[x] = "n" /\ i = x - 1
      BY <3>1, NewlineIs
    <3> QED BY <3>1, <3>2
  <2> HIDE DEF i
  <2>2. CASE i > size \div 2
    <3>1. PICK x \in 1..size : rest[x] = "n" /\ i = x - 1
      BY <1>0, <2>1, <2>2
    <3>2. p = i
      BY <1>0, <1>2, <1>4, <2>2
    <3> HIDE DEF p, k
    <3>3. p \in Nat /\ p < size /\ p < Len(rest) /\ p + 1 = x
      BY <1>0, <1>4, <3>1, <3>2
    <3>4. k = p + 1
      BY <1>1, <3>3
    <3> QED BY <1>0, <1>4, <2>2, <3>1, <3>2, <3>3, <3>4 DEF p, k
  <2>3. CASE ~(i > size \div 2)
    <3>1. p = size
      BY <1>0, <1>2, <1>4, <2>3
    <3> HIDE DEF p, k
    <3>2. k = p
      BY <1>0, <1>1, <3>1
    <3> QED BY <1>0, <1>4, <3>1, <3>2 DEF p, k
  <2> QED BY <2>2, <2>3
<1> QED BY <1>0, <1>3, <1>4

LEMMA PieceWithNext ==
  ASSUME NEW S, NEW t \in Seq(S), NEW k \in 1..Len(t)
  PROVE  Append(Piece(t, 0, k - 1), t[k]) = Piece(t, 0, k)
<1>0. Len(t) \in Nat
  BY LenProperties
<1>1. PICK z \in 0..Len(t) : z = 0
  BY <1>0
<1>2. PICK d \in z..Len(t) : d = k - 1
  <2>1. k - 1 \in z..Len(t)
    BY <1>0, <1>1
  <2> QED BY <2>1
<1>3. k \in z..Len(t)
  BY <1>0, <1>1
<1>4. /\ Piece(t, z, d) \in Seq(S) /\ Len(Piece(t, z, d)) = d - z
      /\ \A i \in 1..(d - z) : Piece(t, z, d)[i] = t[z + i]
  BY PieceType
<1>5. /\ Piece(t, z, k) \in Seq(S) /\ Len(Piece(t, z, k)) = k - z
      /\ \A i \in 1..(k - z) : Piece(t, z, k)[i] = t[z + i]
  BY <1>3, PieceType
<1> DEFINE a == Piece(t, z, d)
           b == Piece(t, z, k)
           w == Append(a, t[k])
<1>6. t[k] \in S
  BY ElementOfSeq
<1> HIDE DEF a, b
<1>7. a \in Seq(S) /\ Len(a) = k - 1 /\ \A i \in 1..(k - 1) : a[i] = t[i]
  BY <1>0, <1>1, <1>2, <1>4 DEF a
<1>8. b \in Seq(S) /\ Len(b) = k /\ \A i \in 1..k : b[i] = t[i]
  BY <1>0, <1>1, <1>5 DEF b
<1>9. w \in Seq(S) /\ Len(w) = k /\ w[k] = t[k] /\ \A i \in 1..(k - 1) : w[i] = a[i]
  BY <1>6, <1>7, AppendProperties
<1> HIDE DEF w
<1>10. \A i \in 1..k : w[i] = b[i]
  <2>1. \A i \in 1..k : i = k \/ i \in 1..(k - 1)
    BY <1>0
  <2> QED BY <1>7, <1>8, <1>9, <2>1
<1>11. w = b
  BY <1>8, <1>9, <1>10, SeqEqual
<1> QED BY <1>1, <1>2, <1>11 DEF w, a, b

(* These are the pages of a text.                                          *)
PagesOf(S, ps, rest, size) ==
  /\ ps \in Seq(Seq(S)) /\ Rejoined(ps, size) = rest /\ (ps = <<>> <=> rest = <<>>)
  /\ \A i \in 1..Len(ps) : Len(ps[i]) <= size
  /\ \A i \in 1..(Len(ps) - 1) : Len(ps[i]) > size \div 2

(* One page more before the pages of what remains.                         *)
LEMMA OnePageMore ==
  ASSUME NEW S, "n" \in S, NEW rest \in Seq(S), Len(rest) # 0, NEW size \in Nat \ {0}, NEW q,
         PagesOf(S, q, Piece(rest, Taken(rest, size), Len(rest)), size)
  PROVE  PagesOf(S, Cons(SubSeq(rest, 1, PageLength(rest, size)), q), rest, size)
<1> DEFINE p == PageLength(rest, size)
           k == Taken(rest, size)
           page == SubSeq(rest, 1, p)
           w == Cons(page, q)
<1>0. /\ Len(rest) \in Nat /\ p \in Nat /\ k \in Nat /\ p <= size /\ p <= Len(rest) /\ p <= k /\ k <= Len(rest)
      /\ (Len(rest) # 0 => k # 0)
      /\ (Len(rest) <= size => p = Len(rest) /\ k = p)
      /\ (Len(rest) > size => /\ p > size \div 2 /\ k < Len(rest)
                              /\ \/ p = size /\ k = p
                                 \/ p < size /\ k = p + 1 /\ rest[p + 1] = "n")
  BY PageIs, LenProperties
<1>1. /\ q \in Seq(Seq(S)) /\ Rejoined(q, size) = Piece(rest, k, Len(rest))
      /\ (q = <<>> <=> Piece(rest, k, Len(rest)) = <<>>)
      /\ \A i \in 1..Len(q) : Len(q[i]) <= size
      /\ \A i \in 1..(Len(q) - 1) : Len(q[i]) > size \div 2
      /\ Len(q) \in Nat /\ (q = <<>> <=> Len(q) = 0)
  BY LenProperties, EmptySeq DEF PagesOf
<1>2. size \in Nat /\ size # 0
  OBVIOUS
<1> HIDE DEF p, k
<1>3. page \in Seq(S) /\ Len(page) = p /\ page = Piece(rest, 0, p)
  <2>1. PICK z \in 0..Len(rest) : z = 0
    BY <1>0
  <2>2. p \in z..Len(rest)
    BY <1>0, <2>1
  <2>3. Piece(rest, z, p) \in Seq(S) /\ Len(Piece(rest, z, p)) = p - z
    BY <2>2, PieceType
  <2>4. page = Piece(rest, 0, p)
    BY DEF Piece
  <2> QED BY <1>0, <2>1, <2>3, <2>4
<1> HIDE DEF page
<1>4. /\ w \in Seq(Seq(S)) /\ Len(w) = Len(q) + 1 /\ w[1] = page
      /\ \A i \in 1..Len(q) : w[i + 1] = q[i]
      /\ Rejoined(w, size) = IF Len(q) = 0 THEN page ELSE WithNewline(page, size) \o Rejoined(q, size)
  <2>1. page \in Seq(S) /\ q \in Seq(Seq(S))
    BY <1>1, <1>3
  <2>2. Rejoined(Cons(page, q), size) = IF Len(q) = 0 THEN page ELSE WithNewline(page, size) \o Rejoined(q, size)
    BY <2>1, RejoinedFirst
  <2> DEFINE T == Seq(S)
  <2>3. page \in T /\ q \in Seq(T)
    BY <2>1
  <2> HIDE DEF T
  <2>4. /\ Cons(page, q) \in Seq(T) /\ Len(Cons(page, q)) = Len(q) + 1 /\ Cons(page, q)[1] = page
        /\ \A i \in 1..Len(q) : Cons(page, q)[i + 1] = q[i]
    BY <2>3, ConsIs
  <2> QED BY <2>2, <2>4 DEF T
<1> HIDE DEF w
<1>5. k \in 0..Len(rest) /\ Len(rest) \in k..Len(rest) /\ p \in 0..Len(rest) /\ k \in p..Len(rest)
  BY <1>0
<1>6. Len(Piece(rest, k, Len(rest))) = Len(rest) - k /\ Piece(rest, k, Len(rest)) \in Seq(S)
  <2>1. \A b \in k..Len(rest) : Len(Piece(rest, k, b)) = b - k /\ Piece(rest, k, b) \in Seq(S)
    BY <1>5, PieceType
  <2> QED BY <1>5, <2>1, Zenon
<1>7. Len(q) = 0 <=> k = Len(rest)
  <2>1. Piece(rest, k, Len(rest)) = <<>> <=> Len(rest) - k = 0
    BY <1>6, EmptySeq
  <2> QED BY <1>0, <1>1, <2>1
<1>8. IF Len(q) = 0 THEN k = p ELSE WithNewline(page, size) = Piece(rest, 0, k)
  <2>1. CASE k = p
    <3>1. Len(q) = 0 \/ ~(Len(page) < size)
      BY <1>0, <1>2, <1>3, <1>7, <2>1
    <3> QED BY <1>3, <2>1, <3>1 DEF WithNewline
  <2>2. CASE k # p
    <3>1. Len(q) # 0 /\ Len(page) < size /\ k = p + 1 /\ rest[p + 1] = "n"
      BY <1>0, <1>3, <1>7, <2>2
    <3>2. Append(page, "n") = Piece(rest, 0, k)
      <4>1. k \in 1..Len(rest) /\ k - 1 = p /\ rest[k] = "n"
        BY <1>0, <3>1
      <4>2. Append(Piece(rest, 0, k - 1), rest[k]) = Piece(rest, 0, k)
        BY <4>1, PieceWithNext
      <4> QED BY <1>3, <4>1, <4>2
    <3> QED BY <3>1, <3>2 DEF WithNewline
  <2> QED BY <2>1, <2>2
<1>9. Rejoined(w, size) = rest
  <2>1. Piece(rest, 0, k) \o Piece(rest, k, Len(rest)) = Piece(rest, 0, Len(rest))
    <3>1. PICK z \in 0..Len(rest) : z = 0
      BY <1>0
    <3>2. k \in z..Len(rest) /\ Len(rest) \in k..Len(rest)
      BY <1>5, <3>1
    <3>3. \A c \in k..Len(rest) : Piece(rest, z, k) \o Piece(rest, k, c) = Piece(rest, z, c)
      <4>1. k \in z..Len(rest)
        BY <3>2
      <4> QED BY <4>1, PieceJoin
    <3>4. Piece(rest, z, k) \o Piece(rest, k, Len(rest)) = Piece(rest, z, Len(rest))
      BY <3>2, <3>3, Zenon
    <3> QED BY <3>1, <3>4
  <2>2. Piece(rest, 0, Len(rest)) = rest
    BY PieceAll
  <2>3. CASE Len(q) = 0
    <3>1. k = Len(rest) /\ k = p /\ Rejoined(w, size) = page
      BY <1>4, <1>7, <1>8, <2>3
    <3> QED BY <1>3, <2>2, <3>1
  <2>4. CASE Len(q) # 0
    <3>1. Rejoined(w, size) = WithNewline(page, size) \o Rejoined(q, size)
      BY <1>4, <2>4
    <3>2. WithNewline(page, size) = Piece(rest, 0, k)
      BY <1>8, <2>4
    <3> QED BY <1>1, <2>1, <2>2, <3>1, <3>2
  <2> QED BY <2>3, <2>4
<1>10. ASSUME NEW i \in 1..Len(w) PROVE Len(w[i]) <= size /\ (i \in 1..(Len(w) - 1) => Len(w[i]) > size \div 2)
  <2>1. CASE i = 1
    <3>1. i \in 1..(Len(w) - 1) => Len(rest) > size
      BY <1>0, <1>1, <1>4, <1>7, <2>1
    <3> QED BY <1>0, <1>3, <1>4, <2>1, <3>1
  <2>2. CASE i # 1
    <3>1. PICK d \in 1..Len(q) : d + 1 = i
      <4>1. i - 1 \in 1..Len(q) /\ (i - 1) + 1 = i
        BY <1>1, <1>4, <2>2
      <4> QED BY <4>1
    <3>2. i \in 1..(Len(w) - 1) => d \in 1..(Len(q) - 1)
      BY <1>1, <1>4, <3>1
    <3> QED BY <1>1, <1>4, <3>1, <3>2
  <2> QED BY <2>1, <2>2
<1>11. w # <<>> /\ rest # <<>>
  BY <1>1, <1>4, EmptySeq
<1>12. \A i \in 1..(Len(w) - 1) : i \in 1..Len(w)
  BY <1>1, <1>4
<1>13. PagesOf(S, w, rest, size)
  BY <1>4, <1>9, <1>10, <1>11, <1>12 DEF PagesOf
<1> QED BY <1>13 DEF w, page, p

JumpsOn(n) == {j \in [1..n -> 1..(n + 1)] : \A i \in 1..n : i < j[i]}

(* Functions that are defined by going on from later numbers exist.        *)
LEMMA FunctionBack ==
  ASSUME NEW T, NEW n \in Nat, NEW a \in T, NEW step \in StepsOn(T, n), NEW jump \in JumpsOn(n)
  PROVE  \E f \in [1..(n + 1) -> T] : f[n + 1] = a /\ \A i \in 1..n : f[i] = step[i][f[jump[i]]]
<1> DEFINE Solves(f, k) == /\ f \in [1..(n + 1) -> T] /\ f[n + 1] = a
                           /\ \A i \in 1..n : i > n - k => f[i] = step[i][f[jump[i]]]
           P == {k \in Nat : k <= n => \E f : Solves(f, k)}
<1>0. step \in [1..n -> [T -> T]] /\ jump \in [1..n -> 1..(n + 1)] /\ \A i \in 1..n : i < jump[i]
  BY DEF StepsOn, JumpsOn
<1>1. 0 \in P
  <2>1. Solves([i \in 1..(n + 1) |-> a], 0)
    OBVIOUS
  <2> HIDE DEF Solves
  <2> QED BY <2>1
<1>2. ASSUME NEW k \in Nat, k + 1 <= n, NEW f, Solves(f, k) PROVE \E h : Solves(h, k + 1)
  <2>1. PICK m \in 1..n : m = n - k
    <3>1. n - k \in 1..n
      BY <1>2
    <3> QED BY <3>1
  <2>2. f \in [1..(n + 1) -> T] /\ f[n + 1] = a /\ \A i \in 1..n : i > m => f[i] = step[i][f[jump[i]]]
    BY <1>2, <2>1
  <2> DEFINE v == step[m][f[jump[m]]]
             h == [f EXCEPT ![m] = v]
  <2>3. v \in T
    <3>1. jump[m] \in 1..(n + 1) /\ step[m] \in [T -> T]
      BY <1>0
    <3> QED BY <2>2, <3>1
  <2>4. h \in [1..(n + 1) -> T] /\ h[m] = v /\ \A i \in 1..(n + 1) : i # m => h[i] = f[i]
    <3>1. m \in 1..(n + 1)
      OBVIOUS
    <3> HIDE DEF v
    <3> QED BY <2>2, <2>3, <3>1
  <2> HIDE DEF h
  <2>5. ASSUME NEW i \in 1..n, i > n - (k + 1) PROVE h[i] = step[i][h[jump[i]]]
    <3>1. i >= m
      BY <1>2, <2>1, <2>5
    <3>2. jump[i] \in 1..(n + 1) /\ jump[i] # m /\ h[jump[i]] = f[jump[i]]
      <4>1. jump[i] \in 1..(n + 1) /\ i < jump[i]
        BY <1>0
      <4>2. jump[i] # m
        BY <3>1, <4>1
      <4> QED BY <2>4, <4>1, <4>2
    <3>3. CASE i = m
      BY <2>4, <3>2, <3>3
    <3>4. CASE i # m
      <4>1. i > m /\ i \in 1..(n + 1)
        BY <3>1, <3>4
      <4> QED BY <2>2, <2>4, <3>2, <3>4, <4>1
    <3> QED BY <3>3, <3>4
  <2>6. h[n + 1] = a
    <3>1. n + 1 \in 1..(n + 1) /\ n + 1 # m
      BY <2>1
    <3> QED BY <2>2, <2>4, <3>1
  <2>7. Solves(h, k + 1)
    BY <2>4, <2>5, <2>6
  <2> HIDE DEF Solves
  <2> QED BY <2>7
<1>3. n \in P
  <2>1. \A k \in Nat : k \in P => k + 1 \in P
    <3> HIDE DEF Solves
    <3> QED BY <1>2
  <2> HIDE DEF P
  <2> QED BY <1>1, <2>1, SetInduction
<1>4. PICK f : Solves(f, n)
  <2> HIDE DEF Solves
  <2> QED BY <1>3
<1>5. \A i \in 1..n : i > n - n
  OBVIOUS
<1> QED BY <1>4, <1>5

(* The pages of a text that is too long for one.                           *)
Page(text, size, i) == SubSeq(SubSeq(text, i, Len(text)), 1, PageLength(SubSeq(text, i, Len(text)), size))
Following(text, size, i) == i + Taken(SubSeq(text, i, Len(text)), size)

LEMMA PagesSolved ==
  ASSUME NEW S, NEW text \in Seq(S), NEW size \in Nat \ {0}, Len(text) > size
  PROVE  \E g : /\ SplitPages(text, size) = g[1] /\ g[Len(text) + 1] = <<>>
                /\ \A i \in 1..Len(text) : g[i] = Cons(Page(text, size, i), g[Following(text, size, i)])
<1> DEFINE n == Len(text)
           Rest(i) == SubSeq(text, i, Len(text))
           Body(g) == [i \in 1..(Len(text) + 1) |->
                         IF Rest(i) = <<>> THEN <<>>
                         ELSE <<SubSeq(Rest(i), 1, PageLength(Rest(i), size))>> \o g[i + Taken(Rest(i), size)]]
<1>0. n \in Nat
  BY LenProperties
<1>1. \A i \in 1..n : Rest(i) \in Seq(S) /\ Len(Rest(i)) = n - i + 1 /\ Rest(i) # <<>>
  <2> TAKE i \in 1..n
  <2>1. PICK a \in 0..Len(text) : a = i - 1 /\ a + 1 = i
    <3>1. i - 1 \in 0..Len(text) /\ (i - 1) + 1 = i
      BY <1>0
    <3> QED BY <3>1
  <2>2. \A b \in a..Len(text) : Piece(text, a, b) \in Seq(S) /\ Len(Piece(text, a, b)) = b - a
    BY PieceType
  <2>3. Len(text) \in a..Len(text)
    BY <1>0
  <2>4. Piece(text, a, Len(text)) \in Seq(S) /\ Len(Piece(text, a, Len(text))) = Len(text) - a
    BY <2>2, <2>3, Zenon
  <2>5. Rest(i) = Piece(text, a, Len(text))
    BY <2>1 DEF Piece
  <2> HIDE DEF Rest
  <2>6. Rest(i) \in Seq(S) /\ Len(Rest(i)) = n - i + 1 /\ n - i + 1 # 0
    BY <1>0, <2>1, <2>4, <2>5
  <2> QED BY <2>6, EmptySeq
<1>2. Rest(n + 1) = <<>>
  <2>1. n + 1 > n
    BY <1>0
  <2> QED BY <1>0, <2>1, SubSeqEmpty
<1>3. \A i \in 1..n : /\ Following(text, size, i) = i + Taken(Rest(i), size)
                      /\ Following(text, size, i) \in 1..(n + 1) /\ i < Following(text, size, i)
  <2> TAKE i \in 1..n
  <2> DEFINE k == Taken(Rest(i), size)
  <2>1. k \in Nat /\ k <= Len(Rest(i)) /\ k # 0
    <3>1. Rest(i) \in Seq(S) /\ Len(Rest(i)) # 0
      BY <1>0, <1>1
    <3> HIDE DEF Rest
    <3> QED BY <3>1, PageIs
  <2>2. Following(text, size, i) = i + k
    BY DEF Following
  <2> HIDE DEF k
  <2>3. Len(Rest(i)) = n - i + 1
    BY <1>1
  <2> HIDE DEF Rest
  <2> QED BY <1>0, <2>1, <2>2, <2>3 DEF k
<1>4. \A g : Body(g) = [i \in 1..(n + 1) |->
                          IF i = n + 1 THEN <<>> ELSE Cons(Page(text, size, i), g[Following(text, size, i)])]
  <2> TAKE g
  <2>1. ASSUME NEW i \in 1..(n + 1)
        PROVE  (IF Rest(i) = <<>> THEN <<>>
                ELSE <<SubSeq(Rest(i), 1, PageLength(Rest(i), size))>> \o g[i + Taken(Rest(i), size)])
               = IF i = n + 1 THEN <<>> ELSE Cons(Page(text, size, i), g[Following(text, size, i)])
    <3>1. CASE i = n + 1
      BY <1>2, <3>1
    <3>2. CASE i # n + 1
      <4>1. i \in 1..n
        BY <1>0, <3>2
      <4>2. Rest(i) # <<>>
        BY <1>1, <4>1
      <4>3. Cons(Page(text, size, i), g[Following(text, size, i)])
              = <<SubSeq(Rest(i), 1, PageLength(Rest(i), size))>> \o g[i + Taken(Rest(i), size)]
        BY DEF Cons, Page, Following
      <4> QED BY <3>2, <4>2, <4>3
    <3> QED BY <3>1, <3>2
  <2> QED BY <2>1
<1> DEFINE T == Seq(Seq(S))
           step == [i \in 1..n |-> [v \in T |-> Cons(Page(text, size, i), v)]]
           jump == [i \in 1..n |-> Following(text, size, i)]
<1>5. \A i \in 1..n : Page(text, size, i) \in Seq(S)
  <2> TAKE i \in 1..n
  <2>1. Rest(i) \in Seq(S) /\ Page(text, size, i) = SubSeq(Rest(i), 1, PageLength(Rest(i), size))
    BY <1>1 DEF Page
  <2> DEFINE r == Rest(i)
             p == PageLength(r, size)
  <2>2. p \in Nat /\ p <= Len(r) /\ r \in Seq(S) /\ Page(text, size, i) = SubSeq(r, 1, p)
    <3>1. r \in Seq(S)
      BY <2>1
    <3> HIDE DEF r
    <3>2. PageLength(r, size) \in Nat /\ PageLength(r, size) <= Len(r)
      BY <3>1, PageIs
    <3> QED BY <2>1, <3>1, <3>2 DEF r
  <2> HIDE DEF r, p
  <2>3. PICK z \in 0..Len(r) : z = 0 /\ z + 1 = 1
    BY <2>2, LenProperties
  <2>4. p \in z..Len(r) /\ r \in Seq(S)
    BY <2>2, <2>3, LenProperties
  <2>5. Piece(r, z, p) \in Seq(S)
    BY <2>4, PieceType
  <2> QED BY <2>2, <2>3, <2>5 DEF Piece
<1>6. /\ step \in [1..n -> [T -> T]] /\ jump \in [1..n -> 1..(n + 1)]
      /\ \A i \in 1..n : i < jump[i]
      /\ \A i \in 1..n : \A v \in T : step[i][v] = Cons(Page(text, size, i), v)
      /\ \A i \in 1..n : jump[i] = Following(text, size, i)
  <2>1. \A i \in 1..n : \A v \in T : Cons(Page(text, size, i), v) \in T
    <3> DEFINE L == Seq(S)
    <3>1. \A p \in L : \A v \in Seq(L) : Cons(p, v) \in Seq(L)
      <4> HIDE DEF L
      <4> QED BY ConsIs
    <3> QED BY <1>5, <3>1
  <2> HIDE DEF T
  <2> QED BY <1>3, <2>1
<1>7. <<>> \in T
  BY EmptySeq
<1>8. PICK f \in [1..(n + 1) -> T] : f[n + 1] = <<>> /\ \A i \in 1..n : f[i] = step[i][f[jump[i]]]
  <2> DEFINE a == <<>>
  <2>1. a \in T
    BY <1>7
  <2>2. n \in Nat /\ step \in StepsOn(T, n) /\ jump \in JumpsOn(n)
    BY <1>0, <1>6 DEF StepsOn, JumpsOn
  <2> HIDE DEF n, T, step, jump, a
  <2>3. \E f \in [1..(n + 1) -> T] : f[n + 1] = a /\ \A i \in 1..n : f[i] = step[i][f[jump[i]]]
    BY <2>1, <2>2, FunctionBack
  <2> QED BY <2>3 DEF a
<1>9. \A i \in 1..n : f[i] = Cons(Page(text, size, i), f[Following(text, size, i)])
  <2> TAKE i \in 1..n
  <2>1. jump[i] = Following(text, size, i) /\ Following(text, size, i) \in 1..(n + 1)
    BY <1>3, <1>6
  <2> HIDE DEF T, step, jump
  <2>2. f[Following(text, size, i)] \in T
    BY <2>1
  <2> QED BY <1>6, <1>8, <2>1, <2>2
<1>10. f = Body(f)
  <2>1. \A i \in 1..(n + 1) : f[i] = IF i = n + 1 THEN <<>> ELSE Cons(Page(text, size, i), f[Following(text, size, i)])
    <3>1. \A i \in 1..(n + 1) : i # n + 1 => i \in 1..n
      <4> HIDE DEF n
      <4> QED BY <1>0
    <3> QED BY <1>8, <1>9, <3>1
  <2> HIDE DEF Body, T
  <2>2. f = [i \in 1..(n + 1) |-> IF i = n + 1 THEN <<>> ELSE Cons(Page(text, size, i), f[Following(text, size, i)])]
    BY <2>1
  <2> QED BY <1>4, <2>2
<1>11. PICK g : g = Body(g) /\ SplitPages(text, size) = g[1]
  <2>1. SplitPages(text, size) = (CHOOSE g : g = Body(g))[1]
    <3>1. ~(Len(text) <= size)
      BY <1>0
    <3> QED BY <3>1 DEF SplitPages
  <2> HIDE DEF Body
  <2> QED BY <1>10, <2>1
<1>12. g = [i \in 1..(n + 1) |-> IF i = n + 1 THEN <<>> ELSE Cons(Page(text, size, i), g[Following(text, size, i)])]
  <2> HIDE DEF Body
  <2> QED BY <1>4, <1>11
<1>13. g[n + 1] = <<>> /\ \A i \in 1..n : g[i] = Cons(Page(text, size, i), g[Following(text, size, i)])
  <2>1. n + 1 \in 1..(n + 1) /\ \A i \in 1..n : i \in 1..(n + 1) /\ i # n + 1
    BY <1>0
  <2>2. \A i \in 1..(n + 1) : g[i] = IF i = n + 1 THEN <<>> ELSE Cons(Page(text, size, i), g[Following(text, size, i)])
    BY <1>12
  <2> QED BY <2>1, <2>2
<1> QED BY <1>11, <1>13

(* The pages of every end of the text, the later ends first.               *)
LEMMA PagesFound ==
  ASSUME NEW S, "n" \in S, NEW text \in Seq(S), NEW size \in Nat \ {0}, Len(text) > size
  PROVE  PagesOf(S, SplitPages(text, size), text, size)
<1> DEFINE n == Len(text)
<1>0. n \in Nat /\ n # 0
  BY LenProperties
<1>1. PICK g : /\ SplitPages(text, size) = g[1] /\ g[n + 1] = <<>>
               /\ \A i \in 1..n : g[i] = Cons(Page(text, size, i), g[Following(text, size, i)])
  BY PagesSolved
<1> DEFINE Found(i) == PagesOf(S, g[i], SubSeq(text, i, n), size)
           P == {k \in Nat : \A i \in 1..(n + 1) : i > n - k => Found(i)}
<1>2. 0 \in P
  <2> SUFFICES ASSUME NEW i \in 1..(n + 1), i > n - 0 PROVE Found(i)
    OBVIOUS
  <2>1. i = n + 1
    BY <1>0
  <2>2. SubSeq(text, i, n) = <<>>
    <3>1. i \in Int /\ n \in Int /\ i > n
      BY <1>0, <2>1
    <3> QED BY <3>1, SubSeqEmpty
  <2>3. Rejoined(<<>>, size) = <<>> /\ <<>> \in Seq(Seq(S)) /\ Len(<<>>) = 0
    BY RejoinedNone, EmptySeq
  <2>4. PagesOf(S, <<>>, <<>>, size)
    BY <2>3 DEF PagesOf
  <2> QED BY <1>1, <2>1, <2>2, <2>4
<1>3. ASSUME NEW k \in Nat, k \in P PROVE k + 1 \in P
  <2> SUFFICES ASSUME NEW i \in 1..(n + 1), i > n - (k + 1) PROVE Found(i)
    OBVIOUS
  <2>1. CASE i > n - k
    BY <1>3, <2>1
  <2>2. CASE ~(i > n - k)
    <3>1. i = n - k /\ i \in 1..n
      BY <1>0, <2>2
    <3>2. PICK a \in 0..n : a = i - 1 /\ a + 1 = i
      <4>1. i - 1 \in 0..n /\ (i - 1) + 1 = i
        BY <1>0, <3>1
      <4> QED BY <4>1
    <3> DEFINE rest == SubSeq(text, i, n)
               t == Taken(rest, size)
    <3>3. rest = Piece(text, a, n)
      BY <3>2 DEF Piece
    <3>4. rest \in Seq(S) /\ Len(rest) = n - a /\ n - a # 0
      <4>1. \A b \in a..Len(text) : Piece(text, a, b) \in Seq(S) /\ Len(Piece(text, a, b)) = b - a
        BY PieceType
      <4>2. n \in a..Len(text) /\ n - a # 0
        BY <1>0, <3>1, <3>2
      <4> HIDE DEF n, rest
      <4> QED BY <3>3, <4>1, <4>2
    <3> HIDE DEF rest
    <3>5. t \in Nat /\ t <= Len(rest) /\ t # 0
      BY <3>4, PageIs
    <3>6. Following(text, size, i) = i + t /\ Page(text, size, i) = SubSeq(rest, 1, PageLength(rest, size))
      BY DEF Following, Page, rest
    <3> HIDE DEF t
    <3>7. PICK j \in 1..(n + 1) : j = i + t /\ j > n - k
      <4>1. i + t \in 1..(n + 1) /\ i + t > n - k
        BY <1>0, <3>1, <3>2, <3>4, <3>5
      <4> QED BY <4>1
    <3>8. PagesOf(S, g[j], SubSeq(text, j, n), size)
      BY <1>3, <3>7
    <3>9. SubSeq(text, j, n) = Piece(rest, t, Len(rest))
      <4>1. \A x \in 0..(n - a) : \A y \in x..(n - a) : Piece(Piece(text, a, n), x, y) = Piece(text, a + x, a + y)
        <5>1. \A b \in a..Len(text) : \A x \in 0..(b - a) : \A y \in x..(b - a) :
                Piece(Piece(text, a, b), x, y) = Piece(text, a + x, a + y)
          BY PieceOfPiece
        <5>2. n \in a..Len(text)
          BY <1>0
        <5> QED BY <5>1, <5>2, Zenon
      <4>2. PICK y \in t..(n - a) : y = Len(rest) /\ a + y = n /\ t \in 0..(n - a)
        <5>1. Len(rest) \in t..(n - a) /\ a + Len(rest) = n /\ t \in 0..(n - a)
          BY <1>0, <3>2, <3>4, <3>5
        <5> QED BY <5>1
      <4>3. Piece(rest, t, y) = Piece(text, a + t, a + y)
        BY <3>3, <4>1, <4>2
      <4>4. a + t + 1 = j
        BY <3>2, <3>5, <3>7
      <4> QED BY <4>2, <4>3, <4>4 DEF Piece
    <3>10. PagesOf(S, g[j], Piece(rest, t, Len(rest)), size) /\ Len(rest) # 0
      BY <3>4, <3>8, <3>9
    <3>11. PagesOf(S, Cons(SubSeq(rest, 1, PageLength(rest, size)), g[j]), rest, size)
      BY <3>4, <3>10, OnePageMore DEF t
    <3>12. g[i] = Cons(SubSeq(rest, 1, PageLength(rest, size)), g[j])
      BY <1>1, <3>1, <3>6, <3>7
    <3> QED BY <3>11, <3>12 DEF rest
  <2> QED BY <2>1, <2>2
<1>4. n \in P
  <2>1. \A k \in Nat : k \in P => k + 1 \in P
    BY <1>3
  <2> HIDE DEF P
  <2> QED BY <1>0, <1>2, <2>1, SetInduction
<1>5. PICK x \in 1..(n + 1) : x = 1
  BY <1>0
<1>6. x > n - n
  BY <1>0, <1>5
<1>7. Found(x)
  BY <1>4, <1>6
<1>8. SubSeq(text, x, n) = text
  BY <1>5, SubSeqFull
<1> QED BY <1>1, <1>5, <1>7, <1>8

(* A text in pages, of any size, is whole.                                 *)
LEMMA PagesWhole ==
  ASSUME NEW S, "n" \in S, NEW text \in Seq(S), NEW size \in Nat \ {0}
  PROVE  WellPaged(text, size)
<1> DEFINE ps == SplitPages(text, size)
<1>0. Len(text) \in Nat /\ size \in Nat
  BY LenProperties
<1>1. /\ ps \in Seq(Seq(S)) /\ Rejoined(ps, size) = text
      /\ \A i \in 1..Len(ps) : Len(ps[i]) <= size
      /\ \A i \in 1..(Len(ps) - 1) : Len(ps[i]) > size \div 2
  <2>1. CASE Len(text) > size
    BY <2>1, PagesFound DEF PagesOf
  <2>2. CASE ~(Len(text) > size)
    <3>1. ps = <<text>>
      BY <1>0, <2>2 DEF SplitPages
    <3>2. <<text>> \in Seq(Seq(S)) /\ Len(<<text>>) = 1 /\ (<<text>>)[1] = text
      OBVIOUS
    <3> HIDE DEF ps
    <3> DEFINE e == Ended(ps, size)
    <3>3. ps \in Seq(Seq(S)) /\ Len(ps) = 1 /\ ps[1] = text
      BY <3>1, <3>2
    <3>4. Rejoined(ps, size) = FlattenSeq(e) /\ e \in Seq(Seq(S)) /\ Len(e) = 1 /\ e[1] = text
      <4>1. 1 \in 1..Len(ps) /\ ~(1 < Len(ps))
        BY <3>3
      <4>2. /\ Rejoined(ps, size) = FlattenSeq(e) /\ e \in Seq(Seq(S)) /\ Len(e) = Len(ps)
            /\ \A i \in 1..Len(ps) : e[i] = IF i < Len(ps) THEN WithNewline(ps[i], size) ELSE ps[i]
        <5>1. ps \in Seq(Seq(S))
          BY <3>3
        <5> QED BY <5>1, EndedAre, SMTT(30)
      <4> HIDE DEF e
      <4> QED BY <3>3, <4>1, <4>2
    <3> HIDE DEF e
    <3>5. PICK f \in [0..Len(e) -> Seq(S)] :
            f[0] = <<>> /\ FlattenSeq(e) = f[Len(e)] /\ \A i \in 1..Len(e) : f[i] = f[i - 1] \o e[i]
      BY <3>4, FlattenAlong
    <3>6. f[1] = f[0] \o e[1] /\ FlattenSeq(e) = f[1]
      <4>1. 1 \in 1..Len(e) /\ 1 - 1 = 0
        BY <3>4
      <4> QED BY <3>4, <3>5, <4>1
    <3>7. <<>> \o text = text
      BY ConcatEmptySeq
    <3>8. Rejoined(ps, size) = text
      BY <3>4, <3>5, <3>6, <3>7
    <3>9. \A i \in 1..Len(ps) : i = 1
      BY <3>3
    <3>10. \A i \in 1..(Len(ps) - 1) : FALSE
      BY <3>3
    <3> QED BY <1>0, <2>2, <3>3, <3>8, <3>9, <3>10
  <2> QED BY <2>1, <2>2
<1> HIDE DEF ps
<1>2. Len(ps) \in Nat
  BY <1>1, LenProperties
<1>3. \A i \in 1..Len(ps) : GetPage(ps, i) = ps[i]
  <2> TAKE i \in 1..Len(ps)
  <2>1. ~(i - 1 < 0) /\ ~(i - 1 > Len(ps) - 1) /\ (i - 1) + 1 = i
    BY <1>2
  <2> QED BY <2>1 DEF GetPage
<1>4. \A i \in 1..(Len(ps) - 1) : i + 1 \in Buttons(i, Len(ps)) /\ i \in Buttons(i + 1, Len(ps))
  <2> TAKE i \in 1..(Len(ps) - 1)
  <2>1. i + 1 \in 1..Len(ps) /\ i \in 1..Len(ps) /\ i = (i + 1) - 1
    BY <1>2
  <2> QED BY <2>1 DEF Buttons
<1> QED BY <1>1, <1>3, <1>4 DEF WellPaged, ps

(* What a command prints is whole in pages of every size: nothing lost or  *)
(* twice at a boundary, no page too long, none before the last less than   *)
(* half full (_split_pages in paging.py).  It holds for every text, so it  *)
(* needs nothing of the parser but that printed does not change.           *)
THEOREM PagesAreWholeHolds == Spec => []PagesAreWhole
<1>1. ParserInv => PagesAreWhole
  <2> SUFFICES ASSUME printed \in Printed, NEW size \in 1..MaxPage PROVE WellPaged(printed, size)
    BY DEF ParserInv, PagesAreWhole
  <2>1. printed \in Seq(Symbols) /\ "n" \in Symbols /\ size \in Nat \ {0}
    BY PrintedIs, BoundsAssumption DEF Symbols
  <2> QED BY <2>1, PagesWhole
<1> QED BY <1>1, ParserHolds, PTL
=============================================================================
