---------------------------- MODULE DataInduction ----------------------------
(***************************************************************************)
(* Induction on the natural numbers, stated of a set instead of a          *)
(* predicate, and with it what FlattenSeq of the community modules, a      *)
(* recursive function, computes for every sequence of sequences.           *)
(***************************************************************************)
EXTENDS Naturals, Sequences, SequencesExt, SequenceTheorems,
        WellFoundedInduction, TLAPS

\* A set that has 0, and the successor of every number in it, has them all:
\* the smallest number outside it would have a predecessor outside it.
LEMMA SetInduction ==
    ASSUME NEW S, 0 \in S, \A n \in Nat : n \in S => n + 1 \in S
    PROVE  \A n \in Nat : n \in S
<1> SUFFICES ASSUME Nat \ S # {} PROVE FALSE
  OBVIOUS
<1>1. PICK R : R = OpToRel(<, Nat)
  OBVIOUS
<1>2. R = {ss \in Nat \X Nat : ss[1] < ss[2]}
  BY <1>1 DEF OpToRel
<1>3. IsWellFoundedOn(R, Nat)
  BY <1>1, NatLessThanWellFounded
<1>4. PICK x \in Nat \ S : \A y \in Nat \ S : ~(<<y, x>> \in R)
  <2>1. Nat \ S \subseteq Nat
    OBVIOUS
  <2> QED
    BY <1>3, <2>1, WFMin
<1>5. x - 1 \in Nat
  BY <1>4
<1>6. <<x - 1, x>> \in R
  BY <1>2, <1>5
<1>7. x - 1 \in S
  BY <1>4, <1>5, <1>6
<1> QED
  BY <1>5, <1>7

\* A function on 1..n is a sequence of length n.
LEMMA FunctionIsSeq ==
    ASSUME NEW S, NEW n \in Nat, NEW f \in [1..n -> S]
    PROVE  f \in Seq(S) /\ Len(f) = n
<1>1. f \in Seq(S) /\ DOMAIN f = 1..n
  OBVIOUS
<1>2. Len(f) \in Nat /\ DOMAIN f = 1..Len(f)
  BY <1>1
<1>3. Len(f) = n
  BY <1>1, <1>2
<1> QED
  BY <1>1, <1>3

LEMMA TailFacts ==
    ASSUME NEW S, NEW s \in Seq(S), Len(s) > 1
    PROVE  /\ Tail(s) \in Seq(S) /\ Tail(s) # <<>> /\ Len(Tail(s)) = Len(s) - 1
           /\ \A i \in 1..(Len(s) - 1) : Tail(s)[i] = s[i + 1]
<1>1. Len(s) \in Nat /\ s # <<>>
  OBVIOUS
<1>2. PICK r : r = Tail(s)
  OBVIOUS
<1>3. /\ r \in Seq(S) /\ Len(r) = Len(s) - 1
      /\ \A i \in 1..Len(r) : r[i] = s[i + 1]
  BY <1>1, <1>2, HeadTailProperties, Zenon
<1>4. r # <<>>
  BY <1>1, <1>3
<1> QED
  BY <1>2, <1>3, <1>4

\* s agrees with t as far as it goes.
Agrees(s, t) == Len(s) <= Len(t) /\ \A i \in 1..Len(s) : s[i] = t[i]

\* Then it is its prefix, and t itself if it goes as far.
LEMMA SamePrefix ==
    ASSUME NEW S, NEW s \in Seq(S), NEW t \in Seq(S), Agrees(s, t)
    PROVE  IsPrefix(s, t) /\ (Len(s) = Len(t) => s = t)
<1>0. Len(s) <= Len(t) /\ \A i \in 1..Len(s) : s[i] = t[i]
  BY DEF Agrees
<1>1. Len(s) \in Nat /\ Len(t) \in Nat
  OBVIOUS
<1>2. SubSeq(s, 1, Len(s)) = s
  BY SubSeqFull
<1>3. SubSeq(t, 1, Len(s)) \in Seq(S) /\ Len(SubSeq(t, 1, Len(s))) = Len(s)
  BY <1>0, <1>1
<1>4. \A i \in 1..Len(s) : SubSeq(t, 1, Len(s))[i] = t[i]
  BY <1>0, <1>1
<1>5. SubSeq(t, 1, Len(s)) = s
  BY <1>0, <1>3, <1>4, SeqEqual
<1>6. Len(s) = Len(t) => s = t
  BY <1>0, SeqEqual
<1> QED
  BY <1>0, <1>2, <1>5, <1>6 DEF IsPrefix

-----------------------------------------------------------------------------
(* FlattenSeq *)

\* g[i] is what the first i sequences give, one after the other.
Flattens(g, seqs, n) ==
    /\ g[1] = seqs[1]
    /\ \A i \in 2..n : g[i] = g[i - 1] \o seqs[i]

LEMMA FlatteningExists ==
    ASSUME NEW S, NEW seqs \in Seq(Seq(S)), Len(seqs) # 0
    PROVE  \E g \in [1..Len(seqs) -> Seq(S)] : Flattens(g, seqs, Len(seqs))
<1> DEFINE D == {n \in Nat : n + 1 <= Len(seqs) =>
                    \E g \in [1..(n + 1) -> Seq(S)] : Flattens(g, seqs, n + 1)}
<1>0. /\ Len(seqs) \in Nat /\ DOMAIN seqs = 1..Len(seqs)
      /\ \A i \in 1..Len(seqs) : seqs[i] \in Seq(S)
  OBVIOUS
<1>1. 0 \in D
  <2>1. [i \in 1..1 |-> seqs[1]] \in [1..1 -> Seq(S)]
    BY <1>0
  <2>2. Flattens([i \in 1..1 |-> seqs[1]], seqs, 1)
    BY DEF Flattens
  <2> QED
    BY <2>1, <2>2
<1>2. ASSUME NEW n \in Nat, n \in D PROVE n + 1 \in D
  <2> SUFFICES ASSUME n + 2 <= Len(seqs)
               PROVE  \E g \in [1..(n + 2) -> Seq(S)] : Flattens(g, seqs, n + 2)
    OBVIOUS
  <2>1. n + 1 <= Len(seqs)
    BY <1>0
  <2>2. PICK g \in [1..(n + 1) -> Seq(S)] : Flattens(g, seqs, n + 1)
    BY <1>2, <2>1
  <2>3. PICK v : v = g[n + 1] \o seqs[n + 2]
    OBVIOUS
  <2>4. v \in Seq(S)
    <3>1. g[n + 1] \in Seq(S) /\ seqs[n + 2] \in Seq(S)
      BY <1>0, <2>2
    <3> QED
      BY <2>3, <3>1
  <2>5. PICK h : h = [i \in 1..(n + 2) |-> IF i = n + 2 THEN v ELSE g[i]]
    OBVIOUS
  <2>6. h \in [1..(n + 2) -> Seq(S)]
    BY <2>2, <2>4, <2>5
  <2>7. Flattens(h, seqs, n + 2)
    <3>1. h[1] = seqs[1]
      BY <2>2, <2>5 DEF Flattens
    <3>2. ASSUME NEW i \in 2..(n + 2) PROVE h[i] = h[i - 1] \o seqs[i]
      <4>1. CASE i = n + 2
        <5>1. h[i] = v /\ h[i - 1] = g[n + 1]
          BY <2>5, <4>1
        <5> QED
          BY <2>3, <4>1, <5>1
      <4>2. CASE i # n + 2
        <5>1. h[i] = g[i] /\ h[i - 1] = g[i - 1] /\ i \in 2..(n + 1)
          BY <2>5, <4>2
        <5> QED
          BY <2>2, <5>1 DEF Flattens
      <4> QED
        BY <4>1, <4>2
    <3> QED
      BY <3>1, <3>2 DEF Flattens
  <2> QED
    BY <2>6, <2>7
<1>3. \A n \in Nat : n \in D
  <2> HIDE DEF D
  <2> QED
    BY <1>1, <1>2, SetInduction
<1>4. PICK n \in Nat : n + 1 = Len(seqs)
  <2>1. Len(seqs) - 1 \in Nat /\ (Len(seqs) - 1) + 1 = Len(seqs)
    BY <1>0
  <2> QED
    BY <2>1
<1>5. n \in D
  BY <1>3
<1> QED
  BY <1>4, <1>5

\* The function that FlattenSeq is defined with
Flat(seqs) ==
    CHOOSE f : f = [i \in 1..Len(seqs) |-> IF i = 1 THEN seqs[i] ELSE f[i - 1] \o seqs[i]]

\* FlattenSeq is the last of these, for there is only one such function.
LEMMA FlattenSeqFlattens ==
    ASSUME NEW S, NEW seqs \in Seq(Seq(S)), Len(seqs) # 0
    PROVE  \E g \in [1..Len(seqs) -> Seq(S)] :
              Flattens(g, seqs, Len(seqs)) /\ FlattenSeq(seqs) = g[Len(seqs)]
<1> DEFINE L == Len(seqs)
           f == Flat(seqs)
<1>0. L \in Nat \ {0}
  OBVIOUS
<1>1. PICK g \in [1..L -> Seq(S)] : Flattens(g, seqs, L)
  BY FlatteningExists
<1>2. g = [i \in 1..L |-> IF i = 1 THEN seqs[i] ELSE g[i - 1] \o seqs[i]]
  <2>1. ASSUME NEW i \in 1..L
        PROVE  g[i] = IF i = 1 THEN seqs[i] ELSE g[i - 1] \o seqs[i]
    <3>1. CASE i = 1
      BY <1>1, <3>1 DEF Flattens
    <3>2. CASE i # 1
      <4>1. i \in 2..L
        BY <1>0, <3>2
      <4>2. g[i] = g[i - 1] \o seqs[i]
        BY <1>1, <4>1 DEF Flattens
      <4> QED
        BY <3>2, <4>2
    <3> QED
      BY <3>1, <3>2
  <2> QED
    BY <1>1, <2>1
<1>3. f = [i \in 1..L |-> IF i = 1 THEN seqs[i] ELSE f[i - 1] \o seqs[i]]
  BY <1>2 DEF Flat
<1> DEFINE D == {n \in Nat : n + 1 <= L => f[n + 1] = g[n + 1]}
<1> HIDE DEF f
<1>4. 0 \in D
  BY <1>0, <1>1, <1>3 DEF Flattens
<1>5. ASSUME NEW n \in Nat, n \in D PROVE n + 1 \in D
  <2> SUFFICES ASSUME n + 2 <= L PROVE f[n + 2] = g[n + 2]
    OBVIOUS
  <2>1. n + 1 <= L /\ n + 2 \in 2..L /\ n + 2 # 1 /\ (n + 2) - 1 = n + 1
    BY <1>0
  <2>2. f[n + 2] = f[n + 1] \o seqs[n + 2]
    <3>1. PICK j \in 1..L : j = n + 2 /\ j # 1 /\ j - 1 = n + 1
      BY <1>0, <2>1
    <3>2. f[j] = IF j = 1 THEN seqs[j] ELSE f[j - 1] \o seqs[j]
      BY <1>3
    <3>3. f[j] = f[j - 1] \o seqs[j]
      BY <3>1, <3>2
    <3> QED
      BY <3>1, <3>3
  <2>3. g[n + 2] = g[n + 1] \o seqs[n + 2]
    BY <1>1, <2>1 DEF Flattens
  <2> QED
    BY <1>5, <2>1, <2>2, <2>3
<1>6. \A n \in Nat : n \in D
  <2> HIDE DEF D
  <2> QED
    BY <1>4, <1>5, SetInduction
<1>7. f[L] = g[L]
  <2>1. PICK n \in Nat : n + 1 = L
    <3>1. L - 1 \in Nat /\ (L - 1) + 1 = L
      BY <1>0
    <3> QED
      BY <3>1
  <2> QED
    BY <1>6, <2>1
<1>8. FlattenSeq(seqs) = f[L]
  BY DEF FlattenSeq, Flat, f
<1> QED
  BY <1>1, <1>7, <1>8

=============================================================================
