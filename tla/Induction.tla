------------------------------ MODULE Induction ------------------------------
(***************************************************************************)
(* Induction over the natural numbers for proofs about recursive           *)
(* functions and sequences.  It is stated for a set of numbers, those for  *)
(* which the fact holds, and not for a predicate.  With it, what the       *)
(* recursive FlattenSeq does to a sequence of sequences that grows; what   *)
(* the map of a function over a sequence (FlatMap), a filter (Chosen) or a *)
(* fold (Fold) makes of one; how a sequence is taken apart into beginnings *)
(* and what is behind them; and that its elements can be put in order.     *)
(***************************************************************************)
EXTENDS Integers, Sequences, SequencesExt, SequenceTheorems, WellFoundedInduction, FiniteSetTheorems, TLAPS

\* Every set of natural numbers but the empty one has a least element.
LEMMA LeastNat ==
    ASSUME NEW T \in SUBSET Nat, T # {}
    PROVE  \E n \in T : \A m \in T : n <= m
<1> DEFINE R == OpToRel(<, Nat)
<1>1. IsWellFoundedOn(R, Nat)
  BY NatLessThanWellFounded
<1>2. PICK x \in T : \A y \in T : ~ (<<y, x>> \in R)
  <2> HIDE DEF R
  <2> QED BY <1>1, WFMin
<1>3. \A y \in T : ~(y < x)
  BY <1>2 DEF OpToRel
<1> QED BY <1>3

\* What holds of 0 and passes from a number to the next holds of them all.
LEMMA SetInduction ==
    ASSUME NEW T, 0 \in T, \A n \in Nat : n \in T => n + 1 \in T
    PROVE  Nat \subseteq T
<1> DEFINE M == Nat \ T
<1>1. SUFFICES ASSUME M # {} PROVE FALSE
  OBVIOUS
<1>2. PICK n \in M : \A m \in M : n <= m
  <2> HIDE DEF M
  <2>1. M \in SUBSET Nat
    BY DEF M
  <2> QED BY <1>1, <2>1, LeastNat
<1>3. n # 0 /\ n - 1 \in Nat /\ n - 1 \notin M
  BY <1>2
<1> QED BY <1>3

\* The sums of the first numbers of a list are a function of how many.
LEMMA PrefixSumsExist ==
    ASSUME NEW N \in Nat, NEW s \in [1 .. N -> Nat]
    PROVE  \E f \in [0 .. N -> Nat] :
              f = [i \in 0 .. N |-> IF i = 0 THEN 0 ELSE f[i - 1] + s[i]]
<1> DEFINE Begun(n) == \E f \in [0 .. n -> Nat] :
                          f[0] = 0 /\ \A i \in 1 .. n : f[i] = f[i - 1] + s[i]
           T == {n \in Nat : n <= N => Begun(n)}
<1>1. 0 \in T
  <2>1. [i \in 0 .. 0 |-> 0] \in [0 .. 0 -> Nat] /\ 1 .. 0 = {}
    OBVIOUS
  <2>2. Begun(0)
    <3> WITNESS [i \in 0 .. 0 |-> 0] \in [0 .. 0 -> Nat]
    <3> QED BY <2>1
  <2> QED BY <2>2
<1>2. ASSUME NEW n \in Nat, n \in T PROVE n + 1 \in T
  <2> SUFFICES ASSUME n + 1 <= N PROVE Begun(n + 1)
    <3> HIDE DEF Begun
    <3> QED OBVIOUS
  <2>1. PICK f \in [0 .. n -> Nat] :
           f[0] = 0 /\ \A i \in 1 .. n : f[i] = f[i - 1] + s[i]
    <3>1. Begun(n)
      <4> HIDE DEF Begun
      <4> QED BY <1>2
    <3> QED BY <3>1
  <2> DEFINE g == [i \in 0 .. n + 1 |-> IF i = n + 1 THEN f[n] + s[n + 1] ELSE f[i]]
  <2>2. g \in [0 .. n + 1 -> Nat] /\ g[0] = 0
    <3>1. f[n] \in Nat /\ s[n + 1] \in Nat /\ 0 # n + 1
      BY <2>1
    <3> QED BY <2>1, <3>1
  <2>3. ASSUME NEW i \in 1 .. n + 1 PROVE g[i] = g[i - 1] + s[i]
    <3>1. i - 1 \in 0 .. n /\ g[i - 1] = f[i - 1]
      OBVIOUS
    <3>2. CASE i = n + 1
      <4>1. g[i] = f[n] + s[n + 1] /\ i - 1 = n
        BY <3>2
      <4> QED BY <3>1, <3>2, <4>1
    <3>3. CASE i \in 1 .. n
      <4>1. g[i] = f[i]
        BY <3>3
      <4> QED BY <2>1, <3>1, <3>3, <4>1
    <3> QED BY <3>2, <3>3
  <2> HIDE DEF g
  <2> QED BY <2>2, <2>3
<1>3. Begun(N)
  <2>1. Nat \subseteq T
    <3> HIDE DEF T
    <3> QED BY <1>1, <1>2, SetInduction
  <2>2. \A n \in Nat : n \in T /\ n <= N => Begun(n)
    OBVIOUS
  <2> HIDE DEF T, Begun
  <2> QED BY <2>1, <2>2
<1>4. PICK f \in [0 .. N -> Nat] :
         f[0] = 0 /\ \A i \in 1 .. N : f[i] = f[i - 1] + s[i]
  BY <1>3
<1>5. f = [i \in 0 .. N |-> IF i = 0 THEN 0 ELSE f[i - 1] + s[i]]
  BY <1>4
<1> QED BY <1>5

-----------------------------------------------------------------------------
(***************************************************************************)
(* FlattenSeq is a recursive function; these say what it computes.         *)
(***************************************************************************)
\* What is put together of sequences is a function of how many.
LEMMA FlattenExists ==
    ASSUME NEW S, NEW ss \in Seq(Seq(S)), ss # <<>>
    PROVE  \E f \in [1 .. Len(ss) -> Seq(S)] :
              f[1] = ss[1] /\ \A i \in 2 .. Len(ss) : f[i] = f[i - 1] \o ss[i]
<1> DEFINE N == Len(ss)
           Step(f, n) == f[1] = ss[1] /\ \A i \in 2 .. n : f[i] = f[i - 1] \o ss[i]
           Begun(n) == \E f \in [1 .. n -> Seq(S)] : Step(f, n)
           T == {n \in Nat : n + 1 <= N => Begun(n + 1)}
<1>1. N \in Nat /\ N >= 1 /\ \A i \in 1 .. N : ss[i] \in Seq(S)
  BY EmptySeq, LenProperties
<1> HIDE DEF N
<1>2. 0 \in T
  <2>1. [i \in 1 .. 1 |-> ss[1]] \in [1 .. 1 -> Seq(S)] /\ 2 .. 1 = {}
    BY <1>1
  <2>2. Begun(1)
    <3> WITNESS [i \in 1 .. 1 |-> ss[1]] \in [1 .. 1 -> Seq(S)]
    <3> QED BY <2>1
  <2>3. 0 + 1 = 1
    OBVIOUS
  <2> HIDE DEF Begun
  <2> QED BY <2>2, <2>3
<1>3. ASSUME NEW n \in Nat, n \in T PROVE n + 1 \in T
  <2> SUFFICES ASSUME n + 2 <= N PROVE Begun(n + 2)
    <3>1. n + 1 + 1 = n + 2
      OBVIOUS
    <3> HIDE DEF Begun
    <3> QED BY <3>1
  <2>1. PICK f \in [1 .. n + 1 -> Seq(S)] : Step(f, n + 1)
    <3>1. Begun(n + 1)
      <4> HIDE DEF Begun
      <4> QED BY <1>1, <1>3
    <3> QED BY <3>1
  <2> DEFINE h == f[n + 1] \o ss[n + 2]
             g == [i \in 1 .. n + 2 |-> IF i = n + 2 THEN h ELSE f[i]]
  <2>2. h \in Seq(S)
    <3>1. f[n + 1] \in Seq(S) /\ ss[n + 2] \in Seq(S)
      BY <1>1, <2>1
    <3> QED BY <3>1, ConcatProperties
  <2> HIDE DEF h
  <2>3. g \in [1 .. n + 2 -> Seq(S)]
    BY <2>1, <2>2
  <2>4. g[1] = ss[1] /\ g[n + 2] = h /\ \A i \in 1 .. n + 1 : g[i] = f[i]
    BY <2>1
  <2> HIDE DEF g
  <2>5. ASSUME NEW i \in 2 .. n + 2 PROVE g[i] = g[i - 1] \o ss[i]
    <3>1. i - 1 \in 1 .. n + 1 /\ g[i - 1] = f[i - 1]
      BY <2>4
    <3>2. CASE i = n + 2
      <4>1. i - 1 = n + 1
        BY <3>2
      <4> QED BY <2>4, <3>1, <3>2, <4>1 DEF h
    <3>3. CASE i \in 2 .. n + 1
      <4>1. g[i] = f[i]
        BY <2>4, <3>3
      <4> QED BY <2>1, <3>1, <3>3, <4>1
    <3>4. i = n + 2 \/ i \in 2 .. n + 1
      OBVIOUS
    <3> QED BY <3>2, <3>3, <3>4
  <2> QED BY <2>3, <2>4, <2>5
<1>4. Begun(N)
  <2>1. Nat \subseteq T
    <3> HIDE DEF T
    <3> QED BY <1>2, <1>3, SetInduction
  <2>2. \A n \in Nat : n + 1 <= N => Begun(n + 1)
    <3>1. \A n \in T : n + 1 <= N => Begun(n + 1)
      OBVIOUS
    <3> HIDE DEF T, Begun
    <3> QED BY <2>1, <3>1
  <2>3. N - 1 \in Nat /\ (N - 1) + 1 = N
    BY <1>1
  <2> HIDE DEF T, Begun
  <2> QED BY <2>2, <2>3
<1> QED BY <1>4 DEF N

\* ... and FlattenSeq is its last value.
LEMMA FlattenIs ==
    ASSUME NEW S, NEW ss \in Seq(Seq(S)), ss # <<>>,
           NEW f \in [1 .. Len(ss) -> Seq(S)],
           f[1] = ss[1], \A i \in 2 .. Len(ss) : f[i] = f[i - 1] \o ss[i]
    PROVE  FlattenSeq(ss) = f[Len(ss)]
<1> DEFINE N == Len(ss)
<1>1. N \in Nat /\ N >= 1 /\ \A i \in 1 .. N : ss[i] \in Seq(S)
  BY EmptySeq, LenProperties
<1>5. f \in [1 .. N -> Seq(S)] /\ f[1] = ss[1] /\ \A i \in 2 .. N : f[i] = f[i - 1] \o ss[i]
  OBVIOUS
<1> HIDE DEF N
<1>6. \A i \in 1 .. N : i # 1 => i \in 2 .. N
  BY <1>1
<1>7. \E flatten : flatten = [i \in 1 .. N |-> IF i = 1 THEN ss[i] ELSE flatten[i - 1] \o ss[i]]
  <2>1. f = [i \in 1 .. N |-> IF i = 1 THEN ss[i] ELSE f[i - 1] \o ss[i]]
    BY <1>1, <1>5, <1>6
  <2> QED BY <2>1
<1> DEFINE flat == CHOOSE flatten :
                flatten = [i \in 1 .. N |-> IF i = 1 THEN ss[i] ELSE flatten[i - 1] \o ss[i]]
<1>8. flat = [i \in 1 .. N |-> IF i = 1 THEN ss[i] ELSE flat[i - 1] \o ss[i]]
  BY <1>7
<1>9. FlattenSeq(ss) = flat[N]
  <2>1. Len(ss) # 0
    BY <1>1 DEF N
  <2> QED BY <2>1, Zenon DEF FlattenSeq, N
<1> HIDE DEF flat
<1>10. \A i \in 1 .. N : flat[i] = f[i]
  <2> DEFINE U == {n \in Nat : n + 1 <= N => flat[n + 1] = f[n + 1]}
  <2>1. 0 \in U
    BY <1>1, <1>5, <1>8
  <2>2. ASSUME NEW n \in Nat, n \in U PROVE n + 1 \in U
    <3>1. SUFFICES ASSUME n + 2 <= N PROVE flat[n + 2] = f[n + 2]
      <4>1. n + 1 + 1 = n + 2
        OBVIOUS
      <4> QED BY <4>1
    <3>2. flat[n + 1] = f[n + 1] /\ n + 2 \in 2 .. N /\ (n + 2) - 1 = n + 1 /\ n + 2 # 1
      BY <1>1, <2>2, <3>1
    <3>3. flat[n + 2] = flat[n + 1] \o ss[n + 2]
      <4>1. n + 2 \in 1 .. N
        BY <3>2
      <4>2. \A i \in 1 .. N : flat[i] = IF i = 1 THEN ss[i] ELSE flat[i - 1] \o ss[i]
        BY <1>8
      <4>3. flat[n + 2] = flat[(n + 2) - 1] \o ss[n + 2]
        BY <3>2, <4>1, <4>2
      <4> QED BY <3>2, <4>3
    <3> QED BY <1>5, <3>2, <3>3
  <2>3. Nat \subseteq U
    <3> HIDE DEF U
    <3> QED BY <2>1, <2>2, SetInduction
  <2>4. ASSUME NEW i \in 1 .. N PROVE flat[i] = f[i]
    <3>1. i - 1 \in U /\ (i - 1) + 1 = i
      <4>1. i - 1 \in Nat /\ (i - 1) + 1 = i
        BY <1>1
      <4> HIDE DEF U
      <4> QED BY <2>3, <4>1
    <3> QED BY <1>1, <3>1
  <2> QED BY <2>4
<1> QED BY <1>1, <1>9, <1>10 DEF N

\* FlattenSeq returns a sequence of what its arguments are sequences of.
LEMMA FlattenType ==
    ASSUME NEW S, NEW ss \in Seq(Seq(S))
    PROVE  /\ FlattenSeq(ss) \in Seq(S)
           /\ FlattenSeq(<<>>) = <<>>
<1>1. Len(<<>>) = 0 /\ FlattenSeq(<<>>) = <<>>
  BY DEF FlattenSeq
<1>2. CASE ss = <<>>
  BY <1>1, <1>2, EmptySeq
<1>3. CASE ss # <<>>
  <2>1. PICK f \in [1 .. Len(ss) -> Seq(S)] :
           f[1] = ss[1] /\ \A i \in 2 .. Len(ss) : f[i] = f[i - 1] \o ss[i]
    BY <1>3, FlattenExists
  <2>2. FlattenSeq(ss) = f[Len(ss)]
    BY <1>3, <2>1, FlattenIs
  <2>3. Len(ss) \in 1 .. Len(ss)
    BY <1>3, EmptySeq
  <2> QED BY <1>1, <2>1, <2>2, <2>3
<1> QED BY <1>2, <1>3

\* One more sequence is put behind what there is.
LEMMA FlattenAppend ==
    ASSUME NEW S, NEW ss \in Seq(Seq(S)), NEW s \in Seq(S)
    PROVE  FlattenSeq(ss \o <<s>>) = FlattenSeq(ss) \o s
<1> DEFINE tt == ss \o <<s>>
           N == Len(ss)
<1>1. /\ <<s>> \in Seq(Seq(S)) /\ Len(<<s>>) = 1 /\ <<s>>[1] = s
  OBVIOUS
<1>2. /\ tt \in Seq(Seq(S)) /\ Len(tt) = N + 1 /\ N \in Nat
      /\ \A i \in 1 .. N : tt[i] = ss[i]
      /\ tt[N + 1] = s
  <2>1. /\ tt \in Seq(Seq(S)) /\ Len(tt) = N + 1 /\ N \in Nat
        /\ \A i \in 1 .. N + 1 : tt[i] = IF i <= N THEN ss[i] ELSE <<s>>[i - N]
    BY <1>1, ConcatProperties, LenProperties
  <2>2. (N + 1) - N = 1 /\ ~(N + 1 <= N) /\ N + 1 \in 1 .. N + 1
    BY <2>1
  <2> HIDE DEF tt, N
  <2> QED BY <1>1, <2>1, <2>2
<1>3. tt # <<>>
  BY <1>2
<1>4. PICK f \in [1 .. Len(tt) -> Seq(S)] :
         f[1] = tt[1] /\ \A i \in 2 .. Len(tt) : f[i] = f[i - 1] \o tt[i]
  <2>1. tt \in Seq(Seq(S))
    BY <1>2
  <2> HIDE DEF tt
  <2> QED BY <2>1, <1>3, FlattenExists, Zenon
<1>5. FlattenSeq(tt) = f[N + 1]
  <2>1. FlattenSeq(tt) = f[Len(tt)]
    <3> HIDE DEF tt
    <3> QED BY <1>2, <1>3, <1>4, FlattenIs
  <2> QED BY <1>2, <2>1
<1> HIDE DEF tt
<1>6. CASE N = 0
  <2>1. ss = <<>> /\ FlattenSeq(ss) = <<>>
    BY <1>6, EmptySeq, FlattenType
  <2>2. FlattenSeq(tt) = s
    BY <1>2, <1>4, <1>5, <1>6
  <2>3. <<>> \o s = s
    BY ConcatEmptySeq
  <2> QED BY <2>1, <2>2, <2>3 DEF tt
<1>7. CASE N # 0
  <2> DEFINE g == [i \in 1 .. N |-> f[i]]
  <2>1. g \in [1 .. N -> Seq(S)] /\ \A i \in 1 .. N : g[i] = f[i]
    BY <1>2, <1>4
  <2> HIDE DEF g
  <2>2. g[1] = ss[1]
    BY <1>2, <1>4, <1>7, <2>1
  <2>3. ASSUME NEW i \in 2 .. N PROVE g[i] = g[i - 1] \o ss[i]
    <3>1. i \in 1 .. N /\ i - 1 \in 1 .. N /\ i \in 2 .. Len(tt)
      BY <1>2, SMTT(30)
    <3>2. f[i] = f[i - 1] \o tt[i]
      BY <1>4, <3>1
    <3> QED BY <1>2, <2>1, <3>1, <3>2
  <2>4. FlattenSeq(ss) = g[N]
    <3>1. ss # <<>>
      BY <1>7
    <3> QED BY <2>1, <2>2, <2>3, <3>1, FlattenIs
  <2>5. N \in 1 .. N /\ N + 1 \in 2 .. Len(tt) /\ (N + 1) - 1 = N
    BY <1>2, <1>7
  <2>6. f[N + 1] = f[(N + 1) - 1] \o tt[N + 1]
    BY <1>4, <2>5
  <2>7. f[N + 1] = f[N] \o s
    BY <1>2, <2>5, <2>6
  <2> QED BY <1>5, <2>1, <2>4, <2>5, <2>7 DEF tt
<1> QED BY <1>6, <1>7

\* What sequences of sequences are put together to is put together.
LEMMA FlattenConcat ==
    ASSUME NEW S, NEW aa \in Seq(Seq(S)), NEW bb \in Seq(Seq(S))
    PROVE  FlattenSeq(aa \o bb) = FlattenSeq(aa) \o FlattenSeq(bb)
<1> DEFINE T == {n \in Nat : \A ss \in Seq(Seq(S)) : Len(ss) = n =>
                    FlattenSeq(aa \o ss) = FlattenSeq(aa) \o FlattenSeq(ss)}
<1>1. 0 \in T
  <2>1. ASSUME NEW ss \in Seq(Seq(S)), Len(ss) = 0
        PROVE  FlattenSeq(aa \o ss) = FlattenSeq(aa) \o FlattenSeq(ss)
    <3>1. ss = <<>> /\ aa \o ss = aa
      BY <2>1, EmptySeq, ConcatEmptySeq
    <3>2. FlattenSeq(ss) = <<>> /\ FlattenSeq(aa) \in Seq(S)
      BY <3>1, FlattenType
    <3>3. FlattenSeq(aa) \o <<>> = FlattenSeq(aa)
      BY <3>2, ConcatEmptySeq
    <3> QED BY <3>1, <3>2, <3>3
  <2> QED BY <2>1
<1>2. ASSUME NEW n \in Nat, n \in T PROVE n + 1 \in T
  <2>1. ASSUME NEW ss \in Seq(Seq(S)), Len(ss) = n + 1
        PROVE  FlattenSeq(aa \o ss) = FlattenSeq(aa) \o FlattenSeq(ss)
    <3>1. PICK tt \in Seq(Seq(S)), s \in Seq(S) : ss = Append(tt, s)
      <4>1. ss # <<>>
        BY <2>1
      <4> QED BY <4>1, SequenceEmptyOrAppend
    <3>2. ss = tt \o <<s>> /\ Len(tt) = n
      <4>1. Len(Append(tt, s)) = Len(tt) + 1 /\ Len(tt) \in Nat
        BY AppendProperties, LenProperties
      <4> QED BY <2>1, <3>1, <4>1, AppendIsConcat
    <3>3. FlattenSeq(aa \o tt) = FlattenSeq(aa) \o FlattenSeq(tt)
      BY <1>2, <3>2
    <3>4. aa \o ss = (aa \o tt) \o <<s>>
      <4>1. <<s>> \in Seq(Seq(S))
        OBVIOUS
      <4> QED BY <3>2, <4>1, ConcatAssociative, SMTT(30)
    <3>5. aa \o tt \in Seq(Seq(S))
      BY ConcatProperties
    <3>6. FlattenSeq(aa \o ss) = FlattenSeq(aa \o tt) \o s
      BY <3>4, <3>5, FlattenAppend
    <3>7. FlattenSeq(ss) = FlattenSeq(tt) \o s
      BY <3>2, FlattenAppend
    <3>8. FlattenSeq(aa) \in Seq(S) /\ FlattenSeq(tt) \in Seq(S)
      BY FlattenType
    <3>9. (FlattenSeq(aa) \o FlattenSeq(tt)) \o s = FlattenSeq(aa) \o (FlattenSeq(tt) \o s)
      BY <3>8, ConcatAssociative, SMTT(30)
    <3> QED BY <3>3, <3>6, <3>7, <3>9
  <2> QED BY <2>1
<1>3. Nat \subseteq T
  <2> HIDE DEF T
  <2> QED BY <1>1, <1>2, SetInduction
<1>4. Len(bb) \in T
  <2> HIDE DEF T
  <2> QED BY <1>3, LenProperties
<1> QED BY <1>4

LEMMA FlattenOne ==
    ASSUME NEW S, NEW s \in Seq(S)
    PROVE  FlattenSeq(<<s>>) = s
<1>1. <<>> \in Seq(Seq(S)) /\ <<>> \in Seq(S)
  OBVIOUS
<1>2. FlattenSeq(<<>> \o <<s>>) = FlattenSeq(<<>>) \o s
  BY <1>1, FlattenAppend
<1>3. <<>> \o <<s>> = <<s>> /\ <<>> \o s = s
  <2>1. <<s>> \in Seq(Seq(S))
    OBVIOUS
  <2> QED BY <2>1, ConcatEmptySeq
<1>4. FlattenSeq(<<>>) = <<>>
  BY <1>1, FlattenType
<1> QED BY <1>2, <1>3, <1>4

Maps(S, T) == [S -> Seq(T)]

\* Each element of s replaced by its image, and by a sequence.
Mapped(F, s)  == [k \in DOMAIN s |-> F[s[k]]]
FlatMap(F, s) == FlattenSeq(Mapped(F, s))

LEMMA MapType ==
    ASSUME NEW S, NEW T, NEW F \in Maps(S, T), NEW s \in Seq(S)
    PROVE  Mapped(F, s) \in Seq(Seq(T)) /\ Len(Mapped(F, s)) = Len(s)
<1>1. Len(s) \in Nat /\ DOMAIN s = 1 .. Len(s) /\ \A k \in 1 .. Len(s) : s[k] \in S
  BY LenProperties
<1>2. [k \in 1 .. Len(s) |-> F[s[k]]] \in [1 .. Len(s) -> Seq(T)]
  BY <1>1 DEF Maps
<1>3. \A n \in Nat : \A f \in [1 .. n -> Seq(T)] : f \in Seq(Seq(T)) /\ Len(f) = n
  OBVIOUS
<1> QED BY <1>1, <1>2, <1>3 DEF Mapped

LEMMA MapConcat ==
    ASSUME NEW S, NEW T, NEW F \in Maps(S, T), NEW a \in Seq(S), NEW b \in Seq(S)
    PROVE  Mapped(F, a \o b) = Mapped(F, a) \o Mapped(F, b)
<1> DEFINE c == a \o b
           A == Mapped(F, a)
           B == Mapped(F, b)
           C == Mapped(F, c)
<1>1. /\ c \in Seq(S) /\ Len(c) = Len(a) + Len(b)
      /\ Len(a) \in Nat /\ Len(b) \in Nat
      /\ \A i \in 1 .. Len(a) + Len(b) : c[i] = IF i <= Len(a) THEN a[i] ELSE b[i - Len(a)]
      /\ DOMAIN a = 1 .. Len(a) /\ DOMAIN b = 1 .. Len(b)
  BY ConcatProperties, LenProperties
<1> HIDE DEF c
<1>2. DOMAIN c = 1 .. Len(c)
  BY <1>1, LenProperties
<1>3. A \in Seq(Seq(T)) /\ B \in Seq(Seq(T)) /\ C \in Seq(Seq(T))
      /\ Len(A) = Len(a) /\ Len(B) = Len(b) /\ Len(C) = Len(c)
  <2>1. \A s \in Seq(S) : Mapped(F, s) \in Seq(Seq(T)) /\ Len(Mapped(F, s)) = Len(s)
    BY MapType
  <2>2. c \in Seq(S)
    BY <1>1
  <2> QED BY <2>1, <2>2
<1>4. /\ \A i \in 1 .. Len(a) : A[i] = F[a[i]]
      /\ \A i \in 1 .. Len(b) : B[i] = F[b[i]]
      /\ \A i \in 1 .. Len(c) : C[i] = F[c[i]]
  BY <1>1, <1>2 DEF Mapped
<1> HIDE DEF A, B, C
<1>5. /\ A \o B \in Seq(Seq(T)) /\ Len(A \o B) = Len(A) + Len(B)
      /\ \A i \in 1 .. Len(A) + Len(B) :
            (A \o B)[i] = IF i <= Len(A) THEN A[i] ELSE B[i - Len(A)]
  BY <1>3, ConcatProperties
<1>6. ASSUME NEW i \in 1 .. Len(C) PROVE C[i] = (A \o B)[i]
  <2>0. i \in 1 .. Len(a) + Len(b) /\ i \in 1 .. Len(c) /\ i \in 1 .. Len(A) + Len(B)
    BY <1>1, <1>3
  <2>1. CASE i <= Len(a)
    <3>1. i \in 1 .. Len(a)
      BY <1>1, <2>0, <2>1
    <3>2. C[i] = F[c[i]] /\ c[i] = a[i] /\ A[i] = F[a[i]]
      BY <1>1, <1>4, <2>0, <2>1, <3>1
    <3>3. (A \o B)[i] = A[i]
      BY <1>3, <1>5, <2>0, <2>1
    <3> QED BY <3>2, <3>3
  <2>2. CASE ~(i <= Len(a))
    <3>1. i - Len(a) \in 1 .. Len(b)
      BY <1>1, <2>0, <2>2
    <3>2. C[i] = F[c[i]] /\ c[i] = b[i - Len(a)] /\ B[i - Len(a)] = F[b[i - Len(a)]]
      BY <1>1, <1>4, <2>0, <2>2, <3>1
    <3>3. (A \o B)[i] = B[i - Len(a)]
      BY <1>3, <1>5, <2>0, <2>2
    <3> QED BY <3>2, <3>3
  <2> QED BY <2>1, <2>2
<1>7. C = A \o B
  BY <1>1, <1>3, <1>5, <1>6, SeqEqual
<1> QED BY <1>7 DEF A, B, C, c

\* FlatMap of sequences put together.
LEMMA FlatMapConcat ==
    ASSUME NEW S, NEW V, NEW F \in Maps(S, V), NEW a \in Seq(S), NEW b \in Seq(S)
    PROVE  /\ FlatMap(F, a) \in Seq(V)
           /\ FlatMap(F, a \o b) = FlatMap(F, a) \o FlatMap(F, b)
           /\ FlatMap(F, <<>>) = <<>>
           /\ \A x \in S : FlatMap(F, <<x>>) = F[x]
<1>1. Mapped(F, a) \in Seq(Seq(V)) /\ Mapped(F, b) \in Seq(Seq(V))
  BY MapType
<1>2. FlatMap(F, a) \in Seq(V)
  BY <1>1, FlattenType DEF FlatMap
<1>3. FlatMap(F, a \o b) = FlatMap(F, a) \o FlatMap(F, b)
  <2>1. Mapped(F, a \o b) = Mapped(F, a) \o Mapped(F, b)
    BY MapConcat
  <2>2. FlattenSeq(Mapped(F, a) \o Mapped(F, b)) = FlatMap(F, a) \o FlatMap(F, b)
    BY <1>1, FlattenConcat DEF FlatMap
  <2> QED BY <2>1, <2>2 DEF FlatMap
<1>4. FlatMap(F, <<>>) = <<>>
  <2>1. Mapped(F, <<>>) = <<>>
    BY DEF Mapped
  <2>2. FlattenSeq(<<>>) = <<>>
    BY <1>1, FlattenType
  <2> QED BY <2>1, <2>2 DEF FlatMap
<1>5. ASSUME NEW x \in S PROVE FlatMap(F, <<x>>) = F[x]
  <2>1. Mapped(F, <<x>>) = <<F[x]>>
    BY DEF Mapped
  <2>2. FlattenSeq(<<F[x]>>) = F[x]
    BY FlattenOne DEF Maps
  <2> QED BY <2>1, <2>2 DEF FlatMap
<1> QED BY <1>2, <1>3, <1>4, <1>5

-----------------------------------------------------------------------------
(***************************************************************************)
(* Sequences put together and taken apart.                                 *)
(***************************************************************************)
LEMMA SeqParts ==
    ASSUME NEW S, NEW q \in Seq(S), NEW n \in 0 .. Len(q)
    PROVE  /\ SubSeq(q, 1, n) \in Seq(S) /\ Len(SubSeq(q, 1, n)) = n
           /\ SubSeq(q, n + 1, Len(q)) \in Seq(S)
           /\ Len(SubSeq(q, n + 1, Len(q))) = Len(q) - n
           /\ q = SubSeq(q, 1, n) \o SubSeq(q, n + 1, Len(q))
           /\ \A k \in 1 .. n : SubSeq(q, 1, n)[k] = q[k]
<1>1. Len(q) \in Nat /\ \A k \in 1 .. Len(q) : q[k] \in S
  BY LenProperties
<1>2. /\ SubSeq(q, 1, n) \in Seq(S)
      /\ Len(SubSeq(q, 1, n)) = IF 1 <= n THEN n - 1 + 1 ELSE 0
      /\ \A k \in 1 .. n - 1 + 1 : SubSeq(q, 1, n)[k] = q[1 + k - 1]
  <2>1. 1 \in Int /\ n \in Int /\ \A k \in 1 .. n : q[k] \in S
    BY <1>1
  <2> QED BY <2>1, SubSeqProperties
<1>3. Len(SubSeq(q, 1, n)) = n
  BY <1>1, <1>2
<1>4. \A k \in 1 .. n : SubSeq(q, 1, n)[k] = q[k]
  BY <1>1, <1>2
<1>5. /\ SubSeq(q, n + 1, Len(q)) \in Seq(S)
      /\ Len(SubSeq(q, n + 1, Len(q))) = IF n + 1 <= Len(q) THEN Len(q) - (n + 1) + 1 ELSE 0
  <2>1. n + 1 \in Int /\ Len(q) \in Int /\ \A k \in n + 1 .. Len(q) : q[k] \in S
    BY <1>1
  <2> QED BY <2>1, SubSeqProperties
<1>6. Len(SubSeq(q, n + 1, Len(q))) = Len(q) - n
  BY <1>1, <1>5
<1>7. q = SubSeq(q, 1, n) \o SubSeq(q, n + 1, Len(q))
  <2>1. 1 \in 1 .. Len(q) + 1 /\ n \in 1 - 1 .. Len(q) /\ Len(q) \in n .. Len(q)
    BY <1>1
  <2>2. SubSeq(q, 1, n) \o SubSeq(q, n + 1, Len(q)) = SubSeq(q, 1, Len(q))
    BY <2>1, ConcatAdjacentSubSeq
  <2> QED BY <2>2, SubSeqFull
<1> QED BY <1>2, <1>3, <1>4, <1>5, <1>6, <1>7

\* What stands behind p.
LEMMA Behind ==
    ASSUME NEW S, NEW p \in Seq(S), NEW q \in Seq(S)
    PROVE  SubSeq(p \o q, Len(p) + 1, Len(p \o q)) = q
<1> DEFINE pq == p \o q
<1>1. /\ pq \in Seq(S) /\ Len(pq) = Len(p) + Len(q) /\ Len(p) \in Nat /\ Len(q) \in Nat
      /\ \A i \in 1 .. Len(p) + Len(q) : pq[i] = IF i <= Len(p) THEN p[i] ELSE q[i - Len(p)]
  BY ConcatProperties, LenProperties
<1> HIDE DEF pq
<1>2. /\ SubSeq(pq, Len(p) + 1, Len(pq)) \in Seq(S)
      /\ Len(SubSeq(pq, Len(p) + 1, Len(pq))) =
            IF Len(p) + 1 <= Len(pq) THEN Len(pq) - (Len(p) + 1) + 1 ELSE 0
      /\ \A i \in 1 .. Len(pq) - (Len(p) + 1) + 1 :
            SubSeq(pq, Len(p) + 1, Len(pq))[i] = pq[Len(p) + 1 + i - 1]
  <2>1. /\ Len(p) + 1 \in Int /\ Len(pq) \in Int
        /\ \A i \in Len(p) + 1 .. Len(pq) : pq[i] \in S
    BY <1>1, LenProperties
  <2> QED BY <2>1, SubSeqProperties
<1>3. Len(SubSeq(pq, Len(p) + 1, Len(pq))) = Len(q)
  BY <1>1, <1>2
<1>4. ASSUME NEW i \in 1 .. Len(q) PROVE SubSeq(pq, Len(p) + 1, Len(pq))[i] = q[i]
  <2>1. /\ i \in 1 .. Len(pq) - (Len(p) + 1) + 1 /\ Len(p) + 1 + i - 1 = Len(p) + i
        /\ Len(p) + i \in 1 .. Len(p) + Len(q) /\ ~(Len(p) + i <= Len(p))
        /\ Len(p) + i - Len(p) = i
    BY <1>1
  <2>2. pq[Len(p) + i] = q[Len(p) + i - Len(p)]
    BY <1>1, <2>1
  <2> QED BY <1>2, <2>1, <2>2
<1>5. SubSeq(pq, Len(p) + 1, Len(pq)) = q
  BY <1>2, <1>3, <1>4, SeqEqual
<1> QED BY <1>5 DEF pq

\* Of two beginnings of a sequence one is a beginning of the other.
LEMMA Beginnings ==
    ASSUME NEW S, NEW p \in Seq(S), NEW q \in Seq(S), NEW x \in Seq(S), NEW y \in Seq(S),
           p \o q = x \o y, Len(p) <= Len(x)
    PROVE  /\ x = p \o SubSeq(x, Len(p) + 1, Len(x))
           /\ SubSeq(x, Len(p) + 1, Len(x)) \in Seq(S)
<1> DEFINE u == p \o q
<1>1. /\ Len(p) \in Nat /\ Len(x) \in Nat /\ Len(q) \in Nat /\ Len(y) \in Nat
  BY LenProperties
<1>2. /\ \A i \in 1 .. Len(p) + Len(q) : u[i] = IF i <= Len(p) THEN p[i] ELSE q[i - Len(p)]
      /\ Len(u) = Len(p) + Len(q)
  BY ConcatProperties
<1>3. /\ \A i \in 1 .. Len(x) + Len(y) : u[i] = IF i <= Len(x) THEN x[i] ELSE y[i - Len(x)]
      /\ Len(u) = Len(x) + Len(y)
  <2>1. u = x \o y
    OBVIOUS
  <2> HIDE DEF u
  <2> QED BY <2>1, ConcatProperties
<1> HIDE DEF u
<1>4. \A i \in 1 .. Len(p) : x[i] = p[i]
  BY <1>1, <1>2, <1>3, SMTT(30)
<1>5. Len(p) \in 0 .. Len(x)
  BY <1>1
<1>6. /\ x = SubSeq(x, 1, Len(p)) \o SubSeq(x, Len(p) + 1, Len(x))
      /\ SubSeq(x, 1, Len(p)) \in Seq(S) /\ SubSeq(x, Len(p) + 1, Len(x)) \in Seq(S)
      /\ Len(SubSeq(x, 1, Len(p))) = Len(p)
      /\ \A k \in 1 .. Len(p) : SubSeq(x, 1, Len(p))[k] = x[k]
  BY <1>5, SeqParts, ZenonT(30)
<1>7. SubSeq(x, 1, Len(p)) = p
  BY <1>4, <1>6, SeqEqual
<1> QED BY <1>6, <1>7

\* Parts of a beginning are parts of the whole.
LEMMA PartOfBeginning ==
    ASSUME NEW S, NEW p \in Seq(S), NEW q \in Seq(S), NEW m \in Nat \ {0}, NEW n \in 0 .. Len(p)
    PROVE  SubSeq(p \o q, m, n) = SubSeq(p, m, n)
<1>1. Len(p) \in Nat /\ Len(q) \in Nat
  BY LenProperties
<1>2. CASE n < m
  BY <1>1, <1>2, SubSeqEmpty
<1>3. CASE ~(n < m)
  <2>1. m \in 1 .. Len(p) /\ n \in 1 .. Len(p)
    BY <1>1, <1>3
  <2> QED BY <2>1, SubSeqOfConcat1
<1> QED BY <1>2, <1>3

\* The same of sequences of numbers, for provers that know numbers apart.
LEMMA NatAssoc ==
    \A x, y, z \in Seq(Nat) : (x \o y) \o z = x \o (y \o z)
BY ConcatAssociative, SMTT(30)

LEMMA NatBeginnings ==
    ASSUME NEW p \in Seq(Nat), NEW q \in Seq(Nat), NEW x \in Seq(Nat), NEW y \in Seq(Nat),
           p \o q = x \o y, Len(p) <= Len(x)
    PROVE  /\ x = p \o SubSeq(x, Len(p) + 1, Len(x))
           /\ SubSeq(x, Len(p) + 1, Len(x)) \in Seq(Nat)
BY Beginnings

-----------------------------------------------------------------------------
(***************************************************************************)
(* FoldLeft goes through the indices of a sequence from the largest down.  *)
(***************************************************************************)
LEMMA MaxOf ==
    ASSUME NEW n \in Nat, NEW s \in SUBSET (1 .. n), s # {}
    PROVE  Max(s) \in s /\ \A y \in s : Max(s) >= y
<1> DEFINE U == {m \in Nat : \A y \in s : m >= y}
<1>1. n \in U /\ U \in SUBSET Nat
  OBVIOUS
<1>2. PICK m \in U : \A k \in U : m <= k
  <2> HIDE DEF U
  <2> QED BY <1>1, LeastNat
<1>3. m \in s
  <2> SUFFICES ASSUME m \notin s PROVE FALSE
    OBVIOUS
  <2>1. \A y \in s : y \in Nat /\ y >= 1 /\ m >= y /\ y # m
    BY <1>2
  <2>2. PICK y \in s : TRUE
    OBVIOUS
  <2>3. m - 1 \in Nat
    BY <1>2, <2>1, <2>2
  <2>4. \A z \in s : m - 1 >= z
    BY <1>2, <2>1
  <2>5. m - 1 \in U
    BY <2>3, <2>4
  <2> QED BY <1>2, <2>5
<1>4. m \in s /\ \A y \in s : m >= y
  BY <1>2, <1>3
<1>5. \E x \in s : \A y \in s : x >= y
  BY <1>4
<1> QED BY <1>5, Zenon DEF Max

LEMMA MinOf ==
    ASSUME NEW s \in SUBSET Nat, s # {}
    PROVE  Min(s) \in s /\ \A y \in s : Min(s) <= y
<1>1. \E x \in s : \A y \in s : x <= y
  BY LeastNat
<1> QED BY <1>1, Zenon DEF Min

\* What holds of no index, and of a set of indices if it holds of the set
\* without its largest, holds of every set.
LEMMA IndexInduction ==
    ASSUME NEW n \in Nat, NEW T, {} \in T,
           \A s \in SUBSET (1 .. n) : s # {} /\ s \ {Max(s)} \in T => s \in T
    PROVE  SUBSET (1 .. n) \subseteq T
<1> DEFINE U == {m \in Nat : m <= n => SUBSET (1 .. m) \subseteq T}
<1>1. 0 \in U
  <2>1. \A s \in SUBSET (1 .. 0) : s = {}
    OBVIOUS
  <2> QED BY <2>1
<1>2. ASSUME NEW m \in Nat, m \in U PROVE m + 1 \in U
  <2> SUFFICES ASSUME m + 1 <= n, NEW s \in SUBSET (1 .. m + 1) PROVE s \in T
    OBVIOUS
  <2>1. SUBSET (1 .. m) \subseteq T
    BY <1>2
  <2>2. s \in SUBSET (1 .. n)
    <3>1. 1 .. m + 1 \subseteq 1 .. n
      OBVIOUS
    <3> QED BY <3>1
  <2>3. CASE s \subseteq 1 .. m
    BY <2>1, <2>3
  <2>4. CASE m + 1 \in s
    <3>1. Max(s) \in s /\ \A y \in s : Max(s) >= y
      BY <2>2, <2>4, MaxOf
    <3>2. Max(s) = m + 1
      <4>1. Max(s) \in 1 .. m + 1 /\ Max(s) >= m + 1
        BY <2>4, <3>1
      <4> QED BY <4>1
    <3>3. s \ {m + 1} \subseteq 1 .. m
      OBVIOUS
    <3> QED BY <2>1, <2>2, <2>4, <3>2, <3>3
  <2> QED BY <2>3, <2>4
<1>3. Nat \subseteq U
  <2> HIDE DEF U
  <2> QED BY <1>1, <1>2, SetInduction
<1> QED BY <1>3

StepsOf(A, T) == [A \X T -> A]

\* FoldLeft of a step that is a function.
Fold(F, b, q) == FoldLeft(LAMBDA acc, x : F[<<acc, x>>], b, q)

\* The states after the elements with some indices.
Runs(A, F, b, q) ==
    {f \in [SUBSET (1 .. Len(q)) -> A] :
       \A s \in SUBSET (1 .. Len(q)) :
         f[s] = IF s = {} THEN b ELSE F[<<f[s \ {Max(s)}], q[Max(s)]>>]}

\* g is such, as far as its states are in A.
Follows(g, A, F, b, q) ==
    /\ g[{}] = b
    /\ \A s \in SUBSET (1 .. Len(q)) :
         s # {} /\ g[s \ {Max(s)}] \in A => g[s] = F[<<g[s \ {Max(s)}], q[Max(s)]>>]

LEMMA FoldExists ==
    ASSUME NEW A, NEW T, NEW F \in StepsOf(A, T), NEW b \in A, NEW q \in Seq(T)
    PROVE  \E f \in Runs(A, F, b, q) : TRUE
<1> DEFINE N == Len(q)
           Upto(f, m) == \A s \in SUBSET (1 .. m) :
                           f[s] = IF s = {} THEN b ELSE F[<<f[s \ {Max(s)}], q[Max(s)]>>]
           Begun(m) == \E f \in [SUBSET (1 .. m) -> A] : Upto(f, m)
           U == {m \in Nat : m <= N => Begun(m)}
<1>1. N \in Nat /\ \A k \in 1 .. N : q[k] \in T
  BY LenProperties
<1> HIDE DEF N
<1>2. 0 \in U
  <2>1. 1 .. 0 = {}
    OBVIOUS
  <2>2. [s \in SUBSET (1 .. 0) |-> b] \in [SUBSET (1 .. 0) -> A]
    OBVIOUS
  <2>3. Upto([s \in SUBSET (1 .. 0) |-> b], 0)
    <3>1. \A s \in SUBSET (1 .. 0) : s = {} /\ [r \in SUBSET (1 .. 0) |-> b][s] = b
      BY <2>1
    <3> QED BY <3>1
  <2>4. Begun(0)
    BY <2>2, <2>3
  <2> HIDE DEF Begun
  <2> QED BY <2>4
<1>3. ASSUME NEW m \in Nat, m \in U PROVE m + 1 \in U
  <2> SUFFICES ASSUME m + 1 <= N PROVE Begun(m + 1)
    <3> HIDE DEF Begun
    <3> QED OBVIOUS
  <2>1. PICK f \in [SUBSET (1 .. m) -> A] : Upto(f, m)
    <3>1. Begun(m)
      <4> HIDE DEF Begun
      <4> QED BY <1>1, <1>3
    <3> QED BY <3>1
  <2> DEFINE g == [s \in SUBSET (1 .. m + 1) |->
                     IF m + 1 \in s THEN F[<<f[s \ {m + 1}], q[m + 1]>>] ELSE f[s]]
  <2>2. ASSUME NEW s \in SUBSET (1 .. m + 1)
        PROVE  /\ m + 1 \notin s => s \in SUBSET (1 .. m)
               /\ s \ {m + 1} \in SUBSET (1 .. m)
               /\ m + 1 \in s => Max(s) = m + 1
    <3>1. /\ m + 1 \notin s => s \in SUBSET (1 .. m)
          /\ s \ {m + 1} \in SUBSET (1 .. m)
      OBVIOUS
    <3>2. CASE m + 1 \in s
      <4>1. Max(s) \in s /\ \A y \in s : Max(s) >= y
        <5>1. s # {} /\ m + 1 \in Nat
          BY <3>2
        <5> HIDE DEF U, g
        <5> QED BY <5>1, MaxOf
      <4>2. Max(s) \in 1 .. m + 1 /\ Max(s) >= m + 1
        BY <3>2, <4>1
      <4> QED BY <3>1, <4>2
    <3> QED BY <3>1, <3>2
  <2>3. g \in [SUBSET (1 .. m + 1) -> A]
    <3>1. q[m + 1] \in T
      BY <1>1
    <3>2. ASSUME NEW s \in SUBSET (1 .. m + 1)
          PROVE  (IF m + 1 \in s THEN F[<<f[s \ {m + 1}], q[m + 1]>>] ELSE f[s]) \in A
      <4>1. CASE m + 1 \in s
        <5>1. f[s \ {m + 1}] \in A
          BY <2>1, <2>2
        <5> QED BY <3>1, <4>1, <5>1 DEF StepsOf
      <4>2. CASE m + 1 \notin s
        BY <2>1, <2>2, <4>2
      <4> QED BY <4>1, <4>2
    <3> QED BY <3>2
  <2>4. ASSUME NEW s \in SUBSET (1 .. m + 1)
        PROVE  g[s] = IF s = {} THEN b ELSE F[<<g[s \ {Max(s)}], q[Max(s)]>>]
    <3>1. CASE m + 1 \in s
      <4>1. s # {} /\ Max(s) = m + 1 /\ g[s] = F[<<f[s \ {m + 1}], q[m + 1]>>]
        BY <2>2, <3>1
      <4>2. g[s \ {m + 1}] = f[s \ {m + 1}]
        OBVIOUS
      <4> QED BY <4>1, <4>2
    <3>2. CASE m + 1 \notin s
      <4>1. g[s] = f[s] /\ s \in SUBSET (1 .. m)
        BY <2>2, <3>2
      <4>2. f[s] = IF s = {} THEN b ELSE F[<<f[s \ {Max(s)}], q[Max(s)]>>]
        BY <2>1, <4>1
      <4>3. g[s \ {Max(s)}] = f[s \ {Max(s)}]
        BY <3>2
      <4> QED BY <4>1, <4>2, <4>3
    <3> QED BY <3>1, <3>2
  <2>5. Upto(g, m + 1)
    <3> HIDE DEF g
    <3> QED BY <2>4
  <2> HIDE DEF g, Upto
  <2> QED BY <2>3, <2>5
<1>4. N \in U
  <2> HIDE DEF U
  <2> QED BY <1>1, <1>2, <1>3, SetInduction
<1>5. Begun(N)
  <2> HIDE DEF Begun
  <2> QED BY <1>1, <1>4
<1> QED BY <1>5 DEF N, Runs

\* There is one such f only, and the fold is its value at the end.
LEMMA FoldIs ==
    ASSUME NEW A, NEW T, NEW F \in StepsOf(A, T), NEW b \in A, NEW q \in Seq(T),
           NEW f \in Runs(A, F, b, q),
           NEW g, Follows(g, A, F, b, q)
    PROVE  \A s \in SUBSET (1 .. Len(q)) : g[s] = f[s]
<1> DEFINE U == {s \in SUBSET (1 .. Len(q)) : g[s] = f[s]}
<1>1. Len(q) \in Nat
  BY LenProperties
<1>2. {} \in U
  BY DEF Runs, Follows
<1>3. ASSUME NEW s \in SUBSET (1 .. Len(q)), s # {}, s \ {Max(s)} \in U
      PROVE  s \in U
  <2>1. s \ {Max(s)} \in SUBSET (1 .. Len(q)) /\ g[s \ {Max(s)}] = f[s \ {Max(s)}]
    BY <1>3
  <2>2. g[s \ {Max(s)}] \in A
    BY <2>1 DEF Runs
  <2>3. g[s] = F[<<g[s \ {Max(s)}], q[Max(s)]>>]
    BY <1>3, <2>2 DEF Follows
  <2>4. f[s] = F[<<f[s \ {Max(s)}], q[Max(s)]>>]
    BY <1>3 DEF Runs
  <2> QED BY <2>1, <2>3, <2>4
<1>4. SUBSET (1 .. Len(q)) \subseteq U
  <2> HIDE DEF U
  <2> QED BY <1>1, <1>2, <1>3, IndexInduction
<1> QED BY <1>4

LEMMA FoldValue ==
    ASSUME NEW A, NEW T, NEW F \in StepsOf(A, T), NEW b \in A, NEW q \in Seq(T),
           NEW f \in Runs(A, F, b, q)
    PROVE  Fold(F, b, q) = f[1 .. Len(q)]
<1> DEFINE E(g) == g = [s \in SUBSET (1 .. Len(q)) |->
                          IF s = {} THEN b ELSE F[<<g[s \ {Max(s)}], q[Max(s)]>>]]
           h == CHOOSE g : E(g)
<1>1. DOMAIN q = 1 .. Len(q)
  BY LenProperties
<1>2. Fold(F, b, q) = h[1 .. Len(q)]
  BY <1>1 DEF Fold, FoldLeft, MapThenFoldSet
<1>3. E(f)
  BY DEF Runs
<1>4. E(h)
  <2> HIDE DEF E
  <2> QED BY <1>3
<1>5. /\ h[{}] = b
      /\ \A s \in SUBSET (1 .. Len(q)) :
            s # {} => h[s] = F[<<h[s \ {Max(s)}], q[Max(s)]>>]
  <2> HIDE DEF h
  <2>1. ASSUME NEW s \in SUBSET (1 .. Len(q))
        PROVE  h[s] = IF s = {} THEN b ELSE F[<<h[s \ {Max(s)}], q[Max(s)]>>]
    BY <1>4
  <2> QED BY <2>1
<1>6. \A s \in SUBSET (1 .. Len(q)) : h[s] = f[s]
  <2>1. Follows(h, A, F, b, q)
    <3> HIDE DEF h
    <3> QED BY <1>5 DEF Follows
  <2>2. f \in Runs(A, F, b, q)
    OBVIOUS
  <2> HIDE DEF h
  <2> QED BY <2>1, <2>2, FoldIs
<1> HIDE DEF h
<1> QED BY <1>2, <1>6

\* What the fold of a step is that takes one more element.
LEMMA FoldSteps ==
    ASSUME NEW A, NEW T, NEW F \in StepsOf(A, T), NEW b \in A
    PROVE  /\ Fold(F, b, <<>>) = b
           /\ \A q \in Seq(T) : Fold(F, b, q) \in A
           /\ \A q \in Seq(T), x \in T : Fold(F, b, Append(q, x)) = F[<<Fold(F, b, q), x>>]
<1>1. ASSUME NEW q \in Seq(T) PROVE Fold(F, b, q) \in A
  <2>1. PICK f \in Runs(A, F, b, q) : TRUE
    BY FoldExists
  <2>2. Fold(F, b, q) = f[1 .. Len(q)]
    BY <2>1, FoldValue
  <2> QED BY <2>2 DEF Runs
<1>2. Fold(F, b, <<>>) = b
  <2>1. PICK e \in Seq(T) : e = <<>>
    <3>1. <<>> \in Seq(T)
      OBVIOUS
    <3> QED BY <3>1
  <2>2. Len(e) = 0 /\ 1 .. 0 = {}
    BY <2>1
  <2>3. PICK f \in Runs(A, F, b, e) : TRUE
    BY FoldExists
  <2>4. Fold(F, b, e) = f[1 .. Len(e)]
    BY FoldValue
  <2>5. f[{}] = b
    BY <2>2 DEF Runs
  <2> QED BY <2>1, <2>2, <2>4, <2>5
<1>3. ASSUME NEW q \in Seq(T), NEW x \in T
      PROVE  Fold(F, b, Append(q, x)) = F[<<Fold(F, b, q), x>>]
  <2> DEFINE p == Append(q, x)
             n == Len(q)
  <2>1. p \in Seq(T) /\ Len(p) = n + 1 /\ n \in Nat /\ p[n + 1] = x
        /\ \A k \in 1 .. n : p[k] = q[k]
    BY AppendProperties, LenProperties
  <2> HIDE DEF p
  <2>2. PICK f \in Runs(A, F, b, q) : TRUE
    BY FoldExists
  <2>3. PICK g \in Runs(A, F, b, p) : TRUE
    BY <2>1, FoldExists
  <2>4. Fold(F, b, q) = f[1 .. n]
    BY <2>2, FoldValue
  <2>5. Fold(F, b, p) = g[1 .. n + 1]
    BY <2>1, <2>3, FoldValue
  <2>6. \A s \in SUBSET (1 .. n) : s \in SUBSET (1 .. Len(p))
    BY <2>1
  <2>7. g[{}] = b
    BY <2>3 DEF Runs
  <2>8. ASSUME NEW s \in SUBSET (1 .. Len(q)), s # {}
        PROVE  g[s] = F[<<g[s \ {Max(s)}], q[Max(s)]>>]
    <3>1. g[s] = F[<<g[s \ {Max(s)}], p[Max(s)]>>]
      BY <2>3, <2>6, <2>8 DEF Runs
    <3>2. Max(s) \in 1 .. n
      BY <2>1, <2>8, MaxOf
    <3> QED BY <2>1, <3>1, <3>2
  <2>9. \A s \in SUBSET (1 .. Len(q)) : g[s] = f[s]
    <3>1. Follows(g, A, F, b, q)
      BY <2>7, <2>8 DEF Follows
    <3> QED BY <2>2, <3>1, FoldIs
  <2>10. Max(1 .. n + 1) = n + 1 /\ (1 .. n + 1) \ {n + 1} = 1 .. n /\ 1 .. n + 1 # {}
    <3>1. n + 1 \in Nat /\ 1 .. n + 1 # {} /\ n + 1 \in 1 .. n + 1
          /\ 1 .. n + 1 \in SUBSET (1 .. n + 1)
      BY <2>1
    <3>2. Max(1 .. n + 1) \in 1 .. n + 1 /\ \A y \in 1 .. n + 1 : Max(1 .. n + 1) >= y
      BY <3>1, MaxOf
    <3>3. Max(1 .. n + 1) = n + 1
      BY <2>1, <3>1, <3>2
    <3>4. (1 .. n + 1) \ {n + 1} = 1 .. n
      BY <2>1
    <3> QED BY <3>1, <3>3, <3>4
  <2>11. g[1 .. n + 1] = F[<<g[1 .. n], p[n + 1]>>]
    <3>1. 1 .. n + 1 \in SUBSET (1 .. Len(p))
      BY <2>1
    <3> QED BY <2>3, <2>10, <3>1 DEF Runs
  <2>12. g[1 .. n] = f[1 .. n]
    BY <2>9
  <2> QED BY <2>1, <2>4, <2>5, <2>11, <2>12 DEF p
<1> QED BY <1>1, <1>2, <1>3

-----------------------------------------------------------------------------
\* A set that holds the empty sequence, and with a sequence every longer one.
LEMMA SeqInduction ==
    ASSUME NEW S, NEW T, <<>> \in T, \A q \in Seq(S), x \in S : q \in T => Append(q, x) \in T
    PROVE  Seq(S) \subseteq T
<1> DEFINE U == {n \in Nat : \A q \in Seq(S) : Len(q) = n => q \in T}
<1>1. 0 \in U
  BY EmptySeq
<1>2. ASSUME NEW n \in Nat, n \in U PROVE n + 1 \in U
  <2> SUFFICES ASSUME NEW q \in Seq(S), Len(q) = n + 1 PROVE q \in T
    OBVIOUS
  <2>1. PICK p \in Seq(S), x \in S : Len(p) = n /\ q = Append(p, x)
    <3>1. q # <<>>
      OBVIOUS
    <3>2. PICK p \in Seq(S), x \in S : q = Append(p, x)
      BY <3>1, SequenceEmptyOrAppend
    <3>3. Len(q) = Len(p) + 1 /\ Len(p) \in Nat
      BY <3>2, AppendProperties, LenProperties
    <3> QED BY <3>2, <3>3
  <2>2. p \in T
    BY <1>2, <2>1
  <2> QED BY <2>1, <2>2
<1>3. Nat \subseteq U
  <2> HIDE DEF U
  <2> QED BY <1>1, <1>2, SetInduction
<1>4. \A q \in Seq(S) : Len(q) \in Nat
  BY LenProperties
<1> QED BY <1>3, <1>4

LEMMA AppendInside ==
    ASSUME NEW S, NEW a \in Seq(S), NEW q \in Seq(S), NEW x \in S
    PROVE  a \o Append(q, x) = Append(a \o q, x)
<1>1. <<x>> \in Seq(S) /\ a \o q \in Seq(S)
  BY ConcatProperties
<1>2. Append(q, x) = q \o <<x>> /\ Append(a \o q, x) = (a \o q) \o <<x>>
  BY <1>1, AppendIsConcat
<1> QED BY <1>1, <1>2, ConcatAssociative

-----------------------------------------------------------------------------
(***************************************************************************)
(* The elements of a sequence in P, in their order: what a filter leaves.  *)
(***************************************************************************)
OneOrNone(S, P)  == [x \in S |-> IF x \in P THEN <<x>> ELSE <<>>]
Chosen(S, P, s) == FlatMap(OneOrNone(S, P), s)

LEMMA OneOrNoneType ==
    ASSUME NEW S, NEW P
    PROVE  /\ OneOrNone(S, P) \in Maps(S, S \cap P)
           /\ \A x \in S : OneOrNone(S, P)[x] = IF x \in P THEN <<x>> ELSE <<>>
<1>1. ASSUME NEW x \in S PROVE (IF x \in P THEN <<x>> ELSE <<>>) \in Seq(S \cap P)
  <2>1. x \in P => <<x>> \in Seq(S \cap P)
    OBVIOUS
  <2>2. <<>> \in Seq(S \cap P)
    OBVIOUS
  <2> QED BY <2>1, <2>2
<1> QED BY <1>1 DEF OneOrNone, Maps

LEMMA ChosenSteps ==
    ASSUME NEW S, NEW P
    PROVE  /\ Chosen(S, P, <<>>) = <<>>
           /\ \A q \in Seq(S) : Chosen(S, P, q) \in Seq(S \cap P)
           /\ \A q \in Seq(S), x \in S :
                /\ x \in P => Chosen(S, P, Append(q, x)) = Append(Chosen(S, P, q), x)
                /\ x \notin P => Chosen(S, P, Append(q, x)) = Chosen(S, P, q)
           /\ \A q, r \in Seq(S) : Chosen(S, P, q \o r) = Chosen(S, P, q) \o Chosen(S, P, r)
<1> DEFINE F == OneOrNone(S, P)
<1>1. F \in Maps(S, S \cap P) /\ \A x \in S : F[x] = IF x \in P THEN <<x>> ELSE <<>>
  BY OneOrNoneType
<1> HIDE DEF F
<1>2. \A q \in Seq(S), r \in Seq(S) :
         /\ FlatMap(F, q) \in Seq(S \cap P)
         /\ FlatMap(F, q \o r) = FlatMap(F, q) \o FlatMap(F, r)
         /\ FlatMap(F, <<>>) = <<>>
         /\ \A x \in S : FlatMap(F, <<x>>) = F[x]
  BY <1>1, FlatMapConcat
<1>3. <<>> \in Seq(S)
  OBVIOUS
<1>4. ASSUME NEW q \in Seq(S), NEW x \in S
      PROVE  /\ x \in P => FlatMap(F, Append(q, x)) = Append(FlatMap(F, q), x)
             /\ x \notin P => FlatMap(F, Append(q, x)) = FlatMap(F, q)
  <2>1. <<x>> \in Seq(S) /\ Append(q, x) = q \o <<x>>
    BY AppendIsConcat
  <2>2. FlatMap(F, Append(q, x)) = FlatMap(F, q) \o F[x] /\ FlatMap(F, q) \in Seq(S \cap P)
    BY <1>2, <2>1
  <2>3. CASE x \in P
    <3>1. F[x] = <<x>> /\ x \in S \cap P
      BY <1>1, <2>3
    <3> QED BY <2>2, <2>3, <3>1, AppendIsConcat
  <2>4. CASE x \notin P
    <3>1. F[x] = <<>>
      BY <1>1, <2>4
    <3> QED BY <2>2, <2>4, <3>1, ConcatEmptySeq
  <2> QED BY <2>3, <2>4
<1>5. \A q \in Seq(S) : Chosen(S, P, q) = FlatMap(F, q)
  BY DEF Chosen, F
<1>6. \A q \in Seq(S), x \in S : Append(q, x) \in Seq(S)
  BY AppendProperties
<1>7. \A q \in Seq(S), r \in Seq(S) : q \o r \in Seq(S)
  BY ConcatProperties
<1>8. Chosen(S, P, <<>>) = <<>> /\ \A q \in Seq(S) : Chosen(S, P, q) \in Seq(S \cap P)
  BY <1>2, <1>3, <1>5
<1>9. \A q \in Seq(S), x \in S :
         /\ x \in P => Chosen(S, P, Append(q, x)) = Append(Chosen(S, P, q), x)
         /\ x \notin P => Chosen(S, P, Append(q, x)) = Chosen(S, P, q)
  BY <1>4, <1>5, <1>6
<1>10. \A q, r \in Seq(S) : Chosen(S, P, q \o r) = Chosen(S, P, q) \o Chosen(S, P, r)
  BY <1>2, <1>5, <1>7
<1> HIDE DEF F
<1> QED BY <1>8, <1>9, <1>10

NoRepeats(s) == \A i, j \in DOMAIN s : s[i] = s[j] => i = j

LEMMA RangeAppend ==
    ASSUME NEW S, NEW q \in Seq(S), NEW x \in S
    PROVE  Range(Append(q, x)) = Range(q) \cup {x}
<1>1. /\ Len(q) \in Nat /\ DOMAIN q = 1 .. Len(q)
      /\ DOMAIN Append(q, x) = 1 .. Len(q) + 1
      /\ \A i \in 1 .. Len(q) : Append(q, x)[i] = q[i]
      /\ Append(q, x)[Len(q) + 1] = x
  BY AppendProperties, LenProperties
<1>2. \A i \in 1 .. Len(q) + 1 : i \in 1 .. Len(q) \/ i = Len(q) + 1
  BY <1>1
<1>3. \A i \in 1 .. Len(q) : i \in 1 .. Len(q) + 1
  BY <1>1
<1>4. Len(q) + 1 \in 1 .. Len(q) + 1
  BY <1>1
<1> HIDE <1>1
<1> QED BY <1>1, <1>2, <1>3, <1>4 DEF Range

LEMMA RangeChosen ==
    ASSUME NEW S, NEW P, NEW q \in Seq(S)
    PROVE  Range(Chosen(S, P, q)) = Range(q) \cap P
<1> DEFINE T == {r \in Seq(S) : Range(Chosen(S, P, r)) = Range(r) \cap P}
<1>1. <<>> \in T
  <2>1. <<>> \in Seq(S) /\ DOMAIN <<>> = {}
    OBVIOUS
  <2>2. Range(<<>>) = {}
    BY <2>1 DEF Range
  <2> QED BY <2>1, <2>2, ChosenSteps
<1>2. ASSUME NEW r \in Seq(S), NEW x \in S, r \in T PROVE Append(r, x) \in T
  <2> DEFINE c == Chosen(S, P, r)
  <2>1. Append(r, x) \in Seq(S) /\ c \in Seq(S \cap P) /\ Range(c) = Range(r) \cap P
    BY <1>2, AppendProperties, ChosenSteps
  <2>2. Range(Append(r, x)) = Range(r) \cup {x}
    BY RangeAppend
  <2>3. /\ x \in P => Chosen(S, P, Append(r, x)) = Append(c, x)
        /\ x \notin P => Chosen(S, P, Append(r, x)) = c
    BY ChosenSteps
  <2> HIDE DEF c
  <2>4. CASE x \in P
    <3>1. Range(Append(c, x)) = Range(c) \cup {x}
      <4>1. x \in S \cap P
        BY <2>4
      <4> QED BY <2>1, <4>1, RangeAppend
    <3> QED BY <2>1, <2>2, <2>3, <2>4, <3>1
  <2>5. CASE x \notin P
    BY <2>1, <2>2, <2>3, <2>5
  <2> QED BY <2>4, <2>5
<1> HIDE DEF T
<1>3. Seq(S) \subseteq T
  BY <1>1, <1>2, SeqInduction
<1> QED BY <1>3 DEF T

LEMMA ChosenAllOrNone ==
    ASSUME NEW S, NEW P, NEW q \in Seq(S)
    PROVE  /\ Range(q) \subseteq P => Chosen(S, P, q) = q
           /\ Range(q) \cap P = {} => Chosen(S, P, q) = <<>>
<1>1. Range(q) \cap P = {} => Chosen(S, P, q) = <<>>
  <2>1. Chosen(S, P, q) \in Seq(S \cap P) /\ Range(Chosen(S, P, q)) = Range(q) \cap P
    BY ChosenSteps, RangeChosen
  <2>2. \A c \in Seq(S \cap P) : Range(c) = {} => c = <<>>
    <3> SUFFICES ASSUME NEW c \in Seq(S \cap P), c # <<>> PROVE c[1] \in Range(c)
      OBVIOUS
    <3>1. 1 \in DOMAIN c
      BY EmptySeq, LenProperties
    <3> QED BY <3>1 DEF Range
  <2> QED BY <2>1, <2>2
<1> DEFINE T == {r \in Seq(S) : Range(r) \subseteq P => Chosen(S, P, r) = r}
<1>2. <<>> \in T
  <2>1. <<>> \in Seq(S)
    OBVIOUS
  <2> QED BY <2>1, ChosenSteps
<1>3. ASSUME NEW r \in Seq(S), NEW x \in S, r \in T PROVE Append(r, x) \in T
  <2>1. Append(r, x) \in Seq(S) /\ Range(Append(r, x)) = Range(r) \cup {x}
    BY AppendProperties, RangeAppend
  <2>2. /\ x \in P => Chosen(S, P, Append(r, x)) = Append(Chosen(S, P, r), x)
        /\ x \notin P => Chosen(S, P, Append(r, x)) = Chosen(S, P, r)
    BY ChosenSteps
  <2> QED BY <1>3, <2>1, <2>2
<1> HIDE DEF T
<1>4. Seq(S) \subseteq T
  BY <1>2, <1>3, SeqInduction
<1> QED BY <1>1, <1>4 DEF T

LEMMA DistinctAppend ==
    ASSUME NEW S, NEW q \in Seq(S), NEW x \in S
    PROVE  NoRepeats(Append(q, x)) <=> NoRepeats(q) /\ x \notin Range(q)
<1>1. /\ Len(q) \in Nat /\ DOMAIN q = 1 .. Len(q)
      /\ DOMAIN Append(q, x) = 1 .. Len(q) + 1
      /\ \A i \in 1 .. Len(q) : Append(q, x)[i] = q[i]
      /\ Append(q, x)[Len(q) + 1] = x
  BY AppendProperties, LenProperties
<1>2. \A i \in 1 .. Len(q) + 1 : i \in 1 .. Len(q) \/ i = Len(q) + 1
  BY <1>1
<1>3. \A i \in 1 .. Len(q) : i \in 1 .. Len(q) + 1 /\ i # Len(q) + 1
  BY <1>1
<1>4. Len(q) + 1 \in 1 .. Len(q) + 1
  BY <1>1
<1> HIDE <1>1
<1> QED BY <1>1, <1>2, <1>3, <1>4 DEF Range, NoRepeats

LEMMA DistinctChosen ==
    ASSUME NEW S, NEW P, NEW q \in Seq(S), NoRepeats(q)
    PROVE  NoRepeats(Chosen(S, P, q))
<1> DEFINE T == {r \in Seq(S) : NoRepeats(r) => NoRepeats(Chosen(S, P, r))}
<1>1. <<>> \in T
  <2>1. <<>> \in Seq(S) /\ DOMAIN <<>> = {}
    OBVIOUS
  <2> QED BY <2>1, ChosenSteps DEF NoRepeats
<1>2. ASSUME NEW r \in Seq(S), NEW x \in S, r \in T PROVE Append(r, x) \in T
  <2> DEFINE c == Chosen(S, P, r)
  <2>1. Append(r, x) \in Seq(S) /\ c \in Seq(S \cap P)
    BY AppendProperties, ChosenSteps
  <2>2. NoRepeats(Append(r, x)) => NoRepeats(r) /\ x \notin Range(r)
    BY DistinctAppend
  <2>3. /\ x \in P => Chosen(S, P, Append(r, x)) = Append(c, x)
        /\ x \notin P => Chosen(S, P, Append(r, x)) = c
    BY ChosenSteps
  <2>4. Range(c) = Range(r) \cap P
    BY RangeChosen
  <2>5. NoRepeats(r) => NoRepeats(c)
    BY <1>2
  <2> HIDE DEF c
  <2>6. CASE x \in P
    <3>1. x \in S \cap P
      BY <2>6
    <3>2. NoRepeats(Append(c, x)) <=> NoRepeats(c) /\ x \notin Range(c)
      BY <2>1, <3>1, DistinctAppend
    <3> QED BY <2>1, <2>2, <2>3, <2>4, <2>5, <2>6, <3>2
  <2>7. CASE x \notin P
    BY <2>1, <2>2, <2>3, <2>5, <2>7
  <2> QED BY <2>6, <2>7
<1> HIDE DEF T
<1>3. Seq(S) \subseteq T
  BY <1>1, <1>2, SeqInduction
<1> QED BY <1>3 DEF T

-----------------------------------------------------------------------------
(***************************************************************************)
(* Elements of different ranks can be arranged by their ranks.             *)
(***************************************************************************)
Ranked(R, s) == \A i, j \in DOMAIN s : R[s[i]] = R[s[j]] => i = j

Arranges(R, s, t) ==
    /\ t \in [DOMAIN s -> Range(s)]
    /\ Range(t) = Range(s)
    /\ \A i, j \in DOMAIN t : i < j => R[t[i]] < R[t[j]]

\* Where x belongs among elements that are arranged.
LEMMA PlaceExists ==
    ASSUME NEW S, NEW R \in [S -> Nat], NEW n \in Nat, NEW t \in [1 .. n -> S], NEW x \in S,
           \A i \in 1 .. n : R[t[i]] # R[x],
           \A i, j \in 1 .. n : i < j => R[t[i]] < R[t[j]]
    PROVE  \E p \in 0 .. n : /\ \A i \in 1 .. n : i <= p => R[t[i]] < R[x]
                             /\ \A i \in 1 .. n : i > p => R[x] < R[t[i]]
<1> DEFINE B == {i \in 1 .. n : R[x] < R[t[i]]}
<1>1. \A i \in 1 .. n : R[t[i]] \in Nat /\ R[x] \in Nat
  OBVIOUS
<1>2. CASE B = {}
  <2>1. \A i \in 1 .. n : R[t[i]] < R[x]
    BY <1>1, <1>2
  <2>2. \A i \in 1 .. n : ~(i > n)
    OBVIOUS
  <2> QED BY <2>1, <2>2
<1>3. CASE B # {}
  <2>1. PICK m \in B : \A k \in B : m <= k
    <3>1. B \in SUBSET Nat
      OBVIOUS
    <3> HIDE DEF B
    <3> QED BY <1>3, <3>1, LeastNat
  <2>2. \A i \in 1 .. n : i <= m - 1 => R[t[i]] < R[x]
    BY <1>1, <2>1
  <2>3. \A i \in 1 .. n : i > m - 1 => R[x] < R[t[i]]
    <3> SUFFICES ASSUME NEW i \in 1 .. n, i > m - 1 PROVE R[x] < R[t[i]]
      OBVIOUS
    <3>1. m \in 1 .. n /\ R[x] < R[t[m]]
      BY <2>1
    <3>2. i = m \/ R[t[m]] < R[t[i]]
      BY <3>1
    <3> QED BY <1>1, <3>1, <3>2
  <2>4. m - 1 \in 0 .. n
    BY <2>1
  <2> QED BY <2>2, <2>3, <2>4
<1> QED BY <1>2, <1>3

LEMMA InsertArranges ==
    ASSUME NEW S, NEW R \in [S -> Nat], NEW q \in Seq(S), NEW x \in S, NEW t,
           Arranges(R, q, t), \A i \in DOMAIN q : R[q[i]] # R[x]
    PROVE  \E u : Arranges(R, Append(q, x), u)
<1> DEFINE n == Len(q)
<1>1. /\ n \in Nat /\ DOMAIN q = 1 .. n /\ \A i \in 1 .. n : q[i] \in S
      /\ DOMAIN Append(q, x) = 1 .. n + 1
      /\ Range(Append(q, x)) = Range(q) \cup {x}
  BY AppendProperties, LenProperties, RangeAppend
<1>2. /\ t \in [1 .. n -> Range(q)] /\ Range(t) = Range(q)
      /\ \A i, j \in 1 .. n : i < j => R[t[i]] < R[t[j]]
  BY <1>1 DEF Arranges
<1>3. Range(q) \subseteq S /\ \A y \in Range(q) : R[y] # R[x]
  BY <1>1 DEF Range
<1> HIDE DEF n
<1>4. PICK p \in 0 .. n : /\ \A i \in 1 .. n : i <= p => R[t[i]] < R[x]
                          /\ \A i \in 1 .. n : i > p => R[x] < R[t[i]]
  <2>1. t \in [1 .. n -> S] /\ \A i \in 1 .. n : R[t[i]] # R[x]
    BY <1>2, <1>3
  <2>2. \A i, j \in 1 .. n : i < j => R[t[i]] < R[t[j]]
    BY <1>2
  <2> QED BY <1>1, <2>1, <2>2, PlaceExists
<1> DEFINE u == [i \in 1 .. n + 1 |-> IF i <= p THEN t[i] ELSE IF i = p + 1 THEN x ELSE t[i - 1]]
<1>5. /\ \A i \in 1 .. n + 1 : i <= p => i \in 1 .. n /\ u[i] = t[i]
      /\ p + 1 \in 1 .. n + 1 /\ u[p + 1] = x
      /\ \A i \in 1 .. n + 1 : i > p + 1 => i - 1 \in 1 .. n /\ i - 1 > p /\ u[i] = t[i - 1]
  BY <1>1
<1>6. DOMAIN u = 1 .. n + 1 /\ u = [i \in DOMAIN u |-> u[i]]
  OBVIOUS
<1> HIDE DEF u
<1>7. \A i \in 1 .. n + 1 : i <= p \/ i = p + 1 \/ i > p + 1
  BY <1>1
<1>8. Range(u) = Range(q) \cup {x}
  <2>1. Range(u) \subseteq Range(q) \cup {x}
    BY <1>2, <1>5, <1>6, <1>7 DEF Range
  <2>2. x \in Range(u)
    BY <1>5, <1>6 DEF Range
  <2>3. ASSUME NEW i \in 1 .. n PROVE t[i] \in Range(u)
    <3>1. CASE i <= p
      <4>1. i \in 1 .. n + 1 /\ u[i] = t[i]
        BY <1>1, <1>5, <3>1
      <4> QED BY <1>6, <4>1 DEF Range
    <3>2. CASE ~(i <= p)
      <4>1. i + 1 \in 1 .. n + 1 /\ i + 1 > p + 1 /\ i + 1 - 1 = i
        BY <1>1, <3>2
      <4>2. u[i + 1] = t[i]
        BY <1>5, <4>1
      <4> QED BY <1>6, <4>1, <4>2 DEF Range
    <3> QED BY <3>1, <3>2
  <2>4. Range(t) \subseteq Range(u)
    BY <1>2, <2>3 DEF Range
  <2> QED BY <1>2, <2>1, <2>2, <2>4
<1>9. \A i \in 1 .. n + 1 : u[i] \in Range(q) \cup {x}
  BY <1>6, <1>8 DEF Range
<1>10. ASSUME NEW i \in 1 .. n + 1, NEW j \in 1 .. n + 1, i < j PROVE R[u[i]] < R[u[j]]
  <2>1. x \in S /\ \A k \in 1 .. n : t[k] \in S /\ R[t[k]] \in Nat
    BY <1>2, <1>3
  <2>2. R[x] \in Nat
    OBVIOUS
  <2>3. CASE i <= p /\ j <= p
    BY <1>2, <1>5, <1>10, <2>3
  <2>4. CASE i <= p /\ j = p + 1
    BY <1>4, <1>5, <2>4
  <2>5. CASE i <= p /\ j > p + 1
    <3>1. R[t[i]] < R[x] /\ R[x] < R[t[j - 1]] /\ R[t[i]] \in Nat /\ R[t[j - 1]] \in Nat
      BY <1>4, <1>5, <2>1, <2>5
    <3> QED BY <1>5, <2>2, <2>5, <3>1, SMTT(60)
  <2>6. CASE i = p + 1 /\ j > p + 1
    BY <1>4, <1>5, <2>6
  <2>7. CASE i > p + 1 /\ j > p + 1
    <3>1. i - 1 < j - 1
      BY <1>1, <1>10
    <3>2. R[t[i - 1]] < R[t[j - 1]]
      BY <1>2, <1>5, <2>7, <3>1
    <3> QED BY <1>5, <2>7, <3>2
  <2>8. \/ i <= p /\ j <= p
        \/ i <= p /\ j = p + 1
        \/ i <= p /\ j > p + 1
        \/ i = p + 1 /\ j > p + 1
        \/ i > p + 1 /\ j > p + 1
    BY <1>1, <1>10
  <2> QED BY <2>3, <2>4, <2>5, <2>6, <2>7, <2>8
<1>11. u \in [1 .. n + 1 -> Range(q) \cup {x}]
  BY <1>6, <1>9
<1>12. Arranges(R, Append(q, x), u)
  BY <1>1, <1>6, <1>8, <1>10, <1>11 DEF Arranges
<1> QED BY <1>12

LEMMA ArrangementExists ==
    ASSUME NEW S, NEW R \in [S -> Nat], NEW s \in Seq(S), Ranked(R, s)
    PROVE  \E t : Arranges(R, s, t)
<1> DEFINE T == {q \in Seq(S) : Ranked(R, q) => \E t : Arranges(R, q, t)}
<1>1. <<>> \in T
  <2>1. <<>> \in Seq(S) /\ DOMAIN <<>> = {} /\ <<>> \in [{} -> Range(<<>>)]
    OBVIOUS
  <2>2. Arranges(R, <<>>, <<>>)
    BY <2>1 DEF Arranges
  <2> QED BY <2>1, <2>2
<1>2. ASSUME NEW q \in Seq(S), NEW x \in S, q \in T PROVE Append(q, x) \in T
  <2> SUFFICES ASSUME Ranked(R, Append(q, x)) PROVE \E t : Arranges(R, Append(q, x), t)
    BY AppendProperties
  <2>1. /\ Len(q) \in Nat /\ DOMAIN q = 1 .. Len(q)
        /\ DOMAIN Append(q, x) = 1 .. Len(q) + 1
        /\ \A i \in 1 .. Len(q) : Append(q, x)[i] = q[i]
        /\ Append(q, x)[Len(q) + 1] = x
    BY AppendProperties, LenProperties
  <2>2. \A i \in 1 .. Len(q) : i \in 1 .. Len(q) + 1 /\ i # Len(q) + 1
        /\ Len(q) + 1 \in 1 .. Len(q) + 1
    BY <2>1
  <2>3. Ranked(R, q)
    BY <2>1, <2>2 DEF Ranked
  <2>4. \A i \in DOMAIN q : R[q[i]] # R[x]
    BY <2>1, <2>2 DEF Ranked
  <2>5. PICK t : Arranges(R, q, t)
    BY <1>2, <2>3
  <2> QED BY <2>4, <2>5, InsertArranges
<1> HIDE DEF T
<1>3. Seq(S) \subseteq T
  BY <1>1, <1>2, SeqInduction
<1> QED BY <1>3 DEF T

\* Whatever takes these steps ends where the fold ends.
LEMMA FoldMeets ==
    ASSUME NEW A, NEW T, NEW F \in StepsOf(A, T), NEW b \in A, NEW q \in Seq(T),
           NEW h, Follows(h, A, F, b, q)
    PROVE  h[1 .. Len(q)] = Fold(F, b, q)
<1>1. PICK f \in Runs(A, F, b, q) : TRUE
  BY FoldExists
<1>2. \A s \in SUBSET (1 .. Len(q)) : h[s] = f[s]
  BY FoldIs
<1>3. Fold(F, b, q) = f[1 .. Len(q)]
  BY FoldValue
<1> QED BY <1>2, <1>3

-----------------------------------------------------------------------------
LEMMA RangeConcat ==
    ASSUME NEW S, NEW a \in Seq(S), NEW q \in Seq(S)
    PROVE  Range(a \o q) = Range(a) \cup Range(q)
<1> DEFINE T == {r \in Seq(S) : Range(a \o r) = Range(a) \cup Range(r)}
<1>1. <<>> \in T
  <2>1. <<>> \in Seq(S) /\ DOMAIN <<>> = {} /\ a \o <<>> = a
    BY ConcatEmptySeq
  <2>2. Range(<<>>) = {}
    BY <2>1 DEF Range
  <2> QED BY <2>1, <2>2
<1>2. ASSUME NEW r \in Seq(S), NEW x \in S, r \in T PROVE Append(r, x) \in T
  <2>1. a \o r \in Seq(S) /\ Append(r, x) \in Seq(S)
    BY ConcatProperties, AppendProperties
  <2>2. a \o Append(r, x) = Append(a \o r, x)
    BY AppendInside
  <2>3. Range(Append(a \o r, x)) = Range(a \o r) \cup {x}
    <3>1. PICK c \in Seq(S) : c = a \o r
      BY <2>1
    <3>2. Range(Append(c, x)) = Range(c) \cup {x}
      BY RangeAppend
    <3> QED BY <3>1, <3>2
  <2>4. Range(Append(r, x)) = Range(r) \cup {x}
    BY RangeAppend
  <2> QED BY <1>2, <2>1, <2>2, <2>3, <2>4
<1> HIDE DEF T
<1>3. Seq(S) \subseteq T
  BY <1>1, <1>2, SeqInduction
<1> QED BY <1>3 DEF T

LEMMA RangeFlatMap ==
    ASSUME NEW S, NEW V, NEW F \in Maps(S, V), NEW q \in Seq(S)
    PROVE  Range(FlatMap(F, q)) = UNION {Range(F[x]) : x \in Range(q)}
<1> DEFINE T == {r \in Seq(S) : Range(FlatMap(F, r)) = UNION {Range(F[x]) : x \in Range(r)}}
<1>1. \A r \in Seq(S), y \in Seq(S) :
         /\ FlatMap(F, r) \in Seq(V)
         /\ FlatMap(F, r \o y) = FlatMap(F, r) \o FlatMap(F, y)
         /\ FlatMap(F, <<>>) = <<>>
         /\ \A x \in S : FlatMap(F, <<x>>) = F[x]
  BY FlatMapConcat, SMTT(60)
<1>2. <<>> \in T
  <2>1. <<>> \in Seq(S) /\ DOMAIN <<>> = {}
    OBVIOUS
  <2>2. Range(<<>>) = {}
    BY <2>1 DEF Range
  <2>3. FlatMap(F, <<>>) = <<>>
    BY <1>1, <2>1
  <2> QED BY <2>1, <2>2, <2>3
<1>3. ASSUME NEW r \in Seq(S), NEW x \in S, r \in T PROVE Append(r, x) \in T
  <2>1. <<x>> \in Seq(S) /\ Append(r, x) = r \o <<x>> /\ Append(r, x) \in Seq(S)
    BY AppendIsConcat, AppendProperties
  <2>2. FlatMap(F, Append(r, x)) = FlatMap(F, r) \o F[x]
    BY <1>1, <2>1
  <2>3. FlatMap(F, r) \in Seq(V) /\ F[x] \in Seq(V)
    BY <1>1 DEF Maps
  <2>4. Range(FlatMap(F, r) \o F[x]) = Range(FlatMap(F, r)) \cup Range(F[x])
    BY <2>3, RangeConcat
  <2>5. Range(Append(r, x)) = Range(r) \cup {x}
    BY RangeAppend
  <2>6. Range(FlatMap(F, r)) = UNION {Range(F[y]) : y \in Range(r)}
    BY <1>3
  <2> QED BY <2>1, <2>2, <2>4, <2>5, <2>6
<1> HIDE DEF T
<1>4. Seq(S) \subseteq T
  BY <1>2, <1>3, SeqInduction
<1> QED BY <1>4 DEF T

\* A map to empty sequences.
LEMMA FlatMapNothing ==
    ASSUME NEW S, NEW V, NEW F \in Maps(S, V), NEW q \in Seq(S),
           \A x \in Range(q) : F[x] = <<>>
    PROVE  FlatMap(F, q) = <<>>
<1>1. FlatMap(F, q) \in Seq(V)
  BY FlatMapConcat
<1>2. Range(<<>>) = {}
  <2>1. DOMAIN <<>> = {}
    OBVIOUS
  <2> QED BY <2>1 DEF Range
<1>3. Range(FlatMap(F, q)) = UNION {Range(F[x]) : x \in Range(q)}
  BY RangeFlatMap
<1>4. Range(FlatMap(F, q)) = {}
  BY <1>2, <1>3
<1>5. ASSUME FlatMap(F, q) # <<>> PROVE FALSE
  <2> DEFINE c == FlatMap(F, q)
  <2>1. c \in Seq(V) /\ c # <<>> /\ Range(c) = {}
    BY <1>1, <1>4, <1>5
  <2> HIDE DEF c
  <2>2. 1 \in DOMAIN c
    BY <2>1, EmptySeq, LenProperties
  <2> QED BY <2>1, <2>2 DEF Range
<1> QED BY <1>5

LEMMA PrefixOfConcat ==
    ASSUME NEW S, NEW a \in Seq(S), NEW q \in Seq(S)
    PROVE  IsPrefix(a, a \o q)
<1>1. /\ a \o q \in Seq(S) /\ Len(a \o q) = Len(a) + Len(q) /\ Len(a) \in Nat /\ Len(q) \in Nat
  BY ConcatProperties, LenProperties
<1>2. SubSeq(a \o q, 1, Len(a)) = SubSeq(a, 1, Len(a))
  BY <1>1, PartOfBeginning
<1>3. Len(a) <= Len(a \o q)
  BY <1>1
<1> QED BY <1>2, <1>3 DEF IsPrefix

LEMMA LenIsCardinality ==
    ASSUME NEW S, NEW q \in Seq(S), NoRepeats(q)
    PROVE  IsFiniteSet(Range(q)) /\ Cardinality(Range(q)) = Len(q)
<1> DEFINE T == {r \in Seq(S) : NoRepeats(r) =>
                    IsFiniteSet(Range(r)) /\ Cardinality(Range(r)) = Len(r)}
<1>1. <<>> \in T
  <2>1. <<>> \in Seq(S) /\ DOMAIN <<>> = {} /\ Len(<<>>) = 0
    OBVIOUS
  <2>2. Range(<<>>) = {}
    BY <2>1 DEF Range
  <2>3. \A r : r = {} => IsFiniteSet(r) /\ Cardinality(r) = 0
    BY FS_EmptySet
  <2> QED BY <2>1, <2>2, <2>3
<1>2. ASSUME NEW r \in Seq(S), NEW x \in S, r \in T PROVE Append(r, x) \in T
  <2>1. Append(r, x) \in Seq(S) /\ Len(Append(r, x)) = Len(r) + 1
    BY AppendProperties
  <2>2. Range(Append(r, x)) = Range(r) \cup {x}
    BY RangeAppend
  <2> SUFFICES ASSUME NoRepeats(Append(r, x))
               PROVE  /\ IsFiniteSet(Range(Append(r, x)))
                      /\ Cardinality(Range(Append(r, x))) = Len(Append(r, x))
    BY <2>1
  <2>3. NoRepeats(r) /\ x \notin Range(r)
    BY DistinctAppend
  <2>4. IsFiniteSet(Range(r)) /\ Cardinality(Range(r)) = Len(r)
    BY <1>2, <2>3
  <2>5. /\ IsFiniteSet(Range(r) \cup {x})
        /\ Cardinality(Range(r) \cup {x}) = Cardinality(Range(r)) + 1
    BY <2>3, <2>4, FS_AddElement
  <2> QED BY <2>1, <2>2, <2>4, <2>5
<1> HIDE DEF T
<1>3. Seq(S) \subseteq T
  BY <1>1, <1>2, SeqInduction
<1> QED BY <1>3 DEF T

LEMMA RangeNone == Range(<<>>) = {}
<1>1. DOMAIN <<>> = {}
  OBVIOUS
<1> QED BY <1>1 DEF Range

LEMMA RangeOne ==
    ASSUME NEW x
    PROVE  Range(<<x>>) = {x}
<1>1. PICK s : s = <<x>>
  OBVIOUS
<1>2. DOMAIN s = 1 .. 1 /\ s[1] = x
  BY <1>1
<1>3. \A i : i \in 1 .. 1 <=> i = 1
  OBVIOUS
<1>4. Range(s) = {x}
  BY <1>2, <1>3 DEF Range
<1> QED BY <1>1, <1>4
=============================================================================
