----------------------------- MODULE ParsingProofs -----------------------------
(***************************************************************************)
(* Proofs about the functions the parser reads an e-mail with: Headers,    *)
(* Body and Subject, for whatever input.                                   *)
(***************************************************************************)
EXTENDS Subject, Body, Headers, Induction, TLAPS

-----------------------------------------------------------------------------
(***************************************************************************)
(* Folds over the indices of a sequence, and ascending sequences.          *)
(***************************************************************************)
Indices(n) == [k \in 1 .. n |-> k]

LEMMA IndicesAre ==
    ASSUME NEW n \in Nat
    PROVE  /\ Indices(n) \in Seq(1 .. n) /\ Len(Indices(n)) = n
           /\ \A k \in 1 .. n : Indices(n)[k] = k
<1>1. Indices(n) \in [1 .. n -> 1 .. n]
  BY DEF Indices
<1>2. \A S : \A m \in Nat : \A f \in [1 .. m -> S] : f \in Seq(S) /\ Len(f) = m
  OBVIOUS
<1> QED BY <1>1, <1>2 DEF Indices

LEMMA PositionsAre ==
    ASSUME NEW S, NEW q \in Seq(S)
    PROVE  /\ Positions(q) = Indices(Len(q))
           /\ Positions(q) \in Seq(1 .. Len(q)) /\ Len(Positions(q)) = Len(q)
           /\ \A k \in 1 .. Len(q) : Positions(q)[k] = k
<1>1. DOMAIN q = 1 .. Len(q) /\ Len(q) \in Nat
  BY LenProperties
<1>2. Positions(q) = Indices(Len(q))
  BY <1>1 DEF Positions, Indices
<1> QED BY <1>1, <1>2, IndicesAre

\* The indices up to k + 1 are those up to k and one more.
LEMMA IndicesStep ==
    ASSUME NEW k \in Nat
    PROVE  /\ Indices(0) = <<>>
           /\ Indices(k + 1) = Append(Indices(k), k + 1)
<1>1. Indices(0) = <<>>
  BY IndicesAre, EmptySeq
<1>2. /\ Indices(k) \in Seq(Nat) /\ Len(Indices(k)) = k
      /\ Indices(k + 1) \in Seq(Nat) /\ Len(Indices(k + 1)) = k + 1
      /\ \A i \in 1 .. k : Indices(k)[i] = i
      /\ \A i \in 1 .. k + 1 : Indices(k + 1)[i] = i
  <2>1. \A n \in Nat : Indices(n) \in Seq(Nat)
    <3>1. \A n \in Nat : \A q \in Seq(1 .. n) : q \in Seq(Nat)
      OBVIOUS
    <3> QED BY <3>1, IndicesAre
  <2> QED BY <2>1, IndicesAre
<1>3. PICK a \in Seq(Nat) : a = Append(Indices(k), k + 1)
  BY <1>2, AppendProperties
<1>4. /\ Len(a) = k + 1
      /\ \A i \in 1 .. k : a[i] = i
      /\ a[k + 1] = k + 1
  BY <1>2, <1>3, AppendProperties
<1>5. \A i \in 1 .. k + 1 : i \in 1 .. k \/ i = k + 1
  OBVIOUS
<1>6. a = Indices(k + 1)
  BY <1>2, <1>4, <1>5, SeqEqual
<1> QED BY <1>1, <1>3, <1>6

\* The states of a fold over indices, one after the other.
IsRun(f, F, b, n) ==
    /\ f[0] = b
    /\ \A k \in 1 .. n : f[k] = F[<<f[k - 1], k>>]
    /\ f[n] = Fold(F, b, Indices(n))

LEMMA IndexFold ==
    ASSUME NEW A, NEW n \in Nat, NEW F \in StepsOf(A, 1 .. n), NEW b \in A
    PROVE  \E f \in [0 .. n -> A] : IsRun(f, F, b, n)
<1> DEFINE f == [k \in 0 .. n |-> Fold(F, b, Indices(k))]
<1>1. \A k \in 0 .. n : Indices(k) \in Seq(1 .. n)
  <2>1. \A k \in 0 .. n : \A q \in Seq(1 .. k) : q \in Seq(1 .. n)
    OBVIOUS
  <2> QED BY <2>1, IndicesAre
<1>2. f \in [0 .. n -> A]
  BY <1>1, FoldSteps
<1>3. f[0] = b
  BY IndicesStep, FoldSteps
<1>4. ASSUME NEW k \in 1 .. n PROVE f[k] = F[<<f[k - 1], k>>]
  <2>1. k - 1 \in 0 .. n /\ k \in 0 .. n /\ k - 1 \in Nat /\ (k - 1) + 1 = k
    OBVIOUS
  <2>2. Indices(k) = Append(Indices(k - 1), k)
    BY <2>1, IndicesStep
  <2>3. Indices(k - 1) \in Seq(1 .. n)
    BY <1>1, <2>1
  <2>4. Fold(F, b, Append(Indices(k - 1), k)) = F[<<Fold(F, b, Indices(k - 1)), k>>]
    BY <2>3, FoldSteps
  <2> QED BY <2>1, <2>2, <2>4
<1>5. f[n] = Fold(F, b, Indices(n))
  OBVIOUS
<1> HIDE DEF f
<1> QED BY <1>2, <1>3, <1>4, <1>5 DEF IsRun

\* What holds before the first step of a fold, and over each step.
LEMMA StepInduction ==
    ASSUME NEW n \in Nat, NEW T, 0 \in T, \A k \in 1 .. n : k - 1 \in T => k \in T
    PROVE  0 .. n \subseteq T
<1> DEFINE U == {k \in Nat : k <= n => k \in T}
<1>1. 0 \in U
  OBVIOUS
<1>2. ASSUME NEW k \in Nat, k \in U PROVE k + 1 \in U
  <2>1. k + 1 \in 1 .. n => k \in T /\ (k + 1) - 1 = k
    BY <1>2
  <2> QED BY <2>1
<1>3. Nat \subseteq U
  <2> HIDE DEF U
  <2> QED BY <1>1, <1>2, SetInduction
<1> QED BY <1>3

Ascending(q) == \A i, j \in DOMAIN q : i < j => q[i] < q[j]

LEMMA IndicesAscend ==
    ASSUME NEW n \in Nat
    PROVE  Ascending(Indices(n)) /\ Range(Indices(n)) = 1 .. n
BY DEF Indices, Ascending, Range

LEMMA AscendingAppend ==
    ASSUME NEW q \in Seq(Int), NEW x \in Int
    PROVE  Ascending(Append(q, x)) <=> Ascending(q) /\ \A y \in Range(q) : y < x
<1>1. PICK n \in Nat : n = Len(q) /\ DOMAIN q = 1 .. n
  BY LenProperties
<1>2. PICK a \in Seq(Int) : a = Append(q, x)
  BY AppendProperties
<1>3. /\ DOMAIN a = 1 .. n + 1 /\ a[n + 1] = x
      /\ \A k \in 1 .. n : a[k] = q[k]
  BY <1>1, <1>2, AppendProperties, LenProperties
<1>4. \A k \in 1 .. n : k < n + 1 /\ k \in 1 .. n + 1 /\ n + 1 \in 1 .. n + 1
  OBVIOUS
<1>5. \A i, j \in 1 .. n + 1 : i < j => i \in 1 .. n /\ (j \in 1 .. n \/ j = n + 1)
  OBVIOUS
<1>6. Ascending(a) => Ascending(q) /\ \A y \in Range(q) : y < x
  BY <1>1, <1>3, <1>4 DEF Ascending, Range
<1>7. Ascending(q) /\ (\A y \in Range(q) : y < x) => Ascending(a)
  BY <1>1, <1>3, <1>5, ZenonT(60) DEF Ascending, Range
<1>8. Ascending(a) <=> Ascending(q) /\ \A y \in Range(q) : y < x
  BY <1>6, <1>7
<1> QED BY <1>2, <1>8, Zenon

\* A filter leaves an ascending sequence ascending.
LEMMA ChosenAscends ==
    ASSUME NEW P, NEW q \in Seq(Int), Ascending(q)
    PROVE  Ascending(Chosen(Int, P, q))
<1> DEFINE T == {r \in Seq(Int) : Ascending(r) => Ascending(Chosen(Int, P, r))}
<1>1. <<>> \in T
  <2>1. <<>> \in Seq(Int) /\ DOMAIN <<>> = {}
    OBVIOUS
  <2>2. Chosen(Int, P, <<>>) = <<>>
    BY ChosenSteps
  <2>3. Ascending(<<>>)
    BY <2>1 DEF Ascending
  <2> QED BY <2>1, <2>2, <2>3
<1>2. ASSUME NEW r \in Seq(Int), NEW x \in Int, r \in T PROVE Append(r, x) \in T
  <2>1. PICK c \in Seq(Int) : c = Chosen(Int, P, r) /\ Range(c) = Range(r) \cap P
    <3>1. Chosen(Int, P, r) \in Seq(Int \cap P)
      BY ChosenSteps
    <3>2. \A s \in Seq(Int \cap P) : s \in Seq(Int)
      OBVIOUS
    <3> QED BY <3>1, <3>2, RangeChosen
  <2>2. /\ x \in P => Chosen(Int, P, Append(r, x)) = Append(c, x)
        /\ x \notin P => Chosen(Int, P, Append(r, x)) = c
    <3>1. /\ x \in P => Chosen(Int, P, Append(r, x)) = Append(Chosen(Int, P, r), x)
          /\ x \notin P => Chosen(Int, P, Append(r, x)) = Chosen(Int, P, r)
      BY ChosenSteps, ZenonT(60)
    <3> QED BY <2>1, <3>1, Zenon
  <2>3. Append(r, x) \in Seq(Int)
    BY AppendProperties
  <2>4. Ascending(Append(r, x)) <=> Ascending(r) /\ \A y \in Range(r) : y < x
    BY AscendingAppend
  <2>5. Ascending(Append(c, x)) <=> Ascending(c) /\ \A y \in Range(c) : y < x
    BY AscendingAppend
  <2> QED BY <1>2, <2>1, <2>2, <2>3, <2>4, <2>5
<1> HIDE DEF T
<1>3. Seq(Int) \subseteq T
  BY <1>1, <1>2, SeqInduction
<1> QED BY <1>3 DEF T

\* Ascending sequences of the same numbers are the same.
LEMMA AscendingUnique ==
    ASSUME NEW t \in Seq(Int), NEW u \in Seq(Int), Ascending(t), Ascending(u),
           Range(t) = Range(u)
    PROVE  t = u
<1>1. PICK m \in Nat : m = Len(t) /\ DOMAIN t = 1 .. m /\ \A k \in 1 .. m : t[k] \in Int
  BY LenProperties
<1>2. PICK n \in Nat : n = Len(u) /\ DOMAIN u = 1 .. n /\ \A k \in 1 .. n : u[k] \in Int
  BY LenProperties
<1>3. /\ \A i, j \in 1 .. m : i < j => t[i] < t[j]
      /\ \A i, j \in 1 .. n : i < j => u[i] < u[j]
  BY <1>1, <1>2 DEF Ascending
<1>4. /\ \A i \in 1 .. m : \E j \in 1 .. n : t[i] = u[j]
      /\ \A j \in 1 .. n : \E i \in 1 .. m : t[i] = u[j]
  BY <1>1, <1>2, ZenonT(60) DEF Range
<1> DEFINE T == {k \in Nat : /\ k <= m <=> k <= n
                             /\ k <= m => \A i \in 1 .. k : t[i] = u[i]}
<1>5. 0 \in T
  OBVIOUS
<1>6. ASSUME NEW k \in Nat, k \in T PROVE k + 1 \in T
  <2>1. CASE k < m /\ k < n
    <3>1. k + 1 \in 1 .. m /\ k + 1 \in 1 .. n /\ \A i \in 1 .. k : t[i] = u[i] /\ i < k + 1
      BY <1>6, <2>1
    <3>2. ~(t[k + 1] < u[k + 1])
      <4> SUFFICES ASSUME t[k + 1] < u[k + 1] PROVE FALSE
        OBVIOUS
      <4>1. PICK j \in 1 .. n : t[k + 1] = u[j]
        BY <1>4, <3>1
      <4>2. j < k + 1
        <5>1. j = k + 1 \/ k + 1 < j \/ j < k + 1
          OBVIOUS
        <5>2. k + 1 < j => u[k + 1] < u[j]
          BY <1>3, <3>1
        <5> QED BY <1>1, <1>2, <3>1, <4>1, <5>1, <5>2
      <4>3. j \in 1 .. k /\ j \in 1 .. m
        BY <2>1, <4>2
      <4>4. t[j] = t[k + 1]
        BY <3>1, <4>1, <4>3
      <4> QED BY <1>1, <1>3, <3>1, <4>2, <4>3, <4>4
    <3>3. ~(u[k + 1] < t[k + 1])
      <4> SUFFICES ASSUME u[k + 1] < t[k + 1] PROVE FALSE
        OBVIOUS
      <4>1. PICK j \in 1 .. m : t[j] = u[k + 1]
        BY <1>4, <3>1
      <4>2. j < k + 1
        <5>1. j = k + 1 \/ k + 1 < j \/ j < k + 1
          OBVIOUS
        <5>2. k + 1 < j => t[k + 1] < t[j]
          BY <1>3, <3>1
        <5> QED BY <1>1, <1>2, <3>1, <4>1, <5>1, <5>2
      <4>3. j \in 1 .. k /\ j \in 1 .. n
        BY <2>1, <4>2
      <4>4. u[j] = u[k + 1]
        BY <3>1, <4>1, <4>3
      <4> QED BY <1>2, <1>3, <3>1, <4>2, <4>3, <4>4
    <3>4. t[k + 1] = u[k + 1]
      BY <1>1, <1>2, <3>1, <3>2, <3>3
    <3>5. \A i \in 1 .. k + 1 : i \in 1 .. k \/ i = k + 1
      OBVIOUS
    <3> QED BY <2>1, <3>1, <3>4, <3>5
  <2>2. CASE k = m /\ k < n
    <3>1. k + 1 \in 1 .. n /\ \A i \in 1 .. m : t[i] = u[i] /\ i \in 1 .. n /\ i < k + 1
      BY <1>6, <2>2
    <3>2. PICK j \in 1 .. m : t[j] = u[k + 1]
      BY <1>4, <3>1
    <3>3. u[j] < u[k + 1] /\ u[j] = u[k + 1] /\ u[j] \in Int
      BY <1>2, <1>3, <3>1, <3>2
    <3> QED BY <3>3
  <2>3. CASE k = n /\ k < m
    <3>1. k + 1 \in 1 .. m /\ \A i \in 1 .. n : t[i] = u[i] /\ i \in 1 .. m /\ i < k + 1
      BY <1>6, <2>3
    <3>2. PICK j \in 1 .. n : t[k + 1] = u[j]
      BY <1>4, <3>1
    <3>3. t[j] < t[k + 1] /\ t[j] = t[k + 1] /\ t[j] \in Int
      BY <1>1, <1>3, <3>1, <3>2
    <3> QED BY <3>3
  <2>4. CASE k >= m /\ k >= n
    BY <2>4
  <2>5. k <= m <=> k <= n
    BY <1>6
  <2> QED BY <2>1, <2>2, <2>3, <2>4, <2>5
<1>7. m \in T /\ n \in T
  <2>1. Nat \subseteq T
    <3> HIDE DEF T
    <3> QED BY <1>5, <1>6, SetInduction
  <2> QED BY <2>1
<1>8. m = n /\ \A i \in 1 .. m : t[i] = u[i]
  BY <1>7
<1> QED BY <1>1, <1>2, <1>8, SeqEqual

-----------------------------------------------------------------------------
(***************************************************************************)
(* The sender.                                                             *)
(***************************************************************************)
Senders == [name : BOOLEAN, form : Forms]

\* A name counts more than all there is to an address.
LEMMA ScoreIs ==
    ASSUME NEW c \in Senders
    PROVE  /\ Score(c) \in 0 .. 12
           /\ HasName(c) <=> Score(c) >= 8
           /\ c.form = "none" <=> Score(c) = 0
<1>1. c.name \in BOOLEAN /\ c.form \in {"none", "at", "a", "std"}
  BY DEF Senders, Forms
<1>2. CASE c.form = "none"
  BY <1>2 DEF Score, HasName
<1>3. CASE c.form = "at"
  BY <1>3 DEF Score, HasName
<1>4. CASE c.form = "a"
  BY <1>4 DEF Score, HasName
<1>5. CASE c.form = "std"
  BY <1>5 DEF Score, HasName
<1> QED BY <1>1, <1>2, <1>3, <1>4, <1>5

LEMMA BestIs ==
    ASSUME NEW q \in Seq(Senders), q # <<>>
    PROVE  \E k \in DOMAIN q : /\ BestOf(q) = q[k]
                               /\ \A j \in DOMAIN q : Score(q[j]) <= Score(q[k])
<1>1. PICK n \in Nat : n = Len(q) /\ DOMAIN q = 1 .. n /\ \A k \in 1 .. n : q[k] \in Senders
  BY LenProperties
<1>2. \A k \in 1 .. n : Score(q[k]) \in 0 .. 12
  BY <1>1, ScoreIs
<1> DEFINE I == {i \in 1 .. n : \A k \in DOMAIN q : Score(q[k]) <= Score(q[i])}
           D == {12 - Score(q[k]) : k \in 1 .. n}
<1>3. I # {}
  <2>1. 1 \in 1 .. n
    BY <1>1, EmptySeq
  <2>2. D \in SUBSET Nat /\ D # {}
    <3>1. \A k \in 1 .. n : 12 - Score(q[k]) \in Nat /\ 12 - Score(q[k]) \in D
      BY <1>2
    <3> QED BY <2>1, <3>1
  <2>3. PICK d \in D : \A e \in D : d <= e
    <3> HIDE DEF D
    <3> QED BY <2>2, LeastNat
  <2>4. PICK i \in 1 .. n : d = 12 - Score(q[i])
    OBVIOUS
  <2>5. \A k \in 1 .. n : 12 - Score(q[i]) <= 12 - Score(q[k])
    BY <2>3, <2>4
  <2>6. ASSUME NEW k \in 1 .. n PROVE Score(q[k]) <= Score(q[i])
    <3>1. Score(q[k]) \in Int /\ Score(q[i]) \in Int
      BY <1>2, SMTT(60)
    <3> QED BY <2>5, <3>1
  <2> QED BY <1>1, <2>6
<1>4. I \in SUBSET Nat
  OBVIOUS
<1>5. SelectInSeq(q, LAMBDA c : \A k \in DOMAIN q : Score(q[k]) <= Score(c)) = Min(I)
  BY <1>1, <1>3 DEF SelectInSeq
<1>6. Min(I) \in I
  <2> HIDE DEF I
  <2> QED BY <1>3, <1>4, MinOf
<1>7. BestOf(q) = q[Min(I)]
  <2> HIDE DEF I
  <2> QED BY <1>5 DEF BestOf
<1>8. Min(I) \in 1 .. n /\ \A k \in DOMAIN q : Score(q[k]) <= Score(q[Min(I)])
  BY <1>6
<1> HIDE DEF I
<1> QED BY <1>1, <1>7, <1>8

(***************************************************************************)
(* email_parser.rs: the sender of any e-mail has a name if any candidate   *)
(* has one, of the headers rather than of the text, and an address if any  *)
(* candidate has one.                                                      *)
(***************************************************************************)
THEOREM SendersAreNamed ==
    \A header, body \in Seq(Senders) : SenderIsNamed(header, body)
<1> SUFFICES ASSUME NEW header \in Seq(Senders), NEW body \in Seq(Senders),
                    header \o body # <<>>
             PROVE  LET all    == header \o body
                        sender == SelectFrom(header, body)
                    IN  /\ HasName(sender) <=> \E k \in DOMAIN all : HasName(all[k])
                        /\ (\E k \in DOMAIN header : HasName(header[k])) => sender \in ToSet(header)
                        /\ sender.form = "none" => \A k \in DOMAIN all : all[k].form = "none"
  BY DEF SenderIsNamed
<1>1. PICK all \in Seq(Senders) : all = header \o body /\ all # <<>>
  BY ConcatProperties
<1>2. PICK m \in Nat : m = Len(header) /\ DOMAIN header = 1 .. m
                       /\ \A k \in 1 .. m : header[k] \in Senders
  BY LenProperties
<1>3. PICK n \in Nat : /\ n = Len(all) /\ DOMAIN all = 1 .. n /\ m <= n
                       /\ \A k \in 1 .. n : all[k] \in Senders
                       /\ \A k \in 1 .. m : all[k] = header[k]
  <2>1. Len(all) = m + Len(body) /\ Len(body) \in Nat
    BY <1>1, <1>2, ConcatProperties, LenProperties
  <2>2. \A k \in 1 .. m + Len(body) : all[k] = IF k <= m THEN header[k] ELSE body[k - m]
    BY <1>1, <1>2, ConcatProperties
  <2> QED BY <1>2, <2>1, <2>2, LenProperties
<1>4. \A k \in 1 .. m : k \in 1 .. n
  BY <1>3
<1> PICK sender : sender = SelectFrom(header, body)
  OBVIOUS
<1>5. CASE \E k \in DOMAIN header : HasName(header[k])
  <2>1. sender = BestOf(header)
    BY <1>5 DEF SelectFrom, FromCandidates
  <2>2. header # <<>>
    BY <1>2, <1>5, EmptySeq
  <2>3. PICK k \in 1 .. m : /\ sender = header[k]
                            /\ \A j \in 1 .. m : Score(header[j]) <= Score(header[k])
    BY <1>2, <2>1, <2>2, BestIs
  <2>4. PICK j \in 1 .. m : HasName(header[j])
    BY <1>2, <1>5
  <2>5. Score(header[j]) >= 8 /\ Score(header[j]) \in 0 .. 12 /\ Score(header[k]) \in 0 .. 12
    BY <1>2, <2>4, ScoreIs
  <2>6. Score(header[k]) >= 8
    BY <2>3, <2>5, SMTT(60)
  <2>7. HasName(sender) /\ sender.form # "none"
    BY <1>2, <2>3, <2>6, ScoreIs DEF HasName
  <2>8. sender \in ToSet(header)
    BY <1>2, <2>3 DEF ToSet
  <2>9. all[k] = sender /\ k \in 1 .. n
    BY <1>3, <1>4, <2>3
  <2> QED BY <1>1, <1>3, <2>7, <2>8, <2>9
<1>6. CASE ~\E k \in DOMAIN header : HasName(header[k])
  <2>1. sender = BestOf(all)
    BY <1>1, <1>6 DEF SelectFrom, FromCandidates
  <2>2. PICK k \in 1 .. n : /\ sender = all[k]
                            /\ \A j \in 1 .. n : Score(all[j]) <= Score(all[k])
    BY <1>1, <1>3, <2>1, BestIs
  <2>3. \A j \in 1 .. n : /\ Score(all[j]) \in 0 .. 12
                          /\ HasName(all[j]) <=> Score(all[j]) >= 8
                          /\ all[j].form = "none" <=> Score(all[j]) = 0
    BY <1>3, ScoreIs
  <2>4. ASSUME NEW j \in 1 .. n
        PROVE  /\ HasName(all[j]) => HasName(sender)
               /\ sender.form = "none" => all[j].form = "none"
    <3>1. /\ Score(all[j]) \in 0 .. 12 /\ Score(all[k]) \in 0 .. 12
          /\ Score(all[j]) <= Score(all[k])
      BY <2>2, <2>3
    <3>2. HasName(all[j]) => HasName(all[k])
      <4>1. PICK x, y \in 0 .. 12 : x = Score(all[j]) /\ y = Score(all[k]) /\ x <= y
        BY <3>1
      <4>2. x >= 8 => y >= 8
        BY <4>1
      <4>3. Score(all[j]) >= 8 => Score(all[k]) >= 8
        BY <4>1, <4>2
      <4> QED BY <2>3, <4>3, Zenon
    <3>3. all[k].form = "none" => all[j].form = "none"
      BY <2>3, <3>1, SMTT(60)
    <3> QED BY <2>2, <3>2, <3>3
  <2>5. \A j \in 1 .. n : /\ HasName(all[j]) => HasName(sender)
                          /\ sender.form = "none" => all[j].form = "none"
    BY <2>4
  <2> QED BY <1>1, <1>3, <1>6, <2>2, <2>4, <2>5
<1> QED BY <1>5, <1>6

-----------------------------------------------------------------------------
(***************************************************************************)
(* The recipients.                                                         *)
(***************************************************************************)
BoxTypes == [name : BOOLEAN, addr : BOOLEAN, stray : Int]
Entries  == [names : Seq(Nat), addrs : Seq(Nat)]

Addrs == [e \in Entries |-> e.addrs]

LEMMA EntriesJoin ==
    ASSUME NEW e \in Entries, NEW f \in Entries
    PROVE  /\ Both(e, f) \in Entries
           /\ Both(e, f).addrs = e.addrs \o f.addrs
           /\ Both(e, f).names = e.names \o f.names
<1>1. e.names \o f.names \in Seq(Nat) /\ e.addrs \o f.addrs \in Seq(Nat)
  BY ConcatProperties DEF Entries
<1> QED BY <1>1 DEF Both, Entry, Entries

LEMMA BoxEntryIs ==
    ASSUME NEW boxes \in Seq(BoxTypes), NEW k \in DOMAIN boxes
    PROVE  /\ BoxEntry(boxes, k) \in Entries
           /\ BoxEntry(boxes, k).addrs = IF boxes[k].addr THEN <<k>> ELSE <<>>
           /\ BoxEntry(boxes, k).names = IF boxes[k].name THEN <<k>> ELSE <<>>
<1>1. k \in Nat
  BY LenProperties
<1>2. <<k>> \in Seq(Nat) /\ <<>> \in Seq(Nat)
  BY <1>1
<1> QED BY <1>2 DEF BoxEntry, Entry, Entries

\* The addresses of entries, one entry after the other.
LEMMA AddressesSteps ==
    /\ AddressesOf(<<>>) = <<>>
    /\ \A q \in Seq(Entries) : AddressesOf(q) \in Seq(Nat)
    /\ \A q \in Seq(Entries), e \in Entries :
         AddressesOf(Append(q, e)) = AddressesOf(q) \o e.addrs
<1>1. Addrs \in Maps(Entries, Nat)
  BY DEF Addrs, Maps, Entries
<1>2. \A q \in Seq(Entries) : AddressesOf(q) = FlatMap(Addrs, q)
  <2>1. ASSUME NEW q \in Seq(Entries) PROVE AddressesOf(q) = FlatMap(Addrs, q)
    <3>1. \A k \in DOMAIN q : Addrs[q[k]] = q[k].addrs
      BY LenProperties DEF Addrs
    <3> QED BY <3>1 DEF AddressesOf, FlatMap, Mapped
  <2> QED BY <2>1
<1>3. <<>> \in Seq(Entries)
  OBVIOUS
<1>4. /\ FlatMap(Addrs, <<>>) = <<>>
      /\ \A q \in Seq(Entries) : FlatMap(Addrs, q) \in Seq(Nat)
      /\ \A q, r \in Seq(Entries) : FlatMap(Addrs, q \o r) = FlatMap(Addrs, q) \o FlatMap(Addrs, r)
      /\ \A e \in Entries : FlatMap(Addrs, <<e>>) = Addrs[e]
  <2>1. \A q, r \in Seq(Entries) :
           /\ FlatMap(Addrs, q) \in Seq(Nat)
           /\ FlatMap(Addrs, q \o r) = FlatMap(Addrs, q) \o FlatMap(Addrs, r)
           /\ FlatMap(Addrs, <<>>) = <<>>
           /\ \A e \in Entries : FlatMap(Addrs, <<e>>) = Addrs[e]
    BY <1>1, FlatMapConcat
  <2> QED BY <1>3, <2>1
<1>5. ASSUME NEW q \in Seq(Entries), NEW e \in Entries
      PROVE  AddressesOf(Append(q, e)) = AddressesOf(q) \o e.addrs
  <2>1. <<e>> \in Seq(Entries) /\ Append(q, e) = q \o <<e>> /\ Append(q, e) \in Seq(Entries)
    BY AppendIsConcat, AppendProperties
  <2>2. FlatMap(Addrs, Append(q, e)) = FlatMap(Addrs, q) \o Addrs[e]
    BY <1>4, <2>1
  <2>3. Addrs[e] = e.addrs
    BY DEF Addrs
  <2> QED BY <1>2, <2>1, <2>2, <2>3
<1> QED BY <1>2, <1>3, <1>4, <1>5

\* Beginnings of a sequence, by their lengths.
Begin(q, k) == SubSeq(q, 1, k)

LEMMA BeginSteps ==
    ASSUME NEW S, NEW q \in Seq(S)
    PROVE  /\ Begin(q, 0) = <<>> /\ Begin(q, Len(q)) = q
           /\ \A k \in 1 .. Len(q) : /\ Begin(q, k - 1) \in Seq(S)
                                     /\ Begin(q, k) = Append(Begin(q, k - 1), q[k])
<1>1. PICK n \in Nat : n = Len(q) /\ DOMAIN q = 1 .. n /\ \A k \in 1 .. n : q[k] \in S
  BY LenProperties
<1>2. \A k \in 0 .. n : /\ Begin(q, k) \in Seq(S) /\ Len(Begin(q, k)) = k
                        /\ \A i \in 1 .. k : Begin(q, k)[i] = q[i]
  BY <1>1, SMTT(30) DEF Begin
<1>3. Begin(q, 0) = <<>>
  BY <1>1, <1>2, EmptySeq
<1>4. Begin(q, n) = q
  BY <1>1, <1>2, SeqEqual
<1>5. ASSUME NEW k \in 1 .. n PROVE Begin(q, k) = Append(Begin(q, k - 1), q[k])
  <2>1. k - 1 \in 0 .. n /\ k \in 0 .. n /\ (k - 1) + 1 = k
    OBVIOUS
  <2>2. PICK p \in Seq(S) : p = Begin(q, k - 1) /\ Len(p) = k - 1 /\ \A i \in 1 .. k - 1 : p[i] = q[i]
    BY <1>2, <2>1
  <2>3. PICK a \in Seq(S) : a = Append(p, q[k])
    BY <1>1, AppendProperties
  <2>4. Len(a) = k /\ \A i \in 1 .. k : a[i] = q[i]
    BY <1>1, <2>1, <2>2, <2>3, AppendProperties
  <2>5. a = Begin(q, k)
    BY <1>2, <2>1, <2>4, SeqEqual
  <2> QED BY <2>2, <2>3, <2>5, Zenon
<1>6. \A k \in 1 .. n : k - 1 \in 0 .. n
  OBVIOUS
<1> QED BY <1>1, <1>2, <1>3, <1>4, <1>5, <1>6

\* The addresses of what is begun, and of all.
LEMMA AddressesBegin ==
    ASSUME NEW q \in Seq(Entries)
    PROVE  \E P \in [0 .. Len(q) -> Seq(Nat)] :
              /\ P[0] = <<>> /\ P[Len(q)] = AddressesOf(q)
              /\ \A k \in 1 .. Len(q) : P[k] = P[k - 1] \o q[k].addrs
<1>1. PICK n \in Nat : n = Len(q) /\ DOMAIN q = 1 .. n /\ \A k \in 1 .. n : q[k] \in Entries
  BY LenProperties
<1> DEFINE P == [k \in 0 .. n |-> AddressesOf(Begin(q, k))]
<1>2. \A k \in 0 .. n : Begin(q, k) \in Seq(Entries)
  BY <1>1, SMTT(30) DEF Begin
<1>3. P \in [0 .. n -> Seq(Nat)]
  BY <1>2, AddressesSteps
<1>4. P[0] = <<>> /\ P[n] = AddressesOf(q)
  BY <1>1, BeginSteps, AddressesSteps
<1>5. ASSUME NEW k \in 1 .. n PROVE P[k] = P[k - 1] \o q[k].addrs
  <2>1. k - 1 \in 0 .. n /\ k \in 0 .. n
    OBVIOUS
  <2>2. Begin(q, k) = Append(Begin(q, k - 1), q[k]) /\ Begin(q, k - 1) \in Seq(Entries)
    BY <1>1, BeginSteps
  <2>3. AddressesOf(Append(Begin(q, k - 1), q[k])) = AddressesOf(Begin(q, k - 1)) \o q[k].addrs
    BY <1>1, <2>2, AddressesSteps
  <2>4. P[k] = AddressesOf(Begin(q, k)) /\ P[k - 1] = AddressesOf(Begin(q, k - 1))
    BY <2>1
  <2> QED BY <2>2, <2>3, <2>4, Zenon
<1> HIDE DEF P
<1> QED BY <1>1, <1>3, <1>4, <1>5

\* The loop of MergeNeighbours.
Merged == [out : Seq(Entries), skip : BOOLEAN]

LEMMA MergeStepType ==
    ASSUME NEW entries \in Seq(Entries), NEW partial \in SUBSET (1 .. Len(entries) - 1)
    PROVE  /\ \A acc \in Merged, k \in 1 .. Len(entries) : MergeStep(entries, partial, acc, k) \in Merged
           /\ [out |-> <<>>, skip |-> FALSE] \in Merged
<1>1. PICK n \in Nat : n = Len(entries) /\ \A k \in 1 .. n : entries[k] \in Entries
  BY LenProperties
<1>2. ASSUME NEW acc \in Merged, NEW k \in 1 .. n PROVE MergeStep(entries, partial, acc, k) \in Merged
  <2>1. acc.out \in Seq(Entries) /\ acc.skip \in BOOLEAN
    BY DEF Merged
  <2>2. \A e \in Entries : Append(acc.out, e) \in Seq(Entries)
    BY <2>1, AppendProperties
  <2>3. CASE acc.skip
    BY <2>3 DEF MergeStep, Merged
  <2>4. CASE ~acc.skip /\ k \in partial
    <3>1. k + 1 \in 1 .. n
      BY <1>1, <2>4
    <3>2. Append(acc.out, Both(entries[k], entries[k + 1])) \in Seq(Entries)
      BY <1>1, <2>2, <3>1, EntriesJoin
    <3> QED BY <2>4, <3>2 DEF MergeStep, Merged
  <2>5. CASE ~acc.skip /\ k \notin partial
    <3>1. Append(acc.out, entries[k]) \in Seq(Entries)
      BY <1>1, <2>2
    <3> QED BY <2>5, <3>1 DEF MergeStep, Merged
  <2> QED BY <2>1, <2>3, <2>4, <2>5
<1>3. <<>> \in Seq(Entries)
  OBVIOUS
<1> QED BY <1>1, <1>2, <1>3 DEF Merged

\* The states of the loop.
Merging(entries, partial) == [p \in Merged \X (1 .. Len(entries)) |-> MergeStep(entries, partial, p[1], p[2])]

LEMMA MergeIsFold ==
    ASSUME NEW entries \in Seq(Entries), NEW partial \in SUBSET (1 .. Len(entries) - 1)
    PROVE  /\ Merging(entries, partial) \in StepsOf(Merged, 1 .. Len(entries)) /\ [out |-> <<>>, skip |-> FALSE] \in Merged
           /\ \A acc \in Merged, x \in 1 .. Len(entries) : Merging(entries, partial)[<<acc, x>>] = MergeStep(entries, partial, acc, x)
           /\ MergeNeighbours(entries, partial) = Fold(Merging(entries, partial), [out |-> <<>>, skip |-> FALSE], Indices(Len(entries))).out
<1> DEFINE F == Merging(entries, partial)
           b == [out |-> <<>>, skip |-> FALSE]
           q == Positions(entries)
           E(g) == g = [s \in SUBSET (1 .. Len(q)) |->
                          IF s = {} THEN b ELSE MergeStep(entries, partial, g[s \ {Max(s)}], q[Max(s)])]
           h == CHOOSE g : E(g)
<1>1. PICK n \in Nat : n = Len(entries) /\ DOMAIN entries = 1 .. n
  BY LenProperties
<1>2. /\ F \in StepsOf(Merged, 1 .. n) /\ b \in Merged
      /\ \A acc \in Merged, x \in 1 .. n : F[<<acc, x>>] = MergeStep(entries, partial, acc, x)
  <2>1. \A acc \in Merged, x \in 1 .. n : MergeStep(entries, partial, acc, x) \in Merged
    BY <1>1, MergeStepType
  <2>2. b \in Merged
    BY MergeStepType
  <2> QED BY <1>1, <2>1, <2>2 DEF Merging, StepsOf
<1>3. /\ q \in Seq(1 .. n) /\ DOMAIN q = 1 .. Len(q) /\ Len(q) = n
      /\ q = Indices(n)
      /\ \A s \in SUBSET (1 .. Len(q)) : s # {} => q[Max(s)] \in 1 .. n
  <2>1. q \in Seq(1 .. n) /\ Len(q) = n /\ q = Indices(n)
    BY <1>1, PositionsAre
  <2>2. DOMAIN q = 1 .. Len(q) /\ Len(q) \in Nat /\ \A k \in 1 .. Len(q) : q[k] \in 1 .. n
    BY <2>1, LenProperties
  <2>3. \A s \in SUBSET (1 .. Len(q)) : s # {} => Max(s) \in s
    BY <2>2, MaxOf
  <2> QED BY <2>1, <2>2, <2>3
<1>4. MergeNeighbours(entries, partial) = h[1 .. Len(q)].out
  BY <1>3 DEF MergeNeighbours, FoldLeft, MapThenFoldSet
<1> HIDE DEF F, b, q
<1>5. PICK r \in Runs(Merged, F, b, q) : TRUE
  BY <1>2, <1>3, FoldExists
<1>6. E(r)
  <2>1. \A s \in SUBSET (1 .. Len(q)) :
           r[s] = IF s = {} THEN b ELSE MergeStep(entries, partial, r[s \ {Max(s)}], q[Max(s)])
    BY <1>2, <1>3 DEF Runs
  <2> QED BY <2>1 DEF Runs
<1>7. E(h)
  <2> HIDE DEF E
  <2> QED BY <1>6
<1> HIDE DEF h
<1>8. Follows(h, Merged, F, b, q)
  <2>1. h[{}] = b
    BY <1>7
  <2>2. ASSUME NEW s \in SUBSET (1 .. Len(q)), s # {}, h[s \ {Max(s)}] \in Merged
        PROVE  h[s] = F[<<h[s \ {Max(s)}], q[Max(s)]>>]
    <3>1. h[s] = MergeStep(entries, partial, h[s \ {Max(s)}], q[Max(s)])
      BY <1>7, <2>2
    <3> QED BY <1>2, <1>3, <2>2, <3>1
  <2> QED BY <2>1, <2>2 DEF Follows
<1>9. h[1 .. Len(q)] = Fold(F, b, q)
  BY <1>2, <1>3, <1>8, FoldMeets
<1>10. MergeNeighbours(entries, partial) = Fold(F, b, Indices(n)).out
  BY <1>3, <1>4, <1>9
<1> QED BY <1>1, <1>2, <1>10 DEF F, b

LEMMA MergeRuns ==
    ASSUME NEW entries \in Seq(Entries), NEW partial \in SUBSET (1 .. Len(entries) - 1)
    PROVE  \E f \in [0 .. Len(entries) -> Merged] :
              /\ f[0] = [out |-> <<>>, skip |-> FALSE]
              /\ \A k \in 1 .. Len(entries) : f[k] = MergeStep(entries, partial, f[k - 1], k)
              /\ f[Len(entries)].out = MergeNeighbours(entries, partial)
<1>1. PICK n \in Nat : n = Len(entries)
  BY LenProperties
<1>2. PICK F \in StepsOf(Merged, 1 .. n), b \in Merged : F = Merging(entries, partial) /\ b = [out |-> <<>>, skip |-> FALSE]
  BY <1>1, MergeIsFold
<1>3. /\ \A acc \in Merged, x \in 1 .. n : F[<<acc, x>>] = MergeStep(entries, partial, acc, x)
      /\ MergeNeighbours(entries, partial) = Fold(F, b, Indices(n)).out
  BY <1>1, <1>2, MergeIsFold
<1>4. PICK f \in [0 .. n -> Merged] : IsRun(f, F, b, n)
  BY IndexFold
<1>5. \A k \in 1 .. n : f[k] = MergeStep(entries, partial, f[k - 1], k)
  <2>1. \A k \in 1 .. n : k - 1 \in 0 .. n
    OBVIOUS
  <2> QED BY <1>3, <1>4, <2>1 DEF IsRun
<1>6. f[n].out = MergeNeighbours(entries, partial)
  BY <1>3, <1>4 DEF IsRun
<1> QED BY <1>1, <1>2, <1>4, <1>5, <1>6 DEF IsRun

\* What becomes one keeps the addresses of both, in their order.
LEMMA MergeKeepsAddresses ==
    ASSUME NEW entries \in Seq(Entries), NEW partial \in SUBSET (1 .. Len(entries) - 1)
    PROVE  AddressesOf(MergeNeighbours(entries, partial)) = AddressesOf(entries)
<1>1. PICK n \in Nat : n = Len(entries) /\ \A k \in 1 .. n : entries[k] \in Entries
  BY LenProperties
<1>2. PICK f \in [0 .. n -> Merged] :
              /\ f[0] = [out |-> <<>>, skip |-> FALSE]
              /\ \A k \in 1 .. n : f[k] = MergeStep(entries, partial, f[k - 1], k)
              /\ f[n].out = MergeNeighbours(entries, partial)
  BY <1>1, MergeRuns
<1>3. PICK P \in [0 .. n -> Seq(Nat)] :
              /\ P[0] = <<>> /\ P[n] = AddressesOf(entries)
              /\ \A k \in 1 .. n : P[k] = P[k - 1] \o entries[k].addrs
  BY <1>1, AddressesBegin
<1> DEFINE T == {k \in 0 .. n : /\ f[k].skip => k < n /\ AddressesOf(f[k].out) = P[k + 1]
                                /\ ~f[k].skip => AddressesOf(f[k].out) = P[k]}
<1>4. 0 \in T
  BY <1>2, <1>3, AddressesSteps
<1>5. ASSUME NEW k \in 1 .. n, k - 1 \in T PROVE k \in T
  <2>1. k - 1 \in 0 .. n /\ k \in 0 .. n /\ (k - 1) + 1 = k
    OBVIOUS
  <2>2. PICK acc \in Merged : acc = f[k - 1] /\ f[k] = MergeStep(entries, partial, acc, k)
    BY <1>2, <2>1
  <2>3. acc.out \in Seq(Entries) /\ acc.skip \in BOOLEAN
    BY DEF Merged
  <2>4. CASE acc.skip
    <3>1. f[k].skip = FALSE /\ f[k].out = acc.out
      BY <2>2, <2>4 DEF MergeStep, Merged
    <3>2. AddressesOf(acc.out) = P[k]
      BY <1>5, <2>1, <2>2, <2>4
    <3> QED BY <2>1, <3>1, <3>2
  <2>5. CASE ~acc.skip /\ k \in partial
    <3>1. k + 1 \in 1 .. n /\ k < n /\ (k + 1) - 1 = k
      BY <1>1, <2>5
    <3>2. f[k].skip = TRUE /\ f[k].out = Append(acc.out, Both(entries[k], entries[k + 1]))
      BY <2>2, <2>5, SMTT(60) DEF MergeStep
    <3>3. PICK e \in Entries : /\ e = Both(entries[k], entries[k + 1])
                               /\ e.addrs = entries[k].addrs \o entries[k + 1].addrs
      BY <1>1, <3>1, EntriesJoin
    <3>4. AddressesOf(Append(acc.out, e)) = AddressesOf(acc.out) \o e.addrs
      BY <2>3, AddressesSteps
    <3>5. AddressesOf(acc.out) = P[k - 1]
      BY <1>5, <2>2, <2>5
    <3>6. /\ P[k - 1] \in Seq(Nat) /\ entries[k].addrs \in Seq(Nat)
          /\ entries[k + 1].addrs \in Seq(Nat)
      BY <1>1, <1>3, <2>1, <3>1 DEF Entries
    <3>7. P[k - 1] \o (entries[k].addrs \o entries[k + 1].addrs)
            = (P[k - 1] \o entries[k].addrs) \o entries[k + 1].addrs
      BY <3>6, NatAssoc
    <3>8. P[k + 1] = (P[k - 1] \o entries[k].addrs) \o entries[k + 1].addrs
      BY <1>3, <3>1
    <3>9. AddressesOf(f[k].out) = P[k + 1]
      <4>1. AddressesOf(f[k].out) = P[k - 1] \o (entries[k].addrs \o entries[k + 1].addrs)
        BY <3>2, <3>3, <3>4, <3>5, Zenon
      <4> QED BY <3>7, <3>8, <4>1
    <3> QED BY <2>1, <3>1, <3>2, <3>9
  <2>6. CASE ~acc.skip /\ k \notin partial
    <3>1. f[k].skip = FALSE /\ f[k].out = Append(acc.out, entries[k])
      BY <2>2, <2>6 DEF MergeStep
    <3>2. AddressesOf(Append(acc.out, entries[k])) = AddressesOf(acc.out) \o entries[k].addrs
      BY <1>1, <2>3, AddressesSteps
    <3>3. AddressesOf(acc.out) = P[k - 1]
      BY <1>5, <2>2, <2>6
    <3>4. AddressesOf(f[k].out) = P[k - 1] \o entries[k].addrs
      BY <3>1, <3>2, <3>3, Zenon
    <3> QED BY <1>3, <2>1, <3>1, <3>4
  <2> QED BY <2>3, <2>4, <2>5, <2>6
<1>6. n \in T
  <2> HIDE DEF T
  <2>1. 0 .. n \subseteq T
    BY <1>4, <1>5, StepInduction
  <2> QED BY <2>1
<1>7. f[n].skip \in BOOLEAN /\ ~(n < n)
  BY <1>2 DEF Merged
<1> QED BY <1>2, <1>3, <1>6, <1>7

-----------------------------------------------------------------------------
\* The last element replaced.
LEMMA LastReplaced ==
    ASSUME NEW S, NEW q \in Seq(S), NEW y \in S, NEW x \in S
    PROVE  [Append(q, y) EXCEPT ![Len(Append(q, y))] = x] = Append(q, x)
<1>1. PICK a \in Seq(S) : a = Append(q, y)
  BY AppendProperties
<1>2. PICK c \in Seq(S) : c = Append(q, x)
  BY AppendProperties
<1>3. PICK n \in Nat : n = Len(q) /\ \A k \in 1 .. n : q[k] \in S
  BY LenProperties
<1>4. /\ Len(a) = n + 1 /\ DOMAIN a = 1 .. n + 1 /\ a[n + 1] = y
      /\ \A k \in 1 .. n : a[k] = q[k]
  BY <1>1, <1>3, AppendProperties, LenProperties
<1>5. /\ Len(c) = n + 1 /\ DOMAIN c = 1 .. n + 1 /\ c[n + 1] = x
      /\ \A k \in 1 .. n : c[k] = q[k]
  BY <1>2, <1>3, AppendProperties, LenProperties
<1>6. PICK d : d = [a EXCEPT ![Len(a)] = x]
  OBVIOUS
<1>7. /\ DOMAIN d = 1 .. n + 1 /\ d[n + 1] = x /\ \A k \in 1 .. n : d[k] = q[k]
  BY <1>4, <1>6
<1>8. d \in Seq(S) /\ Len(d) = n + 1
  <2>1. \A k \in 1 .. n + 1 : k \in 1 .. n \/ k = n + 1
    OBVIOUS
  <2>2. \A k \in 1 .. n + 1 : d[k] \in S
    BY <1>3, <1>7, <2>1
  <2>3. d \in [1 .. n + 1 -> S]
    BY <1>4, <1>6, <1>7, <2>2
  <2>4. \A m \in Nat : \A g \in [1 .. m -> S] : g \in Seq(S) /\ Len(g) = m
    OBVIOUS
  <2> QED BY <2>3, <2>4
<1>9. \A k \in 1 .. n + 1 : d[k] = c[k]
  <2>1. \A k \in 1 .. n + 1 : k \in 1 .. n \/ k = n + 1
    OBVIOUS
  <2> QED BY <1>5, <1>7, <2>1
<1>10. d = c
  BY <1>5, <1>8, <1>9, SeqEqual
<1> QED BY <1>1, <1>2, <1>6, <1>10, Zenon

\* A box becomes a part of its own or belongs to the part before it.
LEMMA AddBoxIs ==
    ASSUME NEW boxes \in Seq(BoxTypes), NEW k \in DOMAIN boxes, NEW parts \in Seq(Entries)
    PROVE  /\ AddBox(boxes, parts, k) \in Seq(Entries)
           /\ k = 1 \/ parts # <<>> =>
                /\ AddBox(boxes, parts, k) # <<>>
                /\ AddressesOf(AddBox(boxes, parts, k))
                     = AddressesOf(parts) \o BoxEntry(boxes, k).addrs
<1>1. PICK e \in Entries : e = BoxEntry(boxes, k) /\ e.addrs \in Seq(Nat)
  BY BoxEntryIs DEF Entries
<1>2. CASE k = 1 \/ Splits(boxes, k - 1)
  <2>1. AddBox(boxes, parts, k) = Append(parts, e)
    BY <1>1, <1>2, Zenon DEF AddBox
  <2>2. /\ Append(parts, e) \in Seq(Entries) /\ Append(parts, e) # <<>>
        /\ AddressesOf(Append(parts, e)) = AddressesOf(parts) \o e.addrs
    BY AppendProperties, AddressesSteps
  <2> QED BY <1>1, <2>1, <2>2, Zenon
<1>3. CASE ~(k = 1 \/ Splits(boxes, k - 1)) /\ parts = <<>>
  <2>1. AddBox(boxes, parts, k) = [parts EXCEPT ![Len(parts)] = Both(@, e)]
    BY <1>1, <1>3 DEF AddBox
  <2>2. <<>> \in Seq(Entries) /\ DOMAIN <<>> = {} /\ Len(<<>>) = 0
    OBVIOUS
  <2>3. [parts EXCEPT ![Len(parts)] = Both(@, e)] = parts
    BY <1>3, <2>2
  <2> QED BY <1>3, <2>1, <2>3
<1>4. CASE ~(k = 1 \/ Splits(boxes, k - 1)) /\ parts # <<>>
  <2>1. PICK p \in Seq(Entries), y \in Entries : parts = Append(p, y)
    BY <1>4, SequenceEmptyOrAppend
  <2>2. PICK x \in Entries : x = Both(y, e) /\ x.addrs = y.addrs \o e.addrs
    BY EntriesJoin
  <2>3. parts[Len(parts)] = y
    BY <2>1, AppendProperties
  <2>4. AddBox(boxes, parts, k) = [parts EXCEPT ![Len(parts)] = x]
    <3>1. AddBox(boxes, parts, k) = [parts EXCEPT ![Len(parts)] = Both(parts[Len(parts)], e)]
      BY <1>1, <1>4 DEF AddBox
    <3> QED BY <2>2, <2>3, <3>1
  <2>5. AddBox(boxes, parts, k) = Append(p, x)
    <3>1. [Append(p, y) EXCEPT ![Len(Append(p, y))] = x] = Append(p, x)
      BY LastReplaced
    <3> QED BY <2>1, <2>4, <3>1, Zenon
  <2>6. /\ Append(p, x) \in Seq(Entries) /\ Append(p, x) # <<>>
        /\ AddressesOf(Append(p, x)) = AddressesOf(p) \o x.addrs
        /\ AddressesOf(Append(p, y)) = AddressesOf(p) \o y.addrs
    <3>1. Append(p, x) \in Seq(Entries) /\ Append(p, x) # <<>>
      BY AppendProperties
    <3> QED BY <3>1, AddressesSteps, Zenon
  <2>7. AddressesOf(p) \o (y.addrs \o e.addrs) = (AddressesOf(p) \o y.addrs) \o e.addrs
    <3>1. AddressesOf(p) \in Seq(Nat) /\ y.addrs \in Seq(Nat)
      BY AddressesSteps DEF Entries
    <3> QED BY <1>1, <3>1, NatAssoc
  <2>8. AddressesOf(Append(p, x)) = AddressesOf(parts) \o e.addrs
    BY <2>1, <2>2, <2>6, <2>7, Zenon
  <2> QED BY <1>1, <2>5, <2>6, <2>8, Zenon
<1> QED BY <1>2, <1>3, <1>4

EntryLists == Seq(Entries)

LEMMA AddBoxType ==
    ASSUME NEW boxes \in Seq(BoxTypes)
    PROVE  /\ \A parts \in EntryLists, k \in 1 .. Len(boxes) : AddBox(boxes, parts, k) \in EntryLists
           /\ <<>> \in EntryLists
<1>1. \A k \in 1 .. Len(boxes) : k \in DOMAIN boxes
  BY LenProperties
<1>2. <<>> \in Seq(Entries)
  OBVIOUS
<1> QED BY <1>1, <1>2, AddBoxIs DEF EntryLists

\* The loop that cuts the text into parts.
Cutting(boxes) == [p \in EntryLists \X (1 .. Len(boxes)) |-> AddBox(boxes, p[1], p[2])]

LEMMA CutIsFold ==
    ASSUME NEW boxes \in Seq(BoxTypes)
    PROVE  /\ Cutting(boxes) \in StepsOf(EntryLists, 1 .. Len(boxes)) /\ <<>> \in EntryLists
           /\ \A acc \in EntryLists, x \in 1 .. Len(boxes) : Cutting(boxes)[<<acc, x>>] = AddBox(boxes, acc, x)
           /\ RawParts(boxes) = Fold(Cutting(boxes), <<>>, Indices(Len(boxes)))
<1> DEFINE F == Cutting(boxes)
           b == <<>>
           q == Positions(boxes)
           E(g) == g = [s \in SUBSET (1 .. Len(q)) |->
                          IF s = {} THEN b ELSE AddBox(boxes, g[s \ {Max(s)}], q[Max(s)])]
           h == CHOOSE g : E(g)
<1>1. PICK n \in Nat : n = Len(boxes) /\ DOMAIN boxes = 1 .. n
  BY LenProperties
<1>2. /\ F \in StepsOf(EntryLists, 1 .. n) /\ b \in EntryLists
      /\ \A acc \in EntryLists, x \in 1 .. n : F[<<acc, x>>] = AddBox(boxes, acc, x)
  <2>1. \A acc \in EntryLists, x \in 1 .. n : AddBox(boxes, acc, x) \in EntryLists
    BY <1>1, AddBoxType
  <2>2. b \in EntryLists
    BY AddBoxType
  <2> QED BY <1>1, <2>1, <2>2 DEF Cutting, StepsOf
<1>3. /\ q \in Seq(1 .. n) /\ DOMAIN q = 1 .. Len(q) /\ Len(q) = n
      /\ q = Indices(n)
      /\ \A s \in SUBSET (1 .. Len(q)) : s # {} => q[Max(s)] \in 1 .. n
  <2>1. q \in Seq(1 .. n) /\ Len(q) = n /\ q = Indices(n)
    BY <1>1, PositionsAre
  <2>2. DOMAIN q = 1 .. Len(q) /\ Len(q) \in Nat /\ \A k \in 1 .. Len(q) : q[k] \in 1 .. n
    BY <2>1, LenProperties
  <2>3. \A s \in SUBSET (1 .. Len(q)) : s # {} => Max(s) \in s
    BY <2>2, MaxOf
  <2> QED BY <2>1, <2>2, <2>3
<1>4. RawParts(boxes) = h[1 .. Len(q)]
  BY <1>3 DEF RawParts, FoldLeft, MapThenFoldSet
<1> HIDE DEF F, b, q
<1>5. PICK r \in Runs(EntryLists, F, b, q) : TRUE
  BY <1>2, <1>3, FoldExists
<1>6. E(r)
  <2>1. \A s \in SUBSET (1 .. Len(q)) :
           r[s] = IF s = {} THEN b ELSE AddBox(boxes, r[s \ {Max(s)}], q[Max(s)])
    BY <1>2, <1>3 DEF Runs
  <2> QED BY <2>1 DEF Runs
<1>7. E(h)
  <2> HIDE DEF E
  <2> QED BY <1>6
<1> HIDE DEF h
<1>8. Follows(h, EntryLists, F, b, q)
  <2>1. h[{}] = b
    BY <1>7
  <2>2. ASSUME NEW s \in SUBSET (1 .. Len(q)), s # {}, h[s \ {Max(s)}] \in EntryLists
        PROVE  h[s] = F[<<h[s \ {Max(s)}], q[Max(s)]>>]
    <3>1. h[s] = AddBox(boxes, h[s \ {Max(s)}], q[Max(s)])
      BY <1>7, <2>2
    <3> QED BY <1>2, <1>3, <2>2, <3>1
  <2> QED BY <2>1, <2>2 DEF Follows
<1>9. h[1 .. Len(q)] = Fold(F, b, q)
  BY <1>2, <1>3, <1>8, FoldMeets
<1>10. RawParts(boxes) = Fold(F, b, Indices(n))
  BY <1>3, <1>4, <1>9
<1> QED BY <1>1, <1>2, <1>10 DEF F, b

LEMMA CutRuns ==
    ASSUME NEW boxes \in Seq(BoxTypes)
    PROVE  \E f \in [0 .. Len(boxes) -> EntryLists] :
              /\ f[0] = <<>>
              /\ \A k \in 1 .. Len(boxes) : f[k] = AddBox(boxes, f[k - 1], k)
              /\ f[Len(boxes)] = RawParts(boxes)
<1>1. PICK n \in Nat : n = Len(boxes)
  BY LenProperties
<1>2. PICK F \in StepsOf(EntryLists, 1 .. n), b \in EntryLists : F = Cutting(boxes) /\ b = <<>>
  BY <1>1, CutIsFold
<1>3. /\ \A acc \in EntryLists, x \in 1 .. n : F[<<acc, x>>] = AddBox(boxes, acc, x)
      /\ RawParts(boxes) = Fold(F, b, Indices(n))
  BY <1>1, <1>2, CutIsFold
<1>4. PICK f \in [0 .. n -> EntryLists] : IsRun(f, F, b, n)
  BY IndexFold
<1>5. \A k \in 1 .. n : f[k] = AddBox(boxes, f[k - 1], k)
  <2>1. \A k \in 1 .. n : k - 1 \in 0 .. n
    OBVIOUS
  <2> QED BY <1>3, <1>4, <2>1 DEF IsRun
<1>6. f[n] = RawParts(boxes)
  BY <1>3, <1>4 DEF IsRun
<1> QED BY <1>1, <1>2, <1>4, <1>5, <1>6 DEF IsRun

\* The parts hold the addresses of the boxes.
LEMMA PartsKeepAddresses ==
    ASSUME NEW boxes \in Seq(BoxTypes)
    PROVE  /\ RawParts(boxes) \in Seq(Entries)
           /\ AddressesOf(RawParts(boxes)) = AddressesOf([k \in DOMAIN boxes |-> BoxEntry(boxes, k)])
<1>1. PICK n \in Nat : n = Len(boxes) /\ DOMAIN boxes = 1 .. n
  BY LenProperties
<1>2. PICK entries : entries = [k \in DOMAIN boxes |-> BoxEntry(boxes, k)]
  OBVIOUS
<1>3. entries \in Seq(Entries) /\ Len(entries) = n /\ \A k \in 1 .. n : entries[k] = BoxEntry(boxes, k)
  <2>1. entries \in [1 .. n -> Entries]
    BY <1>1, <1>2, BoxEntryIs
  <2>2. \A m \in Nat : \A g \in [1 .. m -> Entries] : g \in Seq(Entries) /\ Len(g) = m
    OBVIOUS
  <2> QED BY <1>1, <1>2, <2>1, <2>2
<1>4. PICK f \in [0 .. n -> Seq(Entries)] :
              /\ f[0] = <<>>
              /\ \A k \in 1 .. n : f[k] = AddBox(boxes, f[k - 1], k)
              /\ f[n] = RawParts(boxes)
  BY <1>1, CutRuns DEF EntryLists
<1>5. PICK P \in [0 .. n -> Seq(Nat)] :
              /\ P[0] = <<>> /\ P[n] = AddressesOf(entries)
              /\ \A k \in 1 .. n : P[k] = P[k - 1] \o entries[k].addrs
  BY <1>3, AddressesBegin
<1> DEFINE T == {k \in 0 .. n : AddressesOf(f[k]) = P[k] /\ (k # 0 => f[k] # <<>>)}
<1>6. 0 \in T
  BY <1>4, <1>5, AddressesSteps
<1>7. ASSUME NEW k \in 1 .. n, k - 1 \in T PROVE k \in T
  <2>1. k - 1 \in 0 .. n /\ k \in 0 .. n /\ (k - 1 # 0 \/ k = 1)
    OBVIOUS
  <2>2. PICK parts \in Seq(Entries) : parts = f[k - 1] /\ f[k] = AddBox(boxes, parts, k)
    BY <1>4, <2>1
  <2>3. k = 1 \/ parts # <<>>
    BY <1>7, <2>1, <2>2
  <2>4. /\ f[k] # <<>>
        /\ AddressesOf(f[k]) = AddressesOf(parts) \o BoxEntry(boxes, k).addrs
    BY <1>1, <2>2, <2>3, AddBoxIs
  <2>5. AddressesOf(parts) = P[k - 1]
    BY <1>7, <2>2
  <2>6. AddressesOf(f[k]) = P[k]
    BY <1>3, <1>5, <2>4, <2>5
  <2> QED BY <2>1, <2>4, <2>6
<1>8. n \in T
  <2> HIDE DEF T
  <2>1. 0 .. n \subseteq T
    BY <1>6, <1>7, StepInduction
  <2> QED BY <2>1
<1> QED BY <1>2, <1>4, <1>5, <1>8

(***************************************************************************)
(* address_parser.rs: on either path every address of any header comes out *)
(* once and in order, also after a bracket that is never closed or was     *)
(* never open.                                                             *)
(***************************************************************************)
THEOREM AddressesAreKept == \A boxes \in Seq(BoxTypes) : AddressesKept(boxes)
<1> SUFFICES ASSUME NEW boxes \in Seq(BoxTypes) PROVE AddressesKept(boxes)
  OBVIOUS
<1>1. PICK n \in Nat : n = Len(boxes) /\ DOMAIN boxes = 1 .. n
  BY LenProperties
<1>2. PICK entries : entries = [k \in DOMAIN boxes |-> BoxEntry(boxes, k)]
  OBVIOUS
<1>3. entries \in Seq(Entries) /\ Len(entries) = n
  <2>1. entries \in [1 .. n -> Entries]
    BY <1>1, <1>2, BoxEntryIs
  <2>2. \A m \in Nat : \A g \in [1 .. m -> Entries] : g \in Seq(Entries) /\ Len(g) = m
    OBVIOUS
  <2> QED BY <1>1, <1>2, <2>1, <2>2
<1>4. Filter(Positions(boxes), LAMBDA k : boxes[k].addr) = AddressesOf(entries)
  <2>1. /\ DOMAIN Positions(boxes) = DOMAIN boxes
        /\ \A k \in DOMAIN boxes : Positions(boxes)[k] = k
    BY DEF Positions
  <2>2. [k \in DOMAIN Positions(boxes) |->
           IF boxes[Positions(boxes)[k]].addr THEN <<Positions(boxes)[k]>> ELSE <<>>]
          = [k \in DOMAIN entries |-> entries[k].addrs]
    BY <1>2, <2>1, BoxEntryIs
  <2> QED BY <2>2 DEF Filter, AddressesOf
<1>5. AddressesOf(NormalizeAddressList(boxes)) = AddressesOf(entries)
  <2>1. PICK partial \in SUBSET (1 .. n - 1) : NormalizeAddressList(boxes) = MergeNeighbours(entries, partial)
    BY <1>2, <1>3 DEF NormalizeAddressList
  <2> QED BY <1>3, <2>1, MergeKeepsAddresses
<1>6. AddressesOf(NormalizeRaw(boxes)) = AddressesOf(entries)
  <2>1. PICK parts \in Seq(Entries) : parts = RawParts(boxes) /\ AddressesOf(parts) = AddressesOf(entries)
    BY <1>2, PartsKeepAddresses
  <2>2. PICK partial \in SUBSET (1 .. Len(parts) - 1) : NormalizeRaw(boxes) = MergeNeighbours(parts, partial)
    BY <2>1 DEF NormalizeRaw
  <2> QED BY <2>1, <2>2, MergeKeepsAddresses
<1> QED BY <1>4, <1>5, <1>6 DEF AddressesKept

Depths == Int

\* The brackets open after a box.
Nesting == [p \in Depths \X BoxTypes |-> p[1] + p[2].stray]

LEMMA NestIsFold ==
    ASSUME NEW q \in Seq(BoxTypes)
    PROVE  /\ Nesting \in StepsOf(Depths, BoxTypes) /\ 0 \in Depths
           /\ \A acc \in Depths, x \in BoxTypes : Nesting[<<acc, x>>] = acc + x.stray
           /\ Depth(q) = Fold(Nesting, 0, q)
<1> DEFINE F == Nesting
           b == 0
           E(g) == g = [s \in SUBSET (1 .. Len(q)) |->
                          IF s = {} THEN b ELSE g[s \ {Max(s)}] + q[Max(s)].stray]
           h == CHOOSE g : E(g)
<1>1. /\ F \in StepsOf(Depths, BoxTypes) /\ b \in Depths
      /\ \A acc \in Depths, x \in BoxTypes : F[<<acc, x>>] = acc + x.stray
  <2>1. /\ \A acc \in Depths, x \in BoxTypes : acc + x.stray \in Depths
        /\ b \in Depths
    BY DEF BoxTypes, Depths
  <2> QED BY <2>1 DEF Nesting, StepsOf
<1>2. /\ DOMAIN q = 1 .. Len(q) /\ Len(q) \in Nat
      /\ \A s \in SUBSET (1 .. Len(q)) : s # {} => q[Max(s)] \in BoxTypes
  <2>1. DOMAIN q = 1 .. Len(q) /\ Len(q) \in Nat /\ \A k \in 1 .. Len(q) : q[k] \in BoxTypes
    BY LenProperties
  <2>2. \A s \in SUBSET (1 .. Len(q)) : s # {} => Max(s) \in s
    BY <2>1, MaxOf
  <2> QED BY <2>1, <2>2
<1>3. Depth(q) = h[1 .. Len(q)]
  BY <1>2 DEF Depth, FoldLeft, MapThenFoldSet
<1> HIDE DEF F, b
<1>4. PICK r \in Runs(Depths, F, b, q) : TRUE
  BY <1>1, FoldExists
<1>5. E(r)
  <2>1. \A s \in SUBSET (1 .. Len(q)) :
           r[s] = IF s = {} THEN b ELSE r[s \ {Max(s)}] + q[Max(s)].stray
    BY <1>1, <1>2 DEF Runs
  <2> QED BY <2>1 DEF Runs
<1>6. E(h)
  <2> HIDE DEF E
  <2> QED BY <1>5
<1> HIDE DEF h
<1>7. Follows(h, Depths, F, b, q)
  <2>1. h[{}] = b
    BY <1>6
  <2>2. ASSUME NEW s \in SUBSET (1 .. Len(q)), s # {}, h[s \ {Max(s)}] \in Depths
        PROVE  h[s] = F[<<h[s \ {Max(s)}], q[Max(s)]>>]
    <3>1. h[s] = h[s \ {Max(s)}] + q[Max(s)].stray
      BY <1>6, <2>2
    <3> QED BY <1>1, <1>2, <2>2, <3>1
  <2> QED BY <2>1, <2>2 DEF Follows
<1>8. h[1 .. Len(q)] = Fold(F, b, q)
  BY <1>1, <1>7, FoldMeets
<1> QED BY <1>1, <1>3, <1>8 DEF F, b

LEMMA NestSteps ==
    /\ Depth(<<>>) = 0
    /\ \A q \in Seq(BoxTypes) : Depth(q) \in Depths
    /\ \A q \in Seq(BoxTypes), x \in BoxTypes : Depth(Append(q, x)) = Depth(q) + x.stray
<1>1. <<>> \in Seq(BoxTypes)
  OBVIOUS
<1>2. PICK F \in StepsOf(Depths, BoxTypes), b \in Depths :
          /\ F = Nesting /\ b = 0
          /\ \A acc \in Depths, x \in BoxTypes : F[<<acc, x>>] = acc + x.stray
  BY <1>1, NestIsFold
<1>3. \A q \in Seq(BoxTypes) : Depth(q) = Fold(F, b, q)
  BY <1>2, NestIsFold
<1>4. /\ Fold(F, b, <<>>) = b
      /\ \A q \in Seq(BoxTypes) : Fold(F, b, q) \in Depths
      /\ \A q \in Seq(BoxTypes), x \in BoxTypes : Fold(F, b, Append(q, x)) = F[<<Fold(F, b, q), x>>]
  BY <1>2, FoldSteps
<1>5. Depth(<<>>) = 0
  BY <1>1, <1>2, <1>3, <1>4
<1>6. \A q \in Seq(BoxTypes) : Depth(q) \in Depths
  BY <1>3, <1>4
<1>7. ASSUME NEW q \in Seq(BoxTypes), NEW x \in BoxTypes PROVE Depth(Append(q, x)) = Depth(q) + x.stray
  <2>1. Append(q, x) \in Seq(BoxTypes)
    BY AppendProperties
  <2>2. Depth(Append(q, x)) = F[<<Fold(F, b, q), x>>]
    BY <1>3, <1>4, <2>1
  <2> QED BY <1>2, <1>3, <1>4, <2>2
<1> QED BY <1>5, <1>6, <1>7

\* Where no bracket is stray none is ever open.
LEMMA NothingOpen ==
    ASSUME NEW boxes \in Seq(BoxTypes), \A k \in DOMAIN boxes : boxes[k].stray = 0,
           NEW k \in 0 .. Len(boxes)
    PROVE  Splits(boxes, k)
<1> DEFINE T == {q \in Seq(BoxTypes) : (\A i \in DOMAIN q : q[i].stray = 0) => Depth(q) = 0}
<1>1. <<>> \in T
  <2>1. <<>> \in Seq(BoxTypes) /\ Depth(<<>>) = 0
    BY NestSteps
  <2> QED BY <2>1
<1>2. ASSUME NEW q \in Seq(BoxTypes), NEW x \in BoxTypes, q \in T PROVE Append(q, x) \in T
  <2>1. PICK a \in Seq(BoxTypes) : a = Append(q, x)
    BY AppendProperties
  <2>2. PICK n \in Nat : n = Len(q) /\ DOMAIN q = 1 .. n
    BY LenProperties
  <2>3. /\ DOMAIN a = 1 .. n + 1 /\ a[n + 1] = x /\ n + 1 \in 1 .. n + 1
        /\ \A i \in 1 .. n : a[i] = q[i] /\ i \in 1 .. n + 1
    BY <2>1, <2>2, AppendProperties, LenProperties
  <2>4. Depth(Append(q, x)) = Depth(q) + x.stray
    BY NestSteps
  <2>5. ASSUME \A i \in DOMAIN a : a[i].stray = 0 PROVE Depth(a) = 0
    <3>1. x.stray = 0 /\ \A i \in DOMAIN q : q[i].stray = 0
      BY <2>2, <2>3, <2>5
    <3>2. Depth(q) = 0
      BY <1>2, <3>1
    <3> QED BY <2>1, <2>4, <3>1, <3>2
  <2> QED BY <2>1, <2>5
<1> HIDE DEF T
<1>3. Seq(BoxTypes) \subseteq T
  BY <1>1, <1>2, SeqInduction
<1>4. PICK n \in Nat : n = Len(boxes) /\ DOMAIN boxes = 1 .. n /\ \A i \in 1 .. n : boxes[i] \in BoxTypes
  BY LenProperties
<1>5. PICK q \in Seq(BoxTypes) : q = SubSeq(boxes, 1, k) /\ \A i \in DOMAIN q : q[i].stray = 0
  <2>1. /\ SubSeq(boxes, 1, k) \in Seq(BoxTypes) /\ Len(SubSeq(boxes, 1, k)) = k
        /\ \A i \in 1 .. k : SubSeq(boxes, 1, k)[i] = boxes[i]
    BY <1>4, SMTT(30)
  <2>2. PICK q \in Seq(BoxTypes) : q = SubSeq(boxes, 1, k)
    BY <2>1
  <2>3. DOMAIN q = 1 .. k
    BY <2>1, <2>2, LenProperties
  <2>4. \A i \in 1 .. k : i \in 1 .. n
    BY <1>4
  <2> QED BY <1>4, <2>1, <2>2, <2>3, <2>4
<1>6. Depth(q) = 0
  BY <1>3, <1>5 DEF T
<1> QED BY <1>5, <1>6 DEF Splits

\* ... and every box is a part of its own.
LEMMA PartsAreBoxes ==
    ASSUME NEW boxes \in Seq(BoxTypes), \A k \in DOMAIN boxes : boxes[k].stray = 0
    PROVE  RawParts(boxes) = [k \in DOMAIN boxes |-> BoxEntry(boxes, k)]
<1>1. PICK n \in Nat : n = Len(boxes) /\ DOMAIN boxes = 1 .. n
  BY LenProperties
<1>2. PICK entries : entries = [k \in DOMAIN boxes |-> BoxEntry(boxes, k)]
  OBVIOUS
<1>3. entries \in Seq(Entries) /\ Len(entries) = n /\ \A k \in 1 .. n : entries[k] = BoxEntry(boxes, k)
  <2>1. entries \in [1 .. n -> Entries]
    BY <1>1, <1>2, BoxEntryIs
  <2>2. \A m \in Nat : \A g \in [1 .. m -> Entries] : g \in Seq(Entries) /\ Len(g) = m
    OBVIOUS
  <2> QED BY <1>1, <1>2, <2>1, <2>2
<1>4. PICK f \in [0 .. n -> Seq(Entries)] :
              /\ f[0] = <<>>
              /\ \A k \in 1 .. n : f[k] = AddBox(boxes, f[k - 1], k)
              /\ f[n] = RawParts(boxes)
  BY <1>1, CutRuns DEF EntryLists
<1> DEFINE T == {k \in 0 .. n : f[k] = Begin(entries, k)}
<1>5. 0 \in T
  BY <1>3, <1>4, BeginSteps
<1>6. ASSUME NEW k \in 1 .. n, k - 1 \in T PROVE k \in T
  <2>1. k - 1 \in 0 .. n /\ k \in 0 .. n
    OBVIOUS
  <2>2. Splits(boxes, k - 1)
    BY <1>1, <2>1, NothingOpen
  <2>3. AddBox(boxes, f[k - 1], k) = Append(f[k - 1], entries[k])
    BY <1>3, <2>2, Zenon DEF AddBox
  <2>4. f[k] = Append(Begin(entries, k - 1), entries[k])
    BY <1>4, <1>6, <2>3
  <2>5. Begin(entries, k) = Append(Begin(entries, k - 1), entries[k])
    BY <1>3, BeginSteps
  <2> QED BY <2>1, <2>4, <2>5
<1>7. n \in T
  <2> HIDE DEF T
  <2>1. 0 .. n \subseteq T
    BY <1>5, <1>6, StepInduction
  <2> QED BY <2>1
<1>8. Begin(entries, n) = entries
  BY <1>3, BeginSteps
<1> QED BY <1>2, <1>4, <1>7, <1>8

(***************************************************************************)
(* address_parser.rs, email_parser.rs: where brackets are balanced and no  *)
(* name is followed by a bare address, both paths give the same recipients *)
(* with the same names, whatever the header.                               *)
(***************************************************************************)
THEOREM PathsDoAgree ==
    \A boxes \in Seq(BoxTypes) :
      (\A k \in DOMAIN boxes : boxes[k].name \/ boxes[k].addr) => PathsAgree(boxes)
<1> SUFFICES ASSUME NEW boxes \in Seq(BoxTypes),
                    \A k \in DOMAIN boxes : boxes[k].name \/ boxes[k].addr,
                    \A k \in DOMAIN boxes : boxes[k].stray = 0,
                    \A k \in 2 .. Len(boxes) :
                      ~boxes[k - 1].addr /\ boxes[k].addr => boxes[k].name
             PROVE  NormalizeAddressList(boxes) = NormalizeRaw(boxes)
  BY DEF PathsAgree
<1>1. PICK n \in Nat : n = Len(boxes) /\ DOMAIN boxes = 1 .. n /\ \A k \in 1 .. n : boxes[k] \in BoxTypes
  BY LenProperties
<1>2. PICK entries : entries = [k \in DOMAIN boxes |-> BoxEntry(boxes, k)]
  OBVIOUS
<1>3. Len(entries) = n
  <2>1. entries \in [1 .. n -> Entries]
    BY <1>1, <1>2, BoxEntryIs
  <2>2. \A m \in Nat : \A g \in [1 .. m -> Entries] : Len(g) = m
    OBVIOUS
  <2> QED BY <2>1, <2>2
<1>4. \A k \in 1 .. n : /\ entries[k].names = <<>> <=> ~boxes[k].name
                        /\ entries[k].addrs = <<>> <=> ~boxes[k].addr
  <2>1. \A k \in 1 .. n : <<k>> # <<>>
    OBVIOUS
  <2>2. \A k \in 1 .. n : boxes[k].name \in BOOLEAN /\ boxes[k].addr \in BOOLEAN
    BY <1>1 DEF BoxTypes
  <2>3. \A k \in 1 .. n : /\ entries[k].names = IF boxes[k].name THEN <<k>> ELSE <<>>
                          /\ entries[k].addrs = IF boxes[k].addr THEN <<k>> ELSE <<>>
    BY <1>1, <1>2, BoxEntryIs
  <2>4. ASSUME NEW k \in 1 .. n
        PROVE  /\ entries[k].names = <<>> <=> ~boxes[k].name
               /\ entries[k].addrs = <<>> <=> ~boxes[k].addr
    <3>1. CASE boxes[k].name
      <4>1. entries[k].names # <<>>
        BY <2>1, <2>3, <3>1
      <4>2. CASE boxes[k].addr
        BY <2>1, <2>3, <3>1, <4>1, <4>2
      <4>3. CASE ~boxes[k].addr
        BY <2>3, <3>1, <4>1, <4>3
      <4> QED BY <4>2, <4>3
    <3>2. CASE ~boxes[k].name
      <4>1. entries[k].names = <<>>
        BY <2>3, <3>2
      <4>2. CASE boxes[k].addr
        BY <2>1, <2>3, <3>2, <4>1, <4>2
      <4>3. CASE ~boxes[k].addr
        BY <2>3, <3>2, <4>1, <4>3
      <4> QED BY <4>2, <4>3
    <3> QED BY <3>1, <3>2
  <2> QED BY <2>4
<1> DEFINE list == {k \in 1 .. Len(entries) - 1 :
                      /\ entries[k].names # <<>> /\ entries[k].addrs = <<>>
                      /\ entries[k + 1].names # <<>> /\ entries[k + 1].addrs # <<>>}
           raw == {k \in 1 .. Len(entries) - 1 :
                      entries[k].addrs = <<>> /\ entries[k + 1].addrs # <<>>}
<1>5. NormalizeAddressList(boxes) = MergeNeighbours(entries, list)
  BY <1>2 DEF NormalizeAddressList
<1>6. NormalizeRaw(boxes) = MergeNeighbours(entries, raw)
  <2>1. RawParts(boxes) = entries
    BY <1>2, PartsAreBoxes
  <2> QED BY <2>1 DEF NormalizeRaw
<1>7. list = raw
  <2>1. ASSUME NEW k \in 1 .. n - 1, ~boxes[k].addr, boxes[k + 1].addr
        PROVE  boxes[k].name /\ boxes[k + 1].name
    <3>1. k + 1 \in 2 .. n /\ (k + 1) - 1 = k /\ k \in 1 .. n
      OBVIOUS
    <3> QED BY <1>1, <2>1, <3>1
  <2>2. \A k \in 1 .. n - 1 : k \in 1 .. n /\ k + 1 \in 1 .. n
    OBVIOUS
  <2>3. \A k \in 1 .. n - 1 : k \in list <=> k \in raw
    BY <1>3, <1>4, <2>1, <2>2
  <2> QED BY <1>3, <2>3
<1> QED BY <1>5, <1>6, <1>7

-----------------------------------------------------------------------------
(***************************************************************************)
(* Sorted numbers.                                                         *)
(***************************************************************************)
\* Some indices of numbers have a largest number.
LEMMA MaxIndex ==
    ASSUME NEW n \in Nat, NEW s \in [1 .. n -> Int], NEW J \in SUBSET (1 .. n), J # {}
    PROVE  \E i \in J : \A j \in J : s[j] <= s[i]
<1> DEFINE T == {m \in Nat : m <= n =>
                   \A K \in SUBSET (1 .. m) : K # {} => \E i \in K : \A j \in K : s[j] <= s[i]}
<1>1. 0 \in T
  <2>1. \A K \in SUBSET (1 .. 0) : K = {}
    OBVIOUS
  <2> QED BY <2>1
<1>2. ASSUME NEW m \in Nat, m \in T PROVE m + 1 \in T
  <2> SUFFICES ASSUME m + 1 <= n, NEW K \in SUBSET (1 .. m + 1), K # {}
               PROVE  \E i \in K : \A j \in K : s[j] <= s[i]
    OBVIOUS
  <2>1. \A j \in 1 .. m + 1 : s[j] \in Int /\ (j \in 1 .. m \/ j = m + 1)
    OBVIOUS
  <2>2. PICK L : L = K \ {m + 1}
    OBVIOUS
  <2>3. L \in SUBSET (1 .. m) /\ L \subseteq K /\ \A j \in K : j \in L \/ j = m + 1
    BY <2>1, <2>2
  <2>4. CASE L = {}
    <3>1. \A j \in K : j = m + 1
      BY <2>3, <2>4
    <3>2. \A j \in K : s[j] <= s[m + 1]
      BY <2>1, <3>1
    <3> QED BY <3>1, <3>2
  <2>5. CASE L # {}
    <3>1. PICK i \in L : \A j \in L : s[j] <= s[i]
      <4>1. \A M \in SUBSET (1 .. m) : M # {} => \E i \in M : \A j \in M : s[j] <= s[i]
        BY <1>2
      <4> HIDE DEF T
      <4> QED BY <2>3, <2>5, <4>1
    <3>2. i \in K /\ s[i] \in Int
      BY <2>1, <2>3
    <3>3. CASE m + 1 \in K /\ s[i] < s[m + 1]
      <4>1. \A j \in K : s[j] <= s[m + 1]
        BY <2>1, <2>3, <3>1, <3>2, <3>3, SMTT(60)
      <4> QED BY <3>3, <4>1
    <3>4. CASE m + 1 \notin K \/ ~(s[i] < s[m + 1])
      <4>1. \A j \in K : s[j] <= s[i]
        BY <2>1, <2>3, <3>1, <3>2, <3>4
      <4> QED BY <3>2, <4>1
    <3> QED BY <3>3, <3>4
  <2> QED BY <2>4, <2>5
<1>3. n \in T
  <2>1. Nat \subseteq T
    <3> HIDE DEF T
    <3> QED BY <1>1, <1>2, SetInduction
  <2> HIDE DEF T
  <2> QED BY <2>1
<1> QED BY <1>3

\* ... and a smallest.
LEMMA MinIndex ==
    ASSUME NEW n \in Nat, NEW s \in [1 .. n -> Int], NEW J \in SUBSET (1 .. n), J # {}
    PROVE  \E i \in J : \A j \in J : s[i] <= s[j]
<1>1. PICK m \in [1 .. n -> Int] : \A j \in 1 .. n : m[j] = 0 - s[j]
  <2>1. [j \in 1 .. n |-> 0 - s[j]] \in [1 .. n -> Int]
    OBVIOUS
  <2> QED BY <2>1
<1>2. PICK i \in J : \A j \in J : m[j] <= m[i]
  BY MaxIndex
<1>3. \A j \in J : s[i] <= s[j]
  BY <1>1, <1>2
<1> QED BY <1>3

Below(s, x) == {j \in DOMAIN s : s[j] < x}
UpTo(s, x)  == {j \in DOMAIN s : s[j] <= x}

LEMMA PartsCount ==
    ASSUME NEW n \in Nat, NEW V, NEW W, W \subseteq V, V \subseteq 1 .. n
    PROVE  /\ IsFiniteSet(V) /\ IsFiniteSet(W)
           /\ Cardinality(W) \in Nat /\ Cardinality(V) \in Nat
           /\ Cardinality(W) <= Cardinality(V) /\ Cardinality(V) <= n
<1>1. IsFiniteSet(1 .. n) /\ Cardinality(1 .. n) = n
  BY FS_Interval
<1>2. IsFiniteSet(V) /\ Cardinality(V) <= n
  BY <1>1, FS_Subset, ZenonT(60)
<1>3. IsFiniteSet(W) /\ Cardinality(W) <= Cardinality(V)
  BY <1>2, FS_Subset
<1> QED BY <1>2, <1>3, FS_CardinalityType

\* Of every rank there is a number.
LEMMA RankExists ==
    ASSUME NEW s \in Seq(Int), NEW k \in 1 .. Len(s)
    PROVE  \E x \in Range(s) : Cardinality(Below(s, x)) < k /\ k <= Cardinality(UpTo(s, x))
<1>1. PICK n \in Nat : n = Len(s) /\ DOMAIN s = 1 .. n /\ s \in [1 .. n -> Int]
  BY LenProperties
<1>2. ASSUME NEW x \in Int
      PROVE  /\ Below(s, x) \in SUBSET (1 .. n) /\ UpTo(s, x) \in SUBSET (1 .. n)
             /\ Cardinality(Below(s, x)) \in Nat /\ Cardinality(UpTo(s, x)) \in Nat
  <2>1. Below(s, x) \in SUBSET (1 .. n) /\ UpTo(s, x) \in SUBSET (1 .. n)
    BY <1>1 DEF Below, UpTo
  <2> QED BY <2>1, PartsCount
<1> DEFINE J == {i \in 1 .. n : k <= Cardinality(UpTo(s, s[i]))}
<1>3. J # {}
  <2>1. 1 .. n # {}
    BY <1>1
  <2>2. PICK i \in 1 .. n : \A j \in 1 .. n : s[j] <= s[i]
    BY <1>1, <2>1, MaxIndex
  <2>3. UpTo(s, s[i]) = 1 .. n
    BY <1>1, <2>2 DEF UpTo
  <2>4. Cardinality(1 .. n) = n
    BY FS_Interval
  <2> QED BY <1>1, <2>3, <2>4
<1>4. PICK i \in J : \A j \in J : s[i] <= s[j]
  <2>1. J \in SUBSET (1 .. n)
    OBVIOUS
  <2> HIDE DEF J
  <2> QED BY <1>1, <1>3, <2>1, MinIndex
<1>5. i \in 1 .. n /\ s[i] \in Int /\ s[i] \in Range(s) /\ k <= Cardinality(UpTo(s, s[i]))
  BY <1>1 DEF Range
<1>6. Cardinality(Below(s, s[i])) < k
  <2>1. CASE Below(s, s[i]) = {}
    <3>1. Cardinality(Below(s, s[i])) = 0
      BY <2>1, FS_EmptySet
    <3> QED BY <3>1
  <2>2. CASE Below(s, s[i]) # {}
    <3>1. PICK j \in Below(s, s[i]) : \A l \in Below(s, s[i]) : s[l] <= s[j]
      BY <1>1, <1>2, <1>5, <2>2, MaxIndex
    <3>2. j \in 1 .. n /\ s[j] < s[i] /\ s[j] \in Int
      BY <1>1, <1>2, <1>5 DEF Below
    <3>3. Below(s, s[i]) \subseteq UpTo(s, s[j])
      BY <1>1, <3>1 DEF Below, UpTo
    <3>4. Cardinality(Below(s, s[i])) <= Cardinality(UpTo(s, s[j]))
      <4>1. UpTo(s, s[j]) \subseteq 1 .. n
        BY <1>2, <3>2
      <4> QED BY <3>3, <4>1, PartsCount
    <3>5. j \notin J
      <4>1. ~(s[i] <= s[j])
        BY <1>5, <3>2
      <4> HIDE DEF J
      <4> QED BY <1>4, <4>1
    <3>6. ~(k <= Cardinality(UpTo(s, s[j])))
      BY <3>2, <3>5
    <3>7. /\ Cardinality(Below(s, s[i])) \in Nat /\ Cardinality(UpTo(s, s[j])) \in Nat
          /\ k \in Nat
      <4>1. k \in Nat
        BY <1>1
      <4>2. s[i] \in Int /\ s[j] \in Int
        BY <1>5, <3>2
      <4> HIDE DEF J
      <4> QED BY <1>2, <4>1, <4>2
    <3> HIDE DEF J
    <3> QED BY <3>4, <3>6, <3>7
  <2> QED BY <2>1, <2>2
<1> QED BY <1>5, <1>6

Rising(q) == \A i, j \in DOMAIN q : i <= j => q[i] <= q[j]

LEMMA SortIs ==
    ASSUME NEW s \in Seq(Int)
    PROVE  /\ Sort(s) \in Seq(Int) /\ Len(Sort(s)) = Len(s) /\ Rising(Sort(s))
           /\ \A k \in 1 .. Len(s) :
                /\ Sort(s)[k] \in Range(s)
                /\ Cardinality(Below(s, Sort(s)[k])) < k
                /\ k <= Cardinality(UpTo(s, Sort(s)[k]))
<1>1. PICK n \in Nat : n = Len(s) /\ DOMAIN s = 1 .. n /\ \A k \in 1 .. n : s[k] \in Int
  BY LenProperties
<1>2. PICK r : r = Sort(s)
  OBVIOUS
<1>3. r = [k \in 1 .. n |-> CHOOSE x \in Range(s) :
                Cardinality(Below(s, x)) < k /\ k <= Cardinality(UpTo(s, x))]
  BY <1>1, <1>2 DEF Sort, Below, UpTo
<1>4. ASSUME NEW k \in 1 .. n
      PROVE  /\ r[k] \in Range(s)
             /\ Cardinality(Below(s, r[k])) < k /\ k <= Cardinality(UpTo(s, r[k]))
  <2>1. \E x \in Range(s) : Cardinality(Below(s, x)) < k /\ k <= Cardinality(UpTo(s, x))
    BY <1>1, RankExists
  <2>2. r[k] = CHOOSE x \in Range(s) :
                Cardinality(Below(s, x)) < k /\ k <= Cardinality(UpTo(s, x))
    BY <1>3
  <2> QED BY <2>1, <2>2
<1>5. Range(s) \subseteq Int
  BY <1>1 DEF Range
<1>6. r \in Seq(Int) /\ Len(r) = n
  <2>1. r \in [1 .. n -> Int]
    BY <1>3, <1>4, <1>5
  <2>2. \A m \in Nat : \A g \in [1 .. m -> Int] : g \in Seq(Int) /\ Len(g) = m
    OBVIOUS
  <2> QED BY <2>1, <2>2
<1>7. ASSUME NEW i \in 1 .. n, NEW j \in 1 .. n, i <= j PROVE r[i] <= r[j]
  <2> SUFFICES ASSUME r[j] < r[i] PROVE FALSE
    BY <1>4, <1>5
  <2>1. UpTo(s, r[j]) \subseteq Below(s, r[i]) /\ Below(s, r[i]) \subseteq 1 .. n
    <3>1. r[i] \in Int /\ r[j] \in Int
      BY <1>4, <1>5
    <3> QED BY <1>1, <3>1, SMTT(60) DEF UpTo, Below
  <2>2. /\ Cardinality(UpTo(s, r[j])) <= Cardinality(Below(s, r[i]))
        /\ Cardinality(UpTo(s, r[j])) \in Nat /\ Cardinality(Below(s, r[i])) \in Nat
    BY <2>1, PartsCount
  <2>3. j <= Cardinality(UpTo(s, r[j])) /\ Cardinality(Below(s, r[i])) < i
    BY <1>4
  <2> QED BY <1>7, <2>2, <2>3
<1>8. Rising(r)
  <2>1. DOMAIN r = 1 .. n
    BY <1>3
  <2> QED BY <1>7, <2>1 DEF Rising
<1> QED BY <1>1, <1>2, <1>4, <1>6, <1>8

-----------------------------------------------------------------------------
(***************************************************************************)
(* The date.                                                               *)
(***************************************************************************)
\* The positions of a sequence with a number between two.
Window(s, lo, hi) == {k \in DOMAIN s : lo <= s[k] /\ s[k] <= hi}

\* What lies between two positions is at most as many as there are.
LEMMA IntervalHolds ==
    ASSUME NEW a \in Nat, NEW b \in Nat, a <= b,
           NEW W, W \subseteq (a + 1) .. b
    PROVE  Cardinality(W) <= b - a
<1>1. PICK c \in Int : c = a + 1
  OBVIOUS
<1> DEFINE I == c .. b
<1>2. IsFiniteSet(I) /\ Cardinality(I) = IF c > b THEN 0 ELSE b - c + 1
  BY <1>1, FS_Interval
<1>3. W \subseteq I
  BY <1>1
<1>4. W \in SUBSET I
  BY <1>3
<1>5. Cardinality(W) <= Cardinality(I) /\ Cardinality(W) \in Nat /\ Cardinality(I) \in Nat
  BY <1>2, <1>4, FS_Subset, FS_CardinalityType
<1> QED BY <1>1, <1>2, <1>5

\* The middle of a sorted sequence lies within whatever most of it lies in.
LEMMA MiddleInWindow ==
    ASSUME NEW s \in Seq(Int), Rising(s), NEW lo \in Int, NEW hi \in Int,
           2 * Cardinality(Window(s, lo, hi)) > Len(s),
           NEW p \in 1 .. Len(s), Len(s) <= 2 * p, 2 * p <= Len(s) + 2
    PROVE  lo <= s[p] /\ s[p] <= hi
<1>1. PICK n \in Nat : n = Len(s) /\ DOMAIN s = 1 .. n /\ \A k \in 1 .. n : s[k] \in Int
  BY LenProperties
<1>2. PICK W : W = Window(s, lo, hi)
  OBVIOUS
<1>3. W \subseteq 1 .. n /\ \A k \in W : lo <= s[k] /\ s[k] <= hi
  BY <1>1, <1>2 DEF Window
<1>4. Cardinality(W) \in Nat /\ 2 * Cardinality(W) > n
  BY <1>1, <1>2, <1>3, PartsCount
<1>5. \A i, j \in 1 .. n : i <= j => s[i] <= s[j]
  BY <1>1 DEF Rising
<1>6. p \in 1 .. n /\ s[p] \in Int /\ n <= 2 * p /\ 2 * p <= n + 2
  BY <1>1
<1>7. ASSUME s[p] < lo PROVE FALSE
  <2>1. ASSUME NEW k \in W PROVE k \in p + 1 .. n
    <3>1. k \in 1 .. n /\ lo <= s[k] /\ s[k] \in Int
      BY <1>1, <1>3
    <3>2. ~(k <= p)
      BY <1>5, <1>6, <1>7, <3>1, SMTT(60)
    <3> QED BY <1>6, <3>1, <3>2
  <2>2. W \subseteq p + 1 .. n
    BY <2>1
  <2>3. p \in Nat /\ p <= n
    BY <1>6
  <2>4. Cardinality(W) <= n - p
    BY <2>2, <2>3, IntervalHolds
  <2> QED BY <1>4, <1>6, <2>4
<1>8. ASSUME hi < s[p] PROVE FALSE
  <2>1. ASSUME NEW k \in W PROVE k \in 1 .. p - 1
    <3>1. k \in 1 .. n /\ s[k] <= hi /\ s[k] \in Int
      BY <1>1, <1>3
    <3>2. ~(p <= k)
      BY <1>5, <1>6, <1>8, <3>1, SMTT(60)
    <3> QED BY <1>6, <3>1, <3>2
  <2>2. W \subseteq 1 .. p - 1
    BY <2>1
  <2>3. PICK b \in Nat : b = p - 1
    BY <1>6
  <2>4. W \subseteq (0 + 1) .. b
    BY <2>2, <2>3
  <2>5. 0 \in Nat /\ 0 <= b
    BY <2>3
  <2>6. Cardinality(W) <= b - 0
    BY <2>4, <2>5, IntervalHolds
  <2> QED BY <1>4, <1>6, <2>3, <2>6
<1> QED BY <1>6, <1>7, <1>8

\* The two positions the median is made of.
LEMMA MedianIs ==
    ASSUME NEW s \in Seq(Int), Len(s) > 0
    PROVE  \E p, q \in 1 .. Len(s) : /\ p <= q /\ Median2(s) = s[p] + s[q]
                                     /\ Len(s) <= 2 * p /\ 2 * q <= Len(s) + 2
<1>1. PICK n \in Nat : n = Len(s) /\ n > 0 /\ \A k \in 1 .. n : s[k] \in Int
  BY LenProperties
<1>2. CASE n % 2 = 1
  <2>1. n \div 2 + 1 \in 1 .. n /\ 2 * (n \div 2 + 1) = n + 1
    BY <1>1, <1>2, SMTT(30)
  <2>2. Median2(s) = 2 * s[n \div 2 + 1]
    BY <1>1, <1>2 DEF Median2
  <2>3. PICK p \in 1 .. n : p = n \div 2 + 1 /\ 2 * p = n + 1
    BY <2>1
  <2>4. s[p] \in Int /\ Median2(s) = 2 * s[p]
    BY <1>1, <2>2, <2>3
  <2>5. Median2(s) = s[p] + s[p]
    BY <2>4
  <2>6. p <= p /\ n <= 2 * p /\ 2 * p <= n + 2
    BY <1>1, <2>3
  <2> QED BY <1>1, <2>5, <2>6
<1>3. CASE n % 2 # 1
  <2>1. n \div 2 \in 1 .. n /\ n \div 2 + 1 \in 1 .. n /\ 2 * (n \div 2) = n
    BY <1>1, <1>3, SMTT(30)
  <2>2. Median2(s) = s[n \div 2] + s[n \div 2 + 1]
    BY <1>1, <1>3 DEF Median2
  <2>3. PICK p \in 1 .. n, q \in 1 .. n : p = n \div 2 /\ q = p + 1 /\ 2 * p = n
    BY <2>1
  <2>4. Median2(s) = s[p] + s[q]
    BY <2>2, <2>3
  <2>5. p <= q /\ n <= 2 * p /\ 2 * q <= n + 2
    BY <1>1, <2>3
  <2> QED BY <1>1, <2>4, <2>5
<1> QED BY <1>2, <1>3

\* How many a filter keeps.
LEMMA ChosenCount ==
    ASSUME NEW S, NEW P, NEW q \in Seq(S)
    PROVE  Len(Chosen(S, P, q)) = Cardinality({k \in DOMAIN q : q[k] \in P})
<1> DEFINE Hits(r) == {k \in DOMAIN r : r[k] \in P}
           T == {r \in Seq(S) : Len(Chosen(S, P, r)) = Cardinality(Hits(r))}
<1>1. <<>> \in T
  <2>1. <<>> \in Seq(S) /\ DOMAIN <<>> = {} /\ Len(<<>>) = 0
    OBVIOUS
  <2>2. Chosen(S, P, <<>>) = <<>>
    BY ChosenSteps
  <2>3. Hits(<<>>) = {}
    BY <2>1
  <2>4. \A E : E = {} => Cardinality(E) = 0
    BY FS_EmptySet
  <2> QED BY <2>1, <2>2, <2>3, <2>4
<1>2. ASSUME NEW r \in Seq(S), NEW x \in S, r \in T PROVE Append(r, x) \in T
  <2>1. PICK n \in Nat : n = Len(r) /\ DOMAIN r = 1 .. n
    BY LenProperties
  <2>2. PICK a \in Seq(S) : a = Append(r, x)
    BY AppendProperties
  <2>3. /\ DOMAIN a = 1 .. n + 1 /\ a[n + 1] = x
        /\ \A k \in 1 .. n : a[k] = r[k]
    BY <2>1, <2>2, AppendProperties, LenProperties
  <2>4. \A k \in 1 .. n + 1 : k \in 1 .. n \/ k = n + 1
    OBVIOUS
  <2>5. \A k \in 1 .. n : k \in 1 .. n + 1 /\ k # n + 1
    OBVIOUS
  <2>6. PICK c \in Seq(S \cap P) : c = Chosen(S, P, r)
    BY ChosenSteps
  <2>7. PICK H : H = Hits(r)
    OBVIOUS
  <2>8. H \subseteq 1 .. n /\ Len(c) = Cardinality(H)
    BY <1>2, <2>1, <2>6, <2>7
  <2>9. IsFiniteSet(H) /\ Cardinality(H) \in Nat
    BY <2>8, PartsCount
  <2>10. CASE x \in P
    <3>1. Hits(a) = H \cup {n + 1}
      BY <2>1, <2>3, <2>4, <2>5, <2>7, <2>10
    <3>2. n + 1 \notin H
      BY <2>5, <2>8
    <3>3. Cardinality(H \cup {n + 1}) = Cardinality(H) + 1
      BY <2>9, <3>2, FS_AddElement
    <3>4. Chosen(S, P, a) = Append(c, x)
      <4>1. Chosen(S, P, Append(r, x)) = Append(Chosen(S, P, r), x)
        BY <2>10, ChosenSteps, ZenonT(60)
      <4> QED BY <2>2, <2>6, <4>1, Zenon
    <3>5. Len(Append(c, x)) = Len(c) + 1
      BY <2>10, AppendProperties
    <3>6. Len(Chosen(S, P, a)) = Cardinality(Hits(a))
      BY <2>8, <3>1, <3>3, <3>4, <3>5, Zenon
    <3> QED BY <2>2, <3>6
  <2>11. CASE x \notin P
    <3>1. Hits(a) = H
      BY <2>1, <2>3, <2>4, <2>5, <2>7, <2>11
    <3>2. Chosen(S, P, a) = c
      <4>1. Chosen(S, P, Append(r, x)) = Chosen(S, P, r)
        BY <2>11, ChosenSteps
      <4> QED BY <2>2, <2>6, <4>1, Zenon
    <3>3. Len(Chosen(S, P, a)) = Cardinality(Hits(a))
      BY <2>8, <3>1, <3>2, Zenon
    <3> QED BY <2>2, <3>3
  <2> QED BY <2>10, <2>11
<1> HIDE DEF T
<1>3. Seq(S) \subseteq T
  BY <1>1, <1>2, SeqInduction
<1> QED BY <1>3 DEF T

\* The first a filter keeps of a sorted sequence is the least.
LEMMA FirstIsLeast ==
    ASSUME NEW S, S \subseteq Int, NEW P, NEW q \in Seq(S), Rising(q)
    PROVE  \A y \in Range(Chosen(S, P, q)) :
              Chosen(S, P, q) # <<>> /\ Chosen(S, P, q)[1] <= y
<1> DEFINE T == {r \in Seq(S) : Rising(r) =>
                    \A y \in Range(Chosen(S, P, r)) :
                      Chosen(S, P, r) # <<>> /\ Chosen(S, P, r)[1] <= y}
<1>1. <<>> \in T
  <2>1. <<>> \in Seq(S)
    OBVIOUS
  <2>2. Chosen(S, P, <<>>) = <<>>
    BY ChosenSteps
  <2>3. Range(<<>>) = {}
    BY RangeNone
  <2> QED BY <2>1, <2>2, <2>3
<1>2. ASSUME NEW r \in Seq(S), NEW x \in S, r \in T PROVE Append(r, x) \in T
  <2>1. PICK n \in Nat : n = Len(r) /\ DOMAIN r = 1 .. n /\ \A k \in 1 .. n : r[k] \in S
    BY LenProperties
  <2>2. PICK a \in Seq(S) : a = Append(r, x)
    BY AppendProperties
  <2>3. /\ DOMAIN a = 1 .. n + 1 /\ a[n + 1] = x
        /\ \A k \in 1 .. n : a[k] = r[k]
    BY <2>1, <2>2, AppendProperties, LenProperties
  <2>4. \A k \in 1 .. n : k \in 1 .. n + 1 /\ k <= n + 1 /\ n + 1 \in 1 .. n + 1
    OBVIOUS
  <2> SUFFICES ASSUME Rising(a), NEW y \in Range(Chosen(S, P, a))
               PROVE  Chosen(S, P, a) # <<>> /\ Chosen(S, P, a)[1] <= y
    BY <2>2
  <2>5. Rising(r) /\ \A k \in 1 .. n : r[k] <= x
    BY <2>1, <2>3, <2>4 DEF Rising
  <2>6. PICK c \in Seq(S) : c = Chosen(S, P, r) /\ Range(c) = Range(r) \cap P
    <3>1. Chosen(S, P, r) \in Seq(S \cap P)
      BY ChosenSteps
    <3>2. \A s \in Seq(S \cap P) : s \in Seq(S)
      OBVIOUS
    <3> QED BY <3>1, <3>2, RangeChosen
  <2>7. \A z \in Range(c) : c # <<>> /\ c[1] <= z
    BY <1>2, <2>5, <2>6
  <2>8. \A z \in Range(c) : z <= x /\ z \in Int
    BY <2>1, <2>5, <2>6 DEF Range
  <2>9. CASE x \notin P
    <3>1. Chosen(S, P, a) = c
      <4>1. Chosen(S, P, Append(r, x)) = Chosen(S, P, r)
        BY <2>9, ChosenSteps
      <4> QED BY <2>2, <2>6, <4>1, Zenon
    <3> QED BY <2>7, <3>1
  <2>10. CASE x \in P
    <3>1. PICK d \in Seq(S) : d = Append(c, x)
      BY AppendProperties
    <3>2. Chosen(S, P, a) = d
      <4>1. Chosen(S, P, Append(r, x)) = Append(Chosen(S, P, r), x)
        BY <2>10, ChosenSteps, ZenonT(60)
      <4> QED BY <2>2, <2>6, <3>1, <4>1, Zenon
    <3>3. /\ d # <<>> /\ Len(d) = Len(c) + 1 /\ d[Len(c) + 1] = x
          /\ \A k \in 1 .. Len(c) : d[k] = c[k]
          /\ Range(d) = Range(c) \cup {x} /\ Len(c) \in Nat
      BY <3>1, AppendProperties, RangeAppend, LenProperties, SMTT(60)
    <3>4. CASE c = <<>>
      <4>1. d[1] = x /\ Range(c) = {}
        BY <3>3, <3>4, EmptySeq, RangeNone
      <4>2. y = x
        BY <3>2, <3>3, <4>1
      <4> QED BY <3>2, <3>3, <4>1, <4>2
    <3>5. CASE c # <<>>
      <4>1. Len(c) # 0
        BY <3>5, EmptySeq
      <4>2. 1 \in 1 .. Len(c) /\ d[1] = c[1] /\ c[1] \in Range(c)
        <5>1. 1 \in 1 .. Len(c) /\ DOMAIN c = 1 .. Len(c)
          BY <3>3, <4>1, LenProperties
        <5> QED BY <3>3, <5>1 DEF Range
      <4>3. c[1] <= x
        BY <2>8, <4>2
      <4>4. y \in Range(c) \/ y = x
        BY <3>2, <3>3
      <4> QED BY <2>7, <3>2, <3>3, <4>2, <4>3, <4>4
    <3> QED BY <3>4, <3>5
  <2> QED BY <2>9, <2>10
<1> HIDE DEF T
<1>3. Seq(S) \subseteq T
  BY <1>1, <1>2, SeqInduction
<1> QED BY <1>3 DEF T


\* Times as a set with a name.
Hours == Int

LEMMA DatesChosen ==
    ASSUME NEW headers \in Seq(DateTexts)
    PROVE  DateOptions(headers) \in Seq(Hours)
<1> DEFINE dates == [k \in DOMAIN headers |-> DateOption(headers[k])]
<1>1. PICK n \in Nat : DOMAIN headers = 1 .. n /\ \A k \in 1 .. n : headers[k] \in DateTexts
  BY LenProperties
<1>2. ASSUME NEW text \in DateTexts
      PROVE  DateOption(text) \in Hours
  <2>1. text.local \in Int /\ text.zone.offset \in Int
    BY DEF DateTexts
  <2>2. text.local - text.zone.offset \in Int /\ -1 \in Int
    BY <2>1
  <2>3. MailDate(text) \in Hours /\ ParseDateString(text) \in Hours
    BY <2>1, <2>2 DEF MailDate, ParseDateString, NoDate, Hours
  <2> QED BY <2>3 DEF DateOption
<1>3. dates \in [1 .. n -> Hours]
  BY <1>1, <1>2
<1>4. dates \in Seq(Hours)
  <2>1. \A m \in Nat : \A g \in [1 .. m -> Hours] : g \in Seq(Hours)
    OBVIOUS
  <2> QED BY <1>3, <2>1
<1>5. DateOptions(headers) = Chosen(Hours, {t \in Hours : t # NoDate}, dates)
  <2>1. \A k \in DOMAIN dates : dates[k] \in Hours
    BY <1>1, <1>3
  <2> HIDE DEF dates
  <2>2. \A k \in DOMAIN dates :
           OneOrNone(Hours, {t \in Hours : t # NoDate})[dates[k]] =
             IF dates[k] # NoDate THEN <<dates[k]>> ELSE <<>>
    BY <2>1 DEF OneOrNone
  <2>3. Filter(dates, LAMBDA t : t # NoDate) = Chosen(Hours, {t \in Hours : t # NoDate}, dates)
    BY <2>2 DEF Filter, Chosen, FlatMap, Mapped
  <2> QED BY <2>3 DEF DateOptions, dates
<1>6. \A s \in Seq(Hours \cap {t \in Hours : t # NoDate}) : s \in Seq(Hours)
  OBVIOUS
<1> HIDE DEF dates
<1>7. Chosen(Hours, {t \in Hours : t # NoDate}, dates) \in Seq(Hours)
  BY <1>4, <1>6, ChosenSteps
<1> QED BY <1>5, <1>7

LEMMA SafeDatesSorted ==
    ASSUME NEW options \in Seq(Hours)
    PROVE  SafeDates(options) \in Seq(Int) /\ Rising(SafeDates(options))
<1> DEFINE fixed == [k \in DOMAIN options |-> FixMillennium(options[k])]
<1>1. PICK n \in Nat : DOMAIN options = 1 .. n /\ \A k \in 1 .. n : options[k] \in Hours
  BY LenProperties
<1>2. ASSUME NEW t \in Hours PROVE FixMillennium(t) \in Hours
  <2>1. YearHours = 8640
    BY DEF YearHours, Day
  <2>2. YearOf(t) \in Int /\ t \in Int
    BY <2>1 DEF YearOf, Hours
  <2> QED BY <2>1, <2>2 DEF FixMillennium, Hours
<1>3. fixed \in [1 .. n -> Hours]
  BY <1>1, <1>2
<1>4. fixed \in Seq(Hours)
  <2>1. \A m \in Nat : \A g \in [1 .. m -> Hours] : g \in Seq(Hours)
    OBVIOUS
  <2> QED BY <1>3, <2>1
<1> DEFINE P == {t \in Hours : IsSafe(t)}
<1>5. SafeDates(options) = Sort(Chosen(Hours, P, fixed))
  <2>1. \A k \in DOMAIN fixed : fixed[k] \in Hours
    BY <1>1, <1>3
  <2> HIDE DEF fixed
  <2>2. \A k \in DOMAIN fixed :
           OneOrNone(Hours, P)[fixed[k]] = IF IsSafe(fixed[k]) THEN <<fixed[k]>> ELSE <<>>
    BY <2>1 DEF OneOrNone
  <2>3. Filter(fixed, IsSafe) = Chosen(Hours, P, fixed)
    BY <2>2 DEF Filter, Chosen, FlatMap, Mapped
  <2> QED BY <2>3 DEF SafeDates, fixed
<1>6. Chosen(Hours, P, fixed) \in Seq(Int)
  <2>1. \A s \in Seq(Hours \cap P) : s \in Seq(Hours)
    OBVIOUS
  <2> HIDE DEF fixed, P
  <2>2. Chosen(Hours, P, fixed) \in Seq(Hours)
    BY <1>4, <2>1, ChosenSteps
  <2> QED BY <2>2 DEF Hours
<1> HIDE DEF fixed, P
<1> QED BY <1>5, <1>6, SortIs

-----------------------------------------------------------------------------
\* How far each of the dates is from the median.
Distances(s) == [k \in DOMAIN s |-> Distance2(s[k], Median2(s))]

LEMMA MedianNearMajority ==
    ASSUME NEW s \in Seq(Int), Rising(s), NEW t \in Int, HasMajority(s, t)
    PROVE  /\ Median2(s) \in Int /\ 2 * t <= Median2(s) /\ Median2(s) <= 2 * t + 48
           /\ Distances(s) \in Seq(Int) /\ Len(Distances(s)) = Len(s)
           /\ \A k \in 1 .. Len(s) : /\ Distances(s)[k] = Distance2(s[k], Median2(s))
                                     /\ Distances(s)[k] >= 0 /\ Distances(s)[k] \in Int
           /\ \A k \in Window(s, t, t + 24) : Distances(s)[k] <= 48
           /\ 2 * Cardinality(Window(s, t, t + 24)) > Len(s)
           /\ Window(s, t, t + 24) \subseteq 1 .. Len(s)
<1>1. PICK n \in Nat : n = Len(s) /\ DOMAIN s = 1 .. n /\ \A k \in 1 .. n : s[k] \in Int
  BY LenProperties
<1>2. PICK hi \in Int : hi = t + 24
  OBVIOUS
<1>3. /\ 2 * Cardinality(Window(s, t, hi)) > n /\ Window(s, t, hi) \subseteq 1 .. n
      /\ \A k \in Window(s, t, hi) : t <= s[k] /\ s[k] <= hi
  BY <1>1, <1>2 DEF HasMajority, Window, Day
<1>4. n > 0
  <2>1. Cardinality(Window(s, t, hi)) \in Nat /\ Cardinality(Window(s, t, hi)) <= n
    BY <1>3, PartsCount
  <2> QED BY <1>1, <1>3, <2>1
<1>5. PICK p \in 1 .. n, q \in 1 .. n :
         /\ p <= q /\ Median2(s) = s[p] + s[q]
         /\ n <= 2 * p /\ 2 * q <= n + 2
  BY <1>1, <1>4, MedianIs
<1>6. n <= 2 * q /\ 2 * p <= n + 2
  BY <1>1, <1>5
<1>7. t <= s[p] /\ s[p] <= hi /\ t <= s[q] /\ s[q] <= hi
  BY <1>1, <1>2, <1>3, <1>5, <1>6, MiddleInWindow
<1>8. PICK m \in Int : m = Median2(s) /\ 2 * t <= m /\ m <= 2 * t + 48
  BY <1>1, <1>2, <1>5, <1>7
<1>9. ASSUME NEW k \in 1 .. n PROVE Distance2(s[k], m) >= 0 /\ Distance2(s[k], m) \in Int
  <2>1. s[k] \in Int /\ m \in Int
    BY <1>1, <1>8
  <2> QED BY <2>1 DEF Distance2
<1>10. ASSUME NEW k \in Window(s, t, hi) PROVE Distance2(s[k], m) <= 48
  <2>1. s[k] \in Int /\ t <= s[k] /\ s[k] <= t + 24
    BY <1>1, <1>2, <1>3
  <2> QED BY <1>8, <2>1, SMTT(60) DEF Distance2
<1>11. PICK d : d = Distances(s)
  OBVIOUS
<1>12. d = [k \in 1 .. n |-> Distance2(s[k], m)]
  BY <1>1, <1>8, <1>11 DEF Distances
<1>13. d \in Seq(Int) /\ Len(d) = n
  <2>1. d \in [1 .. n -> Int]
    BY <1>9, <1>12
  <2>2. \A l \in Nat : \A g \in [1 .. l -> Int] : g \in Seq(Int) /\ Len(g) = l
    OBVIOUS
  <2> QED BY <2>1, <2>2
<1>14. \A k \in 1 .. n : d[k] = Distance2(s[k], m)
  BY <1>12
<1> QED BY <1>1, <1>2, <1>3, <1>8, <1>9, <1>10, <1>11, <1>13, <1>14


\* Half of the dates at least are no farther from the median than Mad4
\* allows, and Mad4 is at most what the majority of them is apart.
LEMMA DeviationIsBounded ==
    ASSUME NEW s \in Seq(Int), Rising(s), NEW t \in Int, HasMajority(s, t)
    PROVE  /\ Mad4(s) \in Int /\ Mad4(s) <= 96
           /\ \E v \in Int : /\ 0 <= v /\ 2 * v <= Mad4(s)
                             /\ Len(s) <= 2 * Cardinality(UpTo(Distances(s), v))
<1>1. PICK n \in Nat : n = Len(s)
  BY LenProperties
<1>2. PICK d \in Seq(Int) : d = Distances(s) /\ Len(d) = n
  BY <1>1, MedianNearMajority
<1>3. DOMAIN d = 1 .. n /\ \A k \in 1 .. n : d[k] >= 0 /\ d[k] \in Int
  BY <1>1, <1>2, MedianNearMajority, LenProperties
<1>4. PICK W : /\ W \subseteq 1 .. n /\ 2 * Cardinality(W) > n
               /\ \A k \in W : d[k] <= 48
  BY <1>1, <1>2, MedianNearMajority
<1>5. Cardinality(W) \in Nat /\ Cardinality(W) <= n /\ n > 0
  <2>1. Cardinality(W) \in Nat /\ Cardinality(W) <= n
    BY <1>4, PartsCount
  <2> QED BY <1>4, <2>1
<1>6. PICK r \in Seq(Int) :
         /\ r = Sort(d) /\ Len(r) = n /\ Rising(r)
         /\ \A k \in 1 .. n : /\ r[k] \in Range(d)
                              /\ Cardinality(Below(d, r[k])) < k
                              /\ k <= Cardinality(UpTo(d, r[k]))
  BY <1>2, SortIs
<1>7. DOMAIN r = 1 .. n /\ \A k \in 1 .. n : r[k] \in Int /\ r[k] >= 0
  BY <1>3, <1>6, LenProperties DEF Range
<1>8. Mad4(s) = Median2(r)
  <2>1. d = [k \in DOMAIN s |-> Distance2(s[k], Median2(s))]
    BY <1>2 DEF Distances
  <2> QED BY <1>6, <2>1 DEF Mad4
<1>9. PICK p \in 1 .. n, q \in 1 .. n :
         /\ p <= q /\ Median2(r) = r[p] + r[q]
         /\ n <= 2 * p /\ 2 * q <= n + 2
  BY <1>5, <1>6, MedianIs
<1>10. ASSUME NEW k \in 1 .. n, 2 * k <= n + 2 PROVE r[k] <= 48
  <2> SUFFICES ASSUME r[k] > 48 PROVE FALSE
    BY <1>7
  <2>1. W \subseteq Below(d, r[k])
    <3> SUFFICES ASSUME NEW j \in W PROVE j \in Below(d, r[k])
      OBVIOUS
    <3>1. j \in 1 .. n /\ d[j] <= 48
      BY <1>4
    <3>2. d[j] \in Int /\ r[k] \in Int
      BY <1>3, <1>7, <3>1
    <3>3. d[j] < r[k]
      BY <3>1, <3>2
    <3> QED BY <1>3, <3>1, <3>3 DEF Below
  <2>2. Below(d, r[k]) \subseteq 1 .. n
    BY <1>3 DEF Below
  <2>3. Cardinality(W) <= Cardinality(Below(d, r[k])) /\ Cardinality(Below(d, r[k])) \in Nat
    BY <2>1, <2>2, PartsCount
  <2>4. Cardinality(Below(d, r[k])) < k
    BY <1>6
  <2> QED BY <1>4, <1>5, <1>10, <2>3, <2>4
<1>11. r[p] <= 48 /\ r[q] <= 48 /\ r[p] <= r[q]
  <2>1. 2 * p <= n + 2
    BY <1>9
  <2> QED BY <1>6, <1>7, <1>9, <1>10, <2>1 DEF Rising
<1>12. Mad4(s) \in Int /\ Mad4(s) <= 96 /\ 2 * r[p] <= Mad4(s)
  BY <1>7, <1>8, <1>9, <1>11, SMTT(60)
<1>13. n <= 2 * Cardinality(UpTo(d, r[p]))
  <2>1. p <= Cardinality(UpTo(d, r[p]))
    BY <1>6
  <2>2. UpTo(d, r[p]) \subseteq 1 .. n
    BY <1>3 DEF UpTo
  <2>3. Cardinality(UpTo(d, r[p])) \in Nat
    BY <2>2, PartsCount
  <2> QED BY <1>9, <2>1, <2>3
<1> QED BY <1>1, <1>2, <1>7, <1>12, <1>13

\* The median deviation is 0 only where more than half of the dates are one.
LEMMA FilterOffIf ==
    ASSUME NEW s \in Seq(Int), Rising(s), NEW t \in Int, HasMajority(s, t), Mad4(s) = 0
    PROVE  FilterOff(s)
<1>1. PICK n \in Nat : n = Len(s) /\ DOMAIN s = 1 .. n /\ \A k \in 1 .. n : s[k] \in Int
  BY LenProperties
<1>2. PICK d \in Seq(Int) : d = Distances(s) /\ Len(d) = n
  BY <1>1, MedianNearMajority
<1>3. PICK m \in Int : /\ m = Median2(s) /\ DOMAIN d = 1 .. n
                       /\ \A k \in 1 .. n : d[k] = Distance2(s[k], m) /\ d[k] >= 0 /\ d[k] \in Int
  <2>1. PICK m \in Int : m = Median2(s)
    BY MedianNearMajority
  <2>2. DOMAIN d = 1 .. n
    BY <1>2, LenProperties
  <2>3. \A k \in 1 .. n : d[k] = Distance2(s[k], m) /\ d[k] >= 0 /\ d[k] \in Int
    BY <1>1, <1>2, <2>1, MedianNearMajority
  <2> QED BY <2>1, <2>2, <2>3
<1>4. n > 0
  <2>1. Window(s, t, t + 24) \subseteq 1 .. n /\ 2 * Cardinality(Window(s, t, t + 24)) > n
    BY <1>1, MedianNearMajority
  <2>2. PICK W : W = Window(s, t, t + 24)
    OBVIOUS
  <2>3. Cardinality(W) \in Nat /\ Cardinality(W) <= n
    BY <2>1, <2>2, PartsCount
  <2> QED BY <2>1, <2>2, <2>3
<1>5. PICK r \in Seq(Int) :
         /\ r = Sort(d) /\ Len(r) = n /\ Rising(r)
         /\ \A k \in 1 .. n : r[k] \in Range(d) /\ k <= Cardinality(UpTo(d, r[k]))
  BY <1>2, SortIs
<1>6. DOMAIN r = 1 .. n /\ \A k \in 1 .. n : r[k] \in Int /\ r[k] >= 0
  BY <1>3, <1>5, LenProperties DEF Range
<1>7. Mad4(s) = Median2(r)
  <2>1. d = [k \in DOMAIN s |-> Distance2(s[k], Median2(s))]
    BY <1>2 DEF Distances
  <2> QED BY <1>5, <2>1 DEF Mad4
<1>8. PICK q \in 1 .. n : r[q] = 0 /\ 2 * q > n
  <2>1. n \div 2 \in Int /\ n % 2 \in 0 .. 1 /\ n = 2 * (n \div 2) + (n % 2)
    BY <1>1, SMTT(60)
  <2>2. CASE n % 2 = 1
    <3>1. n \div 2 + 1 \in 1 .. n /\ 2 * (n \div 2 + 1) > n
      BY <1>1, <2>1, <2>2
    <3>2. 2 * r[n \div 2 + 1] = 0 /\ r[n \div 2 + 1] \in Int
      BY <1>5, <1>6, <1>7, <2>2, <3>1 DEF Median2
    <3> QED BY <3>1, <3>2
  <2>3. CASE n % 2 # 1
    <3>1. n \div 2 \in 1 .. n /\ n \div 2 + 1 \in 1 .. n /\ 2 * (n \div 2 + 1) > n
      BY <1>1, <1>4, <2>1, <2>3
    <3>2. /\ r[n \div 2] + r[n \div 2 + 1] = 0
          /\ r[n \div 2] \in Int /\ r[n \div 2] >= 0
          /\ r[n \div 2 + 1] \in Int /\ r[n \div 2 + 1] >= 0
      BY <1>5, <1>6, <1>7, <2>3, <3>1 DEF Median2
    <3> QED BY <3>1, <3>2
  <2> QED BY <2>2, <2>3
<1>9. PICK U : /\ U = UpTo(d, 0) /\ U \subseteq 1 .. n
               /\ 2 * Cardinality(U) > n /\ Cardinality(U) \in Nat
  <2>1. UpTo(d, 0) \subseteq 1 .. n /\ q <= Cardinality(UpTo(d, 0))
    BY <1>3, <1>5, <1>8 DEF UpTo
  <2>2. Cardinality(UpTo(d, 0)) \in Nat
    BY <2>1, PartsCount
  <2> QED BY <1>8, <2>1, <2>2
<1>10. \A k \in U : 2 * s[k] = m
  <2> SUFFICES ASSUME NEW k \in U PROVE 2 * s[k] = m
    OBVIOUS
  <2>1. k \in 1 .. n /\ d[k] <= 0
    BY <1>3, <1>9 DEF UpTo
  <2>2. Distance2(s[k], m) = 0 /\ s[k] \in Int
    BY <1>1, <1>3, <2>1
  <2>3. PICK x \in Int : x = s[k] /\ Distance2(x, m) = 0
    BY <2>2
  <2>4. 2 * x = m
    <3>1. CASE 2 * x > m
      BY <2>3, <3>1, SMTT(60) DEF Distance2
    <3>2. CASE ~(2 * x > m)
      <4>1. m - 2 * x = 0
        BY <2>3, <3>2 DEF Distance2
      <4> QED BY <4>1
    <3> QED BY <3>1, <3>2
  <2> QED BY <2>3, <2>4
<1>11. PICK j \in U : TRUE
  <2>1. U # {}
    <3>1. Cardinality({}) = 0
      BY FS_EmptySet
    <3>2. Cardinality(U) # 0
      BY <1>9
    <3> QED BY <3>1, <3>2
  <2> QED BY <2>1
<1>12. U \subseteq {k \in DOMAIN s : s[k] = s[j]}
  <2> SUFFICES ASSUME NEW k \in U PROVE s[k] = s[j]
    BY <1>1, <1>9
  <2>1. 2 * s[k] = 2 * s[j] /\ s[k] \in Int /\ s[j] \in Int
    BY <1>1, <1>9, <1>10
  <2> QED BY <2>1
<1>13. PICK V : V = {k \in DOMAIN s : s[k] = s[j]} /\ V \subseteq 1 .. n /\ U \subseteq V
  BY <1>1, <1>12
<1>14. Cardinality(U) <= Cardinality(V) /\ Cardinality(V) \in Nat
  BY <1>13, PartsCount
<1>15. 2 * Cardinality(V) > n
  BY <1>1, <1>9, <1>14
<1>16. s[j] \in ToSet(s)
  BY <1>1, <1>9 DEF ToSet
<1> QED BY <1>1, <1>13, <1>15, <1>16 DEF FilterOff

LEMMA CoreHasMajority ==
    ASSUME NEW s \in Seq(Int), Rising(s), NEW t \in Int, HasMajority(s, t), Len(s) > 2
    PROVE  LET P == {x \in Int : IsCore(x, s)}
               U == {k \in DOMAIN s : s[k] \in P}
           IN  /\ Cardinality(U) >= 2
               /\ \E k \in 1 .. Len(s) : s[k] \in P /\ t <= s[k] /\ s[k] <= t + 24
               /\ \A x \in P : t - 125 < x
<1> DEFINE P == {x \in Int : IsCore(x, s)}
           U == {k \in DOMAIN s : s[k] \in P}
           W == Window(s, t, t + 24)
<1>1. PICK n \in Nat : n = Len(s) /\ n > 2 /\ DOMAIN s = 1 .. n /\ \A k \in 1 .. n : s[k] \in Int
  BY LenProperties
<1>2. PICK m \in Int : m = Median2(s) /\ 2 * t <= m
  BY MedianNearMajority
<1>3. PICK d \in Seq(Int) : d = Distances(s) /\ Len(d) = n
  BY <1>1, MedianNearMajority
<1>4. /\ DOMAIN d = 1 .. n
      /\ \A k \in 1 .. n : d[k] = Distance2(s[k], m) /\ d[k] >= 0 /\ d[k] \in Int
  BY <1>1, <1>2, <1>3, MedianNearMajority, LenProperties
<1>5. W \subseteq 1 .. n /\ 2 * Cardinality(W) > n
  BY <1>1, MedianNearMajority
<1>6. PICK mad \in Int : mad = Mad4(s) /\ mad <= 96
  BY DeviationIsBounded
<1>7. PICK v \in Int : 0 <= v /\ 2 * v <= mad /\ n <= 2 * Cardinality(UpTo(d, v))
  BY <1>1, <1>3, <1>6, DeviationIsBounded
<1>8. UpTo(d, v) \subseteq U /\ U \subseteq 1 .. n
  <2>1. ASSUME NEW k \in 1 .. n, d[k] <= v PROVE s[k] \in P
    <3>1. 1349 * d[k] <= 3500 * mad
      <4>1. d[k] \in Int /\ d[k] >= 0 /\ d[k] <= v
        BY <1>4, <2>1
      <4>2. \A a, b, c \in Int : 0 <= a /\ a <= b /\ 2 * b <= c => 1349 * a <= 3500 * c
        OBVIOUS
      <4> QED BY <1>7, <4>1, <4>2, SMTT(60)
    <3> QED BY <1>1, <1>2, <1>4, <1>6, <3>1 DEF IsCore
  <2>2. UpTo(d, v) \subseteq U
    BY <1>1, <1>4, <2>1 DEF UpTo
  <2> QED BY <1>1, <2>2
<1>9. /\ Cardinality(UpTo(d, v)) <= Cardinality(U) /\ Cardinality(U) \in Nat
      /\ Cardinality(UpTo(d, v)) \in Nat
  <2> HIDE DEF U
  <2> QED BY <1>8, PartsCount
<1>10. Cardinality(U) >= 2
  BY <1>1, <1>7, <1>9
<1>11. PICK k \in 1 .. n : k \in U /\ k \in W
  <2>1. Cardinality(W) \in Nat
    <3> HIDE DEF W
    <3> QED BY <1>5, PartsCount
  <2>2. Cardinality(U) + Cardinality(W) > n
    <3> HIDE DEF U, W
    <3> QED BY <1>5, <1>7, <1>9, <2>1
  <2>3. IsFiniteSet(1 .. n) /\ Cardinality(1 .. n) = n
    <3> HIDE DEF U, W
    <3>1. IsFiniteSet(1 .. n) /\ Cardinality(1 .. n) <= n
      BY PartsCount
    <3>2. 1 \in Int /\ n \in Int
      OBVIOUS
    <3>3. Cardinality(1 .. n) = IF 1 > n THEN 0 ELSE n - 1 + 1
      BY <3>2, FS_Interval
    <3> QED BY <1>1, <3>1, <3>3
  <2>4. U \cap W # {}
    <3> HIDE DEF U, W
    <3> QED BY <1>5, <1>8, <2>2, <2>3, FS_MajoritiesIntersect
  <2> HIDE DEF U, W
  <2> QED BY <1>5, <2>4
<1>12. s[k] \in P /\ t <= s[k] /\ s[k] <= t + 24
  BY <1>11 DEF Window
<1>13. ASSUME NEW x \in P PROVE t - 125 < x
  <2>1. x \in Int /\ 1349 * Distance2(x, m) <= 3500 * mad
    BY <1>2, <1>6 DEF IsCore
  <2>2. CASE 2 * x > m
    BY <1>2, <2>1, <2>2
  <2>3. CASE ~(2 * x > m)
    <3>1. Distance2(x, m) = m - 2 * x
      BY <2>3 DEF Distance2
    <3>2. 1349 * (m - 2 * x) <= 3500 * 96
      BY <1>6, <2>1, <3>1
    <3> QED BY <1>2, <2>1, <3>2, SMTT(60)
  <2> QED BY <2>2, <2>3
<1> QED BY <1>1, <1>10, <1>11, <1>12, <1>13

\* (HeadersKept, MajorityWins)  Where more than half of the dates of an
\* e-mail's headers agree, the date it is given is not six days later, and
\* six days earlier only if more than half of them are the same.
THEOREM MajorityDoesWin ==
    ASSUME NEW headers \in Seq(DateTexts)
    PROVE  MajorityWins(headers)
<1>1. PICK options \in Seq(Hours) : options = DateOptions(headers)
  BY DatesChosen
<1>2. PICK s \in Seq(Int) : s = SafeDates(options) /\ Rising(s)
  BY <1>1, SafeDatesSorted
<1>3. PICK n \in Nat : n = Len(s) /\ DOMAIN s = 1 .. n /\ \A k \in 1 .. n : s[k] \in Int
  BY LenProperties
<1>4. PICK date : date = SelectDate(options)
  OBVIOUS
<1> SUFFICES ASSUME n > 2, NEW t \in ToSet(s), HasMajority(s, t)
             PROVE  /\ date < t + 144
                    /\ t - 144 < date \/ (FilterOff(s) /\ date = s[1])
  BY <1>1, <1>2, <1>3, <1>4 DEF MajorityWins, Day
<1>5. t \in Int
  BY <1>3 DEF ToSet
<1>15. CASE Mad4(s) = 0
  <2>1. FilterOff(s)
    BY <1>2, <1>5, <1>15, FilterOffIf
  <2>2. s # <<>>
    BY <1>3
  <2>3. date = s[1]
    BY <1>2, <1>3, <1>4, <1>15, <2>2 DEF SelectDate
  <2>4. PICK j \in 1 .. n : s[j] = t
    BY <1>3 DEF ToSet
  <2>5. s[1] <= s[j] /\ s[1] \in Int
    <3>1. 1 \in 1 .. n /\ 1 <= j
      BY <1>3
    <3> QED BY <1>2, <1>3, <3>1 DEF Rising
  <2> QED BY <1>5, <2>1, <2>3, <2>4, <2>5
<1> SUFFICES ASSUME Mad4(s) # 0 PROVE t - 144 < date /\ date < t + 144
  BY <1>15
<1> DEFINE P == {x \in Hours : IsCore(x, s)}
           core == Chosen(Hours, P, s)
<1>6. Filter(s, LAMBDA x : IsCore(x, s)) = core
  <2>1. \A k \in DOMAIN s :
           OneOrNone(Hours, P)[s[k]] = IF IsCore(s[k], s) THEN <<s[k]>> ELSE <<>>
    BY <1>3 DEF OneOrNone, Hours
  <2> QED BY <2>1 DEF Filter, Chosen, FlatMap, Mapped
<1>7. s # <<>>
  BY <1>3
<1>8. date = IF s[n] - s[1] <= 24 \/ Len(core) < 2 THEN s[1] ELSE core[1]
  <2> HIDE DEF core
  <2> QED BY <1>2, <1>3, <1>4, <1>6, <1>7 DEF SelectDate, Day
<1>9. PICK k \in 1 .. n : s[k] \in P /\ t <= s[k] /\ s[k] <= t + 24
  BY <1>2, <1>3, <1>5, CoreHasMajority DEF Hours
<1>10. \A x \in P : t - 125 < x
  BY <1>2, <1>3, <1>5, CoreHasMajority DEF Hours
<1>11. Len(core) = Cardinality({j \in DOMAIN s : s[j] \in P})
  <2>1. s \in Seq(Hours)
    BY DEF Hours
  <2> HIDE DEF P
  <2> QED BY <2>1, ChosenCount
<1>12. Len(core) >= 2
  <2>1. Cardinality({j \in DOMAIN s : s[j] \in P}) >= 2
    BY <1>2, <1>3, <1>5, CoreHasMajority DEF Hours
  <2> HIDE DEF P, core
  <2> QED BY <1>11, <2>1
<1>13. CASE s[n] - s[1] <= 24
  <2>1. date = s[1]
    BY <1>8, <1>13
  <2>2. s[1] <= s[k] /\ s[k] <= s[n] /\ s[1] \in Int /\ s[n] \in Int /\ s[k] \in Int
    <3>1. 1 \in 1 .. n /\ n \in 1 .. n /\ k \in 1 .. n /\ 1 <= k /\ k <= n
      BY <1>3
    <3> HIDE DEF core
    <3> QED BY <1>2, <1>3, <3>1 DEF Rising
  <2> HIDE DEF core, P
  <2>3. PICK a \in Int, b \in Int, c \in Int : a = s[1] /\ b = s[k] /\ c = s[n]
    BY <2>2
  <2>4. a <= b /\ b <= c /\ c - a <= 24 /\ t <= b /\ b <= t + 24
    BY <1>9, <1>13, <2>2, <2>3
  <2>5. t - 144 < a /\ a < t + 144
    BY <1>5, <2>4
  <2> QED BY <2>1, <2>3, <2>5
<1>14. CASE ~(s[n] - s[1] <= 24)
  <2>1. date = core[1]
    <3>1. Len(core) \in Nat
      <4>1. core \in Seq(Hours \cap P)
        <5>1. s \in Seq(Hours)
          BY DEF Hours
        <5> HIDE DEF P
        <5> QED BY <5>1, ChosenSteps
      <4> HIDE DEF core
      <4> QED BY <4>1, LenProperties
    <3> HIDE DEF core
    <3> QED BY <1>8, <1>12, <1>14, <3>1
  <2>2. s \in Seq(Hours) /\ Hours \subseteq Int
    BY DEF Hours
  <2>3. Range(core) = Range(s) \cap P
    <3> HIDE DEF P
    <3> QED BY <2>2, RangeChosen
  <2>4. s[k] \in Range(core)
    <3> HIDE DEF P
    <3> QED BY <1>3, <1>9, <2>3 DEF Range
  <2>5. core # <<>> /\ core[1] <= s[k]
    <3> HIDE DEF P
    <3> QED BY <1>2, <2>2, <2>4, FirstIsLeast
  <2>6. core[1] \in Range(core)
    <3>1. core \in Seq(Hours \cap P)
      <4> HIDE DEF P
      <4> QED BY <2>2, ChosenSteps
    <3>2. Len(core) \in Nat /\ Len(core) # 0 /\ DOMAIN core = 1 .. Len(core)
      <4> HIDE DEF core
      <4> QED BY <2>5, <3>1, EmptySeq, LenProperties
    <3> HIDE DEF core
    <3> QED BY <3>2 DEF Range
  <2>7. core[1] \in P
    <3> HIDE DEF P
    <3> QED BY <2>3, <2>6
  <2>8. core[1] \in Int /\ t - 125 < core[1]
    <3> HIDE DEF core
    <3> QED BY <1>10, <2>7 DEF Hours
  <2> HIDE DEF core
  <2> QED BY <1>3, <1>5, <1>9, <2>1, <2>5, <2>8, SMTT(60)
<1> QED BY <1>13, <1>14


-----------------------------------------------------------------------------
(***************************************************************************)
(* The body: trailers and Fixes: tags.                                     *)
(***************************************************************************)
LineTypes == [kind : LineKinds, at : Nat]

LEMMA LinesAre ==
    ASSUME NEW kinds \in Seq(LineKinds)
    PROVE  /\ Lines(kinds) \in Seq(LineTypes) /\ Len(Lines(kinds)) = Len(kinds)
           /\ \A k \in 1 .. Len(kinds) : Lines(kinds)[k].at = k
<1>1. PICK n \in Nat : n = Len(kinds) /\ DOMAIN kinds = 1 .. n /\ \A k \in 1 .. n : kinds[k] \in LineKinds
  BY LenProperties
<1>2. Lines(kinds) \in [1 .. n -> LineTypes]
  BY <1>1 DEF Lines, LineTypes
<1>3. \A m \in Nat : \A g \in [1 .. m -> LineTypes] : g \in Seq(LineTypes) /\ Len(g) = m
  OBVIOUS
<1>4. \A k \in 1 .. n : Lines(kinds)[k].at = k
  BY <1>1 DEF Lines
<1> QED BY <1>1, <1>2, <1>3, <1>4

\* The numbers of the lines are their positions.
Numbered(lines) == \A k \in DOMAIN lines : lines[k].at = k

\* What is cut off is what the signature mark is above of.
LEMMA CutIs ==
    ASSUME NEW lines \in Seq(LineTypes)
    PROVE  \E m \in 0 .. Len(lines), c \in Seq(LineTypes) :
              /\ CutSignature(lines) = c /\ Len(c) = m
              /\ \A k \in 1 .. m : c[k] = lines[k]
              /\ \A k \in 1 .. Len(lines) + 1 : Above(lines, k) <=> k <= m
<1>1. PICK n \in Nat : /\ n = Len(lines) /\ DOMAIN lines = 1 .. n
                       /\ \A k \in 1 .. n : lines[k] \in LineTypes
  BY LenProperties
<1> DEFINE I == {i \in 1 .. Len(Tail(lines)) : Tail(lines)[i].kind = "sig"}
<1>2. lines = <<>> => n = 0
  BY <1>1
<1>3. lines # <<>> => n > 0
  BY <1>1, EmptySeq
<1>4. ASSUME lines # <<>> PROVE I = {i \in 1 .. n - 1 : lines[i + 1].kind = "sig"}
  BY <1>1, <1>3, <1>4, HeadTailProperties
<1>5. SelectInSeq(Tail(lines), LAMBDA line : line.kind = "sig") = IF I # {} THEN Min(I) ELSE 0
  BY DEF SelectInSeq
<1>6. CASE lines = <<>> \/ I = {}
  <2>1. CutSignature(lines) = lines
    BY <1>5, <1>6 DEF CutSignature
  <2>2. ASSUME NEW k \in 1 .. n PROVE Above(lines, k)
    <3>1. \A j \in 2 .. k : j - 1 \in 1 .. n - 1 /\ (j - 1) + 1 = j
      BY <1>1
    <3>2. \A j \in 2 .. k : lines[j].kind # "sig"
      <4>1. lines # <<>>
        BY <1>2, <2>2
      <4>2. {i \in 1 .. n - 1 : lines[i + 1].kind = "sig"} = {}
        BY <1>4, <1>6, <4>1
      <4> HIDE DEF I
      <4> QED BY <3>1, <4>2
    <3> QED BY <1>1, <3>2 DEF Above
  <2>3. \A k \in 1 .. n + 1 : k \notin 1 .. n => ~Above(lines, k)
    BY <1>1 DEF Above
  <2>4. \A k \in 1 .. n + 1 : Above(lines, k) <=> k <= n
    <3>1. \A k \in 1 .. n + 1 : k <= n <=> k \in 1 .. n
      BY <1>1
    <3> QED BY <2>2, <2>3, <3>1
  <2>5. n \in 0 .. n /\ lines \in Seq(LineTypes)
    BY <1>1
  <2> HIDE DEF I
  <2> QED BY <1>1, <2>1, <2>4, <2>5
<1>7. CASE lines # <<>> /\ I # {}
  <2>1. I = {i \in 1 .. n - 1 : lines[i + 1].kind = "sig"}
    BY <1>4, <1>7
  <2>2. I \in SUBSET Nat
    BY <1>1, <2>1
  <2>3. PICK m \in I : m = Min(I) /\ \A i \in I : m <= i
    <3> HIDE DEF I
    <3> QED BY <1>7, <2>2, MinOf
  <2>4. m \in 1 .. n - 1 /\ m \in 0 .. n /\ m \in 1 .. n /\ lines[m + 1].kind = "sig"
    <3>1. m \in 1 .. n - 1 /\ lines[m + 1].kind = "sig"
      <4> HIDE DEF I
      <4> QED BY <2>1
    <3> QED BY <1>1, <3>1
  <2>5. CutSignature(lines) = SubSeq(lines, 1, m)
    <3>1. m # 0
      BY <2>4
    <3> HIDE DEF I
    <3> QED BY <1>5, <1>7, <2>3, <3>1 DEF CutSignature
  <2>6. PICK c \in Seq(LineTypes) : /\ c = SubSeq(lines, 1, m) /\ Len(c) = m
                                    /\ \A k \in 1 .. m : c[k] = lines[k]
    <3>1. /\ SubSeq(lines, 1, m) \in Seq(LineTypes) /\ Len(SubSeq(lines, 1, m)) = m
          /\ \A i \in 1 .. m : SubSeq(lines, 1, m)[i] = lines[i]
      BY <1>1, <2>4, SMTT(30)
    <3> QED BY <3>1
  <2>7. ASSUME NEW k \in 1 .. n + 1, k <= m PROVE Above(lines, k)
    <3>1. k \in 1 .. n
      BY <1>1, <2>4, <2>7
    <3>2. ASSUME NEW j \in 2 .. k PROVE lines[j].kind # "sig"
      <4>1. j - 1 \in 1 .. n - 1 /\ (j - 1) + 1 = j /\ ~(m <= j - 1)
        BY <1>1, <2>4, <2>7, <3>1, <3>2
      <4>2. j - 1 \notin I
        <5> HIDE DEF I
        <5> QED BY <2>3, <4>1
      <4> QED BY <2>1, <4>1, <4>2
    <3> QED BY <1>1, <3>1, <3>2 DEF Above
  <2>8. ASSUME NEW k \in 1 .. n + 1, ~(k <= m) PROVE ~Above(lines, k)
    <3>1. m + 1 \in 2 .. k
      BY <1>1, <2>4, <2>8
    <3> HIDE DEF I
    <3> QED BY <2>4, <3>1 DEF Above
  <2> HIDE DEF I
  <2> QED BY <1>1, <2>4, <2>5, <2>6, <2>7, <2>8
<1> QED BY <1>6, <1>7

JoinStates == [out : Seq(LineTypes), open : BOOLEAN]

LEMMA CopypasteType ==
    ASSUME NEW acc \in JoinStates, NEW line \in LineTypes
    PROVE  CopypasteStep(acc, line) \in JoinStates
<1>1. PICK q \in Seq(LineTypes) : q = acc.out
  BY DEF JoinStates
<1>2. PICK n \in Nat : n = Len(q) /\ DOMAIN q = 1 .. n /\ \A k \in 1 .. n : q[k] \in LineTypes
  BY LenProperties
<1>3. CASE acc.open /\ line.kind \in Closing
  <2>1. [q EXCEPT ![n] = Joined(@, line)] \in Seq(LineTypes)
    <3>1. \A x \in LineTypes : Joined(x, line) \in LineTypes
      BY DEF LineTypes, Joined, LineKinds
    <3>2. [q EXCEPT ![n] = Joined(@, line)] \in [1 .. n -> LineTypes]
      BY <1>2, <3>1
    <3>3. \A m \in Nat : \A g \in [1 .. m -> LineTypes] : g \in Seq(LineTypes)
      OBVIOUS
    <3> QED BY <3>2, <3>3
  <2> QED BY <1>1, <1>2, <1>3, <2>1 DEF CopypasteStep, JoinStates
<1>4. CASE ~(acc.open /\ line.kind \in Closing)
  <2>1. Append(q, line) \in Seq(LineTypes)
    BY AppendProperties
  <2> QED BY <1>1, <1>4, <2>1 DEF CopypasteStep, JoinStates
<1> QED BY <1>3, <1>4

\* The lines after each of those of the text.
Joining == [p \in JoinStates \X LineTypes |-> CopypasteStep(p[1], p[2])]

LEMMA JoinIsFold ==
    ASSUME NEW q \in Seq(LineTypes)
    PROVE  /\ Joining \in StepsOf(JoinStates, LineTypes) /\ [out |-> <<>>, open |-> FALSE] \in JoinStates
           /\ \A acc \in JoinStates, x \in LineTypes : Joining[<<acc, x>>] = CopypasteStep(acc, x)
           /\ FoldLeft(CopypasteStep, [out |-> <<>>, open |-> FALSE], q) = Fold(Joining, [out |-> <<>>, open |-> FALSE], q)
<1> DEFINE F == Joining
           b == [out |-> <<>>, open |-> FALSE]
           E(g) == g = [s \in SUBSET (1 .. Len(q)) |->
                          IF s = {} THEN b ELSE CopypasteStep(g[s \ {Max(s)}], q[Max(s)])]
           h == CHOOSE g : E(g)
<1>1. /\ F \in StepsOf(JoinStates, LineTypes) /\ b \in JoinStates
      /\ \A acc \in JoinStates, x \in LineTypes : F[<<acc, x>>] = CopypasteStep(acc, x)
  <2>1. /\ \A acc \in JoinStates, x \in LineTypes : CopypasteStep(acc, x) \in JoinStates
        /\ b \in JoinStates
    BY CopypasteType DEF JoinStates
  <2> QED BY <2>1 DEF Joining, StepsOf
<1>2. /\ DOMAIN q = 1 .. Len(q) /\ Len(q) \in Nat
      /\ \A s \in SUBSET (1 .. Len(q)) : s # {} => q[Max(s)] \in LineTypes
  <2>1. DOMAIN q = 1 .. Len(q) /\ Len(q) \in Nat /\ \A k \in 1 .. Len(q) : q[k] \in LineTypes
    BY LenProperties
  <2>2. \A s \in SUBSET (1 .. Len(q)) : s # {} => Max(s) \in s
    BY <2>1, MaxOf
  <2> QED BY <2>1, <2>2
<1>3. FoldLeft(CopypasteStep, [out |-> <<>>, open |-> FALSE], q) = h[1 .. Len(q)]
  BY <1>2 DEF FoldLeft, MapThenFoldSet
<1> HIDE DEF F, b
<1>4. PICK r \in Runs(JoinStates, F, b, q) : TRUE
  BY <1>1, FoldExists
<1>5. E(r)
  <2>1. \A s \in SUBSET (1 .. Len(q)) :
           r[s] = IF s = {} THEN b ELSE CopypasteStep(r[s \ {Max(s)}], q[Max(s)])
    BY <1>1, <1>2 DEF Runs
  <2> QED BY <2>1 DEF Runs
<1>6. E(h)
  <2> HIDE DEF E
  <2> QED BY <1>5
<1> HIDE DEF h
<1>7. Follows(h, JoinStates, F, b, q)
  <2>1. h[{}] = b
    BY <1>6
  <2>2. ASSUME NEW s \in SUBSET (1 .. Len(q)), s # {}, h[s \ {Max(s)}] \in JoinStates
        PROVE  h[s] = F[<<h[s \ {Max(s)}], q[Max(s)]>>]
    <3>1. h[s] = CopypasteStep(h[s \ {Max(s)}], q[Max(s)])
      BY <1>6, <2>2
    <3> QED BY <1>1, <1>2, <2>2, <3>1
  <2> QED BY <2>1, <2>2 DEF Follows
<1>8. h[1 .. Len(q)] = Fold(F, b, q)
  BY <1>1, <1>7, FoldMeets
<1> QED BY <1>1, <1>3, <1>8 DEF F, b

LEMMA JoinSteps ==
    /\ FoldLeft(CopypasteStep, [out |-> <<>>, open |-> FALSE], <<>>) = [out |-> <<>>, open |-> FALSE]
    /\ \A q \in Seq(LineTypes) : FoldLeft(CopypasteStep, [out |-> <<>>, open |-> FALSE], q) \in JoinStates
    /\ \A q \in Seq(LineTypes), x \in LineTypes : FoldLeft(CopypasteStep, [out |-> <<>>, open |-> FALSE], Append(q, x)) = CopypasteStep(FoldLeft(CopypasteStep, [out |-> <<>>, open |-> FALSE], q), x)
<1>1. <<>> \in Seq(LineTypes)
  OBVIOUS
<1>2. PICK F \in StepsOf(JoinStates, LineTypes), b \in JoinStates :
          /\ F = Joining /\ b = [out |-> <<>>, open |-> FALSE]
          /\ \A acc \in JoinStates, x \in LineTypes : F[<<acc, x>>] = CopypasteStep(acc, x)
  BY <1>1, JoinIsFold
<1>3. \A q \in Seq(LineTypes) : FoldLeft(CopypasteStep, [out |-> <<>>, open |-> FALSE], q) = Fold(F, b, q)
  BY <1>2, JoinIsFold
<1>4. /\ Fold(F, b, <<>>) = b
      /\ \A q \in Seq(LineTypes) : Fold(F, b, q) \in JoinStates
      /\ \A q \in Seq(LineTypes), x \in LineTypes : Fold(F, b, Append(q, x)) = F[<<Fold(F, b, q), x>>]
  BY <1>2, FoldSteps
<1>5. FoldLeft(CopypasteStep, [out |-> <<>>, open |-> FALSE], <<>>) = [out |-> <<>>, open |-> FALSE]
  BY <1>1, <1>2, <1>3, <1>4
<1>6. \A q \in Seq(LineTypes) : FoldLeft(CopypasteStep, [out |-> <<>>, open |-> FALSE], q) \in JoinStates
  BY <1>3, <1>4
<1>7. ASSUME NEW q \in Seq(LineTypes), NEW x \in LineTypes PROVE FoldLeft(CopypasteStep, [out |-> <<>>, open |-> FALSE], Append(q, x)) = CopypasteStep(FoldLeft(CopypasteStep, [out |-> <<>>, open |-> FALSE], q), x)
  <2>1. Append(q, x) \in Seq(LineTypes)
    BY AppendProperties
  <2>2. FoldLeft(CopypasteStep, [out |-> <<>>, open |-> FALSE], Append(q, x)) = F[<<Fold(F, b, q), x>>]
    BY <1>3, <1>4, <2>1
  <2> QED BY <1>2, <1>3, <1>4, <2>2
<1> QED BY <1>5, <1>6, <1>7


\* A summary that is broken off ends on the next line, if there is one.
Wrapping(q) == \A k \in 1 .. Len(q) - 1 : q[k].kind = "open" => q[k + 1].kind = "close"

\* The lines that are not joined to the one before, and what they become.
Standing(q) == {i \in 1 .. Len(q) : i = 1 \/ q[i - 1].kind # "open"}

KindOf(q, i) == IF q[i].kind = "open" /\ i < Len(q) THEN "full" ELSE q[i].kind

\* o is what is left of q once it is joined.
IsBody(q, o) ==
    /\ \A p \in 1 .. Len(o) : o[p].at \in Standing(q) /\ o[p].kind = KindOf(q, o[p].at)
    /\ \A p, r \in 1 .. Len(o) : p < r => o[p].at < o[r].at
    /\ \A i \in Standing(q) : \E p \in 1 .. Len(o) : o[p].at = i

IsJoined(q, acc) ==
    /\ acc.open <=> Len(q) > 0 /\ q[Len(q)].kind = "open"
    /\ acc.open => Len(acc.out) > 0 /\ acc.out[Len(acc.out)].at = Len(q)
    /\ IsBody(q, acc.out)

LEMMA JoinedNext ==
    ASSUME NEW q \in Seq(LineTypes), NEW x \in LineTypes, NEW acc \in JoinStates,
           x.at = Len(q) + 1, Wrapping(Append(q, x)), IsJoined(q, acc)
    PROVE  IsJoined(Append(q, x), CopypasteStep(acc, x))
<1>1. PICK n \in Nat : n = Len(q) /\ \A k \in 1 .. n : q[k] \in LineTypes
  BY LenProperties
<1>2. PICK a \in Seq(LineTypes) : a = Append(q, x)
  BY AppendProperties
<1>3. /\ Len(a) = n + 1 /\ a[n + 1] = x /\ x.at = n + 1
      /\ \A k \in 1 .. n : a[k] = q[k]
  BY <1>1, <1>2, AppendProperties
<1>4. PICK o \in Seq(LineTypes) : o = acc.out
  BY DEF JoinStates
<1>5. PICK l \in Nat : l = Len(o) /\ DOMAIN o = 1 .. l /\ \A p \in 1 .. l : o[p] \in LineTypes
  BY LenProperties
<1>6. /\ acc.open <=> n > 0 /\ q[n].kind = "open"
      /\ acc.open => l > 0 /\ o[l].at = n
      /\ \A p \in 1 .. l : o[p].at \in Standing(q) /\ o[p].kind = KindOf(q, o[p].at)
      /\ \A p, r \in 1 .. l : p < r => o[p].at < o[r].at
      /\ \A i \in Standing(q) : \E p \in 1 .. l : o[p].at = i
      /\ acc.open \in BOOLEAN
  BY <1>1, <1>4, <1>5 DEF IsJoined, IsBody, JoinStates
<1>7. \A i \in 1 .. n + 1 : i \in 1 .. n \/ i = n + 1
  OBVIOUS
<1>8. \A i \in 1 .. n : i \in 1 .. n + 1 /\ i # n + 1 /\ i < n + 1
  OBVIOUS
<1>9. acc.open => x.kind = "close"
  <2>1. acc.open => n \in 1 .. (n + 1) - 1 /\ a[n].kind = "open"
    BY <1>3, <1>6
  <2> QED BY <1>2, <1>3, <2>1 DEF Wrapping
<1>10. \A i \in Standing(q) : i \in 1 .. n
  BY <1>1 DEF Standing
<1>11. PICK next : next = CopypasteStep(acc, x)
  OBVIOUS
<1>12. CASE acc.open
  <2>1. x.kind = "close" /\ n > 0 /\ n \in 1 .. n /\ q[n].kind = "open" /\ l \in 1 .. l /\ o[l].at = n
    BY <1>5, <1>6, <1>9, <1>12
  <2>2. PICK s \in Seq(LineTypes) : s = [o EXCEPT ![l] = Joined(o[l], x)] /\ next = [out |-> s, open |-> FALSE]
    <3>1. next = [out |-> [o EXCEPT ![l] = Joined(o[l], x)], open |-> FALSE]
      BY <1>4, <1>5, <1>11, <1>12, <2>1 DEF CopypasteStep, Closing
    <3>2. next \in JoinStates
      BY <1>11, CopypasteType
    <3> QED BY <3>1, <3>2 DEF JoinStates
  <2>3. o[l].kind = "open"
    <3>1. o[l].kind = KindOf(q, n)
      BY <1>6, <2>1
    <3> QED BY <1>1, <2>1, <3>1 DEF KindOf
  <2>4. /\ Len(s) = l /\ \A p \in 1 .. l : p # l => s[p] = o[p]
        /\ s[l].at = n /\ s[l].kind = "full"
    <3>1. Joined(o[l], x).at = n /\ Joined(o[l], x).kind = "full"
      BY <1>5, <2>1, <2>3 DEF Joined, LineTypes
    <3>2. s \in [1 .. l -> LineTypes]
      <4>1. DOMAIN s = 1 .. l
        BY <1>5, <2>2
      <4> QED BY <4>1, LenProperties
    <3>3. Len(s) = l
      <4>1. \A m \in Nat : \A g \in [1 .. m -> LineTypes] : Len(g) = m
        OBVIOUS
      <4> QED BY <3>2, <4>1
    <3>4. s[l] = Joined(o[l], x) /\ \A p \in 1 .. l : p # l => s[p] = o[p]
      BY <1>5, <2>1, <2>2
    <3> QED BY <3>1, <3>3, <3>4
  <2>5. Standing(a) = Standing(q)
    <3>1. n + 1 \notin Standing(a)
      BY <1>3, <2>1 DEF Standing
    <3>2. \A i \in 1 .. n : i \in Standing(a) <=> i \in Standing(q)
      <4> SUFFICES ASSUME NEW i \in 1 .. n PROVE i \in Standing(a) <=> i \in Standing(q)
        OBVIOUS
      <4>1. i # 1 => i - 1 \in 1 .. n
        OBVIOUS
      <4> QED BY <1>1, <1>3, <1>8, <4>1 DEF Standing
    <3>3. Standing(a) \subseteq 1 .. n + 1
      BY <1>3 DEF Standing
    <3> QED BY <1>7, <1>10, <3>1, <3>2, <3>3
  <2>6. \A p \in 1 .. l : s[p].at = o[p].at
    BY <2>1, <2>4
  <2>7. ASSUME NEW p \in 1 .. l PROVE s[p].at \in Standing(a) /\ s[p].kind = KindOf(a, s[p].at)
    <3>1. o[p].at \in Standing(q) /\ o[p].at \in 1 .. n /\ o[p].kind = KindOf(q, o[p].at)
      BY <1>6, <1>10
    <3>2. CASE p = l
      BY <1>3, <2>1, <2>4, <2>5, <2>6, <3>1, <3>2 DEF KindOf
    <3>3. CASE p # l
      <4>1. o[p].at < n
        BY <1>5, <1>6, <2>1, <3>3
      <4> QED BY <1>1, <1>3, <2>4, <2>5, <2>6, <3>1, <3>3, <4>1 DEF KindOf
    <3> QED BY <3>2, <3>3
  <2>8. IsBody(a, s)
    <3>1. \A p, r \in 1 .. l : p < r => s[p].at < s[r].at
      BY <1>6, <2>6
    <3>2. \A i \in Standing(a) : \E p \in 1 .. l : s[p].at = i
      BY <1>6, <2>5, <2>6
    <3> QED BY <2>4, <2>7, <3>1, <3>2 DEF IsBody
  <2>9. IsJoined(a, next)
    <3>1. a[n + 1].kind # "open"
      BY <1>3, <2>1
    <3> QED BY <1>3, <2>2, <2>8, <3>1 DEF IsJoined
  <2> QED BY <1>2, <1>11, <2>9
<1>13. CASE ~acc.open
  <2>1. PICK s \in Seq(LineTypes) : s = Append(o, x) /\ next = [out |-> s, open |-> x.kind = "open"]
    <3>1. Append(o, x) \in Seq(LineTypes)
      BY AppendProperties
    <3>2. next = [out |-> Append(o, x), open |-> x.kind = "open"]
      BY <1>4, <1>11, <1>13 DEF CopypasteStep
    <3> QED BY <3>1, <3>2
  <2>2. /\ Len(s) = l + 1 /\ s[l + 1] = x
        /\ \A p \in 1 .. l : s[p] = o[p]
    BY <1>5, <2>1, AppendProperties
  <2>3. \A p \in 1 .. l + 1 : p \in 1 .. l \/ p = l + 1
    OBVIOUS
  <2>4. n = 0 \/ q[n].kind # "open"
    BY <1>6, <1>13
  <2>5. Standing(a) = Standing(q) \cup {n + 1}
    <3>1. n + 1 \in Standing(a)
      <4>1. n # 0 => n \in 1 .. n /\ (n + 1) - 1 = n
        OBVIOUS
      <4> QED BY <1>3, <2>4, <4>1 DEF Standing
    <3>2. \A i \in 1 .. n : i \in Standing(a) <=> i \in Standing(q)
      <4> SUFFICES ASSUME NEW i \in 1 .. n PROVE i \in Standing(a) <=> i \in Standing(q)
        OBVIOUS
      <4>1. i # 1 => i - 1 \in 1 .. n
        OBVIOUS
      <4> QED BY <1>1, <1>3, <1>8, <4>1 DEF Standing
    <3>3. Standing(a) \subseteq 1 .. n + 1
      BY <1>3 DEF Standing
    <3> QED BY <1>7, <1>10, <3>1, <3>2, <3>3
  <2>6. ASSUME NEW p \in 1 .. l + 1 PROVE s[p].at \in Standing(a) /\ s[p].kind = KindOf(a, s[p].at)
    <3>1. CASE p = l + 1
      BY <1>3, <2>2, <2>5, <3>1 DEF KindOf
    <3>2. CASE p \in 1 .. l
      <4>1. /\ o[p].at \in Standing(q) /\ o[p].at \in 1 .. n /\ o[p].kind = KindOf(q, o[p].at)
            /\ s[p] = o[p]
        BY <1>6, <1>10, <2>2, <3>2
      <4>2. PICK i \in 1 .. n : i = o[p].at
        BY <4>1
      <4>3. KindOf(a, i) = KindOf(q, i)
        <5>1. CASE i = n
          BY <1>1, <1>3, <2>4, <5>1 DEF KindOf
        <5>2. CASE i # n
          BY <1>1, <1>3, <5>2 DEF KindOf
        <5> QED BY <5>1, <5>2
      <4> QED BY <2>5, <4>1, <4>2, <4>3
    <3> QED BY <2>3, <3>1, <3>2
  <2>7. \A p, r \in 1 .. l + 1 : p < r => s[p].at < s[r].at
    <3> SUFFICES ASSUME NEW p \in 1 .. l + 1, NEW r \in 1 .. l + 1, p < r PROVE s[p].at < s[r].at
      OBVIOUS
    <3>1. p \in 1 .. l
      BY <1>5
    <3>2. o[p].at \in 1 .. n /\ s[p].at = o[p].at
      BY <1>6, <1>10, <2>2, <3>1
    <3>3. CASE r = l + 1
      BY <1>3, <2>2, <3>2, <3>3
    <3>4. CASE r \in 1 .. l
      BY <1>6, <2>2, <3>1, <3>4
    <3> QED BY <2>3, <3>3, <3>4
  <2>8. \A i \in Standing(a) : \E p \in 1 .. l + 1 : s[p].at = i
    <3> SUFFICES ASSUME NEW i \in Standing(a) PROVE \E p \in 1 .. l + 1 : s[p].at = i
      OBVIOUS
    <3>1. CASE i = n + 1
      <4>1. l + 1 \in 1 .. l + 1
        BY <1>5
      <4> QED BY <1>3, <2>2, <3>1, <4>1
    <3>2. CASE i \in Standing(q)
      <4>1. PICK p \in 1 .. l : o[p].at = i
        BY <1>6, <3>2
      <4>2. p \in 1 .. l + 1 /\ s[p].at = i
        BY <1>5, <2>2, <4>1
      <4> QED BY <4>2
    <3> QED BY <2>5, <3>1, <3>2
  <2>9. IsBody(a, s)
    BY <2>2, <2>6, <2>7, <2>8 DEF IsBody
  <2>10. IsJoined(a, next)
    <3>1. next.out = s /\ (next.open <=> a[n + 1].kind = "open")
      <4>1. next.out = s /\ next.open = (x.kind = "open")
        BY <2>1
      <4> QED BY <1>3, <4>1
    <3>2. s[l + 1].at = n + 1 /\ Len(s) > 0 /\ Len(a) > 0
      BY <1>3, <2>2
    <3>3. next.open <=> Len(a) > 0 /\ a[Len(a)].kind = "open"
      BY <1>3, <3>1, <3>2
    <3>4. Len(next.out) > 0 /\ next.out[Len(next.out)].at = Len(a)
      BY <1>3, <2>2, <3>1, <3>2
    <3> QED BY <2>9, <3>1, <3>3, <3>4 DEF IsJoined
  <2> QED BY <1>2, <1>11, <2>10
<1> QED BY <1>6, <1>12, <1>13

\* The text once its wrapped summaries are joined.
LEMMA BodyIs ==
    ASSUME NEW c \in Seq(LineTypes), Numbered(c), Wrapping(c)
    PROVE  JoinCopypaste(c) \in Seq(LineTypes) /\ IsBody(c, JoinCopypaste(c))
<1> DEFINE start == [out |-> <<>>, open |-> FALSE]
           J(q) == FoldLeft(CopypasteStep, start, q)
           T == {q \in Seq(LineTypes) : Numbered(q) /\ Wrapping(q) => IsJoined(q, J(q))}
<1>1. <<>> \in T
  <2>1. <<>> \in Seq(LineTypes) /\ J(<<>>) = start /\ Len(<<>>) = 0
    BY JoinSteps
  <2>2. Standing(<<>>) = {}
    BY <2>1 DEF Standing
  <2>3. IsBody(<<>>, <<>>)
    BY <2>1, <2>2 DEF IsBody
  <2>4. IsJoined(<<>>, start)
    BY <2>1, <2>3 DEF IsJoined
  <2> HIDE DEF J, start
  <2> QED BY <2>1, <2>4
<1>2. ASSUME NEW q \in Seq(LineTypes), NEW x \in LineTypes, q \in T PROVE Append(q, x) \in T
  <2>1. PICK a \in Seq(LineTypes) : a = Append(q, x)
    BY AppendProperties
  <2>2. J(q) \in JoinStates /\ J(Append(q, x)) = CopypasteStep(J(q), x)
    BY JoinSteps
  <2> HIDE DEF J, start
  <2> SUFFICES ASSUME Numbered(a), Wrapping(a) PROVE IsJoined(a, J(a))
    BY <2>1
  <2>3. PICK n \in Nat : n = Len(q) /\ DOMAIN q = 1 .. n
    BY LenProperties
  <2>4. /\ Len(a) = n + 1 /\ DOMAIN a = 1 .. n + 1 /\ a[n + 1] = x
        /\ \A k \in 1 .. n : a[k] = q[k] /\ k \in 1 .. n + 1
    BY <2>1, <2>3, AppendProperties, LenProperties
  <2>5. Numbered(q) /\ x.at = n + 1
    <3>1. n + 1 \in 1 .. n + 1
      OBVIOUS
    <3> QED BY <2>3, <2>4, <3>1 DEF Numbered
  <2>6. Wrapping(q)
    <3>1. \A k \in 1 .. n - 1 : k \in 1 .. (n + 1) - 1 /\ k \in 1 .. n /\ k + 1 \in 1 .. n
      OBVIOUS
    <3> QED BY <2>3, <2>4, <3>1 DEF Wrapping
  <2>7. IsJoined(q, J(q))
    BY <1>2, <2>5, <2>6
  <2>8. IsJoined(Append(q, x), CopypasteStep(J(q), x))
    BY <2>1, <2>2, <2>3, <2>5, <2>7, JoinedNext
  <2> QED BY <2>1, <2>2, <2>8
<1>3. Seq(LineTypes) \subseteq T
  <2> HIDE DEF T
  <2> QED BY <1>1, <1>2, SeqInduction
<1>4. IsJoined(c, J(c)) /\ J(c) \in JoinStates
  <2>1. J(c) \in JoinStates
    BY JoinSteps
  <2> HIDE DEF J
  <2> QED BY <1>3, <2>1
<1>5. JoinCopypaste(c) = J(c).out
  BY DEF JoinCopypaste
<1> HIDE DEF J
<1> QED BY <1>4, <1>5 DEF IsJoined, JoinStates


\* body is what the tags of lines are looked for in, the first m of them.
IsScanned(lines, m, body) ==
    /\ \A k \in 1 .. Len(lines) + 1 : Above(lines, k) <=> k <= m
    /\ \A i \in 1 .. m : lines[i].kind = "open" => i + 1 <= m /\ lines[i + 1].kind = "close"
    /\ \A p \in 1 .. Len(body) :
         /\ body[p].at \in 1 .. m
         /\ body[p].kind = IF lines[body[p].at].kind = "open" THEN "full"
                           ELSE lines[body[p].at].kind
    /\ \A p, r \in 1 .. Len(body) : p < r => body[p].at < body[r].at
    /\ \A i \in 1 .. m : i = 1 \/ lines[i - 1].kind # "open" =>
         \E p \in 1 .. Len(body) : body[p].at = i

LEMMA ScannedIs ==
    ASSUME NEW lines \in Seq(LineTypes), Numbered(lines), WellWrapped(lines)
    PROVE  /\ Scanned(lines) \in Seq(LineTypes)
           /\ \E m \in 0 .. Len(lines) : IsScanned(lines, m, Scanned(lines))
<1>1. PICK n \in Nat : n = Len(lines) /\ DOMAIN lines = 1 .. n
  BY LenProperties
<1>2. PICK m \in 0 .. n, c \in Seq(LineTypes) :
         /\ CutSignature(lines) = c /\ Len(c) = m
         /\ \A k \in 1 .. m : c[k] = lines[k]
         /\ \A k \in 1 .. n + 1 : Above(lines, k) <=> k <= m
  BY <1>1, CutIs
<1>3. m \in Nat /\ DOMAIN c = 1 .. m /\ \A k \in 1 .. m : k \in 1 .. n
  BY <1>1, <1>2, LenProperties
<1>4. ASSUME NEW i \in 1 .. m, lines[i].kind = "open"
      PROVE  i + 1 <= m /\ lines[i + 1].kind = "close"
  <2>1. i \in 1 .. n /\ i < n /\ lines[i + 1].kind = "close"
    BY <1>1, <1>3, <1>4 DEF WellWrapped
  <2>2. i \in 1 .. n + 1 /\ i + 1 \in 1 .. n + 1 /\ i + 1 \in 1 .. n
    BY <1>1, <2>1
  <2>3. Above(lines, i)
    BY <1>2, <1>3, <2>2
  <2>4. \A j \in 2 .. i + 1 : j \in 2 .. i \/ j = i + 1
    OBVIOUS
  <2>5. Above(lines, i + 1)
    BY <1>1, <2>1, <2>2, <2>3, <2>4 DEF Above
  <2> QED BY <1>2, <2>1, <2>2, <2>5
<1>5. Numbered(c)
  BY <1>1, <1>2, <1>3 DEF Numbered
<1>6. Wrapping(c)
  <2> SUFFICES ASSUME NEW k \in 1 .. m - 1, c[k].kind = "open" PROVE c[k + 1].kind = "close"
    BY <1>2 DEF Wrapping
  <2>1. k \in 1 .. m /\ k + 1 \in 1 .. m
    BY <1>3
  <2> QED BY <1>2, <1>4, <2>1
<1>7. PICK body \in Seq(LineTypes) : body = Scanned(lines) /\ IsBody(c, body)
  BY <1>2, <1>5, <1>6, BodyIs DEF Scanned
<1>8. PICK l \in Nat : l = Len(body)
  BY LenProperties
<1>9. /\ \A p \in 1 .. l : body[p].at \in Standing(c) /\ body[p].kind = KindOf(c, body[p].at)
      /\ \A p, r \in 1 .. l : p < r => body[p].at < body[r].at
      /\ \A i \in Standing(c) : \E p \in 1 .. l : body[p].at = i
  BY <1>7, <1>8 DEF IsBody
<1>10. ASSUME NEW p \in 1 .. l
       PROVE  /\ body[p].at \in 1 .. m
              /\ body[p].kind = IF lines[body[p].at].kind = "open" THEN "full"
                                ELSE lines[body[p].at].kind
  <2>1. PICK i \in 1 .. m : i = body[p].at
    BY <1>2, <1>9 DEF Standing
  <2>2. body[p].kind = KindOf(c, i)
    BY <1>9, <2>1
  <2>3. lines[i].kind = "open" => i < m
    BY <1>3, <1>4
  <2>4. KindOf(c, i) = IF lines[i].kind = "open" THEN "full" ELSE lines[i].kind
    BY <1>2, <2>3 DEF KindOf
  <2> QED BY <2>1, <2>2, <2>4
<1>11. ASSUME NEW i \in 1 .. m, i = 1 \/ lines[i - 1].kind # "open"
       PROVE  \E p \in 1 .. l : body[p].at = i
  <2>1. i # 1 => i - 1 \in 1 .. m
    BY <1>3
  <2>2. i \in Standing(c)
    BY <1>2, <1>11, <2>1 DEF Standing
  <2> QED BY <1>9, <2>2
<1>12. IsScanned(lines, m, body)
  BY <1>1, <1>2, <1>4, <1>8, <1>9, <1>10, <1>11 DEF IsScanned
<1> QED BY <1>1, <1>7, <1>12

\* Behind a line that is not joined comes the next one.
LEMMA NextLine ==
    ASSUME NEW lines \in Seq(LineTypes), NEW m \in 0 .. Len(lines), NEW body \in Seq(LineTypes),
           IsScanned(lines, m, body), NEW p \in 1 .. Len(body), lines[body[p].at].kind # "open"
    PROVE  /\ p < Len(body) <=> body[p].at + 1 <= m
           /\ p < Len(body) => body[p + 1].at = body[p].at + 1
<1>1. PICK l \in Nat : l = Len(body) /\ p \in 1 .. l
  BY LenProperties
<1>2. m \in Nat
  BY LenProperties
<1>3. /\ \A r \in 1 .. l : body[r].at \in 1 .. m
      /\ \A r, s \in 1 .. l : r < s => body[r].at < body[s].at
      /\ \A i \in 1 .. m : i = 1 \/ lines[i - 1].kind # "open" =>
           \E r \in 1 .. l : body[r].at = i
  BY <1>1 DEF IsScanned
<1>4. PICK i \in 1 .. m : i = body[p].at
  BY <1>1, <1>3
<1>5. ASSUME p < l PROVE i + 1 <= m
  <2>1. p + 1 \in 1 .. l /\ p < p + 1
    BY <1>1, <1>5
  <2>2. i < body[p + 1].at /\ body[p + 1].at \in 1 .. m
    BY <1>1, <1>3, <1>4, <2>1
  <2> QED BY <1>2, <2>2
<1>6. ASSUME i + 1 <= m PROVE p < l /\ body[p + 1].at = i + 1
  <2>1. i + 1 \in 1 .. m /\ (i + 1) - 1 = i
    BY <1>2, <1>6
  <2>2. PICK r \in 1 .. l : body[r].at = i + 1
    BY <1>3, <1>4, <2>1
  <2>3. ~(r <= p)
    <3> SUFFICES ASSUME r <= p PROVE FALSE
      OBVIOUS
    <3>1. r = p \/ r < p
      BY <1>1
    <3>2. body[r].at <= i
      BY <1>1, <1>2, <1>3, <1>4, <3>1
    <3> QED BY <2>2, <3>2
  <2>4. p < l /\ p + 1 \in 1 .. l
    BY <1>1, <2>3
  <2>5. PICK j \in 1 .. m : j = body[p + 1].at
    BY <1>3, <2>4
  <2>6. i < j
    BY <1>1, <1>3, <1>4, <2>4, <2>5
  <2>7. j <= i + 1
    <3>1. r = p + 1 \/ p + 1 < r
      BY <1>1, <2>3
    <3>2. p + 1 < r => j < i + 1
      BY <1>3, <2>2, <2>4, <2>5
    <3> QED BY <2>2, <2>5, <3>1, <3>2
  <2> QED BY <2>4, <2>5, <2>6, <2>7
<1> QED BY <1>1, <1>4, <1>5, <1>6

\* The lines of a body, by their numbers.
AtLines(body, P) == {body[p].at : p \in P}

-----------------------------------------------------------------------------
FixesStates == [found : Seq(Nat), skip : BOOLEAN]

Fixes(body) ==
    FoldLeft(LAMBDA acc, k : FixesStep(body, acc, k),
             [found |-> <<>>, skip |-> FALSE], Positions(body)).found

LEMMA FixesType ==
    ASSUME NEW body \in Seq(LineTypes)
    PROVE  /\ \A acc \in FixesStates, k \in 1 .. Len(body) : FixesStep(body, acc, k) \in FixesStates
           /\ [found |-> <<>>, skip |-> FALSE] \in FixesStates
<1>1. \A k \in 1 .. Len(body) : body[k] \in LineTypes
  BY LenProperties
<1>2. ASSUME NEW acc \in FixesStates, NEW k \in 1 .. Len(body)
      PROVE  FixesStep(body, acc, k) \in FixesStates
  <2>1. acc.found \in Seq(Nat) /\ acc.skip \in BOOLEAN /\ body[k].at \in Nat
    BY <1>1 DEF FixesStates, LineTypes
  <2>2. Append(acc.found, body[k].at) \in Seq(Nat)
    BY <2>1, AppendProperties
  <2>3. SkipsNext(body, k) \in BOOLEAN
    BY DEF SkipsNext
  <2> QED BY <2>1, <2>2, <2>3 DEF FixesStep, FixesStates
<1> QED BY <1>2 DEF FixesStates

\* The step of the loop over the lines.
Fixing(body) == [p \in FixesStates \X (1 .. Len(body)) |-> FixesStep(body, p[1], p[2])]

LEMMA FixIsFold ==
    ASSUME NEW body \in Seq(LineTypes)
    PROVE  /\ Fixing(body) \in StepsOf(FixesStates, 1 .. Len(body)) /\ [found |-> <<>>, skip |-> FALSE] \in FixesStates
           /\ \A acc \in FixesStates, x \in 1 .. Len(body) : Fixing(body)[<<acc, x>>] = FixesStep(body, acc, x)
           /\ Fixes(body) = Fold(Fixing(body), [found |-> <<>>, skip |-> FALSE], Indices(Len(body))).found
<1> DEFINE F == Fixing(body)
           b == [found |-> <<>>, skip |-> FALSE]
           q == Positions(body)
           E(g) == g = [s \in SUBSET (1 .. Len(q)) |->
                          IF s = {} THEN b ELSE FixesStep(body, g[s \ {Max(s)}], q[Max(s)])]
           h == CHOOSE g : E(g)
<1>1. PICK n \in Nat : n = Len(body) /\ DOMAIN body = 1 .. n
  BY LenProperties
<1>2. /\ F \in StepsOf(FixesStates, 1 .. n) /\ b \in FixesStates
      /\ \A acc \in FixesStates, x \in 1 .. n : F[<<acc, x>>] = FixesStep(body, acc, x)
  <2>1. \A acc \in FixesStates, x \in 1 .. n : FixesStep(body, acc, x) \in FixesStates
    BY <1>1, FixesType
  <2>2. b \in FixesStates
    BY FixesType
  <2> QED BY <1>1, <2>1, <2>2 DEF Fixing, StepsOf
<1>3. /\ q \in Seq(1 .. n) /\ DOMAIN q = 1 .. Len(q) /\ Len(q) = n
      /\ q = Indices(n)
      /\ \A s \in SUBSET (1 .. Len(q)) : s # {} => q[Max(s)] \in 1 .. n
  <2>1. q \in Seq(1 .. n) /\ Len(q) = n /\ q = Indices(n)
    BY <1>1, PositionsAre
  <2>2. DOMAIN q = 1 .. Len(q) /\ Len(q) \in Nat /\ \A k \in 1 .. Len(q) : q[k] \in 1 .. n
    BY <2>1, LenProperties
  <2>3. \A s \in SUBSET (1 .. Len(q)) : s # {} => Max(s) \in s
    BY <2>2, MaxOf
  <2> QED BY <2>1, <2>2, <2>3
<1>4. Fixes(body) = h[1 .. Len(q)].found
  BY <1>3 DEF Fixes, FoldLeft, MapThenFoldSet
<1> HIDE DEF F, b, q
<1>5. PICK r \in Runs(FixesStates, F, b, q) : TRUE
  BY <1>2, <1>3, FoldExists
<1>6. E(r)
  <2>1. \A s \in SUBSET (1 .. Len(q)) :
           r[s] = IF s = {} THEN b ELSE FixesStep(body, r[s \ {Max(s)}], q[Max(s)])
    BY <1>2, <1>3 DEF Runs
  <2> QED BY <2>1 DEF Runs
<1>7. E(h)
  <2> HIDE DEF E
  <2> QED BY <1>6
<1> HIDE DEF h
<1>8. Follows(h, FixesStates, F, b, q)
  <2>1. h[{}] = b
    BY <1>7
  <2>2. ASSUME NEW s \in SUBSET (1 .. Len(q)), s # {}, h[s \ {Max(s)}] \in FixesStates
        PROVE  h[s] = F[<<h[s \ {Max(s)}], q[Max(s)]>>]
    <3>1. h[s] = FixesStep(body, h[s \ {Max(s)}], q[Max(s)])
      BY <1>7, <2>2
    <3> QED BY <1>2, <1>3, <2>2, <3>1
  <2> QED BY <2>1, <2>2 DEF Follows
<1>9. h[1 .. Len(q)] = Fold(F, b, q)
  BY <1>2, <1>3, <1>8, FoldMeets
<1>10. Fixes(body) = Fold(F, b, Indices(n)).found
  BY <1>3, <1>4, <1>9
<1> QED BY <1>1, <1>2, <1>10 DEF F, b

LEMMA FixRuns ==
    ASSUME NEW body \in Seq(LineTypes)
    PROVE  \E f \in [0 .. Len(body) -> FixesStates] :
              /\ f[0] = [found |-> <<>>, skip |-> FALSE]
              /\ \A k \in 1 .. Len(body) : f[k] = FixesStep(body, f[k - 1], k)
              /\ f[Len(body)].found = Fixes(body)
<1>1. PICK n \in Nat : n = Len(body)
  BY LenProperties
<1>2. PICK F \in StepsOf(FixesStates, 1 .. n), b \in FixesStates : F = Fixing(body) /\ b = [found |-> <<>>, skip |-> FALSE]
  BY <1>1, FixIsFold
<1>3. /\ \A acc \in FixesStates, x \in 1 .. n : F[<<acc, x>>] = FixesStep(body, acc, x)
      /\ Fixes(body) = Fold(F, b, Indices(n)).found
  BY <1>1, <1>2, FixIsFold
<1>4. PICK f \in [0 .. n -> FixesStates] : IsRun(f, F, b, n)
  BY IndexFold
<1>5. \A k \in 1 .. n : f[k] = FixesStep(body, f[k - 1], k)
  <2>1. \A k \in 1 .. n : k - 1 \in 0 .. n
    OBVIOUS
  <2> QED BY <1>3, <1>4, <2>1 DEF IsRun
<1>6. f[n].found = Fixes(body)
  BY <1>3, <1>4 DEF IsRun
<1> QED BY <1>1, <1>2, <1>4, <1>5, <1>6 DEF IsRun


\* What the loop takes for a tag.
IsFixes(body, p) == body[p].kind \in {"full", "bare"} \/ SkipsNext(body, p)

LEMMA FixesFound ==
    ASSUME NEW body \in Seq(LineTypes),
           \A p, r \in 1 .. Len(body) : p < r => body[p].at < body[r].at
    PROVE  /\ Fixes(body) \in Seq(Int) /\ Ascending(Fixes(body))
           /\ Range(Fixes(body)) = AtLines(body, {p \in 1 .. Len(body) : IsFixes(body, p)})
<1>1. PICK l \in Nat : l = Len(body) /\ \A p \in 1 .. l : body[p] \in LineTypes /\ body[p].at \in Nat
  <2>1. \A line \in LineTypes : line.at \in Nat
    BY DEF LineTypes
  <2> QED BY <2>1, LenProperties
<1>2. PICK f \in [0 .. l -> FixesStates] :
         /\ f[0] = [found |-> <<>>, skip |-> FALSE]
         /\ \A k \in 1 .. l : f[k] = FixesStep(body, f[k - 1], k)
         /\ f[l].found = Fixes(body)
  BY <1>1, FixRuns
<1>3. \A p, r \in 1 .. l : p < r => body[p].at < body[r].at
  BY <1>1
<1> DEFINE Tags(k) == {p \in 1 .. k : IsFixes(body, p)}
           Found(k) == /\ f[k].found \in Seq(Int) /\ Ascending(f[k].found)
                       /\ Range(f[k].found) = AtLines(body, Tags(k))
           T == {k \in 0 .. l : (f[k].skip <=> k >= 1 /\ SkipsNext(body, k)) /\ Found(k)}
<1>4. 0 \in T
  <2>1. Tags(0) = {}
    OBVIOUS
  <2>2. <<>> \in Seq(Int) /\ Ascending(<<>>) /\ Range(<<>>) = {}
    <3>1. <<>> \in Seq(Int) /\ DOMAIN <<>> = {}
      OBVIOUS
    <3> QED BY <3>1, RangeNone DEF Ascending
  <2>3. AtLines(body, Tags(0)) = {}
    BY <2>1 DEF AtLines
  <2> HIDE DEF Tags
  <2>4. Found(0)
    <3>1. f[0].found = <<>>
      BY <1>2
    <3> QED BY <2>2, <2>3, <3>1, Zenon
  <2>5. 0 \in 0 .. l /\ ~(0 >= 1) /\ ~f[0].skip
    BY <1>1, <1>2
  <2> QED BY <2>4, <2>5
<1>5. ASSUME NEW k \in 1 .. l, k - 1 \in T PROVE k \in T
  <2>1. PICK q \in Seq(Int) :
           /\ q = f[k - 1].found /\ Ascending(q) /\ Range(q) = AtLines(body, Tags(k - 1))
    <3> HIDE DEF Tags
    <3> QED BY <1>5
  <2>2. f[k - 1].skip <=> k - 1 >= 1 /\ SkipsNext(body, k - 1)
    <3> HIDE DEF Found
    <3> QED BY <1>5
  <2>3. f[k] = FixesStep(body, f[k - 1], k) /\ k \in 0 .. l /\ k - 1 \in 0 .. l
    BY <1>2
  <2>4. f[k - 1].skip \in BOOLEAN
    BY <1>2, <2>3 DEF FixesStates
  <2>5. \A p \in 1 .. k : p \in 1 .. k - 1 \/ p = k
    OBVIOUS
  <2>6. \A p \in 1 .. k - 1 : p \in 1 .. k /\ p \in 1 .. l /\ p < k
    OBVIOUS
  <2>7. CASE f[k - 1].skip
    <3>1. body[k].kind = "odd"
      <4>1. (k - 1) + 1 = k
        OBVIOUS
      <4> QED BY <2>2, <2>7, <4>1 DEF SkipsNext
    <3>2. ~SkipsNext(body, k) /\ ~IsFixes(body, k)
      BY <3>1 DEF SkipsNext, IsFixes
    <3>3. f[k].found = q /\ f[k].skip = FALSE
      BY <1>2, <2>1, <2>3, <2>7 DEF FixesStep, FixesStates
    <3>4. Tags(k) = Tags(k - 1)
      BY <2>5, <2>6, <3>2
    <3> HIDE DEF Tags
    <3>5. Found(k)
      BY <2>1, <3>3, <3>4
    <3> HIDE DEF Found
    <3> QED BY <2>3, <3>2, <3>3, <3>5
  <2>8. CASE ~f[k - 1].skip /\ ~IsFixes(body, k)
    <3>1. ~SkipsNext(body, k) /\ body[k].kind \notin {"full", "bare"}
      BY <2>8 DEF IsFixes
    <3>2. f[k].found = q /\ (f[k].skip <=> SkipsNext(body, k))
      BY <2>1, <2>3, <2>8, <3>1 DEF FixesStep
    <3>3. Tags(k) = Tags(k - 1)
      BY <2>5, <2>6, <2>8
    <3> HIDE DEF Tags
    <3>4. Found(k)
      BY <2>1, <3>2, <3>3
    <3> HIDE DEF Found
    <3> QED BY <2>3, <3>2, <3>4
  <2>9. CASE ~f[k - 1].skip /\ IsFixes(body, k)
    <3>1. f[k].found = Append(q, body[k].at) /\ (f[k].skip <=> SkipsNext(body, k))
      BY <2>1, <2>3, <2>9 DEF FixesStep, IsFixes
    <3>2. PICK x \in Int : x = body[k].at
      BY <1>1
    <3>3. PICK r \in Seq(Int) : r = Append(q, x) /\ Range(r) = Range(q) \cup {x}
      <4>1. Append(q, x) \in Seq(Int)
        BY AppendProperties
      <4>2. Range(Append(q, x)) = Range(q) \cup {x}
        BY RangeAppend
      <4> QED BY <4>1, <4>2
    <3>4. Tags(k) = Tags(k - 1) \cup {k}
      BY <2>5, <2>6, <2>9
    <3>5. \A p \in Tags(k - 1) : body[p].at < x
      BY <1>3, <2>6, <3>2
    <3> HIDE DEF Tags
    <3>6. AtLines(body, Tags(k)) = AtLines(body, Tags(k - 1)) \cup {x}
      BY <3>2, <3>4 DEF AtLines
    <3>7. \A y \in Range(q) : y < x
      BY <2>1, <3>5 DEF AtLines
    <3>8. Ascending(Append(q, x))
      BY <2>1, <3>7, AscendingAppend
    <3>9. f[k].found = r
      BY <3>1, <3>2, <3>3, Zenon
    <3>10. Ascending(r)
      BY <3>3, <3>8, Zenon
    <3>11. Found(k)
      BY <2>1, <3>3, <3>6, <3>9, <3>10
    <3> HIDE DEF Found
    <3> QED BY <2>3, <3>1, <3>11
  <2> QED BY <2>4, <2>7, <2>8, <2>9
<1>6. l \in T
  <2> HIDE DEF T
  <2>1. 0 .. l \subseteq T
    BY <1>4, <1>5, StepInduction
  <2> QED BY <2>1
<1>7. Found(l)
  <2> HIDE DEF Found
  <2> QED BY <1>6
<1> QED BY <1>1, <1>2, <1>7

\* The positions of a sequence that are in a set.
LEMMA PositionsChosen ==
    ASSUME NEW n \in Nat, NEW P
    PROVE  /\ Chosen(Int, P, Indices(n)) \in Seq(Int) /\ Ascending(Chosen(Int, P, Indices(n)))
           /\ Range(Chosen(Int, P, Indices(n))) = (1 .. n) \cap P
<1>1. Indices(n) \in Seq(Int)
  <2>1. \A q \in Seq(1 .. n) : q \in Seq(Int)
    OBVIOUS
  <2> QED BY <2>1, IndicesAre
<1>2. Ascending(Indices(n)) /\ Range(Indices(n)) = 1 .. n
  BY IndicesAscend
<1>3. Chosen(Int, P, Indices(n)) \in Seq(Int)
  <2>1. Chosen(Int, P, Indices(n)) \in Seq(Int \cap P)
    BY <1>1, ChosenSteps
  <2>2. \A q \in Seq(Int \cap P) : q \in Seq(Int)
    OBVIOUS
  <2> QED BY <2>1, <2>2
<1>4. Range(Chosen(Int, P, Indices(n))) = Range(Indices(n)) \cap P
  BY <1>1, RangeChosen
<1>5. Ascending(Chosen(Int, P, Indices(n)))
  BY <1>1, <1>2, ChosenAscends
<1> QED BY <1>2, <1>3, <1>4, <1>5

(***************************************************************************)
(* extract_fixes_body_tags_from_body: of a body of any length, where no    *)
(* summary is left open, every Fixes: tag above the signature is found     *)
(* once and in order.                                                      *)
(***************************************************************************)
THEOREM FixesAreFound ==
    ASSUME NEW lines \in Seq(LineTypes), Numbered(lines)
    PROVE  FixesExact(lines)
<1> SUFFICES ASSUME WellWrapped(lines) PROVE FixesExact(lines)
  BY DEF FixesExact
<1>1. PICK n \in Nat : n = Len(lines) /\ DOMAIN lines = 1 .. n
  BY LenProperties
<1>2. PICK body \in Seq(LineTypes), m \in 0 .. n :
         body = Scanned(lines) /\ IsScanned(lines, m, body)
  BY <1>1, ScannedIs
<1>3. PICK l \in Nat : l = Len(body)
  BY LenProperties
<1>4. /\ \A k \in 1 .. n + 1 : Above(lines, k) <=> k <= m
      /\ \A i \in 1 .. m : lines[i].kind = "open" => i + 1 <= m /\ lines[i + 1].kind = "close"
      /\ \A p \in 1 .. l :
           /\ body[p].at \in 1 .. m
           /\ body[p].kind = IF lines[body[p].at].kind = "open" THEN "full"
                             ELSE lines[body[p].at].kind
      /\ \A p, r \in 1 .. l : p < r => body[p].at < body[r].at
      /\ \A i \in 1 .. m : i = 1 \/ lines[i - 1].kind # "open" =>
           \E p \in 1 .. l : body[p].at = i
  BY <1>1, <1>2, <1>3 DEF IsScanned
<1> DEFINE IsTag(k) == \/ lines[k].kind \in {"full", "bare", "open"}
                       \/ WrapsOn(lines, k) /\ ~LostWrapped(lines, k)
           Wraps(k) == /\ lines[k].kind = "openup" /\ Above(lines, k + 1)
                       /\ lines[k + 1].kind = "odd"
           P == {k \in 1 .. n : Above(lines, k) /\ IsTag(k)}
           found == Fixes(body)
<1>5. ExtractFixes(lines) = found
  BY <1>2 DEF ExtractFixes, Fixes
<1>6. /\ found \in Seq(Int) /\ Ascending(found)
      /\ Range(found) = AtLines(body, {p \in 1 .. l : IsFixes(body, p)})
  BY <1>3, <1>4, FixesFound
<1>7. Filter(Positions(lines), LAMBDA k : Above(lines, k) /\ IsTag(k)) = Chosen(Int, P, Indices(n))
  <2>1. Positions(lines) = Indices(n)
    BY <1>1, PositionsAre
  <2>2. DOMAIN Indices(n) = 1 .. n /\ \A k \in 1 .. n : Indices(n)[k] = k /\ k \in Int
    BY DEF Indices
  <2>3. \A k \in DOMAIN Indices(n) :
           OneOrNone(Int, P)[Indices(n)[k]] =
             IF Above(lines, Indices(n)[k]) /\ IsTag(Indices(n)[k]) THEN <<Indices(n)[k]>> ELSE <<>>
    BY <2>2 DEF OneOrNone
  <2> QED BY <2>1, <2>3 DEF Filter, Chosen, FlatMap, Mapped
<1>8. ASSUME NEW p \in 1 .. l, lines[body[p].at].kind # "open"
      PROVE  /\ p < l <=> body[p].at + 1 <= m
             /\ p < l => body[p + 1].at = body[p].at + 1
  BY <1>1, <1>2, <1>3, <1>8, NextLine
<1>14. \A k : IsTag(k) <=> lines[k].kind \in {"full", "bare", "open"} \/ Wraps(k)
  BY DEF WrapsOn, LostWrapped
<1> HIDE DEF IsTag
<1>9. ASSUME NEW p \in 1 .. l, IsFixes(body, p) PROVE body[p].at \in P
  <2>1. PICK i \in 1 .. m : i = body[p].at
    BY <1>4
  <2>2. i \in 1 .. n /\ Above(lines, i)
    BY <1>4, <2>1
  <2>3. body[p].kind = IF lines[i].kind = "open" THEN "full" ELSE lines[i].kind
    BY <1>4, <2>1
  <2>4. CASE SkipsNext(body, p)
    <3>1. body[p].kind = "openup" /\ p < l /\ body[p + 1].kind = "odd"
      <4>1. body[p].kind # "open"
        BY <2>3
      <4> QED BY <1>3, <2>4, <4>1 DEF SkipsNext
    <3>2. lines[i].kind = "openup"
      BY <2>3, <3>1
    <3>3. i + 1 <= m /\ body[p + 1].at = i + 1
      BY <1>8, <2>1, <3>1, <3>2
    <3>4. lines[i + 1].kind = "odd"
      <4>1. p + 1 \in 1 .. l
        BY <1>3, <3>1
      <4>2. body[p + 1].kind = IF lines[i + 1].kind = "open" THEN "full" ELSE lines[i + 1].kind
        BY <1>4, <3>3, <4>1
      <4> QED BY <3>1, <4>2
    <3>5. Above(lines, i + 1)
      <4>1. i + 1 \in 1 .. n + 1
        BY <2>2
      <4> QED BY <1>4, <3>3, <4>1
    <3>6. IsTag(i)
      BY <1>14, <3>2, <3>4, <3>5
    <3> QED BY <2>1, <2>2, <3>6
  <2>5. CASE body[p].kind \in {"full", "bare"}
    <3>1. lines[i].kind \in {"full", "bare", "open"}
      BY <2>3, <2>5
    <3> QED BY <1>14, <2>1, <2>2, <3>1
  <2> QED BY <1>9, <2>4, <2>5 DEF IsFixes
<1>10. ASSUME NEW i \in P PROVE \E p \in 1 .. l : IsFixes(body, p) /\ body[p].at = i
  <2>1. i \in 1 .. n /\ i \in 1 .. m /\ IsTag(i)
    BY <1>4
  <2>2. lines[i].kind \in {"full", "bare", "open"} \/ Wraps(i)
    BY <1>14, <2>1
  <2>3. i # 1 => lines[i - 1].kind # "open"
    <3> SUFFICES ASSUME i # 1, lines[i - 1].kind = "open" PROVE FALSE
      OBVIOUS
    <3>1. i - 1 \in 1 .. m /\ (i - 1) + 1 = i
      BY <2>1
    <3>2. lines[i].kind = "close"
      BY <1>4, <3>1
    <3> QED BY <2>2, <3>2
  <2>4. PICK p \in 1 .. l : body[p].at = i
    BY <1>4, <2>1, <2>3
  <2>5. body[p].kind = IF lines[i].kind = "open" THEN "full" ELSE lines[i].kind
    BY <1>4, <2>4
  <2>6. CASE lines[i].kind \in {"full", "bare", "open"}
    <3>1. body[p].kind \in {"full", "bare"}
      BY <2>5, <2>6
    <3> QED BY <2>4, <3>1 DEF IsFixes
  <2>7. CASE Wraps(i)
    <3>1. i + 1 <= m
      <4>1. i + 1 \in 1 .. n + 1
        BY <2>1
      <4> QED BY <1>4, <2>7, <4>1
    <3>2. p < l /\ body[p + 1].at = i + 1
      BY <1>8, <2>4, <2>7, <3>1
    <3>3. body[p + 1].kind = "odd"
      <4>1. p + 1 \in 1 .. l
        BY <1>3, <3>2
      <4> QED BY <1>4, <2>7, <3>2, <4>1, SMTT(60)
    <3>4. body[p].kind = "openup"
      BY <2>5, <2>7
    <3> QED BY <1>3, <2>4, <3>2, <3>3, <3>4 DEF IsFixes, SkipsNext
  <2> QED BY <2>2, <2>6, <2>7
<1>11. Range(found) = P
  <2> HIDE DEF P, found
  <2> QED BY <1>6, <1>9, <1>10 DEF AtLines
<1>12. found = Chosen(Int, P, Indices(n))
  <2>1. P \subseteq 1 .. n
    OBVIOUS
  <2> HIDE DEF P, found
  <2>2. Range(Chosen(Int, P, Indices(n))) = P
    BY <2>1, PositionsChosen
  <2> QED BY <1>6, <1>11, <2>2, PositionsChosen, AscendingUnique
<1>13. Numbers(lines, IsTag) = found
  <2> HIDE DEF found, P
  <2> QED BY <1>7, <1>12 DEF Numbers
<1> HIDE DEF found, P
<1> QED BY <1>5, <1>13 DEF FixesExact, IsTag


(***************************************************************************)
(* extract_attributions: and so is every trailer, its address on the same  *)
(* line or on the next.                                                    *)
(***************************************************************************)
THEOREM TrailersAreFound ==
    ASSUME NEW lines \in Seq(LineTypes), Numbered(lines)
    PROVE  TrailersExact(lines)
<1> SUFFICES ASSUME WellWrapped(lines) PROVE TrailersExact(lines)
  BY DEF TrailersExact
<1>1. PICK n \in Nat : n = Len(lines) /\ DOMAIN lines = 1 .. n
  BY LenProperties
<1>2. PICK body \in Seq(LineTypes), m \in 0 .. n :
         body = Scanned(lines) /\ IsScanned(lines, m, body)
  BY <1>1, ScannedIs
<1>3. PICK l \in Nat : l = Len(body)
  BY LenProperties
<1>4. /\ \A k \in 1 .. n + 1 : Above(lines, k) <=> k <= m
      /\ \A i \in 1 .. m : lines[i].kind = "open" => i + 1 <= m /\ lines[i + 1].kind = "close"
      /\ \A p \in 1 .. l :
           /\ body[p].at \in 1 .. m
           /\ body[p].kind = IF lines[body[p].at].kind = "open" THEN "full"
                             ELSE lines[body[p].at].kind
      /\ \A p, r \in 1 .. l : p < r => body[p].at < body[r].at
      /\ \A i \in 1 .. m : i = 1 \/ lines[i - 1].kind # "open" =>
           \E p \in 1 .. l : body[p].at = i
  BY <1>1, <1>2, <1>3 DEF IsScanned
<1> DEFINE IsTag(k) == \/ lines[k].kind = "trailer"
                       \/ /\ lines[k].kind = "name" /\ Above(lines, k + 1)
                          /\ lines[k + 1].kind = "addr"
           IsTrailer(p) == \/ body[p].kind = "trailer"
                           \/ /\ body[p].kind = "name"
                              /\ p < Len(body) /\ body[p + 1].kind = "addr"
           P == {k \in 1 .. n : Above(lines, k) /\ IsTag(k)}
           Q == {p \in 1 .. l : IsTrailer(p)}
           found == [j \in DOMAIN Chosen(Int, Q, Indices(l)) |->
                       body[Chosen(Int, Q, Indices(l))[j]].at]
<1>5. ExtractAttributions(lines) = found
  <2>1. Positions(body) = Indices(l)
    BY <1>3, PositionsAre
  <2>2. DOMAIN Indices(l) = 1 .. l /\ \A k \in 1 .. l : Indices(l)[k] = k /\ k \in Int
    BY DEF Indices
  <2>3. \A k \in DOMAIN Indices(l) :
           OneOrNone(Int, Q)[Indices(l)[k]] =
             IF IsTrailer(Indices(l)[k]) THEN <<Indices(l)[k]>> ELSE <<>>
    BY <2>2 DEF OneOrNone
  <2>4. Filter(Positions(body), IsTrailer) = Chosen(Int, Q, Indices(l))
    BY <2>1, <2>3 DEF Filter, Chosen, FlatMap, Mapped
  <2>5. ExtractAttributions(lines) =
          [j \in DOMAIN Filter(Positions(body), IsTrailer) |->
             body[Filter(Positions(body), IsTrailer)[j]].at]
    BY <1>2 DEF ExtractAttributions
  <2> HIDE DEF Q, IsTrailer
  <2> QED BY <2>4, <2>5
<1>6. /\ found \in Seq(Int) /\ Ascending(found)
      /\ Range(found) = AtLines(body, Q)
  <2>1. PICK q \in Seq(Int) :
           q = Chosen(Int, Q, Indices(l)) /\ Ascending(q) /\ Range(q) = Q
    <3>1. Q \subseteq 1 .. l
      OBVIOUS
    <3> HIDE DEF Q
    <3> QED BY <3>1, PositionsChosen
  <2>2. PICK c \in Nat : c = Len(q) /\ DOMAIN q = 1 .. c
    BY LenProperties
  <2>3. \A j \in 1 .. c : q[j] \in 1 .. l /\ q[j] \in Int
    <3>1. \A p \in Q : p \in 1 .. l
      OBVIOUS
    <3> HIDE DEF Q
    <3>2. \A j \in 1 .. c : q[j] \in Q
      BY <2>1, <2>2 DEF Range
    <3> QED BY <3>1, <3>2
  <2>4. PICK r : r = found
    OBVIOUS
  <2>5. r = [j \in 1 .. c |-> body[q[j]].at]
    <3> HIDE DEF Q
    <3> QED BY <2>1, <2>2, <2>4
  <2>6. \A p \in 1 .. l : body[p].at \in Int
    BY <1>4
  <2>7. r \in Seq(Int) /\ DOMAIN r = 1 .. c /\ \A j \in 1 .. c : r[j] = body[q[j]].at
    <3>1. r \in [1 .. c -> Int]
      BY <2>3, <2>5, <2>6
    <3>2. \A k \in Nat : \A g \in [1 .. k -> Int] : g \in Seq(Int)
      OBVIOUS
    <3> QED BY <2>5, <3>1, <3>2
  <2>8. Ascending(r)
    <3> SUFFICES ASSUME NEW i \in 1 .. c, NEW j \in 1 .. c, i < j PROVE body[q[i]].at < body[q[j]].at
      BY <2>7 DEF Ascending
    <3>1. q[i] < q[j]
      BY <2>1, <2>2 DEF Ascending
    <3> QED BY <1>4, <2>3, <3>1
  <2>9. Range(r) = AtLines(body, Q)
    <3> HIDE DEF Q
    <3>1. \A j \in 1 .. c : q[j] \in Q
      BY <2>1, <2>2 DEF Range
    <3>2. \A p \in Q : \E j \in 1 .. c : p = q[j]
      BY <2>1, <2>2 DEF Range
    <3>3. ASSUME NEW x \in Range(r) PROVE x \in AtLines(body, Q)
      <4>1. PICK j \in 1 .. c : x = body[q[j]].at
        BY <2>7 DEF Range
      <4> QED BY <3>1, <4>1 DEF AtLines
    <3>4. ASSUME NEW p \in Q PROVE body[p].at \in Range(r)
      <4>1. PICK j \in 1 .. c : p = q[j]
        BY <3>2
      <4> QED BY <2>7, <4>1 DEF Range
    <3> QED BY <3>3, <3>4 DEF AtLines
  <2> HIDE DEF found
  <2> QED BY <2>4, <2>7, <2>8, <2>9
<1>7. Filter(Positions(lines), LAMBDA k : Above(lines, k) /\ IsTag(k)) = Chosen(Int, P, Indices(n))
  <2>1. Positions(lines) = Indices(n)
    BY <1>1, PositionsAre
  <2>2. DOMAIN Indices(n) = 1 .. n /\ \A k \in 1 .. n : Indices(n)[k] = k /\ k \in Int
    BY DEF Indices
  <2>3. \A k \in DOMAIN Indices(n) :
           OneOrNone(Int, P)[Indices(n)[k]] =
             IF Above(lines, Indices(n)[k]) /\ IsTag(Indices(n)[k]) THEN <<Indices(n)[k]>> ELSE <<>>
    BY <2>2 DEF OneOrNone
  <2> QED BY <2>1, <2>3 DEF Filter, Chosen, FlatMap, Mapped
<1>8. ASSUME NEW p \in 1 .. l, lines[body[p].at].kind # "open"
      PROVE  /\ p < l <=> body[p].at + 1 <= m
             /\ p < l => body[p + 1].at = body[p].at + 1
  BY <1>1, <1>2, <1>3, <1>8, NextLine
<1>9. ASSUME NEW p \in 1 .. l, IsTrailer(p) PROVE body[p].at \in P
  <2>1. PICK i \in 1 .. m : i = body[p].at
    BY <1>4
  <2>2. i \in 1 .. n /\ Above(lines, i)
    BY <1>4, <2>1
  <2>3. body[p].kind = IF lines[i].kind = "open" THEN "full" ELSE lines[i].kind
    BY <1>4, <2>1
  <2>4. CASE body[p].kind = "name" /\ p < Len(body) /\ body[p + 1].kind = "addr"
    <3>1. body[p].kind = "name" /\ p < l /\ body[p + 1].kind = "addr"
      BY <1>3, <2>4
    <3>2. lines[i].kind = "name"
      BY <2>3, <3>1
    <3>3. i + 1 <= m /\ body[p + 1].at = i + 1
      BY <1>8, <2>1, <3>1, <3>2
    <3>4. lines[i + 1].kind = "addr"
      <4>1. p + 1 \in 1 .. l
        BY <1>3, <3>1
      <4>2. body[p + 1].kind = IF lines[i + 1].kind = "open" THEN "full" ELSE lines[i + 1].kind
        BY <1>4, <3>3, <4>1
      <4> QED BY <3>1, <4>2
    <3>5. Above(lines, i + 1)
      <4>1. i + 1 \in 1 .. n + 1
        BY <2>2
      <4> QED BY <1>4, <3>3, <4>1
    <3> QED BY <2>1, <2>2, <3>2, <3>4, <3>5
  <2>5. CASE body[p].kind = "trailer"
    <3>1. lines[i].kind = "trailer"
      BY <2>3, <2>5
    <3> QED BY <2>1, <2>2, <3>1
  <2> QED BY <1>9, <2>4, <2>5
<1>10. ASSUME NEW i \in P PROVE \E p \in 1 .. l : IsTrailer(p) /\ body[p].at = i
  <2>1. i \in 1 .. n /\ i \in 1 .. m /\ IsTag(i)
    BY <1>4
  <2>2. lines[i].kind \in {"trailer", "name"}
    BY <2>1
  <2>3. i # 1 => lines[i - 1].kind # "open"
    <3> SUFFICES ASSUME i # 1, lines[i - 1].kind = "open" PROVE FALSE
      OBVIOUS
    <3>1. i - 1 \in 1 .. m /\ (i - 1) + 1 = i
      BY <2>1
    <3>2. lines[i].kind = "close"
      BY <1>4, <3>1
    <3> QED BY <2>2, <3>2
  <2>4. PICK p \in 1 .. l : body[p].at = i
    BY <1>4, <2>1, <2>3
  <2>5. body[p].kind = lines[i].kind
    BY <1>4, <2>2, <2>4
  <2>6. CASE lines[i].kind = "trailer"
    BY <2>4, <2>5, <2>6
  <2>7. CASE lines[i].kind = "name" /\ Above(lines, i + 1) /\ lines[i + 1].kind = "addr"
    <3>1. i + 1 <= m
      <4>1. i + 1 \in 1 .. n + 1
        BY <2>1
      <4> QED BY <1>4, <2>7, <4>1
    <3>2. p < l /\ body[p + 1].at = i + 1
      BY <1>8, <2>4, <2>7, <3>1
    <3>3. body[p + 1].kind = "addr"
      <4>1. p + 1 \in 1 .. l
        BY <1>3, <3>2
      <4> QED BY <1>4, <2>7, <3>2, <4>1, SMTT(60)
    <3> QED BY <1>3, <2>4, <2>5, <2>7, <3>2, <3>3
  <2> QED BY <2>1, <2>6, <2>7
<1>11. Range(found) = P
  <2>1. \A p \in Q : p \in 1 .. l /\ IsTrailer(p)
    OBVIOUS
  <2>2. \A p \in 1 .. l : IsTrailer(p) => p \in Q
    OBVIOUS
  <2> HIDE DEF P, Q, found, IsTrailer
  <2> QED BY <1>6, <1>9, <1>10, <2>1, <2>2 DEF AtLines
<1>12. found = Chosen(Int, P, Indices(n))
  <2>1. P \subseteq 1 .. n
    OBVIOUS
  <2> HIDE DEF P, found
  <2>2. Range(Chosen(Int, P, Indices(n))) = P
    BY <2>1, PositionsChosen
  <2> QED BY <1>6, <1>11, <2>2, PositionsChosen, AscendingUnique
<1>13. Numbers(lines, IsTag) = found
  <2> HIDE DEF found, P
  <2> QED BY <1>7, <1>12 DEF Numbers
<1> HIDE DEF found, P, Q
<1> QED BY <1>5, <1>13 DEF TrailersExact


-----------------------------------------------------------------------------
(***************************************************************************)
(* The patches of a body.                                                  *)
(***************************************************************************)
LEMMA StartsAre ==
    ASSUME NEW lines \in Seq(LineTypes)
    PROVE  /\ \A k \in 1 .. Len(lines) : IsDashes(lines[k]) => k \in PatchStarts(lines)
           /\ \A i \in 1 .. Len(lines) : IsDiff(lines[i]) =>
                \E k \in 1 .. i : k \in PatchStarts(lines)
<1>1. PICK n \in Nat : n = Len(lines) /\ DOMAIN lines = 1 .. n /\ \A k \in 1 .. n : lines[k] \in LineTypes
  BY LenProperties
<1> DEFINE I == {i \in 1 .. n : IsDashes(lines[i])}
           first == IF I # {} THEN Min(I) ELSE 0
           before == SubSeq(lines, 1, IF first = 0 THEN n ELSE first - 1)
           D == {i \in 1 .. Len(before) : IsDiff(before[i])}
<1>2. SelectInSeq(lines, IsDashes) = first
  BY <1>1 DEF SelectInSeq
<1>3. SelectInSeq(before, IsDiff) = IF D # {} THEN Min(D) ELSE 0
  <2> HIDE DEF before
  <2> QED BY DEF SelectInSeq
<1>4. PatchStarts(lines) = I \cup (IF first = 0 \/ SelectInSeq(before, IsDiff) # 0 THEN {1} ELSE {})
  <2> HIDE DEF first
  <2> QED BY <1>1, <1>2 DEF PatchStarts
<1>5. I # {} => first \in I
  <2>1. I \in SUBSET Nat
    OBVIOUS
  <2> HIDE DEF I
  <2> QED BY <2>1, MinOf
<1>6. ASSUME NEW i \in 1 .. n, IsDiff(lines[i]) PROVE \E k \in 1 .. i : k \in PatchStarts(lines)
  <2>1. CASE I = {}
    <3>1. first = 0
      <4> HIDE DEF I
      <4> QED BY <2>1
    <3>2. 1 \in PatchStarts(lines) /\ 1 \in 1 .. i
      <4> HIDE DEF I, first, before
      <4> QED BY <1>4, <3>1
    <3> QED BY <3>2
  <2>2. CASE I # {} /\ first <= i
    <3>1. first \in I /\ first \in 1 .. n
      <4>1. first \in I
        BY <1>5, <2>2
      <4>2. \A j \in I : j \in 1 .. n
        OBVIOUS
      <4> HIDE DEF I, first
      <4> QED BY <4>1, <4>2
    <3> HIDE DEF I, first, before
    <3>2. first \in PatchStarts(lines) /\ first \in 1 .. i
      BY <1>1, <1>4, <2>2, <3>1
    <3> QED BY <3>2
  <2>3. CASE I # {} /\ ~(first <= i)
    <3>1. first \in 1 .. n
      <4>1. first \in I
        BY <1>5, <2>3
      <4>2. \A j \in I : j \in 1 .. n
        OBVIOUS
      <4> HIDE DEF I, first
      <4> QED BY <4>1, <4>2
    <3>2. PICK m \in Nat : m = first - 1 /\ i <= m /\ m <= n /\ first # 0
      <4> HIDE DEF I, first
      <4> QED BY <1>1, <2>3, <3>1
    <3>3. before = SubSeq(lines, 1, m)
      <4> HIDE DEF first
      <4> QED BY <3>2
    <3>4. /\ Len(SubSeq(lines, 1, m)) = m
          /\ \A k \in 1 .. m : SubSeq(lines, 1, m)[k] = lines[k]
      <4> HIDE DEF I, first, before, D
      <4>1. 1 \in Int /\ m \in Int /\ m <= n
        BY <3>2
      <4>2. \A k \in 1 .. m : k \in 1 .. n
        BY <4>1
      <4>3. \A k \in 1 .. m : lines[k] \in LineTypes
        BY <1>1, <4>2
      <4> QED BY <4>1, <4>3, <3>2, SMTT(30)
    <3>5. i \in D
      <4>1. i \in 1 .. m
        BY <3>2
      <4> HIDE DEF before
      <4> QED BY <1>6, <3>3, <3>4, <4>1
    <3>6. Min(D) # 0
      <4>1. D \in SUBSET Nat /\ \A j \in D : j # 0
        <5> HIDE DEF before
        <5> QED OBVIOUS
      <4> HIDE DEF D
      <4> QED BY <3>5, <4>1, MinOf
    <3> HIDE DEF I, first, before, D
    <3>7. 1 \in PatchStarts(lines) /\ 1 \in 1 .. i
      BY <1>3, <1>4, <3>5, <3>6
    <3> QED BY <3>7
  <2> QED BY <2>1, <2>2, <2>3
<1>7. \A k \in 1 .. n : IsDashes(lines[k]) => k \in PatchStarts(lines)
  <2>1. \A k \in 1 .. n : IsDashes(lines[k]) => k \in I
    OBVIOUS
  <2> HIDE DEF I, first, before
  <2> QED BY <1>4, <2>1
<1> QED BY <1>1, <1>6, <1>7

\* Intervals of lines.
Sections == [from : Int, to : Int]

(***************************************************************************)
(* extract_patches: in a body of any length every diff line is in exactly  *)
(* one patch, and no patch runs over the separator in front of the next.   *)
(***************************************************************************)
THEOREM PatchesDoPartition ==
    ASSUME NEW lines \in Seq(LineTypes)
    PROVE  PatchesPartition(lines)
<1>1. PICK n \in Nat : n = Len(lines) /\ DOMAIN lines = 1 .. n
  BY LenProperties
<1> DEFINE S == PatchStarts(lines)
           starts == Filter(Positions(lines), LAMBDA k : k \in S)
<1>2. starts = Chosen(Int, S, Indices(n))
  <2>1. Positions(lines) = Indices(n)
    BY <1>1, PositionsAre
  <2>2. DOMAIN Indices(n) = 1 .. n /\ \A k \in 1 .. n : Indices(n)[k] = k /\ k \in Int
    BY DEF Indices
  <2> HIDE DEF S
  <2>3. \A k \in DOMAIN Indices(n) :
           OneOrNone(Int, S)[Indices(n)[k]] =
             IF Indices(n)[k] \in S THEN <<Indices(n)[k]>> ELSE <<>>
    BY <2>2 DEF OneOrNone
  <2> QED BY <2>1, <2>3 DEF Filter, Chosen, FlatMap, Mapped
<1> HIDE DEF S
<1>3. PICK st \in Seq(Int) : st = starts /\ Ascending(st) /\ Range(st) = (1 .. n) \cap S
  <2> HIDE DEF starts
  <2> QED BY <1>2, PositionsChosen
<1> HIDE DEF starts
<1>4. PICK c \in Nat : c = Len(st) /\ DOMAIN st = 1 .. c
  BY LenProperties
<1>5. /\ \A k \in 1 .. c : st[k] \in 1 .. n /\ st[k] \in S
      /\ \A i \in (1 .. n) \cap S : \E k \in 1 .. c : st[k] = i
      /\ \A j, k \in 1 .. c : j < k => st[j] < st[k]
  <2>1. \A k \in 1 .. c : st[k] \in Range(st)
    BY <1>4 DEF Range
  <2> QED BY <1>3, <1>4, <2>1 DEF Range, Ascending
<1> DEFINE End(k) == IF k < c THEN st[k + 1] - 1 ELSE n
           sec == [k \in 1 .. c |-> [from |-> st[k], to |-> End(k)]]
           HasDiff(section) == \E i \in section.from .. section.to : IsDiff(lines[i])
           P == {s \in Sections : HasDiff(s)}
           Within(p, i) == p.from <= i /\ i <= p.to
           patches == Chosen(Sections, P, sec)
<1>6. ASSUME NEW k \in 1 .. c
      PROVE  /\ sec[k] \in Sections /\ sec[k].from = st[k] /\ sec[k].to = End(k)
             /\ End(k) \in Int /\ End(k) <= n
             /\ \A j \in 1 .. c : k < j => End(k) < st[j]
  <2>1. st[k] \in Int /\ sec[k] = [from |-> st[k], to |-> End(k)]
    BY <1>5
  <2>2. CASE k < c
    <3>1. k + 1 \in 1 .. c
      BY <1>4, <2>2
    <3>2. st[k + 1] \in 1 .. n /\ End(k) = st[k + 1] - 1
      BY <1>5, <2>2, <3>1
    <3>3. ASSUME NEW j \in 1 .. c, k < j PROVE End(k) < st[j]
      <4>1. j = k + 1 \/ k + 1 < j
        BY <3>3
      <4>2. st[k + 1] <= st[j] /\ st[j] \in 1 .. n
        BY <1>5, <3>1, <4>1
      <4> HIDE DEF End
      <4> QED BY <1>1, <3>2, <4>2
    <3>4. End(k) \in Int /\ End(k) <= n
      <4> HIDE DEF End
      <4> QED BY <1>1, <3>2
    <3> HIDE DEF End, sec
    <3> QED BY <2>1, <3>3, <3>4 DEF Sections
  <2>3. CASE ~(k < c)
    <3>1. End(k) = n /\ \A j \in 1 .. c : ~(k < j)
      BY <1>4, <2>3
    <3> HIDE DEF End, sec
    <3> QED BY <1>1, <2>1, <3>1 DEF Sections
  <2> QED BY <2>2, <2>3
<1>7. sec \in Seq(Sections) /\ DOMAIN sec = 1 .. c
  <2>1. sec \in [1 .. c -> Sections] /\ DOMAIN sec = 1 .. c
    <3>1. DOMAIN sec = 1 .. c /\ sec = [k \in 1 .. c |-> sec[k]]
      OBVIOUS
    <3> HIDE DEF sec, End
    <3> QED BY <1>6, <3>1
  <2>2. \A k \in Nat : \A g \in [1 .. k -> Sections] : g \in Seq(Sections)
    OBVIOUS
  <2> HIDE DEF sec
  <2> QED BY <1>4, <2>1, <2>2
<1>8. ExtractPatches(lines) = patches
  <2>1. \A k \in 1 .. c : sec[k] \in Sections
    BY <1>6
  <2>2. [k \in DOMAIN starts |->
           [from |-> starts[k], to |-> IF k < Len(starts) THEN starts[k + 1] - 1 ELSE Len(lines)]] = sec
    BY <1>1, <1>3, <1>4
  <2>3. ExtractPatches(lines) = Filter(sec, HasDiff)
    <3>1. ExtractPatches(lines) =
            Filter([k \in DOMAIN starts |->
                      [from |-> starts[k], to |-> IF k < Len(starts) THEN starts[k + 1] - 1 ELSE Len(lines)]],
                   HasDiff)
      BY DEF ExtractPatches, starts, S
    <3> HIDE DEF sec, HasDiff
    <3> QED BY <2>2, <3>1
  <2> HIDE DEF sec, HasDiff
  <2>4. \A k \in DOMAIN sec :
           OneOrNone(Sections, P)[sec[k]] = IF HasDiff(sec[k]) THEN <<sec[k]>> ELSE <<>>
    BY <1>7, <2>1 DEF OneOrNone
  <2>5. Filter(sec, HasDiff) = patches
    BY <2>4 DEF Filter, Chosen, FlatMap, Mapped
  <2> QED BY <2>3, <2>5
<1>9. NoRepeats(patches) /\ Range(patches) = Range(sec) \cap P
  <2>1. NoRepeats(sec)
    <3> SUFFICES ASSUME NEW j \in 1 .. c, NEW k \in 1 .. c, sec[j] = sec[k] PROVE j = k
      BY <1>7 DEF NoRepeats
    <3>1. st[j] = st[k]
      BY <1>6
    <3>2. j < k \/ k < j \/ j = k
      OBVIOUS
    <3> QED BY <1>5, <3>1, <3>2
  <2> HIDE DEF sec, P
  <2> QED BY <1>7, <2>1, DistinctChosen, RangeChosen
<1>10. ASSUME NEW k \in DOMAIN patches
       PROVE  \E j \in 1 .. c : patches[k] = sec[j]
  <2>1. patches[k] \in Range(patches)
    <3> HIDE DEF patches
    <3> QED BY DEF Range
  <2>2. patches[k] \in Range(sec)
    <3> HIDE DEF patches, sec
    <3> QED BY <1>9, <2>1
  <2> HIDE DEF patches, sec
  <2> QED BY <1>7, <2>2 DEF Range
<1>11. ASSUME NEW j \in 1 .. c, NEW k \in 1 .. c, NEW i \in 1 .. n,
              Within(sec[j], i), Within(sec[k], i)
       PROVE  j = k
  <2>1. /\ st[j] <= i /\ i <= End(j) /\ st[k] <= i /\ i <= End(k)
        /\ End(j) \in Int /\ End(k) \in Int /\ st[j] \in Int /\ st[k] \in Int
    <3>1. sec[j].from = st[j] /\ sec[j].to = End(j) /\ sec[k].from = st[k] /\ sec[k].to = End(k)
      BY <1>6
    <3>2. End(j) \in Int /\ End(k) \in Int /\ st[j] \in Int /\ st[k] \in Int
      <4> HIDE DEF End, sec
      <4> QED BY <1>5, <1>6
    <3> HIDE DEF End, sec
    <3> QED BY <1>11, <3>1, <3>2
  <2>2. ~(j < k)
    <3> HIDE DEF End, sec
    <3> QED BY <1>6, <2>1
  <2>3. ~(k < j)
    <3> HIDE DEF End, sec
    <3> QED BY <1>6, <2>1
  <2> QED BY <2>2, <2>3
<1>12. ASSUME NEW i \in 1 .. n, IsDiff(lines[i])
       PROVE  Cardinality({k \in DOMAIN patches : Within(patches[k], i)}) = 1
  <2>1. PICK i0 \in 1 .. i : i0 \in S
    BY <1>1, <1>12, StartsAre DEF S
  <2>2. PICK j0 \in 1 .. c : st[j0] = i0
    BY <1>1, <1>5, <2>1
  <2> DEFINE J == {j \in 1 .. c : st[j] <= i}
  <2>3. J \in SUBSET (1 .. c) /\ j0 \in J
    BY <2>1, <2>2
  <2>4. PICK j \in J : \A k \in J : j >= k
    <3> HIDE DEF J
    <3> QED BY <2>3, MaxOf
  <2>5. j \in 1 .. c /\ st[j] <= i
    BY <2>4
  <2>6. i <= End(j)
    <3>1. CASE j < c
      <4>1. j + 1 \in 1 .. c /\ ~(j >= j + 1)
        BY <1>4, <2>5, <3>1
      <4>2. j + 1 \notin J
        <5> HIDE DEF J
        <5> QED BY <2>4, <4>1
      <4>3. ~(st[j + 1] <= i) /\ st[j + 1] \in 1 .. n
        BY <1>5, <4>1, <4>2
      <4> QED BY <1>1, <3>1, <4>3
    <3>2. CASE ~(j < c)
      BY <1>1, <3>2
    <3> QED BY <3>1, <3>2
  <2> HIDE DEF J
  <2>7. sec[j] \in Sections /\ sec[j].from = st[j] /\ sec[j].to = End(j) /\ End(j) \in Int /\ st[j] \in Int
    <3> HIDE DEF End, sec
    <3> QED BY <1>5, <1>6, <2>5
  <2>8. Within(sec[j], i)
    <3> HIDE DEF End, sec
    <3> QED BY <2>5, <2>6, <2>7
  <2>9. sec[j] \in P
    <3> HIDE DEF End, sec
    <3>1. i \in sec[j].from .. sec[j].to
      BY <2>5, <2>6, <2>7
    <3> QED BY <1>12, <2>7, <3>1
  <2>10. sec[j] \in Range(patches)
    <3>1. sec[j] \in Range(sec)
      <4> HIDE DEF sec
      <4> QED BY <1>7, <2>5 DEF Range
    <3> HIDE DEF sec, P, patches
    <3> QED BY <1>9, <2>9, <3>1
  <2> HIDE DEF sec, P, End
  <2>11. PICK k \in DOMAIN patches : patches[k] = sec[j]
    <3> HIDE DEF patches
    <3> QED BY <2>10 DEF Range
  <2>12. ASSUME NEW l \in DOMAIN patches, Within(patches[l], i) PROVE l = k
    <3>1. PICK r \in 1 .. c : patches[l] = sec[r]
      BY <1>10
    <3> HIDE DEF patches
    <3>2. r = j
      BY <1>11, <2>5, <2>8, <2>12, <3>1
    <3> QED BY <1>9, <2>11, <3>1, <3>2 DEF NoRepeats
  <2> HIDE DEF patches
  <2>13. {l \in DOMAIN patches : Within(patches[l], i)} = {k}
    BY <2>8, <2>11, <2>12
  <2>14. Cardinality({k}) = 1
    BY FS_Singleton
  <2> QED BY <2>13, <2>14, Zenon
<1>13. ASSUME NEW k \in DOMAIN patches, NEW i \in 1 .. n, Within(patches[k], i), IsDashes(lines[i])
       PROVE  i = patches[k].from
  <2>1. PICK j \in 1 .. c : patches[k] = sec[j]
    BY <1>10
  <2>2. i \in S
    BY <1>1, <1>13, StartsAre DEF S
  <2>3. PICK r \in 1 .. c : st[r] = i
    BY <1>1, <1>5, <2>2
  <2>4. sec[j].from = st[j] /\ sec[j].to = End(j) /\ End(j) \in Int /\ st[j] \in Int
    <3> HIDE DEF End, sec
    <3> QED BY <1>5, <1>6
  <2> HIDE DEF patches, sec, End
  <2>5. st[j] <= i /\ i <= End(j)
    BY <1>13, <2>1, <2>4
  <2>6. ~(j < r)
    BY <1>6, <2>3, <2>4, <2>5
  <2>7. ~(r < j)
    BY <1>5, <2>3, <2>4, <2>5
  <2>8. r = j
    BY <2>6, <2>7
  <2> QED BY <2>1, <2>3, <2>4, <2>8
<1> HIDE DEF patches, sec, P, End
<1> QED BY <1>1, <1>8, <1>12, <1>13 DEF PatchesPartition


-----------------------------------------------------------------------------
(***************************************************************************)
(* The subject.                                                            *)
(***************************************************************************)
\* The tags of a subject, those the code knows among them.
TagNames == STRING \cup {"re", "fwd", "patch", "v3", "rfc"}

TagStates ==
    [tags : Seq(TagNames), patch : BOOLEAN, rfc : BOOLEAN, response : BOOLEAN,
     forward : BOOLEAN, version : Nat, sequence : TagNames \cup {None}]

\* What is found in the reply to an e-mail in which state is found.
Replied(state) == [state EXCEPT !.tags = <<"re">> \o @, !.response = TRUE]

LEMMA ReplyTag ==
    /\ <<"re">> \in Seq(TagNames) /\ <<"re">> \o <<>> = <<"re">> /\ Append(<<>>, "re") = <<"re">>
    /\ Len(<<"re">>) = 1
<1>1. \A S : \A x \in S : <<x>> \in Seq(S) /\ <<x>> \o <<>> = <<x>> /\ Append(<<>>, x) = <<x>>
                          /\ Len(<<x>>) = 1
  OBVIOUS
<1>2. "re" \in TagNames
  BY DEF TagNames
<1> QED BY <1>1, <1>2

LEMMA VersionsAre == VersionOf \in [{"v2", "v3", "v99999"} -> Nat]
<1>1. DOMAIN VersionOf = {"v2", "v3", "v99999"}
  BY DEF VersionOf
<1>2. \A x \in {"v2", "v3", "v99999"} : VersionOf[x] \in Nat
  BY DEF VersionOf, None
<1>3. VersionOf = [x \in {"v2", "v3", "v99999"} |-> VersionOf[x]]
  BY <1>1 DEF VersionOf
<1> QED BY <1>2, <1>3

LEMMA NoTagsType == NoTags \in TagStates
<1>1. <<>> \in Seq(TagNames)
  OBVIOUS
<1> QED BY <1>1 DEF NoTags, TagStates, None

LEMMA PushTagType ==
    ASSUME NEW state \in TagStates, NEW tag \in TagNames
    PROVE  /\ PushTag(state, tag) \in TagStates
           /\ PushTag(state, tag).tags = Append(state.tags, tag)
<1>1. state.tags \in Seq(TagNames) /\ Append(state.tags, tag) \in Seq(TagNames)
  BY AppendProperties DEF TagStates
<1>2. PICK v : v = IF tag \in DOMAIN VersionOf THEN VersionOf[tag] ELSE state.version
  OBVIOUS
<1>3. v \in Nat
  BY <1>2, VersionsAre DEF TagStates
<1>4. PICK t \in Seq(TagNames) : t = Append(state.tags, tag)
  BY <1>1
<1>5. PushTag(state, tag) =
        [state EXCEPT !.tags = t,
                      !.patch = @ \/ tag = "patch",
                      !.rfc = @ \/ tag = "rfc",
                      !.response = @ \/ tag = "re",
                      !.forward = @ \/ tag = "fwd",
                      !.version = v,
                      !.sequence = IF tag = "1/2" THEN tag ELSE @]
  BY <1>2, <1>4 DEF PushTag, TagStates
<1>6. PushTag(state, tag) \in TagStates /\ PushTag(state, tag).tags = t
  BY <1>3, <1>5 DEF TagStates
<1> QED BY <1>4, <1>6

LEMMA RepliedType ==
    ASSUME NEW state \in TagStates
    PROVE  /\ Replied(state) \in TagStates
           /\ Replied(state).tags = <<"re">> \o state.tags
<1>1. PICK q \in Seq(TagNames), r \in Seq(TagNames) : q = state.tags /\ r = <<"re">>
  BY ReplyTag DEF TagStates
<1>2. r \o q \in Seq(TagNames)
  BY ConcatProperties
<1>3. state.tags \in Seq(TagNames) /\ <<"re">> \o state.tags \in Seq(TagNames)
  BY <1>1, <1>2
<1> QED BY <1>3 DEF Replied, TagStates

LEMMA PushTagReplied ==
    ASSUME NEW state \in TagStates, NEW tag \in TagNames
    PROVE  PushTag(Replied(state), tag) = Replied(PushTag(state, tag))
<1>1. PICK q \in Seq(TagNames) : q = state.tags
  BY DEF TagStates
<1>2. <<"re">> \in Seq(TagNames)
  BY ReplyTag
<1>3. <<"re">> \o Append(q, tag) = Append(<<"re">> \o q, tag)
  BY <1>2, AppendInside
<1>4. PICK a, b, c : a = <<"re">> \o q /\ b = Append(q, tag) /\ c = <<"re">> \o b /\ c = Append(a, tag)
  BY <1>3
<1>5. Replied(state) = [state EXCEPT !.tags = a, !.response = TRUE]
  BY <1>1, <1>4 DEF Replied, TagStates
<1>6. PICK v : v = IF tag \in DOMAIN VersionOf THEN VersionOf[tag] ELSE state.version
  OBVIOUS
<1>7. PushTag(state, tag) =
        [state EXCEPT !.tags = b,
                      !.patch = @ \/ tag = "patch",
                      !.rfc = @ \/ tag = "rfc",
                      !.response = @ \/ tag = "re",
                      !.forward = @ \/ tag = "fwd",
                      !.version = v,
                      !.sequence = IF tag = "1/2" THEN tag ELSE @]
  BY <1>1, <1>4, <1>6 DEF PushTag, TagStates
<1>8. PushTag(Replied(state), tag) =
        [state EXCEPT !.tags = c,
                      !.patch = @ \/ tag = "patch",
                      !.rfc = @ \/ tag = "rfc",
                      !.response = TRUE,
                      !.forward = @ \/ tag = "fwd",
                      !.version = v,
                      !.sequence = IF tag = "1/2" THEN tag ELSE @]
  BY <1>4, <1>5, <1>6, ZenonT(60) DEF PushTag, TagStates
<1>9. Replied(PushTag(state, tag)) =
        [state EXCEPT !.tags = c,
                      !.patch = @ \/ tag = "patch",
                      !.rfc = @ \/ tag = "rfc",
                      !.response = TRUE,
                      !.forward = @ \/ tag = "fwd",
                      !.version = v,
                      !.sequence = IF tag = "1/2" THEN tag ELSE @]
  BY <1>4, <1>7, ZenonT(60) DEF Replied, TagStates
<1> QED BY <1>8, <1>9

\* The state after the tags of q.
Pushed(start, q) == FoldLeft(PushTag, start, q)

\* The state after each tag.
Pushing == [p \in TagStates \X TagNames |-> PushTag(p[1], p[2])]

LEMMA PushIsFold ==
    ASSUME NEW start \in TagStates, NEW q \in Seq(TagNames)
    PROVE  /\ Pushing \in StepsOf(TagStates, TagNames) /\ start \in TagStates
           /\ \A acc \in TagStates, x \in TagNames : Pushing[<<acc, x>>] = PushTag(acc, x)
           /\ Pushed(start, q) = Fold(Pushing, start, q)
<1> DEFINE F == Pushing
           b == start
           E(g) == g = [s \in SUBSET (1 .. Len(q)) |->
                          IF s = {} THEN b ELSE PushTag(g[s \ {Max(s)}], q[Max(s)])]
           h == CHOOSE g : E(g)
<1>1. /\ F \in StepsOf(TagStates, TagNames) /\ b \in TagStates
      /\ \A acc \in TagStates, x \in TagNames : F[<<acc, x>>] = PushTag(acc, x)
  <2>1. /\ \A acc \in TagStates, x \in TagNames : PushTag(acc, x) \in TagStates
        /\ b \in TagStates
    BY PushTagType
  <2> QED BY <2>1 DEF Pushing, StepsOf
<1>2. /\ DOMAIN q = 1 .. Len(q) /\ Len(q) \in Nat
      /\ \A s \in SUBSET (1 .. Len(q)) : s # {} => q[Max(s)] \in TagNames
  <2>1. DOMAIN q = 1 .. Len(q) /\ Len(q) \in Nat /\ \A k \in 1 .. Len(q) : q[k] \in TagNames
    BY LenProperties
  <2>2. \A s \in SUBSET (1 .. Len(q)) : s # {} => Max(s) \in s
    BY <2>1, MaxOf
  <2> QED BY <2>1, <2>2
<1>3. Pushed(start, q) = h[1 .. Len(q)]
  BY <1>2 DEF Pushed, FoldLeft, MapThenFoldSet
<1> HIDE DEF F, b
<1>4. PICK r \in Runs(TagStates, F, b, q) : TRUE
  BY <1>1, FoldExists
<1>5. E(r)
  <2>1. \A s \in SUBSET (1 .. Len(q)) :
           r[s] = IF s = {} THEN b ELSE PushTag(r[s \ {Max(s)}], q[Max(s)])
    BY <1>1, <1>2 DEF Runs
  <2> QED BY <2>1 DEF Runs
<1>6. E(h)
  <2> HIDE DEF E
  <2> QED BY <1>5
<1> HIDE DEF h
<1>7. Follows(h, TagStates, F, b, q)
  <2>1. h[{}] = b
    BY <1>6
  <2>2. ASSUME NEW s \in SUBSET (1 .. Len(q)), s # {}, h[s \ {Max(s)}] \in TagStates
        PROVE  h[s] = F[<<h[s \ {Max(s)}], q[Max(s)]>>]
    <3>1. h[s] = PushTag(h[s \ {Max(s)}], q[Max(s)])
      BY <1>6, <2>2
    <3> QED BY <1>1, <1>2, <2>2, <3>1
  <2> QED BY <2>1, <2>2 DEF Follows
<1>8. h[1 .. Len(q)] = Fold(F, b, q)
  BY <1>1, <1>7, FoldMeets
<1> QED BY <1>1, <1>3, <1>8 DEF F, b

LEMMA PushSteps ==
    ASSUME NEW start \in TagStates
    PROVE  /\ Pushed(start, <<>>) = start
           /\ \A q \in Seq(TagNames) : Pushed(start, q) \in TagStates
           /\ \A q \in Seq(TagNames), x \in TagNames : Pushed(start, Append(q, x)) = PushTag(Pushed(start, q), x)
<1>1. <<>> \in Seq(TagNames)
  OBVIOUS
<1>2. PICK F \in StepsOf(TagStates, TagNames), b \in TagStates :
          /\ F = Pushing /\ b = start
          /\ \A acc \in TagStates, x \in TagNames : F[<<acc, x>>] = PushTag(acc, x)
  BY <1>1, PushIsFold
<1>3. \A q \in Seq(TagNames) : Pushed(start, q) = Fold(F, b, q)
  BY <1>2, PushIsFold
<1>4. /\ Fold(F, b, <<>>) = b
      /\ \A q \in Seq(TagNames) : Fold(F, b, q) \in TagStates
      /\ \A q \in Seq(TagNames), x \in TagNames : Fold(F, b, Append(q, x)) = F[<<Fold(F, b, q), x>>]
  BY <1>2, FoldSteps
<1>5. Pushed(start, <<>>) = start
  BY <1>1, <1>2, <1>3, <1>4
<1>6. \A q \in Seq(TagNames) : Pushed(start, q) \in TagStates
  BY <1>3, <1>4
<1>7. ASSUME NEW q \in Seq(TagNames), NEW x \in TagNames PROVE Pushed(start, Append(q, x)) = PushTag(Pushed(start, q), x)
  <2>1. Append(q, x) \in Seq(TagNames)
    BY AppendProperties
  <2>2. Pushed(start, Append(q, x)) = F[<<Fold(F, b, q), x>>]
    BY <1>3, <1>4, <2>1
  <2> QED BY <1>2, <1>3, <1>4, <2>2
<1> QED BY <1>5, <1>6, <1>7

\* All the tags are found, and in a reply nothing else is added to them.
LEMMA TagsPushed ==
    ASSUME NEW start \in TagStates, NEW q \in Seq(TagNames)
    PROVE  /\ Pushed(start, q) \in TagStates
           /\ Pushed(start, q).tags = start.tags \o q
           /\ Pushed(Replied(start), q) = Replied(Pushed(start, q))
<1> DEFINE T == {r \in Seq(TagNames) :
                   /\ Pushed(start, r).tags = start.tags \o r
                   /\ Pushed(Replied(start), r) = Replied(Pushed(start, r))}
<1>1. start.tags \in Seq(TagNames) /\ Replied(start) \in TagStates
  BY RepliedType DEF TagStates
<1>2. <<>> \in T
  <2>1. start.tags \o <<>> = start.tags /\ <<>> \in Seq(TagNames)
    BY <1>1
  <2> QED BY <1>1, <2>1, PushSteps
<1>3. ASSUME NEW r \in Seq(TagNames), NEW x \in TagNames, r \in T PROVE Append(r, x) \in T
  <2>1. PICK u \in TagStates : u = Pushed(start, r)
    BY PushSteps
  <2>2. u.tags = start.tags \o r /\ Pushed(Replied(start), r) = Replied(u)
    BY <1>3, <2>1
  <2>3. Pushed(start, Append(r, x)) = PushTag(u, x)
    BY <2>1, PushSteps
  <2>4. Pushed(Replied(start), Append(r, x)) = PushTag(Replied(u), x)
    BY <1>1, <2>2, PushSteps
  <2>5. PushTag(Replied(u), x) = Replied(PushTag(u, x)) /\ PushTag(u, x).tags = Append(u.tags, x)
    BY PushTagReplied, PushTagType
  <2>6. start.tags \o Append(r, x) = Append(start.tags \o r, x)
    <3>1. PICK a \in Seq(TagNames) : a = start.tags
      BY <1>1
    <3>2. a \o Append(r, x) = Append(a \o r, x)
      BY AppendInside
    <3> QED BY <3>1, <3>2
  <2>7. Append(r, x) \in Seq(TagNames)
    BY AppendProperties
  <2>8. Pushed(start, Append(r, x)).tags = start.tags \o Append(r, x)
    BY <2>2, <2>3, <2>5, <2>6, Zenon
  <2>9. Pushed(Replied(start), Append(r, x)) = Replied(Pushed(start, Append(r, x)))
    BY <2>3, <2>4, <2>5, Zenon
  <2> QED BY <2>7, <2>8, <2>9
<1>4. q \in T
  <2> HIDE DEF T
  <2> QED BY <1>2, <1>3, SeqInduction
<1> QED BY <1>4, PushSteps

\* The tags of a subject with the reply's word in front.
LEMMA ReplyPushed ==
    ASSUME NEW q \in Seq(TagNames)
    PROVE  Pushed(NoTags, <<"re">> \o q) = Replied(Pushed(NoTags, q))
<1> DEFINE T == {r \in Seq(TagNames) :
                   Pushed(NoTags, <<"re">> \o r) = Replied(Pushed(NoTags, r))}
<1>1. PICK re \in Seq(TagNames) : re = <<"re">> /\ re \o <<>> = re /\ re = Append(<<>>, "re")
  BY ReplyTag
<1>2. NoTags \in TagStates /\ <<>> \in Seq(TagNames) /\ "re" \in TagNames
  <2>1. <<>> \in Seq(TagNames)
    OBVIOUS
  <2> QED BY <2>1, NoTagsType DEF TagNames
<1>3. <<>> \in T
  <2>1. Pushed(NoTags, <<>>) = NoTags
    BY <1>2, PushSteps
  <2>2. Pushed(NoTags, Append(<<>>, "re")) = PushTag(NoTags, "re")
    <3>1. PICK e \in Seq(TagNames), x \in TagNames : e = <<>> /\ x = "re"
      BY <1>2
    <3>2. Pushed(NoTags, Append(e, x)) = PushTag(Pushed(NoTags, e), x)
      BY <1>2, PushSteps
    <3> QED BY <2>1, <3>1, <3>2
  <2>3. PushTag(NoTags, "re") = Replied(NoTags)
    <3>1. NoTags.tags = <<>>
      BY DEF NoTags
    <3>2. DOMAIN VersionOf = {"v2", "v3", "v99999"}
      BY VersionsAre
    <3>3. "re" \notin DOMAIN VersionOf
      BY <3>2
    <3>4. PICK st \in TagStates, x \in TagNames : st = NoTags /\ x = "re"
      BY <1>2
    <3>5. PICK a \in TagStates, c \in TagStates : a = PushTag(st, x) /\ c = Replied(st)
      BY PushTagType, RepliedType
    <3>6. /\ st.patch = FALSE /\ st.rfc = FALSE /\ st.response = FALSE
          /\ st.forward = FALSE /\ st.version = None /\ st.sequence = None
      BY <3>4 DEF NoTags
    <3>7. a.tags = re /\ c.tags = re
      <4>1. a.tags = Append(st.tags, x) /\ c.tags = <<"re">> \o st.tags
        BY <3>5, PushTagType, RepliedType
      <4> QED BY <1>1, <3>1, <3>4, <4>1, Zenon
    <3>8. /\ a.patch = st.patch /\ a.rfc = st.rfc /\ a.response = TRUE /\ a.forward = st.forward
          /\ a.version = st.version /\ a.sequence = st.sequence
      BY <3>3, <3>4, <3>5, <3>6, ZenonT(60) DEF PushTag, TagStates
    <3>9. /\ c.patch = st.patch /\ c.rfc = st.rfc /\ c.response = TRUE /\ c.forward = st.forward
          /\ c.version = st.version /\ c.sequence = st.sequence
      BY <3>5 DEF Replied, TagStates
    <3>10. a = c
      BY <3>7, <3>8, <3>9, SMTT(60) DEF TagStates
    <3> QED BY <3>4, <3>5, <3>10
  <2>4. Pushed(NoTags, <<"re">> \o <<>>) = Replied(Pushed(NoTags, <<>>))
    BY <1>1, <2>1, <2>2, <2>3, Zenon
  <2> QED BY <1>2, <2>4
<1>4. ASSUME NEW r \in Seq(TagNames), NEW x \in TagNames, r \in T PROVE Append(r, x) \in T
  <2>1. PICK u \in TagStates : u = Pushed(NoTags, r)
    BY <1>2, PushSteps
  <2>2. PICK p \in Seq(TagNames) : p = re \o r
    BY ConcatProperties
  <2>3. Pushed(NoTags, p) = Replied(u)
    BY <1>1, <1>4, <2>1, <2>2
  <2>4. re \o Append(r, x) = Append(p, x)
    BY <2>2, AppendInside, SMTT(60)
  <2>5. Pushed(NoTags, Append(p, x)) = PushTag(Replied(u), x)
    BY <1>2, <2>3, PushSteps
  <2>6. Pushed(NoTags, Append(r, x)) = PushTag(u, x)
    BY <1>2, <2>1, PushSteps
  <2>7. Append(r, x) \in Seq(TagNames)
    BY AppendProperties
  <2>8. Pushed(NoTags, <<"re">> \o Append(r, x)) = Replied(Pushed(NoTags, Append(r, x)))
    BY <1>1, <2>4, <2>5, <2>6, PushTagReplied, Zenon
  <2> QED BY <2>7, <2>8
<1>5. q \in T
  <2> HIDE DEF T
  <2> QED BY <1>3, <1>4, SeqInduction
<1> QED BY <1>5

\* A tag as those that are glued together in it.
Split(tags) == FlattenSeq([k \in DOMAIN tags |-> SplitGlued(tags[k])])

LEMMA SplitType ==
    ASSUME NEW tags \in Seq(STRING)
    PROVE  Split(tags) \in Seq(TagNames)
<1>1. PICK n \in Nat : n = Len(tags) /\ DOMAIN tags = 1 .. n /\ \A k \in 1 .. n : tags[k] \in STRING
  BY LenProperties
<1>2. \A S : \A x, y \in S : <<x>> \in Seq(S) /\ <<x, y>> \in Seq(S)
  OBVIOUS
<1>3. \A k \in 1 .. n : SplitGlued(tags[k]) \in Seq(TagNames)
  <2> SUFFICES ASSUME NEW k \in 1 .. n PROVE SplitGlued(tags[k]) \in Seq(TagNames)
    OBVIOUS
  <2>1. tags[k] \in TagNames /\ "patch" \in TagNames /\ "v3" \in TagNames /\ "rfc" \in TagNames
    BY <1>1 DEF TagNames
  <2>2. /\ <<"patch", "v3">> \in Seq(TagNames) /\ <<"patch", "rfc">> \in Seq(TagNames)
        /\ <<tags[k]>> \in Seq(TagNames)
    BY <1>2, <2>1
  <2> QED BY <2>2 DEF SplitGlued
<1>4. \A S : \A m \in Nat : \A f \in [1 .. m -> S] : f \in Seq(S)
  OBVIOUS
<1>5. [k \in 1 .. n |-> SplitGlued(tags[k])] \in [1 .. n -> Seq(TagNames)]
  BY <1>3
<1>6. [k \in DOMAIN tags |-> SplitGlued(tags[k])] \in Seq(Seq(TagNames))
  BY <1>1, <1>4, <1>5
<1> QED BY <1>6, FlattenType DEF Split

LEMMA PushAllIs ==
    ASSUME NEW state \in TagStates, NEW tags \in Seq(STRING)
    PROVE  /\ PushAll(state, tags) \in TagStates
           /\ PushAll(state, tags).tags = state.tags \o Split(tags)
           /\ PushAll(Replied(state), tags) = Replied(PushAll(state, tags))
<1>1. \A st : PushAll(st, tags) = Pushed(st, Split(tags))
  BY DEF PushAll, Split, Pushed
<1>2. PICK q \in Seq(TagNames) : q = Split(tags)
  BY SplitType
<1>3. /\ Pushed(state, q) \in TagStates
      /\ Pushed(state, q).tags = state.tags \o q
      /\ Pushed(Replied(state), q) = Replied(Pushed(state, q))
  BY TagsPushed
<1> QED BY <1>1, <1>2, <1>3, Zenon

\* What is before the first element whose index is in I.
FirstIn(I) == IF I # {} THEN Min(I) ELSE 0
UpToFirst(s, I) == IF FirstIn(I) = 0 THEN s ELSE SubSeq(s, 1, FirstIn(I) - 1)

LEMMA BeforeFirst ==
    ASSUME NEW S, NEW s \in Seq(S), NEW I \in SUBSET (1 .. Len(s))
    PROVE  \E m \in 0 .. Len(s) :
              /\ UpToFirst(s, I) \in Seq(S) /\ Len(UpToFirst(s, I)) = m
              /\ \A i \in 1 .. m : UpToFirst(s, I)[i] = s[i] /\ i \notin I
              /\ m < Len(s) => m + 1 \in I
<1>1. PICK n \in Nat : n = Len(s)
  BY LenProperties
<1> DEFINE b == UpToFirst(s, I)
<1>2. CASE I = {}
  <2>1. b = s /\ n \in 0 .. n
    BY <1>1, <1>2 DEF UpToFirst, FirstIn
  <2> QED BY <1>1, <1>2, <2>1
<1>3. CASE I # {}
  <2>1. I \in SUBSET Nat
    BY <1>1
  <2>2. PICK k \in I : k = FirstIn(I) /\ \A i \in I : k <= i
    BY <1>3, <2>1, MinOf DEF FirstIn
  <2>3. PICK m \in 0 .. n : m = k - 1 /\ m <= n /\ m + 1 = k /\ k # 0
    BY <1>1, <2>2
  <2>4. b = SubSeq(s, 1, m)
    BY <2>2, <2>3 DEF UpToFirst
  <2>5. b \in Seq(S) /\ Len(b) = m /\ \A i \in 1 .. m : b[i] = s[i]
    <3> HIDE DEF b
    <3>1. m \in 0 .. Len(s)
      BY <1>1
    <3>2. /\ SubSeq(s, 1, m) \in Seq(S) /\ Len(SubSeq(s, 1, m)) = m
          /\ \A i \in 1 .. m : SubSeq(s, 1, m)[i] = s[i]
      BY <3>1, SeqParts
    <3> QED BY <2>4, <3>2
  <2>6. \A i \in 1 .. m : i \notin I
    <3>1. \A i \in 1 .. m : ~(k <= i)
      BY <2>3
    <3> QED BY <2>2, <3>1
  <2> QED BY <1>1, <2>2, <2>3, <2>5, <2>6
<1> QED BY <1>2, <1>3

\* c colon tags are at the start of s.
ColonsUpTo(s, c) ==
    /\ c \in 0 .. Len(s)
    /\ \A i \in 1 .. c : IsColonTag(s[i])
    /\ c < Len(s) => ~IsColonTag(s[c + 1])

PatchFirst(s) == Len(s) > 0 /\ s[1].kind = "patch"

LEMMA PrefixIs ==
    ASSUME NEW s \in Seq(Tokens)
    PROVE  \E p \in 0 .. Len(s) :
              /\ Prefix(s) \in Seq(Tokens) /\ Len(Prefix(s)) = p
              /\ \A i \in 1 .. p : Prefix(s)[i] = s[i] /\ ~HasBracket(s[i])
              /\ p < Len(s) => HasBracket(s[p + 1]) \/ s[p + 1].kind = "quote"
<1>1. PICK n \in Nat : n = Len(s)
  BY LenProperties
<1> DEFINE I == {i \in 1 .. Len(s) : HasBracket(s[i])}
           b == UpToFirst(s, I)
<1>2. Before(s, HasBracket) = b
  BY DEF Before, SelectInSeq, UpToFirst, FirstIn
<1>3. I \in SUBSET (1 .. Len(s))
  OBVIOUS
<1>4. \A i \in 1 .. n : i \in I <=> HasBracket(s[i])
  BY <1>1
<1>5. \E m \in 0 .. Len(s) :
         /\ b \in Seq(Tokens) /\ Len(b) = m
         /\ \A i \in 1 .. m : b[i] = s[i] /\ i \notin I
         /\ m < Len(s) => m + 1 \in I
  <2> HIDE DEF I
  <2> QED BY <1>3, BeforeFirst
<1> HIDE DEF I, b
<1>6. PICK m \in 0 .. n :
         /\ b \in Seq(Tokens) /\ Len(b) = m
         /\ \A i \in 1 .. m : b[i] = s[i] /\ i \notin I
         /\ m < n => m + 1 \in I
  BY <1>1, <1>5
<1>7. \A i \in 1 .. m : i \in 1 .. n
  BY <1>6
<1>8. PICK q \in Seq(Tokens) : q = b
  BY <1>6
<1> DEFINE J == {i \in 1 .. Len(q) : q[i].kind = "quote"}
           d == UpToFirst(q, J)
<1>9. Prefix(s) = d
  BY <1>2, <1>8 DEF Prefix, Before, SelectInSeq, UpToFirst, FirstIn
<1>10. J \in SUBSET (1 .. Len(q))
  OBVIOUS
<1>11. \A i \in 1 .. m : i \in J <=> q[i].kind = "quote"
  BY <1>6, <1>8
<1>12. \E p \in 0 .. Len(q) :
         /\ d \in Seq(Tokens) /\ Len(d) = p
         /\ \A i \in 1 .. p : d[i] = q[i] /\ i \notin J
         /\ p < Len(q) => p + 1 \in J
  <2> HIDE DEF J
  <2> QED BY <1>10, BeforeFirst
<1> HIDE DEF J, d
<1>13. PICK p \in 0 .. m :
         /\ d \in Seq(Tokens) /\ Len(d) = p
         /\ \A i \in 1 .. p : d[i] = q[i]
         /\ p < m => p + 1 \in J
  BY <1>6, <1>8, <1>12
<1>14. p \in 0 .. n /\ \A i \in 1 .. p : i \in 1 .. m
  BY <1>6, <1>13
<1>15. \A i \in 1 .. p : Prefix(s)[i] = s[i] /\ ~HasBracket(s[i])
  BY <1>4, <1>6, <1>7, <1>8, <1>9, <1>13, <1>14
<1>16. ASSUME p < n PROVE HasBracket(s[p + 1]) \/ s[p + 1].kind = "quote"
  <2>1. CASE p < m
    <3>1. p + 1 \in 1 .. m /\ p + 1 \in J
      BY <1>6, <1>13, <2>1
    <3>2. q[p + 1] = s[p + 1]
      BY <1>6, <1>8, <3>1
    <3>3. q[p + 1].kind = "quote"
      BY <1>11, <3>1
    <3> QED BY <3>2, <3>3
  <2>2. CASE p = m
    <3>1. p + 1 \in 1 .. n /\ p + 1 \in I
      BY <1>6, <1>13, <1>16, <2>2
    <3> QED BY <1>4, <3>1
  <2> QED BY <1>13, <2>1, <2>2
<1> QED BY <1>1, <1>9, <1>13, <1>14, <1>15, <1>16

LEMMA ColonsAre ==
    ASSUME NEW s \in Seq(Tokens)
    PROVE  /\ StartsWithPatch(s) <=> PatchFirst(s)
           /\ ColonTags(s) \in Seq(Tokens)
           /\ ColonsUpTo(s, Len(ColonTags(s)))
           /\ \A i \in 1 .. Len(ColonTags(s)) : ColonTags(s)[i] = s[i]
<1>1. PICK n \in Nat : n = Len(s)
  BY LenProperties
<1>2. PICK p \in 0 .. n, q \in Seq(Tokens) :
         /\ q = Prefix(s) /\ Len(q) = p
         /\ \A i \in 1 .. p : q[i] = s[i] /\ ~HasBracket(s[i])
         /\ p < n => HasBracket(s[p + 1]) \/ s[p + 1].kind = "quote"
  BY <1>1, PrefixIs
<1> DEFINE I == {i \in 1 .. Len(q) : ~IsColonTag(q[i])}
           b == UpToFirst(q, I)
<1>3. ColonTags(s) = b
  BY <1>2 DEF ColonTags, Before, SelectInSeq, UpToFirst, FirstIn
<1>4. I \in SUBSET (1 .. Len(q))
  OBVIOUS
<1>5. \A i \in 1 .. p : i \in I <=> ~IsColonTag(q[i])
  BY <1>2
<1>6. \E m \in 0 .. Len(q) :
         /\ b \in Seq(Tokens) /\ Len(b) = m
         /\ \A i \in 1 .. m : b[i] = q[i] /\ i \notin I
         /\ m < Len(q) => m + 1 \in I
  <2> HIDE DEF I
  <2> QED BY <1>4, BeforeFirst
<1> HIDE DEF I, b
<1>7. PICK c \in 0 .. p :
         /\ b \in Seq(Tokens) /\ Len(b) = c
         /\ \A i \in 1 .. c : b[i] = q[i] /\ i \notin I
         /\ c < p => c + 1 \in I
  BY <1>2, <1>6
<1>8. c \in 0 .. n /\ \A i \in 1 .. c : i \in 1 .. p
  BY <1>2, <1>7
<1>9. \A i \in 1 .. c : b[i] = s[i] /\ IsColonTag(s[i])
  BY <1>2, <1>5, <1>7, <1>8
<1>10. ASSUME c < n PROVE ~IsColonTag(s[c + 1])
  <2>1. CASE c < p
    <3>1. c + 1 \in 1 .. p /\ c + 1 \in I
      BY <1>2, <1>7, <2>1
    <3>2. q[c + 1] = s[c + 1] /\ ~IsColonTag(q[c + 1])
      BY <1>2, <1>5, <3>1
    <3> QED BY <3>2
  <2>2. CASE c = p
    <3>1. HasBracket(s[c + 1]) \/ s[c + 1].kind = "quote"
      BY <1>2, <1>10, <2>2
    <3> QED BY <3>1 DEF HasBracket, IsColonTag
  <2> QED BY <1>7, <2>1, <2>2
<1>11. StartsWithPatch(s) <=> PatchFirst(s)
  <2>1. q # <<>> <=> p > 0
    BY <1>2, EmptySeq
  <2>2. CASE p > 0
    <3>1. 1 \in 1 .. p /\ n > 0
      BY <1>2, <2>2
    <3>2. q[1] = s[1]
      BY <1>2, <3>1
    <3> QED BY <1>1, <1>2, <2>1, <2>2, <3>1, <3>2 DEF StartsWithPatch, PatchFirst
  <2>3. CASE p = 0
    <3>1. ~StartsWithPatch(s)
      BY <1>2, <2>1, <2>3 DEF StartsWithPatch
    <3>2. p < n => s[1].kind # "patch"
      BY <1>2, <2>3 DEF HasBracket
    <3>3. ~PatchFirst(s)
      BY <1>1, <2>3, <3>2 DEF PatchFirst
    <3> QED BY <3>1, <3>3
  <2> QED BY <1>2, <2>2, <2>3
<1> QED BY <1>1, <1>3, <1>7, <1>8, <1>9, <1>10, <1>11 DEF ColonsUpTo

\* The words of the colon tags.
Words(s) == [k \in DOMAIN ColonTags(s) |-> ColonTags(s)[k].kind]

LEMMA WordsAre ==
    ASSUME NEW s \in Seq(Tokens)
    PROVE  /\ Words(s) \in Seq(TagNames) /\ Len(Words(s)) = Len(ColonTags(s))
           /\ \A i \in 1 .. Len(ColonTags(s)) : Words(s)[i] = s[i].kind
<1>1. PICK q \in Seq(Tokens), c \in Nat : q = ColonTags(s) /\ c = Len(q) /\ DOMAIN q = 1 .. c
  BY ColonsAre, LenProperties
<1>2. \A i \in 1 .. c : q[i] = s[i] /\ s[i].kind \in TagNames
  BY <1>1, ColonsAre DEF ColonsUpTo, IsColonTag, TagNames
<1>3. Words(s) = [i \in 1 .. c |-> q[i].kind]
  BY <1>1 DEF Words
<1>4. [i \in 1 .. c |-> q[i].kind] \in [1 .. c -> TagNames]
  BY <1>2
<1>5. \A S : \A m \in Nat : \A f \in [1 .. m -> S] : f \in Seq(S) /\ Len(f) = m
  OBVIOUS
<1> QED BY <1>1, <1>2, <1>3, <1>4, <1>5

IsBare(s) == ~\E k \in DOMAIN s : HasBracket(s[k])

LEMMA LeadingIs ==
    ASSUME NEW s \in Seq(Tokens)
    PROVE  /\ Leading(s).state \in TagStates /\ Leading(s).end \in 0 .. Len(s)
           /\ ~PatchFirst(s) => /\ Leading(s).end = Len(ColonTags(s))
                                /\ Leading(s).state = Pushed(NoTags, Words(s))
           /\ PatchFirst(s) => /\ Leading(s).end = 1
                               /\ Leading(s).state.tags = IF IsBare(s) THEN <<"patch">> ELSE <<>>
<1>1. PICK c \in 0 .. Len(s) : c = Len(ColonTags(s))
  BY ColonsAre DEF ColonsUpTo
<1>2. PICK st \in TagStates : st = Pushed(NoTags, Words(s)) /\ st.tags = NoTags.tags \o Words(s)
  BY NoTagsType, WordsAre, TagsPushed
<1>3. FoldLeft(PushTag, NoTags, [k \in DOMAIN ColonTags(s) |-> ColonTags(s)[k].kind]) = st
  BY <1>2 DEF Pushed, Words
<1>4. SelectInSeq(s, HasBracket) = 0 <=> IsBare(s)
  <2>1. PICK n \in Nat : n = Len(s) /\ DOMAIN s = 1 .. n
    BY LenProperties
  <2> DEFINE I == {i \in 1 .. n : HasBracket(s[i])}
  <2>2. SelectInSeq(s, HasBracket) = IF I # {} THEN Min(I) ELSE 0
    BY <2>1 DEF SelectInSeq
  <2>3. I \in SUBSET Nat /\ 0 \notin I
    BY <2>1
  <2>4. I = {} <=> IsBare(s)
    BY <2>1 DEF IsBare
  <2> HIDE DEF I
  <2>5. I # {} => Min(I) # 0
    BY <2>3, MinOf
  <2> QED BY <2>2, <2>4, <2>5
<1>5. CASE ~PatchFirst(s)
  <2>1. Leading(s) = [state |-> st, end |-> c]
    BY <1>1, <1>3, <1>5, ColonsAre DEF Leading
  <2> QED BY <1>1, <1>2, <1>5, <2>1
<1>6. CASE PatchFirst(s)
  <2>1. s[1].kind = "patch" /\ 1 \in 0 .. Len(s)
    BY <1>6, LenProperties DEF PatchFirst
  <2>2. c = 0
    <3>1. c # 0 => 1 \in 1 .. c
      BY <1>1
    <3> QED BY <1>1, <2>1, <3>1, ColonsAre DEF ColonsUpTo, IsColonTag
  <2>3. Words(s) = <<>> /\ <<>> \o <<>> = <<>>
    <3>1. PICK w \in Seq(TagNames) : w = Words(s) /\ Len(w) = 0
      BY <1>1, <2>2, WordsAre
    <3>2. w = <<>> /\ w \o <<>> = w
      BY <3>1, EmptySeq
    <3> QED BY <3>1, <3>2, Zenon
  <2>4. st.tags = <<>>
    <3>1. NoTags.tags = <<>>
      BY DEF NoTags
    <3> QED BY <1>2, <2>3, <3>1, Zenon
  <2>5. PICK p \in TagNames : p = "patch"
    BY DEF TagNames
  <2>6. Leading(s) = [state |-> IF IsBare(s) THEN PushTag(st, p) ELSE [st EXCEPT !.patch = TRUE],
                      end |-> 1]
    BY <1>3, <1>4, <1>6, <2>5, ColonsAre DEF Leading
  <2>7. PushTag(st, p) \in TagStates /\ PushTag(st, p).tags = <<"patch">>
    <3>1. \A S : \A x \in S : Append(<<>>, x) = <<x>>
      OBVIOUS
    <3>2. Append(<<>>, p) = <<p>>
      BY <3>1
    <3>3. PushTag(st, p) \in TagStates /\ PushTag(st, p).tags = Append(st.tags, p)
      BY PushTagType
    <3> QED BY <2>4, <2>5, <3>2, <3>3, Zenon
  <2>8. [st EXCEPT !.patch = TRUE] \in TagStates /\ [st EXCEPT !.patch = TRUE].tags = <<>>
    BY <2>4 DEF TagStates
  <2>9. Leading(s).end = 1
    BY <2>6
  <2>10. Leading(s).state = IF IsBare(s) THEN PushTag(st, p) ELSE [st EXCEPT !.patch = TRUE]
    BY <2>6
  <2> QED BY <1>6, <2>1, <2>7, <2>8, <2>9, <2>10
<1> QED BY <1>5, <1>6

\* The tags that are found in a token.
TagsFound(s, token) ==
    CASE IsColonTag(token)       -> <<token.kind>>
      [] token.kind = "bracket"  ->
           FlattenSeq([k \in DOMAIN token.tags |-> SplitGlued(token.tags[k])])
      [] OTHER -> IF \E k \in DOMAIN s : HasBracket(s[k]) THEN <<>> ELSE <<"patch">>

\* Those of the first k tokens.
FoundUpTo(s, k) == FlattenSeq([i \in 1 .. k |-> TagsFound(s, s[i])])

LEMMA FoundType ==
    ASSUME NEW s \in Seq(Tokens), NEW token \in Tokens
    PROVE  /\ TagsFound(s, token) \in Seq(TagNames)
           /\ IsColonTag(token) => TagsFound(s, token) = <<token.kind>>
           /\ token.kind = "bracket" => TagsFound(s, token) = Split(token.tags)
           /\ token.kind = "patch" => TagsFound(s, token) = IF IsBare(s) THEN <<"patch">> ELSE <<>>
<1>1. token.tags \in Seq(STRING)
  BY DEF Tokens
<1>2. Split(token.tags) \in Seq(TagNames)
  BY <1>1, SplitType
<1>3. \A S : <<>> \in Seq(S) /\ \A x \in S : <<x>> \in Seq(S)
  OBVIOUS
<1>4. "patch" \in TagNames /\ (IsColonTag(token) => token.kind \in TagNames)
  BY DEF TagNames, IsColonTag
<1>5. <<>> \in Seq(TagNames) /\ <<"patch">> \in Seq(TagNames)
  BY <1>3, <1>4
<1>6. CASE IsColonTag(token)
  <2>1. token.kind # "bracket" /\ token.kind # "patch"
    BY <1>6 DEF IsColonTag
  <2>2. TagsFound(s, token) = <<token.kind>>
    BY <1>6, <2>1 DEF TagsFound
  <2> QED BY <1>3, <1>4, <1>6, <2>1, <2>2
<1>7. CASE token.kind = "bracket"
  <2>1. ~IsColonTag(token) /\ token.kind # "patch"
    BY <1>7 DEF IsColonTag
  <2>2. TagsFound(s, token) = Split(token.tags)
    BY <1>7, <2>1 DEF TagsFound, Split
  <2> QED BY <1>2, <1>7, <2>1, <2>2
<1>8. CASE ~IsColonTag(token) /\ token.kind # "bracket"
  <2>1. TagsFound(s, token) = IF IsBare(s) THEN <<"patch">> ELSE <<>>
    BY <1>8 DEF TagsFound, IsBare
  <2> QED BY <1>5, <1>8, <2>1
<1> QED BY <1>6, <1>7, <1>8

LEMMA FoundSteps ==
    ASSUME NEW s \in Seq(Tokens)
    PROVE  /\ FoundUpTo(s, 0) = <<>>
           /\ \A k \in 1 .. Len(s) : /\ FoundUpTo(s, k - 1) \in Seq(TagNames)
                                     /\ FoundUpTo(s, k) = FoundUpTo(s, k - 1) \o TagsFound(s, s[k])
<1>1. PICK n \in Nat : n = Len(s) /\ \A i \in 1 .. n : s[i] \in Tokens
  BY LenProperties
<1> DEFINE Tg(k) == [i \in 1 .. k |-> TagsFound(s, s[i])]
<1>2. \A i \in 1 .. n : TagsFound(s, s[i]) \in Seq(TagNames)
  BY <1>1, FoundType
<1>3. \A S : \A m \in Nat : \A f \in [1 .. m -> S] : f \in Seq(S) /\ Len(f) = m
  OBVIOUS
<1>4. \A k \in 0 .. n : Tg(k) \in Seq(Seq(TagNames)) /\ Len(Tg(k)) = k
  <2> SUFFICES ASSUME NEW k \in 0 .. n PROVE Tg(k) \in Seq(Seq(TagNames)) /\ Len(Tg(k)) = k
    OBVIOUS
  <2>1. k \in Nat /\ Tg(k) \in [1 .. k -> Seq(TagNames)]
    BY <1>2
  <2> HIDE DEF Tg
  <2> QED BY <1>3, <2>1
<1>5. FoundUpTo(s, 0) = <<>>
  <2>1. Tg(0) \in Seq(Seq(TagNames)) /\ Len(Tg(0)) = 0
    BY <1>4
  <2>2. Tg(0) = <<>>
    <3> HIDE DEF Tg
    <3> QED BY <2>1, EmptySeq
  <2>3. FoundUpTo(s, 0) = FlattenSeq(Tg(0))
    BY DEF FoundUpTo
  <2> HIDE DEF Tg
  <2> QED BY <2>1, <2>2, <2>3, FlattenType
<1>6. ASSUME NEW k \in 1 .. n
      PROVE  /\ FoundUpTo(s, k - 1) \in Seq(TagNames)
             /\ FoundUpTo(s, k) = FoundUpTo(s, k - 1) \o TagsFound(s, s[k])
  <2>1. k - 1 \in 0 .. n /\ k \in 0 .. n /\ k - 1 \in Nat /\ k \in Nat
    BY <1>1
  <2>2. PICK a \in Seq(Seq(TagNames)), b \in Seq(Seq(TagNames)), t \in Seq(TagNames) :
           /\ a = Tg(k - 1) /\ b = Tg(k) /\ t = TagsFound(s, s[k])
           /\ Len(a) = k - 1 /\ Len(b) = k
    <3> HIDE DEF Tg
    <3> QED BY <1>2, <1>4, <2>1
  <2>3. /\ \A i \in 1 .. k - 1 : a[i] = TagsFound(s, s[i])
        /\ \A i \in 1 .. k : b[i] = TagsFound(s, s[i])
    BY <2>2
  <2> HIDE DEF Tg
  <2>4. <<t>> \in Seq(Seq(TagNames)) /\ Len(<<t>>) = 1 /\ <<t>>[1] = t
    <3>1. \A S : \A x \in S : <<x>> \in Seq(S) /\ Len(<<x>>) = 1 /\ <<x>>[1] = x
      OBVIOUS
    <3> QED BY <3>1
  <2>5. PICK e \in Seq(Seq(TagNames)) : e = <<t>> /\ Len(e) = 1 /\ e[1] = t
    BY <2>4
  <2>6. PICK d \in Seq(Seq(TagNames)) : d = a \o e /\ Len(d) = k
    <3>1. a \o e \in Seq(Seq(TagNames)) /\ Len(a \o e) = Len(a) + Len(e)
      BY ConcatProperties
    <3>2. Len(a) + Len(e) = k
      BY <2>1, <2>2, <2>5
    <3> QED BY <3>1, <3>2, Zenon
  <2>7. \A i \in 1 .. k : d[i] = b[i]
    <3>1. \A i \in 1 .. k : i \in 1 .. k - 1 \/ i = k
      BY <2>1
    <3>2. \A i \in 1 .. k - 1 : d[i] = a[i] /\ i \in 1 .. k
      BY <2>1, <2>2, <2>5, <2>6, ConcatProperties, SMTT(60)
    <3>3. d[k] = e[1]
      <4>1. k - Len(a) = 1 /\ k \in Len(a) + 1 .. Len(a) + Len(e)
        BY <2>1, <2>2, <2>5
      <4> QED BY <2>6, <4>1, ConcatProperties
    <3> QED BY <2>2, <2>3, <2>5, <3>1, <3>2, <3>3, SMTT(60)
  <2>8. d = b
    BY <2>2, <2>6, <2>7, SeqEqual, ZenonT(60)
  <2>9. FlattenSeq(a \o <<t>>) = FlattenSeq(a) \o t /\ FlattenSeq(a) \in Seq(TagNames)
    BY FlattenAppend, FlattenType
  <2>10. FoundUpTo(s, k) = FlattenSeq(b) /\ FoundUpTo(s, k - 1) = FlattenSeq(a)
    BY <2>2 DEF FoundUpTo, Tg
  <2>11. FoundUpTo(s, k) = FoundUpTo(s, k - 1) \o TagsFound(s, s[k])
    BY <2>2, <2>5, <2>6, <2>8, <2>9, <2>10, Zenon
  <2> QED BY <2>9, <2>10, <2>11
<1> QED BY <1>1, <1>5, <1>6

\* From, of which the tags' first part ends at e, they go on to l.
TagsGoTo(s, e, l) ==
    /\ l \in e .. Len(s)
    /\ \A i \in e + 1 .. l : s[i].kind = "bracket"
    /\ l < Len(s) => s[l + 1].kind # "bracket"

LEMMA TagsGoSomewhere ==
    ASSUME NEW s \in Seq(Tokens), NEW e \in 0 .. Len(s)
    PROVE  \E l \in e .. Len(s) : TagsGoTo(s, e, l)
<1>1. PICK n \in Nat : n = Len(s)
  BY LenProperties
<1> DEFINE I == {i \in e + 1 .. n : s[i].kind # "bracket"}
<1>2. e \in 0 .. n
  BY <1>1
<1>3. CASE I = {}
  <2>1. \A i \in e + 1 .. n : s[i].kind = "bracket"
    BY <1>3
  <2>2. n \in e .. n
    BY <1>2
  <2> QED BY <1>1, <2>1, <2>2 DEF TagsGoTo
<1>4. CASE I # {}
  <2>1. I \in SUBSET Nat
    BY <1>2
  <2>2. PICK m \in I : \A i \in I : m <= i
    <3> HIDE DEF I
    <3> QED BY <1>4, <2>1, MinOf
  <2>3. PICK l \in e .. n : l + 1 = m
    <3>1. m \in e + 1 .. n
      BY <2>2
    <3>2. m - 1 \in e .. n /\ (m - 1) + 1 = m
      BY <1>2, <3>1
    <3> QED BY <3>2
  <2>4. \A i \in e + 1 .. l : s[i].kind = "bracket"
    <3>1. \A i \in e + 1 .. l : i \in e + 1 .. n /\ ~(m <= i)
      <4> HIDE DEF I
      <4> QED BY <1>2, <2>3
    <3>2. \A i \in e + 1 .. l : i \notin I
      <4> HIDE DEF I
      <4> QED BY <2>2, <3>1
    <3> QED BY <3>1, <3>2
  <2>5. s[l + 1].kind # "bracket"
    BY <2>2, <2>3
  <2> HIDE DEF I
  <2> QED BY <1>1, <2>3, <2>4, <2>5 DEF TagsGoTo
<1> QED BY <1>3, <1>4

\* The longest run of tags at the start of s.
LEMMA LongestRun ==
    ASSUME NEW s \in Seq(Tokens), NEW l, TagsGoTo(s, Leading(s).end, l)
    PROVE  Max({m \in 0 .. Len(s) : \E k \in 0 .. m : TagsUpTo(s, k, m)}) = l
<1>1. PICK n \in Nat : n = Len(s)
  BY LenProperties
<1>2. PICK e \in 0 .. n : e = Leading(s).end
  BY <1>1, LeadingIs
<1>3. l \in e .. n /\ l \in 0 .. n /\ e \in 0 .. l
  BY <1>1, <1>2 DEF TagsGoTo
<1> DEFINE R == {m \in 0 .. n : \E k \in 0 .. m : TagsUpTo(s, k, m)}
<1>4. l \in R
  <2>1. \A i \in e + 1 .. l : s[i].kind = "bracket"
    BY <1>2 DEF TagsGoTo
  <2>2. (\A i \in 1 .. e : IsColonTag(s[i])) \/ (e = 1 /\ s[1].kind = "patch")
    <3>1. CASE PatchFirst(s)
      BY <1>2, <3>1, LeadingIs DEF PatchFirst
    <3>2. CASE ~PatchFirst(s)
      <4>1. e = Len(ColonTags(s))
        BY <1>2, <3>2, LeadingIs
      <4> QED BY <4>1, ColonsAre DEF ColonsUpTo
    <3> QED BY <3>1, <3>2
  <2>3. TagsUpTo(s, e, l)
    BY <2>1, <2>2 DEF TagsUpTo
  <2> QED BY <1>3, <2>3
<1>5. ASSUME NEW m \in R PROVE m <= l
  <2>1. m \in 0 .. n
    OBVIOUS
  <2>2. PICK k \in 0 .. m : TagsUpTo(s, k, m)
    OBVIOUS
  <2> SUFFICES ASSUME ~(m <= l) PROVE FALSE
    OBVIOUS
  <2> HIDE DEF R
  <2>3. l + 1 \in 1 .. m /\ l < n /\ l < m
    BY <1>3, <2>1
  <2>4. s[l + 1].kind # "bracket"
    BY <1>1, <1>2, <2>3 DEF TagsGoTo
  <2>5. ~(k <= l)
    <3>1. k <= l => l + 1 \in k + 1 .. m
      BY <1>3, <2>1, <2>2, <2>3
    <3> QED BY <2>2, <2>4, <3>1 DEF TagsUpTo
  <2>6. e < k /\ e + 1 \in 1 .. k /\ e < n /\ 1 \in 1 .. k /\ k \in 0 .. n
    BY <1>2, <1>3, <2>1, <2>2, <2>5
  <2>7. CASE PatchFirst(s)
    <3>1. e = 1 /\ s[1].kind = "patch"
      BY <1>2, <2>7, LeadingIs DEF PatchFirst
    <3>2. ~IsColonTag(s[1])
      BY <3>1 DEF IsColonTag
    <3> QED BY <2>2, <2>6, <3>1, <3>2 DEF TagsUpTo
  <2>8. CASE ~PatchFirst(s)
    <3>1. e = Len(ColonTags(s))
      BY <1>2, <2>8, LeadingIs
    <3>2. ~IsColonTag(s[e + 1])
      BY <1>1, <2>6, <3>1, ColonsAre DEF ColonsUpTo
    <3>3. k = 1 /\ s[1].kind = "patch"
      BY <2>2, <2>6, <3>2 DEF TagsUpTo
    <3> QED BY <1>1, <2>6, <2>8, <3>3 DEF PatchFirst
  <2> QED BY <2>7, <2>8
<1>6. Max(R) = l
  <2>1. R \in SUBSET (0 .. n)
    OBVIOUS
  <2> HIDE DEF R
  <2>2. \A m \in R : m \in Int /\ l >= m
    BY <1>3, <1>5, <2>1
  <2>3. \E x \in R : \A y \in R : x >= y
    BY <1>4, <2>2
  <2>4. Max(R) \in R /\ \A y \in R : Max(R) >= y
    BY <2>3, Zenon DEF Max
  <2>5. PICK x \in Int : x = Max(R) /\ l >= x /\ x >= l
    BY <1>4, <2>2, <2>4
  <2>6. l \in Int
    BY <1>3
  <2>7. x = l
    BY <2>5, <2>6
  <2> QED BY <2>5, <2>7
<1> QED BY <1>1, <1>6

ScanStates == [state : TagStates, end : Nat, zone : BOOLEAN]

\* Where the brackets are looked for from.
ScanStart(s) == [state |-> Leading(s).state, end |-> Leading(s).end, zone |-> TRUE]

LEMMA ScanType ==
    ASSUME NEW s \in Seq(Tokens)
    PROVE  /\ \A acc \in ScanStates, k \in 1 .. Len(s) : ScanBracket(s, acc, k) \in ScanStates
           /\ ScanStart(s) \in ScanStates
<1>1. PICK n \in Nat : n = Len(s) /\ \A k \in 1 .. n : s[k] \in Tokens
  BY LenProperties
<1>2. ScanStart(s) \in ScanStates
  BY <1>1, LeadingIs DEF ScanStart, ScanStates
<1>3. ASSUME NEW acc \in ScanStates, NEW k \in 1 .. n PROVE ScanBracket(s, acc, k) \in ScanStates
  <2>1. acc.state \in TagStates /\ s[k].tags \in Seq(STRING)
    BY <1>1 DEF ScanStates, Tokens
  <2>2. PushAll(acc.state, s[k].tags) \in TagStates
    BY <2>1, PushAllIs
  <2>3. PICK z \in BOOLEAN : z = (k < Len(s) /\ s[k + 1].kind = "bracket")
    OBVIOUS
  <2>4. CASE InZone(s, acc, k)
    <3>1. ScanBracket(s, acc, k) = [state |-> PushAll(acc.state, s[k].tags), end |-> k, zone |-> z]
      BY <2>3, <2>4 DEF ScanBracket
    <3> QED BY <2>2, <3>1 DEF ScanStates
  <2>5. CASE ~InZone(s, acc, k)
    BY <2>5 DEF ScanBracket
  <2> QED BY <2>4, <2>5
<1> QED BY <1>1, <1>2, <1>3

\* The step of the loop over the brackets.
Scanning(t) == [p \in ScanStates \X (1 .. Len(t)) |-> ScanBracket(t, p[1], p[2])]

LEMMA ScanIsFold ==
    ASSUME NEW t \in Seq(Tokens)
    PROVE  /\ Scanning(t) \in StepsOf(ScanStates, 1 .. Len(t)) /\ ScanStart(t) \in ScanStates
           /\ \A acc \in ScanStates, x \in 1 .. Len(t) : Scanning(t)[<<acc, x>>] = ScanBracket(t, acc, x)
           /\ ScanBrackets(t) = Fold(Scanning(t), ScanStart(t), Indices(Len(t)))
<1> DEFINE F == Scanning(t)
           b == ScanStart(t)
           q == Positions(t)
           E(g) == g = [s \in SUBSET (1 .. Len(q)) |->
                          IF s = {} THEN b ELSE ScanBracket(t, g[s \ {Max(s)}], q[Max(s)])]
           h == CHOOSE g : E(g)
<1>1. PICK n \in Nat : n = Len(t) /\ DOMAIN t = 1 .. n
  BY LenProperties
<1>2. /\ F \in StepsOf(ScanStates, 1 .. n) /\ b \in ScanStates
      /\ \A acc \in ScanStates, x \in 1 .. n : F[<<acc, x>>] = ScanBracket(t, acc, x)
  <2>1. \A acc \in ScanStates, x \in 1 .. n : ScanBracket(t, acc, x) \in ScanStates
    BY <1>1, ScanType
  <2>2. b \in ScanStates
    BY ScanType
  <2> QED BY <1>1, <2>1, <2>2 DEF Scanning, StepsOf
<1>3. /\ q \in Seq(1 .. n) /\ DOMAIN q = 1 .. Len(q) /\ Len(q) = n
      /\ q = Indices(n)
      /\ \A s \in SUBSET (1 .. Len(q)) : s # {} => q[Max(s)] \in 1 .. n
  <2>1. q \in Seq(1 .. n) /\ Len(q) = n /\ q = Indices(n)
    BY <1>1, PositionsAre
  <2>2. DOMAIN q = 1 .. Len(q) /\ Len(q) \in Nat /\ \A k \in 1 .. Len(q) : q[k] \in 1 .. n
    BY <2>1, LenProperties
  <2>3. \A s \in SUBSET (1 .. Len(q)) : s # {} => Max(s) \in s
    BY <2>2, MaxOf
  <2> QED BY <2>1, <2>2, <2>3
<1>4. ScanBrackets(t) = h[1 .. Len(q)]
  BY <1>3 DEF ScanBrackets, ScanStart, FoldLeft, MapThenFoldSet
<1> HIDE DEF F, b, q
<1>5. PICK r \in Runs(ScanStates, F, b, q) : TRUE
  BY <1>2, <1>3, FoldExists
<1>6. E(r)
  <2>1. \A s \in SUBSET (1 .. Len(q)) :
           r[s] = IF s = {} THEN b ELSE ScanBracket(t, r[s \ {Max(s)}], q[Max(s)])
    BY <1>2, <1>3 DEF Runs
  <2> QED BY <2>1 DEF Runs
<1>7. E(h)
  <2> HIDE DEF E
  <2> QED BY <1>6
<1> HIDE DEF h
<1>8. Follows(h, ScanStates, F, b, q)
  <2>1. h[{}] = b
    BY <1>7
  <2>2. ASSUME NEW s \in SUBSET (1 .. Len(q)), s # {}, h[s \ {Max(s)}] \in ScanStates
        PROVE  h[s] = F[<<h[s \ {Max(s)}], q[Max(s)]>>]
    <3>1. h[s] = ScanBracket(t, h[s \ {Max(s)}], q[Max(s)])
      BY <1>7, <2>2
    <3> QED BY <1>2, <1>3, <2>2, <3>1
  <2> QED BY <2>1, <2>2 DEF Follows
<1>9. h[1 .. Len(q)] = Fold(F, b, q)
  BY <1>2, <1>3, <1>8, FoldMeets
<1>10. ScanBrackets(t) = Fold(F, b, Indices(n))
  BY <1>3, <1>4, <1>9
<1> QED BY <1>1, <1>2, <1>10 DEF F, b

LEMMA ScanRuns ==
    ASSUME NEW t \in Seq(Tokens)
    PROVE  \E f \in [0 .. Len(t) -> ScanStates] :
              /\ f[0] = ScanStart(t)
              /\ \A k \in 1 .. Len(t) : f[k] = ScanBracket(t, f[k - 1], k)
              /\ f[Len(t)] = ScanBrackets(t)
<1>1. PICK n \in Nat : n = Len(t)
  BY LenProperties
<1>2. PICK F \in StepsOf(ScanStates, 1 .. n), b \in ScanStates : F = Scanning(t) /\ b = ScanStart(t)
  BY <1>1, ScanIsFold
<1>3. /\ \A acc \in ScanStates, x \in 1 .. n : F[<<acc, x>>] = ScanBracket(t, acc, x)
      /\ ScanBrackets(t) = Fold(F, b, Indices(n))
  BY <1>1, <1>2, ScanIsFold
<1>4. PICK f \in [0 .. n -> ScanStates] : IsRun(f, F, b, n)
  BY IndexFold
<1>5. \A k \in 1 .. n : f[k] = ScanBracket(t, f[k - 1], k)
  <2>1. \A k \in 1 .. n : k - 1 \in 0 .. n
    OBVIOUS
  <2> QED BY <1>3, <1>4, <2>1 DEF IsRun
<1>6. f[n] = ScanBrackets(t)
  BY <1>3, <1>4 DEF IsRun
<1> QED BY <1>1, <1>2, <1>4, <1>5, <1>6 DEF IsRun

LEMMA LeadingTags ==
    ASSUME NEW s \in Seq(Tokens)
    PROVE  Leading(s).state.tags = FoundUpTo(s, Leading(s).end)
<1>1. PICK n \in Nat : n = Len(s) /\ \A i \in 1 .. n : s[i] \in Tokens
  BY LenProperties
<1>2. CASE PatchFirst(s)
  <2>1. 1 \in 1 .. n /\ s[1].kind = "patch"
    BY <1>1, <1>2 DEF PatchFirst
  <2>2. PICK t \in Seq(TagNames) : t = TagsFound(s, s[1]) /\ t = IF IsBare(s) THEN <<"patch">> ELSE <<>>
    BY <1>1, <2>1, FoundType
  <2>3. FoundUpTo(s, 0) = <<>> /\ FoundUpTo(s, 1) = FoundUpTo(s, 1 - 1) \o TagsFound(s, s[1])
    BY <1>1, <2>1, FoundSteps
  <2>4. 1 - 1 = 0 /\ <<>> \o t = t
    OBVIOUS
  <2>5. FoundUpTo(s, 1) = t
    BY <2>2, <2>3, <2>4, Zenon
  <2> QED BY <1>2, <2>2, <2>5, LeadingIs
<1>3. CASE ~PatchFirst(s)
  <2>1. PICK c \in 0 .. n, w \in Seq(TagNames) :
           /\ c = Len(ColonTags(s)) /\ w = Words(s) /\ Len(w) = c
           /\ \A i \in 1 .. c : w[i] = s[i].kind /\ IsColonTag(s[i])
    <3>1. PICK c \in 0 .. n : c = Len(ColonTags(s)) /\ \A i \in 1 .. c : IsColonTag(s[i])
      BY <1>1, ColonsAre DEF ColonsUpTo
    <3>2. Words(s) \in Seq(TagNames) /\ Len(Words(s)) = c /\ \A i \in 1 .. c : Words(s)[i] = s[i].kind
      BY <3>1, WordsAre
    <3> QED BY <3>1, <3>2
  <2>2. Leading(s).end = c /\ Leading(s).state.tags = w
    <3>1. Leading(s).end = c /\ Leading(s).state = Pushed(NoTags, w)
      BY <1>3, <2>1, LeadingIs
    <3>2. Pushed(NoTags, w).tags = NoTags.tags \o w
      BY NoTagsType, TagsPushed
    <3>3. NoTags.tags = <<>> /\ <<>> \o w = w
      BY DEF NoTags
    <3> QED BY <3>1, <3>2, <3>3, Zenon
  <2>9. ASSUME NEW k \in 0 .. c
        PROVE  \E v \in Seq(TagNames) : /\ v = SubSeq(w, 1, k) /\ Len(v) = k
                                          /\ \A i \in 1 .. k : v[i] = w[i]
    <3>1. k \in 0 .. Len(w)
      BY <2>1
    <3>2. /\ SubSeq(w, 1, k) \in Seq(TagNames) /\ Len(SubSeq(w, 1, k)) = k
          /\ \A i \in 1 .. k : SubSeq(w, 1, k)[i] = w[i]
      BY <3>1, SeqParts
    <3> QED BY <3>2
  <2> DEFINE T == {k \in 0 .. c : FoundUpTo(s, k) = SubSeq(w, 1, k)}
  <2>3. 0 \in T
    <3>1. PICK v \in Seq(TagNames) : v = SubSeq(w, 1, 0) /\ Len(v) = 0
      <4>1. 0 \in 0 .. c
        BY <2>1
      <4> QED BY <2>9, <4>1
    <3>2. v = <<>>
      BY <3>1, EmptySeq
    <3>3. 0 \in 0 .. c
      BY <2>1
    <3> QED BY <3>1, <3>2, <3>3, FoundSteps
  <2>4. ASSUME NEW k \in 1 .. c, k - 1 \in T PROVE k \in T
    <3>1. k \in 1 .. n /\ k \in 0 .. c /\ k - 1 \in 0 .. c
      BY <2>1
    <3>2. PICK a \in Seq(TagNames), b \in Seq(TagNames) :
             /\ a = SubSeq(w, 1, k - 1) /\ b = SubSeq(w, 1, k) /\ Len(a) = k - 1 /\ Len(b) = k
             /\ \A i \in 1 .. k - 1 : a[i] = w[i]
             /\ \A i \in 1 .. k : b[i] = w[i]
      <4>1. PICK a \in Seq(TagNames) : /\ a = SubSeq(w, 1, k - 1) /\ Len(a) = k - 1
                                        /\ \A i \in 1 .. k - 1 : a[i] = w[i]
        BY <2>9, <3>1
      <4>2. PICK b \in Seq(TagNames) : /\ b = SubSeq(w, 1, k) /\ Len(b) = k
                                        /\ \A i \in 1 .. k : b[i] = w[i]
        BY <2>9, <3>1
      <4> QED BY <4>1, <4>2
    <3>3. PICK x \in TagNames : x = w[k] /\ x = s[k].kind
      BY <2>1, LenProperties
    <3>4. TagsFound(s, s[k]) = <<x>>
      BY <1>1, <2>1, <3>1, <3>3, FoundType
    <3>5. PICK d \in Seq(TagNames) : /\ d = Append(a, x) /\ Len(d) = k /\ d[k] = x
                                     /\ \A i \in 1 .. k - 1 : d[i] = a[i]
      <4>1. Len(a) + 1 = k
        BY <3>1, <3>2
      <4>2. /\ Append(a, x) \in Seq(TagNames) /\ Len(Append(a, x)) = k /\ Append(a, x)[k] = x
            /\ \A i \in 1 .. k - 1 : Append(a, x)[i] = a[i]
        BY <3>2, <4>1, AppendProperties
      <4> QED BY <4>2
    <3>6. \A i \in 1 .. k : i \in 1 .. k - 1 \/ i = k
      BY <3>1
    <3>7. \A i \in 1 .. k : d[i] = b[i]
      BY <3>2, <3>3, <3>5, <3>6
    <3>8. d = b
      BY <3>2, <3>5, <3>7, SeqEqual
    <3>9. a \o <<x>> = Append(a, x)
      OBVIOUS
    <3>10. FoundUpTo(s, k) = FoundUpTo(s, k - 1) \o TagsFound(s, s[k])
      BY <1>1, <3>1, FoundSteps
    <3>11. FoundUpTo(s, k - 1) = a
      BY <2>4, <3>2
    <3>12. FoundUpTo(s, k) = b
      BY <3>4, <3>5, <3>8, <3>9, <3>10, <3>11, Zenon
    <3> QED BY <3>1, <3>2, <3>12
  <2>5. c \in T
    <3>1. c \in Nat /\ c \in 0 .. c
      BY <2>1
    <3> HIDE DEF T
    <3> QED BY <2>3, <2>4, <3>1, StepInduction
  <2>6. SubSeq(w, 1, c) = w
    <3>1. c \in 0 .. c
      BY <2>1
    <3>2. PICK v \in Seq(TagNames) : v = SubSeq(w, 1, c) /\ Len(v) = c /\ \A i \in 1 .. c : v[i] = w[i]
      BY <2>9, <3>1
    <3>3. v = w
      BY <2>1, <3>2, SeqEqual
    <3> QED BY <3>2, <3>3
  <2> QED BY <2>2, <2>5, <2>6
<1> QED BY <1>2, <1>3

\* Where the tags end that are found among the first k tokens.
EndAt(e, l, k) == IF k < e THEN e ELSE IF k <= l THEN k ELSE l

LEMMA ScanIs ==
    ASSUME NEW s \in Seq(Tokens), NEW l, TagsGoTo(s, Leading(s).end, l)
    PROVE  ScanBrackets(s).end = l /\ ScanBrackets(s).state.tags = FoundUpTo(s, l)
<1>1. PICK n \in Nat : n = Len(s) /\ \A i \in 1 .. n : s[i] \in Tokens
  BY LenProperties
<1>2. PICK e \in 0 .. n : e = Leading(s).end
  BY <1>1, LeadingIs
<1>3. /\ l \in e .. n
      /\ \A i \in e + 1 .. l : s[i].kind = "bracket"
      /\ l < n => s[l + 1].kind # "bracket"
  BY <1>1, <1>2 DEF TagsGoTo
<1>4. PICK f \in [0 .. n -> ScanStates] :
         /\ f[0] = ScanStart(s)
         /\ \A k \in 1 .. n : f[k] = ScanBracket(s, f[k - 1], k)
         /\ f[n] = ScanBrackets(s)
  BY <1>1, ScanRuns
<1> DEFINE T == {k \in 0 .. n : /\ f[k].end = EndAt(e, l, k)
                                /\ k < l => f[k].zone
                                /\ f[k].state.tags = FoundUpTo(s, EndAt(e, l, k))}
<1>5. 0 \in T
  <2>1. f[0].end = e /\ f[0].zone /\ f[0].state = Leading(s).state
    BY <1>2, <1>4 DEF ScanStart
  <2>2. EndAt(e, l, 0) = e /\ 0 \in 0 .. n
    BY <1>2, <1>3 DEF EndAt
  <2> QED BY <1>2, <2>1, <2>2, LeadingTags
<1>6. ASSUME NEW k \in 1 .. n, k - 1 \in T PROVE k \in T
  <2>1. k \in 0 .. n /\ k - 1 \in 0 .. n /\ k - 1 \in Nat
    BY <1>1
  <2>2. PICK g \in ScanStates : g = f[k - 1]
    BY <1>4, <2>1
  <2>3. f[k] = ScanBracket(s, g, k)
    BY <1>4, <2>2
  <2>4. /\ g.end = EndAt(e, l, k - 1)
        /\ k - 1 < l => g.zone
        /\ g.state.tags = FoundUpTo(s, EndAt(e, l, k - 1))
    BY <1>6, <2>2
  <2> HIDE DEF T
  <2>5. CASE e < k /\ k <= l
    <3>1. k \in e + 1 .. l /\ k - 1 < l /\ EndAt(e, l, k - 1) = k - 1 /\ EndAt(e, l, k) = k
      BY <1>2, <1>3, <2>1, <2>5 DEF EndAt
    <3>2. InZone(s, g, k)
      BY <1>3, <2>4, <3>1 DEF InZone
    <3>3. f[k] = [state |-> PushAll(g.state, s[k].tags), end |-> k,
                  zone |-> k < n /\ s[k + 1].kind = "bracket"]
      BY <1>1, <2>3, <3>2 DEF ScanBracket
    <3>4. f[k].end = k /\ f[k].state = PushAll(g.state, s[k].tags)
          /\ f[k].zone = (k < n /\ s[k + 1].kind = "bracket")
      BY <3>3
    <3>5. ASSUME k < l PROVE f[k].zone
      <4>1. k + 1 \in e + 1 .. l /\ k < n
        BY <1>2, <1>3, <2>1, <3>5, <3>1
      <4> QED BY <1>3, <3>4, <4>1
    <3>6. g.state \in TagStates /\ s[k].tags \in Seq(STRING)
      BY <1>1, <2>2 DEF ScanStates, Tokens
    <3>7. PushAll(g.state, s[k].tags).tags = g.state.tags \o Split(s[k].tags)
      BY <3>6, PushAllIs
    <3>8. FoundUpTo(s, k) = FoundUpTo(s, k - 1) \o Split(s[k].tags)
      <4>1. TagsFound(s, s[k]) = Split(s[k].tags)
        BY <1>1, <1>3, <3>1, FoundType
      <4>2. FoundUpTo(s, k) = FoundUpTo(s, k - 1) \o TagsFound(s, s[k])
        BY <1>1, FoundSteps
      <4> QED BY <4>1, <4>2
    <3>9. f[k].state.tags = FoundUpTo(s, k)
      BY <2>4, <3>1, <3>4, <3>7, <3>8, Zenon
    <3> QED BY <2>1, <3>1, <3>4, <3>5, <3>9 DEF T
  <2>6. CASE ~(e < k /\ k <= l)
    <3>1. EndAt(e, l, k) = EndAt(e, l, k - 1) /\ (k < l => k - 1 < l)
      BY <1>2, <1>3, <2>1, <2>6 DEF EndAt
    <3>2. ~InZone(s, g, k)
      <4>1. CASE k <= e
        <5>1. EndAt(e, l, k - 1) # k - 1
          BY <1>2, <1>3, <2>1, <4>1 DEF EndAt
        <5> QED BY <2>4, <5>1 DEF InZone
      <4>2. CASE l < k /\ e < k
        <5>1. EndAt(e, l, k - 1) = l
          BY <1>2, <1>3, <2>1, <4>2 DEF EndAt
        <5>2. l = k - 1 => s[k].kind # "bracket"
          <6>1. l = k - 1 => l + 1 = k /\ l < n
            BY <1>1, <2>1, <4>2
          <6> QED BY <1>3, <6>1
        <5> QED BY <2>4, <5>1, <5>2 DEF InZone
      <4> QED BY <1>2, <1>3, <2>1, <2>6, <4>1, <4>2
    <3>3. f[k] = g
      BY <2>3, <3>2 DEF ScanBracket
    <3> QED BY <2>1, <2>4, <3>1, <3>3 DEF T
  <2> QED BY <2>5, <2>6
<1>7. n \in T
  <2>1. n \in 0 .. n
    BY <1>1
  <2> HIDE DEF T
  <2> QED BY <1>5, <1>6, <2>1, StepInduction
<1>8. EndAt(e, l, n) = l
  BY <1>1, <1>2, <1>3 DEF EndAt
<1> QED BY <1>4, <1>7, <1>8

(***************************************************************************)
(* extract_tags_from_subject: the tags of a subject of any length are      *)
(* those of the longest run of colon tags (or a bare patch) and brackets   *)
(* at its start, and the rest is the untagged subject.                     *)
(***************************************************************************)
THEOREM TagsDoLeadRun ==
    ASSUME NEW s \in Seq(Tokens)
    PROVE  TagsAreLeadingRun(s)
<1>1. Leading(s).end \in 0 .. Len(s)
  BY LeadingIs
<1>2. PICK l \in Leading(s).end .. Len(s) : TagsGoTo(s, Leading(s).end, l)
  BY <1>1, TagsGoSomewhere
<1>3. Max({m \in 0 .. Len(s) : \E k \in 0 .. m : TagsUpTo(s, k, m)}) = l
  BY <1>2, LongestRun
<1>4. ScanBrackets(s).end = l /\ ScanBrackets(s).state.tags = FoundUpTo(s, l)
  BY <1>2, ScanIs
<1>5. ExtractTags(s).found.tags = FoundUpTo(s, l)
  BY <1>4 DEF ExtractTags
<1>6. ExtractTags(s).untagged = ColonTags(s) \o DropQuotes(SubSeq(s, l + 1, Len(s)))
  BY <1>4 DEF ExtractTags
<1> QED BY <1>3, <1>5, <1>6 DEF TagsAreLeadingRun, FoundUpTo, TagsFound

\* s with Re: in front.
Reply(s) == <<Token("re", <<>>)>> \o s

LEMMA ReplyIs ==
    ASSUME NEW s \in Seq(Tokens)
    PROVE  /\ Reply(s) \in Seq(Tokens) /\ Len(Reply(s)) = Len(s) + 1
           /\ Reply(s)[1].kind = "re"
           /\ \A k \in 1 .. Len(s) : Reply(s)[k + 1] = s[k]
<1>1. PICK n \in Nat : n = Len(s)
  BY LenProperties
<1>2. PICK x \in Tokens : x = Token("re", <<>>) /\ x.kind = "re"
  <2>1. PICK e \in Seq(STRING) : e = <<>>
    <3>1. \A S : <<>> \in Seq(S)
      OBVIOUS
    <3> QED BY <3>1
  <2>2. [kind |-> "re", tags |-> e] \in Tokens /\ [kind |-> "re", tags |-> e].kind = "re"
    BY DEF Tokens
  <2>3. Token("re", <<>>) = [kind |-> "re", tags |-> e]
    BY <2>1 DEF Token
  <2> QED BY <2>2, <2>3
<1>3. PICK e \in Seq(Tokens) : e = <<x>> /\ Len(e) = 1 /\ e[1] = x
  <2>1. \A S : \A y \in S : <<y>> \in Seq(S) /\ Len(<<y>>) = 1 /\ <<y>>[1] = y
    OBVIOUS
  <2> QED BY <2>1
<1>4. /\ e \o s \in Seq(Tokens) /\ Len(e \o s) = Len(e) + Len(s)
      /\ \A i \in 1 .. Len(e) : (e \o s)[i] = e[i]
      /\ \A i \in Len(e) + 1 .. Len(e) + Len(s) : (e \o s)[i] = s[i - Len(e)]
  BY ConcatProperties
<1>5. PICK r \in Seq(Tokens) : r = e \o s
  BY <1>4
<1>6. Len(r) = n + 1
  BY <1>1, <1>3, <1>4, <1>5
<1>7. r[1] = x
  <2>1. 1 \in 1 .. Len(e)
    BY <1>3
  <2> QED BY <1>3, <1>4, <1>5, <2>1
<1>8. ASSUME NEW k \in 1 .. n PROVE r[k + 1] = s[k]
  <2>1. k + 1 \in Len(e) + 1 .. Len(e) + Len(s) /\ (k + 1) - Len(e) = k
    BY <1>1, <1>3
  <2> QED BY <1>4, <1>5, <2>1
<1>9. Reply(s) = r
  BY <1>2, <1>3, <1>5 DEF Reply
<1> QED BY <1>1, <1>2, <1>6, <1>7, <1>8, <1>9

LEMMA ColonsUnique ==
    ASSUME NEW s \in Seq(Tokens), NEW a, NEW b, ColonsUpTo(s, a), ColonsUpTo(s, b)
    PROVE  a = b
<1>1. PICK n \in Nat : n = Len(s)
  BY LenProperties
<1>2. a \in 0 .. n /\ b \in 0 .. n
  BY <1>1 DEF ColonsUpTo
<1>3. ~(a < b)
  <2>1. a < b => a + 1 \in 1 .. b /\ a < n
    BY <1>2
  <2> QED BY <1>1, <2>1 DEF ColonsUpTo
<1>4. ~(b < a)
  <2>1. b < a => b + 1 \in 1 .. a /\ b < n
    BY <1>2
  <2> QED BY <1>1, <2>1 DEF ColonsUpTo
<1> QED BY <1>2, <1>3, <1>4

\* A reply's colon tags are one more.
LEMMA ReplyLeading ==
    ASSUME NEW s \in Seq(Tokens), ~PatchFirst(s)
    PROVE  /\ Leading(Reply(s)).end = Leading(s).end + 1
           /\ Leading(Reply(s)).state = Replied(Leading(s).state)
<1>1. PICK n \in Nat : n = Len(s)
  BY LenProperties
<1>2. PICK r \in Seq(Tokens) : /\ r = Reply(s) /\ Len(r) = n + 1 /\ r[1].kind = "re"
                               /\ \A k \in 1 .. n : r[k + 1] = s[k]
  BY <1>1, ReplyIs
<1>3. PICK c \in 0 .. n : /\ c = Len(ColonTags(s))
                          /\ \A i \in 1 .. c : IsColonTag(s[i])
                          /\ c < n => ~IsColonTag(s[c + 1])
  BY <1>1, ColonsAre DEF ColonsUpTo
<1>4. \A i \in 1 .. c + 1 : i = 1 \/ (i - 1 \in 1 .. c /\ i - 1 \in 1 .. n /\ (i - 1) + 1 = i)
  BY <1>3
<1>5. ColonsUpTo(r, c + 1)
  <2>1. c + 1 \in 0 .. n + 1
    BY <1>1, <1>3
  <2>2. ASSUME NEW i \in 1 .. c + 1 PROVE IsColonTag(r[i])
    <3>1. CASE i = 1
      BY <1>2, <3>1 DEF IsColonTag
    <3>2. CASE i # 1
      <4>1. r[i] = s[i - 1] /\ IsColonTag(s[i - 1])
        BY <1>2, <1>3, <1>4, <3>2
      <4> QED BY <4>1
    <3> QED BY <3>1, <3>2
  <2>3. ASSUME c + 1 < n + 1 PROVE ~IsColonTag(r[(c + 1) + 1])
    <3>1. c < n /\ c + 1 \in 1 .. n
      BY <1>3, <2>3
    <3> QED BY <1>2, <1>3, <3>1
  <2> QED BY <1>2, <2>1, <2>2, <2>3 DEF ColonsUpTo
<1>6. Len(ColonTags(r)) = c + 1
  BY <1>5, ColonsAre, ColonsUnique
<1>7. ~PatchFirst(r)
  BY <1>2 DEF PatchFirst
<1>8. PICK v \in Seq(TagNames), w \in Seq(TagNames) :
         /\ v = Words(r) /\ Len(v) = c + 1 /\ \A i \in 1 .. c + 1 : v[i] = r[i].kind
         /\ w = Words(s) /\ Len(w) = c /\ \A i \in 1 .. c : w[i] = s[i].kind
  <2>1. Words(r) \in Seq(TagNames) /\ Len(Words(r)) = c + 1 /\ \A i \in 1 .. c + 1 : Words(r)[i] = r[i].kind
    BY <1>6, WordsAre
  <2>2. Words(s) \in Seq(TagNames) /\ Len(Words(s)) = c /\ \A i \in 1 .. c : Words(s)[i] = s[i].kind
    BY <1>3, WordsAre
  <2> QED BY <2>1, <2>2
<1>9. v = <<"re">> \o w
  <2>1. PICK e \in Seq(TagNames) : e = <<"re">> /\ Len(e) = 1 /\ e[1] = "re"
    <3>1. \A S : \A y \in S : <<y>> \in Seq(S) /\ Len(<<y>>) = 1 /\ <<y>>[1] = y
      OBVIOUS
    <3>2. PICK y \in TagNames : y = "re"
      BY DEF TagNames
    <3>3. <<y>> \in Seq(TagNames) /\ Len(<<y>>) = 1 /\ <<y>>[1] = y
      BY <3>1
    <3> QED BY <3>2, <3>3
  <2>2. /\ e \o w \in Seq(TagNames) /\ Len(e \o w) = Len(e) + Len(w)
        /\ \A i \in 1 .. Len(e) : (e \o w)[i] = e[i]
        /\ \A i \in Len(e) + 1 .. Len(e) + Len(w) : (e \o w)[i] = w[i - Len(e)]
    BY ConcatProperties
  <2>3. PICK d \in Seq(TagNames) : d = e \o w
    BY <2>2
  <2>4. Len(d) = c + 1
    BY <1>3, <1>8, <2>1, <2>2, <2>3
  <2>5. ASSUME NEW i \in 1 .. c + 1 PROVE d[i] = v[i]
    <3>1. CASE i = 1
      <4>1. 1 \in 1 .. Len(e)
        BY <2>1
      <4>2. v[1] = "re"
        BY <1>2, <1>8, <3>1
      <4> QED BY <2>1, <2>2, <2>3, <3>1, <4>1, <4>2
    <3>2. CASE i # 1
      <4>1. i \in Len(e) + 1 .. Len(e) + Len(w) /\ i - Len(e) = i - 1
        BY <1>3, <1>8, <2>1, <3>2
      <4>2. d[i] = w[i - 1]
        BY <2>2, <2>3, <4>1
      <4>3. v[i] = r[i].kind /\ r[i] = s[i - 1] /\ w[i - 1] = s[i - 1].kind
        BY <1>2, <1>4, <1>8, <3>2
      <4> QED BY <4>2, <4>3
    <3> QED BY <3>1, <3>2
  <2>6. d = v
    BY <1>8, <2>4, <2>5, SeqEqual
  <2> QED BY <2>1, <2>3, <2>6
<1>10. Leading(r).end = c + 1 /\ Leading(r).state = Pushed(NoTags, v)
  BY <1>6, <1>7, <1>8, LeadingIs
<1>11. Leading(s).end = c /\ Leading(s).state = Pushed(NoTags, w)
  BY <1>3, <1>8, LeadingIs
<1>12. Pushed(NoTags, <<"re">> \o w) = Replied(Pushed(NoTags, w))
  BY ReplyPushed
<1>13. Leading(r).state = Replied(Leading(s).state)
  BY <1>9, <1>10, <1>11, <1>12, Zenon
<1> QED BY <1>2, <1>10, <1>11, <1>13

\* How far the reply's brackets are scanned when s's are as far as scan.
Ahead(scan) == [state |-> Replied(scan.state), end |-> scan.end + 1, zone |-> scan.zone]

(***************************************************************************)
(* extract_tags_from_subject: Re: in front of a subject of any length only *)
(* adds the reply's tag to those found.                                    *)
(***************************************************************************)
THEOREM RepliesKeepTags ==
    ASSUME NEW s \in Seq(Tokens)
    PROVE  ReplyKeepsTags(s)
<1> SUFFICES ASSUME ~StartsWithPatch(s)
             PROVE  ExtractTags(Reply(s)).found =
                      [ExtractTags(s).found EXCEPT !.tags = <<"re">> \o @, !.response = TRUE]
  BY DEF ReplyKeepsTags, Reply
<1>1. PICK n \in Nat : n = Len(s) /\ \A i \in 1 .. n : s[i] \in Tokens
  BY LenProperties
<1>2. PICK r \in Seq(Tokens) : /\ r = Reply(s) /\ Len(r) = n + 1 /\ r[1].kind = "re"
                               /\ \A k \in 1 .. n : r[k + 1] = s[k]
  BY <1>1, ReplyIs
<1>3. ~PatchFirst(s)
  BY ColonsAre
<1>4. Leading(r).end = Leading(s).end + 1 /\ Leading(r).state = Replied(Leading(s).state)
  BY <1>2, <1>3, ReplyLeading
<1>5. PICK f \in [0 .. n -> ScanStates] :
         /\ f[0] = ScanStart(s)
         /\ \A k \in 1 .. n : f[k] = ScanBracket(s, f[k - 1], k)
         /\ f[n] = ScanBrackets(s)
  BY <1>1, ScanRuns
<1>6. PICK g \in [0 .. n + 1 -> ScanStates] :
         /\ g[0] = ScanStart(r)
         /\ \A k \in 1 .. n + 1 : g[k] = ScanBracket(r, g[k - 1], k)
         /\ g[n + 1] = ScanBrackets(r)
  BY <1>2, ScanRuns
<1> DEFINE T == {k \in 0 .. n : g[k + 1] = Ahead(f[k])}
<1>7. 0 \in T
  <2>1. g[1] = ScanBracket(r, g[0], 1)
    <3>1. 1 \in 1 .. n + 1 /\ 1 - 1 = 0
      BY <1>1
    <3> QED BY <1>6, <3>1
  <2>2. ~InZone(r, g[0], 1)
    BY <1>2 DEF InZone
  <2>3. g[1] = ScanStart(r)
    BY <1>6, <2>1, <2>2 DEF ScanBracket
  <2>4. ScanStart(r) = Ahead(ScanStart(s))
    BY <1>4 DEF ScanStart, Ahead
  <2>5. 0 \in 0 .. n /\ 0 + 1 = 1
    BY <1>1
  <2> QED BY <1>5, <2>3, <2>4, <2>5
<1>8. ASSUME NEW k \in 1 .. n, k - 1 \in T PROVE k \in T
  <2>1. /\ k \in 0 .. n /\ k - 1 \in 0 .. n /\ (k - 1) + 1 = k
        /\ k + 1 \in 1 .. n + 1 /\ (k + 1) - 1 = k
    BY <1>1
  <2>2. PICK a \in ScanStates : a = f[k - 1]
    BY <1>5, <2>1
  <2>3. f[k] = ScanBracket(s, a, k)
    BY <1>5, <2>2
  <2>4. g[k] = Ahead(a)
    BY <1>8, <2>1, <2>2
  <2>5. PICK b : b = Ahead(a) /\ g[k + 1] = ScanBracket(r, b, k + 1)
    BY <1>6, <2>1, <2>4
  <2> HIDE DEF T
  <2>6. b.state = Replied(a.state) /\ b.end = a.end + 1 /\ b.zone = a.zone /\ a.end \in Nat
    BY <2>5 DEF Ahead, ScanStates
  <2>7. r[k + 1] = s[k]
    BY <1>2
  <2>8. b.end = (k + 1) - 1 <=> a.end = k - 1
    BY <2>1, <2>6
  <2>9. InZone(r, b, k + 1) <=> InZone(s, a, k)
    BY <2>6, <2>7, <2>8 DEF InZone
  <2>10. CASE ~InZone(s, a, k)
    <3>1. f[k] = a /\ g[k + 1] = b
      BY <2>3, <2>5, <2>9, <2>10 DEF ScanBracket
    <3> QED BY <2>1, <2>5, <3>1 DEF T
  <2>11. CASE InZone(s, a, k)
    <3>1. PICK z \in BOOLEAN : z = (k < n /\ s[k + 1].kind = "bracket")
      OBVIOUS
    <3>2. f[k] = [state |-> PushAll(a.state, s[k].tags), end |-> k, zone |-> z]
      BY <1>1, <2>3, <2>11, <3>1 DEF ScanBracket
    <3>3. z = (k + 1 < n + 1 /\ r[(k + 1) + 1].kind = "bracket")
      <4>1. k < n <=> k + 1 < n + 1
        BY <2>1
      <4>2. k < n => k + 1 \in 1 .. n
        BY <1>1, <2>1
      <4>3. k < n => r[(k + 1) + 1] = s[k + 1]
        BY <1>2, <4>2
      <4> QED BY <3>1, <4>1, <4>3
    <3>4. g[k + 1] = [state |-> PushAll(Replied(a.state), s[k].tags), end |-> k + 1, zone |-> z]
      BY <1>2, <2>5, <2>6, <2>7, <2>9, <2>11, <3>3 DEF ScanBracket
    <3>5. PushAll(Replied(a.state), s[k].tags) = Replied(PushAll(a.state, s[k].tags))
      <4>1. a.state \in TagStates /\ s[k].tags \in Seq(STRING)
        BY <1>1 DEF ScanStates, Tokens
      <4> QED BY <4>1, PushAllIs
    <3>6. g[k + 1] = Ahead(f[k])
      BY <3>2, <3>4, <3>5 DEF Ahead
    <3> QED BY <2>1, <3>6 DEF T
  <2> QED BY <2>10, <2>11
<1>9. n \in T
  <2>1. n \in 0 .. n
    BY <1>1
  <2> HIDE DEF T
  <2> QED BY <1>7, <1>8, <2>1, StepInduction
<1>10. ScanBrackets(r) = Ahead(ScanBrackets(s))
  BY <1>5, <1>6, <1>9
<1>11. ScanBrackets(r).state = Replied(ScanBrackets(s).state)
  BY <1>10 DEF Ahead
<1>12. ExtractTags(r).found = Replied(ExtractTags(s).found)
  BY <1>11 DEF ExtractTags
<1> QED BY <1>2, <1>12 DEF Replied
=============================================================================
