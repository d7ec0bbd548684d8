------------------------------- MODULE Iterators -------------------------------
(***************************************************************************)
(* What the methods filter, sort_by and sort of Rust's iterators and       *)
(* slices do to a sequence.  SelectSeq and SortSeq do the same, but are    *)
(* built into the proof system, which knows nothing about what they return.*)
(***************************************************************************)
EXTENDS Integers, Sequences, SequencesExt, FiniteSets

\* The positions of s, as enumerate counts them.
Positions(s) == [k \in DOMAIN s |-> k]

\* The elements that pass the test, in their order.
Filter(s, Test(_)) ==
    FlattenSeq([k \in DOMAIN s |-> IF Test(s[k]) THEN <<s[k]>> ELSE <<>>])

\* The elements in the order Before, of which no two are alike in it.
SortBy(s, Before(_, _)) ==
    CHOOSE t \in [DOMAIN s -> Range(s)] :
      /\ Range(t) = Range(s)
      /\ \A i, j \in DOMAIN t : i < j => Before(t[i], t[j])

\* The numbers of s in their order, each as often as it is there: less than
\* k of them are below the k-th, and k at least are not above it.
Sort(s) ==
    LET Below(x) == {j \in DOMAIN s : s[j] < x}
        UpTo(x)  == {j \in DOMAIN s : s[j] <= x}
    IN  [k \in DOMAIN s |-> CHOOSE x \in Range(s) :
           Cardinality(Below(x)) < k /\ k <= Cardinality(UpTo(x))]
=============================================================================
