------------------------------- MODULE Archive -------------------------------
(***************************************************************************)
(* What the archive of one mailing list promises, whatever writes it: the  *)
(* set of e-mails a reader finds in it only grows, and its resume point    *)
(* only moves forward, and never over an e-mail that is neither archived   *)
(* nor known to be unavailable (listed in __errors.csv or expired).  A     *)
(* reader that trusts the resume point therefore misses nothing.           *)
(***************************************************************************)
EXTENDS Naturals

CONSTANT MaxId   \* e-mails are numbered 1 .. MaxId

VARIABLES
    archived,    \* e-mails a reader finds in the archive
    unavailable, \* e-mails known not to be obtainable
    frontier     \* the resume point

vars == <<archived, unavailable, frontier>>

Init == archived = {} /\ unavailable = {} /\ frontier = 0

\* A file is finished: some e-mails appear in the archive at once.
Store ==
    /\ \E batch \in SUBSET (1 .. MaxId) : archived' = archived \cup batch
    /\ UNCHANGED <<unavailable, frontier>>

GiveUp ==
    /\ \E id \in 1 .. MaxId : unavailable' = unavailable \cup {id}
    /\ UNCHANGED <<archived, frontier>>

Advance ==
    /\ frontier' \in frontier .. MaxId
    /\ 1 .. frontier' \subseteq archived \cup unavailable
    /\ UNCHANGED <<archived, unavailable>>

Next == Store \/ GiveUp \/ Advance

Spec == Init /\ [][Next]_vars

=============================================================================
