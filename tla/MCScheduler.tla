----------------------------- MODULE MCScheduler -----------------------------
(* Values of Scheduler's constants for TLC. *)
EXTENDS Scheduler

\* One sweep over four lists.
OneShot == [mode |-> "consume", loopGroups |-> FALSE, tasks |-> <<"a", "b", "c", "d">>]

\* Sweep after sweep over three lists.
Rescanning == [mode |-> "consume", loopGroups |-> TRUE, tasks |-> <<"a", "b", "c">>]

\* Range mode over two lists, the indexes 1 to 3 of the first, 1 and 2 of the
\* second.  Rescans are configured; range mode ignores that.
Indexes == [mode |-> "range", loopGroups |-> TRUE, tasks |-> <<"a", "a", "a", "b", "b">>]

AllSettings  == {OneShot, Rescanning, Indexes}
RescanSetting == {Rescanning}

=============================================================================
