---------------------------- MODULE MCPublicInbox ----------------------------
(* Values of PublicInbox's constants for TLC. *)
EXTENDS PublicInbox

\* The second commit of the first epoch holds no e-mail.
SecondBroken == {<<1, 2>>}
NoneBroken   == {}
=============================================================================
