----------------------------- MODULE MCForkTest -----------------------------
(***************************************************************************)
(* Instances of ForkTest with 4 ways: no way stolen, 2 and 4 of them, an   *)
(* odd number, and one that the assertion rejects.                         *)
(***************************************************************************)
EXTENDS ForkTest

MCStealWayNums == {0, 1, 4, 5, 10}
MCOneNumber == {4}
MCTwo == {2}
MCTeams == {1, 2}
=============================================================================
