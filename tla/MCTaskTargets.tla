---------------------------- MODULE MCTaskTargets ----------------------------
(* Three addresses; ranges that overlap, repeat an end, or run backwards. *)
EXTENDS TaskTargets

MCRanges == {<<1, 2>>, <<2, 3>>, <<2, 2>>, <<3, 1>>}
=============================================================================
