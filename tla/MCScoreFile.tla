----------------------------- MODULE MCScoreFile -----------------------------
(* Small instances of ScoreFile; matches are interchangeable.              *)
EXTENDS ScoreFile, TLC

Symmetry == Permutations(Match)
==============================================================================
