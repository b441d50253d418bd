--------------------------- MODULE MCChannelTurn ---------------------------
(* Small channels for TLC: where each session lives, and what is alike. *)
EXTENDS ChannelTurn, TLC

CONSTANTS a1, a2, s1, s2, s3

OneSession == s1 :> a1
OneAdapter == s1 :> a1 @@ s2 :> a1
TwoAdapters == s1 :> a1 @@ s2 :> a2
ThreeSessions == s1 :> a1 @@ s2 :> a1 @@ s3 :> a2

Symmetry == Permutations(Conversations)
=============================================================================
