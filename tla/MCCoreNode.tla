----------------------------- MODULE MCCoreNode -----------------------------
(***************************************************************************)
(* Two communities, 5 and 6.  The history of 5 forks at its genesis and is *)
(* merged by 1; the ids are ordered against causality, as hashes may be.   *)
(* Event 7 names community 5 but rests on the genesis of community 6,      *)
(* which is no CommunityCreate of the chat profile.                        *)
(***************************************************************************)
EXTENDS Archive

MCEvent == 1..7

MCParents == <<{2, 4}, {5}, {1}, {5}, {}, {}, {6}>>

MCHome == <<5, 5, 5, 5, 5, 6, 5>>

MCCreated == {5}
=============================================================================
