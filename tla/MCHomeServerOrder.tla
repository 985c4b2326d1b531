-------------------------- MODULE MCHomeServerOrder --------------------------
(***************************************************************************)
(* The owner declares a home server in event 3 and, on another replica     *)
(* that has seen channel 2 but not 3, another one in event 1.              *)
(***************************************************************************)
EXTENDS Resolver

CONSTANT o

MCEvent == 1..4

MCParents == <<{2}, {4}, {4}, {}>>

MCHome == [e \in MCEvent |-> 4]

MCAuthor == [e \in MCEvent |-> o]

Says(kind, subject) == [kind |-> kind, subject |-> subject, sound |-> TRUE]

MCPayload ==
    <<Says("home", None), Says("channel", 2), Says("home", None), Says("create", None)>>
=============================================================================
