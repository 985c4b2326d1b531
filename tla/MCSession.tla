------------------------------ MODULE MCSession -----------------------------
(***************************************************************************)
(* An endpoint a, and j and k who hold codes of one invitation to it, join *)
(* and come back as members.                                               *)
(***************************************************************************)
EXTENDS Session, TLC

CONSTANTS a, inv

MCCode == [n \in Joiner |-> [peer |-> a, invitation |-> inv]]

MCLink == (Node \ {a}) \X {a}

\* The joiners differ in nothing.
Joiners == Permutations(Joiner)
=============================================================================
