----------------------------- MODULE MCResolver -----------------------------
(***************************************************************************)
(* One community, created by the owner o in event 10.  Both a and b redeem *)
(* invitation 4.  Event 3 makes a an administrator while, concurrently, 1  *)
(* removes a; 6 hands the community to a while 7 has a remove the owner,   *)
(* and 15 has a, once in charge, revoke o.  Invitation 8 lets a back in    *)
(* (12) after the removal; the message 14 is concurrent with the removal.  *)
(* Event 13 names another community, 5 does not decode.  Every subset is   *)
(* resolved, the ones with missing parents or invitations too.             *)
(***************************************************************************)
EXTENDS Resolver

CONSTANTS o, a, b

MCEvent == 1..15

MCParents == <<{9}, {4}, {9}, {10}, {3, 11}, {3}, {3}, {9}, {10}, {}, {10}, {1, 8}, {10},
               {9, 11}, {6}>>

MCHome == [e \in MCEvent |-> IF e = 13 THEN 4 ELSE 10]

MCUser == {o, a, b}

MCAuthor == <<o, b, o, o, a, o, a, o, a, o, o, a, o, a, a>>

Says(kind, subject) == [kind |-> kind, subject |-> subject, sound |-> TRUE]

MCPayload ==
    <<Says("remove", a), Says("accept", 4), Says("grant", a), Says("invite", None),
      Says("other", None), Says("transfer", a), Says("remove", o), Says("invite", None),
      Says("accept", 4), Says("create", None), Says("channel", 11), Says("accept", 8),
      Says("channel", 13), Says("message", 11), Says("revoke", o)>>
=============================================================================
