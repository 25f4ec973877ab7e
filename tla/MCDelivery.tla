----------------------------- MODULE MCDelivery -----------------------------
(***************************************************************************)
(* Scenarios for TLC.  Mixed requests block, are refused, break their      *)
(* connection and meet both shutdowns.  Broken ones find their connection  *)
(* unusable, both at once, with another request behind them.  Retried ones *)
(* have nothing but responses that cannot be decoded: five of them fill    *)
(* the ring of retries and one stream after a soft stop, seven make it     *)
(* wait for itself.                                                        *)
(***************************************************************************)
EXTENDS Delivery, TLC

CONSTANTS Mixed, Broken, Four, Three

Seven == Four \cup Three

MCRequests == Mixed \cup Broken \cup Seven

MCOutcomes ==
    [r \in Requests |-> (IF r \in Broken THEN {} ELSE {"badBody"})
                        \cup (IF r \in Seven THEN {} ELSE {"transportError"})]

Wedging == [requests |-> Seven, shutdowns |-> {}, streams |-> 1]

MCWedging == {Wedging}

MCScenarios ==
    { Wedging,
      [requests |-> Mixed, shutdowns |-> {"stop", "kill"}, streams |-> 2] }
    \cup { [requests |-> Four \cup {r}, shutdowns |-> {"stop"},
            streams |-> 1] : r \in Three }
    \cup { [requests |-> Broken \cup {r}, shutdowns |-> {},
            streams |-> 2] : r \in Three }

MCSymmetry == Permutations(Four) \cup Permutations(Three)
=============================================================================
