---------------------------- MODULE MCSubmission ----------------------------
(***************************************************************************)
(* Payloads for TLC: one has an APS only, one an APS and a map m of the    *)
(* application; two were made from one Raw with a map n, of which one has  *)
(* no APS; one is bytes.                                                   *)
(***************************************************************************)
EXTENDS Submission, TLC

CONSTANTS apsOnly, merged, twin, rawOnly, bytes, m, n

MCPayloads == {apsOnly, merged, twin, rawOnly, bytes}
MCApsMap == [p \in Payloads |-> CASE p = merged -> m
                                  [] p \in {twin, rawOnly} -> n
                                  [] OTHER -> Fresh]
MCAPSKeys == [p \in Payloads |->
                IF p \in {apsOnly, merged, twin} THEN {"badge"} ELSE {}]
MCRawKeys == [x \in Maps |-> {"alert"}]

MCSymmetry == Permutations(Callers)
=============================================================================
