-------------------------- MODULE MCEventIngestion --------------------------
(***************************************************************************)
(* Instances of EventIngestion for TLC.                                    *)
(***************************************************************************)
EXTENDS EventIngestion

CONSTANTS e1, e2, p1, p2, p3, malformed

\* e1 is sent malformed, then as it should be; e2 is reused for other content.
AllSent == {<<e1, p1>>, <<e1, malformed>>, <<e2, p2>>, <<e2, p3>>}

ReusedSent == {<<e2, p2>>, <<e2, p3>>}

\* Everything occurred in one month.
OneMonth == [p \in Payloads |-> 1]
=============================================================================
