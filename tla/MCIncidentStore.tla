--------------------------- MODULE MCIncidentStore --------------------------
(* Three products about two incidents: a warning for both, a routine update  *)
(* of the first, and a product that cancels a part of the first, continues   *)
(* the rest with a later end, and has a test line about the second.  The     *)
(* metadata of a fourth product cannot be prepared.                          *)
EXTENDS IncidentStore

Line(key, operational, action, end) ==
    [key |-> key, operational |-> operational, action |-> action, end |-> end]

FourProducts ==
    << <<Line(1, TRUE, "NEW", 1), Line(2, TRUE, "NEW", 1)>>,
       <<Line(1, TRUE, "ROU", 1), Line(2, TRUE, "COR", 0)>>,
       <<Line(1, TRUE, "CAN", 1), Line(1, TRUE, "CON", 2), Line(2, FALSE, "CAN", 1)>>,
       <<>> >>

TheirStamps == <<1, 2, 3, 3>>
=============================================================================
