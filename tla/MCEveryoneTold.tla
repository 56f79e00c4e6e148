--------------------------- MODULE MCEveryoneTold ---------------------------
(***************************************************************************)
(* Two issues of one type, and an organisation of two: the customer who    *)
(* asks for the report and a viewer.                                       *)
(***************************************************************************)
EXTENDS WeeklyReports

MCTypeOf == <<1, 1>>
MCFirstImpacts == <<2, 1>>
=============================================================================
