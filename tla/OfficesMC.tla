------------------------------- MODULE OfficesMC -------------------------------
(* Two offices; the second offers only the second profile, so that a saved *)
(* profile may be one that is not offered.                                 *)
EXTENDS Offices, TLC

CONSTANTS o1, o2, p1, p2

MCOffered == (o1 :> <<p1, p2>>) @@ (o2 :> <<p2>>)
===============================================================================
