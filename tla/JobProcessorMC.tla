---------------------------- MODULE JobProcessorMC ----------------------------
(* Instances of JobProcessor for TLC. *)
EXTENDS JobProcessor

CONSTANTS j1, j2

(* A job with one page next to one without any, and jobs of two pages.     *)
BlankToo == [j \in Jobs |-> IF j = j1 THEN 1 ELSE 0]
SomePages == [j \in Jobs |-> 2]
===============================================================================
