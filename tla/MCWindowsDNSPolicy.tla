------------------------- MODULE MCWindowsDNSPolicy -------------------------
(***************************************************************************)
(* Two or three runs of the program on one machine.                        *)
(***************************************************************************)
EXTENDS WindowsDNSPolicy

MCAnythingFails == AllFaults
MCLeavesEarly == {"register", "interrupt"}

=============================================================================
