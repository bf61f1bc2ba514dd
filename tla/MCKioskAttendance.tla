-------------------------- MODULE MCKioskAttendance --------------------------
(***************************************************************************)
(* Model-checking instance of KioskAttendance, and what a comment of the   *)
(* code says of the cap on breaks.                                         *)
(***************************************************************************)
EXTENDS KioskAttendance, TLC

MCEmailActions == {"check_in", "check_out"}

(* Request threads are interchangeable: nothing chooses among them.        *)
ThreadSymmetry == Permutations(Workers)

(* "max-breaks caps number of break_start records per check-in cycle"      *)
(* (services.py:52), for every cycle.                                      *)
BreakCapPerCycle ==
  \A p \in Participants : \A i \in Ids(p, {"check_in"}) :
    Cardinality(BreaksOfCycle(p, i)) <= MaxBreaks
=============================================================================
