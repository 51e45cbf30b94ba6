------------------------------- MODULE Clock -------------------------------
(***************************************************************************)
(* The clock of the machine, as gettimeofday, alarm and the stamps of      *)
(* files see it: it counts 1/Unit seconds and never goes back.             *)
(***************************************************************************)
EXTENDS Integers

CONSTANTS Unit,      \* readings of the clock in a second
          Start      \* the reading at the start of a behaviour

ASSUME ClockAssumption == Unit \in Nat \ {0} /\ Start \in Nat

VARIABLE now

(* The two fields of a struct timeval *)
tv_sec(t)  == t \div Unit
tv_usec(t) == t % Unit
============================================================================
