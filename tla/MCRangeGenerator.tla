-------------------------- MODULE MCRangeGenerator --------------------------
(***************************************************************************)
(* Numbers of 10 bits in units of 2^-12: pi/2 is 6432.  The steps are      *)
(* whole degrees, converted to radians and rounded as the page does.       *)
(***************************************************************************)
EXTENDS RangeGenerator

MCHalfPi == 6432
Radians(degrees) == Nearest((2 * MCHalfPi * degrees + 90) \div 180)
MCLatRanges == {[min |-> -MCHalfPi, max |-> MCHalfPi, step |-> Radians(d)] :
                    d \in {10, 15, 18, 20, 30, 45}}
MCLonRanges == {[min |-> -2 * MCHalfPi, max |-> 2 * MCHalfPi, step |-> Radians(d)] :
                    d \in {45, 60, 90}}

=============================================================================
