--------------------------- MODULE RangeGenerator ---------------------------
(***************************************************************************)
(* GenerateFromRange of the editor: two nested loops that add the step to  *)
(* a floating-point number until it passes the end of the range by more    *)
(* than a tolerance.  What it puts into the table is later checked by Save *)
(* against the exact ends.                                                 *)
(*                                                                         *)
(* A double is an integer number of small units with Precision significant *)
(* bits; a sum is rounded to the nearest such number, ties to even, as     *)
(* IEEE arithmetic does with 53 bits.                                      *)
(***************************************************************************)
EXTENDS Integers

CONSTANTS
    Precision,          \* significant bits of a number
    HalfPi,             \* Math.PI / 2.0
    ToleranceDivisor,   \* 1e9: a step's tolerance is step * 1e-9
    LatRanges,          \* ranges a user may enter: [min, max, step]
    LonRanges

VARIABLES
    latRange, lonRange, \* what was entered
    lat, lon,           \* the loop variables
    point,              \* the point added last
    phase               \* "start", "loop", "generated" or "warned"

vars == <<latRange, lonRange, lat, lon, point, phase>>

Abs(x) == IF x < 0 THEN -x ELSE x

\* The distance of numbers of the size of x: a power of two.
Ulp(x) == CHOOSE u \in {2^k : k \in 0 .. 20} :
            /\ Abs(x) < u * 2^Precision
            /\ u = 1 \/ Abs(x) >= (u \div 2) * 2^Precision

Nearest(x) ==
    LET u == Ulp(x)
        q == Abs(x) \div u
        rest == 2 * (Abs(x) % u)
        up == rest > u \/ (rest = u /\ q % 2 = 1)
        n == (IF up THEN q + 1 ELSE q) * u
    IN  IF x < 0 THEN -n ELSE n

Plus(x, y) == Nearest(x + y)

\* rangeMax + rangeStep * 1e-9
End(range) == Plus(range.max, Nearest(range.step \div ToleranceDivisor))

NoPoint == [lat |-> 0, lon |-> 0]

Init ==
    /\ latRange \in LatRanges
    /\ lonRange \in LonRanges
    /\ lat = 0 /\ lon = 0
    /\ point = NoPoint
    /\ phase = "start"

-----------------------------------------------------------------------------
\* The checks before the loops.
GenerateFromRange ==
    /\ phase = "start"
    /\ IF \/ latRange.min < -HalfPi \/ latRange.max > HalfPi
          \/ lonRange.min < -2 * HalfPi \/ lonRange.max > 2 * HalfPi
          \/ latRange.step <= 0 \/ lonRange.step <= 0
       THEN phase' = "warned" ELSE phase' = "loop"
    /\ lat' = latRange.min
    /\ lon' = lonRange.min
    /\ UNCHANGED <<latRange, lonRange, point>>

\* The body of the inner loop.
AddPoint ==
    /\ phase = "loop"
    /\ lat <= End(latRange) /\ lon <= End(lonRange)
    /\ point' = [lat |-> lat, lon |-> lon]
    /\ lon' = Plus(lon, lonRange.step)
    /\ UNCHANGED <<latRange, lonRange, lat, phase>>

NextLatitude ==
    /\ phase = "loop"
    /\ lat <= End(latRange) /\ lon > End(lonRange)
    /\ lat' = Plus(lat, latRange.step)
    /\ lon' = lonRange.min
    /\ UNCHANGED <<latRange, lonRange, point, phase>>

\* The points become the table, if there are any.
ShowTable ==
    /\ phase = "loop"
    /\ lat > End(latRange)
    /\ phase' = IF latRange.min <= End(latRange) /\ lonRange.min <= End(lonRange)
                THEN "generated" ELSE "warned"
    /\ UNCHANGED <<latRange, lonRange, lat, lon, point>>

Next == GenerateFromRange \/ AddPoint \/ NextLatitude \/ ShowTable

Spec == Init /\ [][Next]_vars

-----------------------------------------------------------------------------
\* "Every latitude must be between -pi/2 and pi/2 radians, every longitude
\* between -pi and pi radians": a point that is generated from a range that
\* was accepted is one that Save accepts.
GeneratedPointsAreValid ==
    /\ -HalfPi <= point.lat /\ point.lat <= HalfPi
    /\ -2 * HalfPi <= point.lon /\ point.lon <= 2 * HalfPi

=============================================================================
