----------------------------- MODULE Datetimes -----------------------------
(***************************************************************************)
(* Python's aware datetimes as the code uses them: offsets, equality and   *)
(* order.  A datetime is its zone, its wall time in hours and its fold.    *)
(* One zone, "UTC", is always at offset 0; the other, "civil", is at 0 in  *)
(* winter and 1 in summer, like Europe/London.                             *)
(***************************************************************************)
EXTENDS Integers

CONSTANTS Forward,   \* the wall hour that is left out in spring
          Back       \* the wall hour that comes twice in autumn

ASSUME SeasonAssumption == Forward \in Nat /\ Back \in Nat /\ Forward + 1 < Back

Zone == {"UTC", "civil"}
Datetimes(walls) == [zone : Zone, wall : walls, fold : {0, 1}]
Utc(hour) == [zone |-> "UTC", wall |-> hour, fold |-> 0]

OffsetAt(zone, wall, fold) ==
  IF zone = "UTC" \/ wall < Forward \/ wall > Back THEN 0
  ELSE IF wall = Forward THEN fold
  ELSE IF wall = Back THEN 1 - fold
  ELSE 1

\* d.utcoffset()
Offset(d) == OffsetAt(d.zone, d.wall, d.fold)

\* d.astimezone(UTC), which no two moments have in common
Moment(d) == d.wall - Offset(d)

\* Whether utcoffset() depends on fold, as it does in the hour that is left out or
\* comes twice.
DependsOnFold(d) == OffsetAt(d.zone, d.wall, 0) # OffsetAt(d.zone, d.wall, 1)

\* c == d in Python: within a zone the wall times are compared; across zones the
\* moments are, but a datetime whose offset depends on fold equals none (PEP 495).
EqualTimes(c, d) ==
  IF c.zone = d.zone THEN c.wall = d.wall
  ELSE ~DependsOnFold(c) /\ ~DependsOnFold(d) /\ Moment(c) = Moment(d)

\* _canonical_timestamp (audit/schema.py, registry/lifecycle.py) does not raise.
IsUtc(d) == Offset(d) = 0
=============================================================================
