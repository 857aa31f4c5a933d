----------------------------- MODULE GeoRouting -----------------------------
(***************************************************************************)
(* From a circle to shards and back (geo.rs, alert.rs, device.rs, and the  *)
(* circle predicate of db.rs), as operators.                               *)
(*                                                                         *)
(* The world is the sphere, in whole units of an angle: lat counts from    *)
(* the south pole, lon from the antimeridian (-180 and 180 are both        *)
(* allowed, as 0 and World), and a radius is the angle it spans, `ang' of  *)
(* the code.  Sin is a table of sines, in steps of half a unit, as         *)
(* multiples of 1/One; only comparisons are made of what is computed with  *)
(* it, so there are no roots and no inverse sines.                         *)
(***************************************************************************)
EXTENDS Integers, Sequences, FiniteSetsExt

CONSTANTS
  Cols, Rows,          \* cells around the world, and from south to north
  CellLon, CellLat,    \* cell_lon_deg and cell_lat_deg
  One, Sin,            \* Sin[x] / One is the sine of x half units
  MaxRadius,           \* 500 km
  MaxRingExpansion     \* MAX_RING_EXPANSION

World == Cols * CellLon
North == Rows * CellLat
Quarter == North \div 2

ASSUME GridAssumption ==
  /\ Cols \in Nat \ {0} /\ Rows \in Nat \ {0}
  /\ CellLon \in Nat \ {0} /\ CellLat \in Nat \ {0}
  /\ CellLon % 2 = 0 /\ CellLat % 2 = 0  \* the centre of a cell is a point
  /\ World = 2 * North
  /\ MaxRadius \in 1..Quarter /\ MaxRadius + CellLon + CellLat <= North
  /\ MaxRingExpansion \in Nat \ {0}

(* From 0 to a right angle *)
ASSUME SinAssumption ==
  /\ One \in Nat \ {0} /\ Sin \in [0..North -> 0..One]
  /\ Sin[0] = 0 /\ Sin[North] = One
  /\ \A x, y \in 0..North : x < y => Sin[x] < Sin[y]

Points == [lat : 0..North, lon : 0..World]
Cells == [row : 0..(Rows - 1), col : 0..(Cols - 1)]

(* Location::new *)
ValidLocation(p) == p.lat \in 0..North /\ p.lon \in 0..World

(* encode, cut to SHARD_PREFIX_LENGTH: the eastern and the northern edge    *)
(* belong to the last cell                                                  *)
ShardPrefixOf(p) ==
  [row |-> Min({p.lat \div CellLat, Rows - 1}), col |-> Min({p.lon \div CellLon, Cols - 1})]

(* decode *)
CenterOf(c) ==
  [lat |-> c.row * CellLat + CellLat \div 2, lon |-> c.col * CellLon + CellLon \div 2]

-----------------------------------------------------------------------------
(* The sphere *)

Abs(n) == IF n < 0 THEN -n ELSE n

(* The product of two fractions of One, rounded up *)
Times(a, b) == (a * b + One - 1) \div One

(* How far a latitude is from the equator, and the cosine there *)
FromEquator(lat) == Abs(lat - Quarter)
CosAt(angle) == Sin[2 * (Quarter - angle)]
CosOf(lat) == CosAt(FromEquator(lat))

(* The longitudes between two meridians, the shorter way around *)
Short(a, b) == Min({Abs(a - b), World - Abs(a - b)})

(* `a' of haversine_distance_meters, which grows with the distance *)
Haversine(p, q) ==
  LET s == Sin[Abs(p.lat - q.lat)]
      t == Sin[Short(p.lon, q.lon)]
  IN  s * s + Times(CosOf(p.lat), t) * Times(CosOf(q.lat), t)

(* haversine_distance_meters(p, q) <= distance *)
Within(distance, p, q) == Haversine(p, q) <= Sin[distance] * Sin[distance]

(* Alert::contains *)
InCircle(center, radius, p) == Within(radius, center, p)

(* All of them: none is farther north or south than the radius *)
PointsIn(center, radius) ==
  {p \in [lat : (0..North) \cap ((center.lat - radius)..(center.lat + radius)), lon : 0..World] :
     InCircle(center, radius, p)}

(* lon_extent_deg: asin of lon_ratio, or all the way around if the circle   *)
(* reaches a pole                                                           *)
LonExtent(lat, radius) ==
  IF Sin[2 * radius] >= CosOf(lat) THEN World
  ELSE Max({x \in 0..Quarter : Sin[2 * x] * CosOf(lat) <= Sin[2 * radius] * One})

-----------------------------------------------------------------------------
(* The shards of a circle *)

(* neighbors: the eight cells around one *)
Neighbors(c) ==
  {[row |-> (c.row + i + Rows) % Rows, col |-> (c.col + j + Cols) % Cols] : i, j \in {-1, 0, 1}} \ {c}

(* Mutant: the extent in longitude is "a flat meters-per-degree estimate" *)
RingsFlat(lat, radius) ==
  LET flat == IF CosOf(lat) = 0 THEN World ELSE (radius * One) \div CosOf(lat)
  IN  Max({radius \div CellLat + 1, flat \div CellLon + 1, 1})

(* "floor + 1 is the worst case when the center sits on a cell edge"; the   *)
(* extent in latitude is the radius                                         *)
RingsNeeded(lat, radius) ==
  Max({radius \div CellLat + 1, LonExtent(lat, radius) \div CellLon + 1, 1})

(* The search: after k rounds the cells at most k steps away *)
Visited(c, rings) ==
  LET after[k \in 0..rings] ==
        IF k = 0 THEN {c} ELSE after[k - 1] \cup UNION {Neighbors(d) : d \in after[k - 1]}
  IN  after[rings]

(* nearest_equator_lat: "measure the widest one the circle can touch" *)
NearestEquator(lat, radius) == Max({FromEquator(lat) - radius, 0})

(* cell_dims_meters and diagonal_buffer_m: "the larger of min side x sqrt2  *)
(* and the true half-diagonal", in whole units, rounded up; w and h are     *)
(* squares                                                                  *)
DiagonalBuffer(lat, radius) ==
  LET c == CosAt(NearestEquator(lat, radius))
      w == CellLon * CellLon * Times(c, c)
      h == CellLat * CellLat * One
  IN  Min({b \in 0..(CellLon + CellLat) : 4 * b * b * One >= Max({8 * Min({w, h}), w + h})})

(* "One cell of slack so cells that merely clip the circle are kept" *)
WithinBuffer(center, radius, c) ==
  Within(radius + DiagonalBuffer(center.lat, radius), center, CenterOf(c))

InvalidRadius(radius) == radius <= 0 \/ radius > MaxRadius

(* shard_prefixes_for_radius: {} stands for the errors, a circle that is    *)
(* accepted has the cell of its centre                                      *)
ShardPrefixesForRadius(center, radius) ==
  IF InvalidRadius(radius) \/ RingsNeeded(center.lat, radius) > MaxRingExpansion THEN {}
  ELSE {c \in Visited(ShardPrefixOf(center), RingsNeeded(center.lat, radius)) :
          WithinBuffer(center, radius, c)}

-----------------------------------------------------------------------------
(* The devices in a circle *)

(* bounding_boxes: one box, or two across the antimeridian.  The 0.1% it    *)
(* adds are less than a unit: they decide only where lo or hi would be on   *)
(* the antimeridian.  LonExtent is World where ratio >= 1.                  *)
BoundingBoxes(center, radius) ==
  LET south == center.lat - radius
      north == center.lat + radius
      dlon == LonExtent(center.lat, radius)
      lo == center.lon - dlon
      hi == center.lon + dlon
      box(minLon, maxLon) == [minLat |-> south, maxLat |-> north, minLon |-> minLon, maxLon |-> maxLon]
      whole == [minLat |-> Max({south, 0}), maxLat |-> Min({north, North}), minLon |-> 0, maxLon |-> World]
  IN  IF south <= 0 \/ north >= North \/ 2 * dlon >= World THEN <<whole>>
      ELSE IF lo <= 0 THEN <<box(lo + World, World), box(0, hi)>>
      ELSE IF hi >= World THEN <<box(lo, World), box(0, hi - World)>>
      ELSE <<box(lo, hi)>>

(* CircleParams and in_circle_sql: the latitudes of the first box, either   *)
(* range of longitudes, and the exact distance                              *)
InCircleSql(center, radius, p) ==
  LET boxes == BoundingBoxes(center, radius)
      second == IF Len(boxes) = 2 THEN boxes[2] ELSE [minLon |-> 1, maxLon |-> 0]
  IN  /\ p.lat \in boxes[1].minLat..boxes[1].maxLat
      /\ p.lon \in boxes[1].minLon..boxes[1].maxLon \/ p.lon \in second.minLon..second.maxLon
      /\ InCircle(center, radius, p)
=============================================================================
