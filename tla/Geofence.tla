------------------------------ MODULE Geofence ------------------------------
(***************************************************************************)
(* GeofenceManager, the list of areas the robot must not enter: the areas  *)
(* of the parameter file, merged when they overlap, and the exclusion      *)
(* zones that arrive while the robot explores.                             *)
(*                                                                         *)
(* The plane is a small grid and a polygon the set of unit squares it      *)
(* covers; zones are rectangles, and areas stay connected.                 *)
(***************************************************************************)
EXTENDS Naturals, Sequences, FiniteSets, SequencesExt

CONSTANTS
    Width, Height,    \* bounds: the grid
    MaxConfigured,    \* bound: areas of the parameter file
    MaxZones          \* bound: areas, merged ones included, in a behaviour

ASSUME GridAssumption ==
    {Width, Height, MaxConfigured, MaxZones} \subseteq Nat \ {0}

VARIABLES
    list,         \* geofence_list_
    idNum,        \* geofence_id_num_
    configured,   \* history: the areas of the parameter file still in force
    zones         \* history: [id, cells] of the zones added since and in force

vars == <<list, idNum, configured, zones>>

Cells == (1..Width) \X (1..Height)
Rectangles ==
    { (x1..x2) \X (y1..y2) : x1 \in 1..Width, x2 \in 1..Width,
                             y1 \in 1..Height, y2 \in 1..Height } \ {{}}

Apart(i, j) == IF i < j THEN j - i ELSE i - j

\* bg::intersects on closed polygons: a common corner is enough.
DoIntersect(A, B) ==
    \E a \in A, b \in B : Apart(a[1], b[1]) <= 1 /\ Apart(a[2], b[2]) <= 1

\* bg::union_ returns one polygon when the interiors or an edge meet.
UnionIsOne(A, B) ==
    \E a \in A, b \in B : Apart(a[1], b[1]) + Apart(a[2], b[2]) <= 1

TypeOK ==
    /\ list \in Seq([id : 0..(MaxZones - 1), cells : SUBSET Cells])
    /\ idNum \in 0..MaxZones
    /\ configured \subseteq Cells
    /\ zones \subseteq [id : 0..(MaxZones - 1), cells : SUBSET Cells]

-----------------------------------------------------------------------------
\* Fault: everything from the area on is erased.
RemoveTail(areas, id) ==
    LET at == { k \in DOMAIN areas : areas[k].id = id }
    IN  IF at = {} THEN areas
        ELSE SubSeq(areas, 1, (CHOOSE k \in at : \A m \in at : k <= m) - 1)

\* removeGeofenceAreaWithID erases the first area with that id.
RemoveWithID(areas, id) ==
    LET at == { k \in DOMAIN areas : areas[k].id = id }
    IN  IF at = {} THEN areas
        ELSE RemoveAt(areas, CHOOSE k \in at : \A m \in at : k <= m)

\* Fault: the number of areas serves as the new id.
NewIDBySize(areas, num) == Len(areas)

\* Fault: the counter is incremented before it is used.
NewIDPreIncrement(areas, num) == num + 1

\* generateNewID.
NewID(areas, num) == num

\* The first pair of areas, in the order of the two loops, that can be merged.
Mergeable(areas) ==
    { p \in (DOMAIN areas) \X (DOMAIN areas) :
        /\ p[1] < p[2]
        /\ DoIntersect(areas[p[1]].cells, areas[p[2]].cells)
        /\ UnionIsOne(areas[p[1]].cells, areas[p[2]].cells) }
FirstPair(pairs) ==
    CHOOSE p \in pairs :
        \A q \in pairs : p[1] < q[1] \/ (p[1] = q[1] /\ p[2] <= q[2])

\* One turn of mergeGeofenceAreas.  The union is pushed to the back and then
\* the two are removed by the ids found at i and at j; the first removal has
\* shifted the list by then, and j names the area after the one that was merged.
MergeFirst(state) ==
    IF Mergeable(state.areas) = {} THEN state
    ELSE LET p == FirstPair(Mergeable(state.areas))
             union == [id |-> NewID(state.areas, state.num),
                       cells |-> state.areas[p[1]].cells \cup state.areas[p[2]].cells]
             pushed == Append(state.areas, union)
             shifted == RemoveWithID(pushed, pushed[p[1]].id)
         IN  [areas |-> RemoveWithID(shifted, shifted[p[2]].id), num |-> state.num + 1]

\* mergeGeofenceAreas: until nothing can be merged.  Each turn leaves an area
\* less, so there are no more turns than areas.
Merge(state) == FoldLeft(LAMBDA s, area : MergeFirst(s), state, state.areas)

\* addGeofenceArea with merging.
AddMerged(state, cells) ==
    Merge([areas |-> Append(state.areas, [id |-> NewID(state.areas, state.num), cells |-> cells]),
           num |-> state.num + 1])

-----------------------------------------------------------------------------
\* loadParams adds the areas of AreaList in their order, merging each.
Init ==
    \E areas \in SeqOf(Rectangles, MaxConfigured) :
        LET loaded == FoldLeft(AddMerged, [areas |-> <<>>, num |-> 0], areas)
        IN  /\ loaded.num <= MaxZones
            /\ list = loaded.areas
            /\ idNum = loaded.num
            /\ configured = UNION { areas[k] : k \in DOMAIN areas }
            /\ zones = {}

\* addGeofenceAreas of the planner: an exclusion zone, never merged.
AddZone(cells) ==
    LET area == [id |-> NewID(list, idNum), cells |-> cells]
    IN  /\ idNum < MaxZones
        /\ list' = Append(list, area)
        /\ idNum' = idNum + 1
        /\ zones' = zones \cup {area}
        /\ UNCHANGED configured

\* removeGeofenceCallback: any id may be asked for, a configured area's too.
RemoveZone(id) ==
    /\ list' = RemoveWithID(list, id)
    /\ zones' = { z \in zones : z.id # id }
    /\ configured' = configured \ UNION { area.cells : area \in
                       { list[k] : k \in DOMAIN list } \ (zones \cup ToSet(list')) }
    /\ UNCHANGED idNum

\* Fault: the ids start again while the areas stay.
ClearIDsOnly ==
    /\ list' = list
    /\ idNum' = 0
    /\ configured' = {}
    /\ zones' = {}

\* clearExclusionZones installs a new manager: the configured areas go too.
ClearZones ==
    /\ list' = <<>>
    /\ idNum' = 0
    /\ configured' = {}
    /\ zones' = {}

Next ==
    \/ \E cells \in Rectangles : AddZone(cells)
    \/ \E id \in 0..(MaxZones - 1) : RemoveZone(id)
    \/ ClearZones

Spec == Init /\ [][Next]_vars

-----------------------------------------------------------------------------
(* What the planner asks before it adds a vertex or an edge.               *)

\* getCoordinateStatus, for a position in the interior of a square.
CoordinateStatus(cell) ==
    IF \E k \in DOMAIN list : cell \in list[k].cells THEN "kViolated" ELSE "kOK"

\* getBoxStatus: the closed box of the robot, here one square wide.
BoxStatus(cell) ==
    IF \E k \in DOMAIN list : DoIntersect(list[k].cells, {cell})
    THEN "kViolated" ELSE "kOK"

\* An id names one area: a removal by id takes the area that was meant.
IdsAreUnique == \A k, m \in DOMAIN list : list[k].id = list[m].id => k = m

\* Every exclusion zone in force is respected, whatever was merged, added,
\* removed or cleared before: no square of it, and no box that touches it,
\* is reported free.
ZonesAreRespected ==
    \A z \in zones, cell \in Cells :
        /\ cell \in z.cells => CoordinateStatus(cell) = "kViolated"
        /\ DoIntersect(z.cells, {cell}) => BoxStatus(cell) = "kViolated"

\* Merging and removing never close off a square that no area in force covers.
NothingElseIsClosed ==
    \A cell \in Cells :
        CoordinateStatus(cell) = "kViolated" =>
            cell \in configured \cup UNION { z.cells : z \in zones }

\* Merging says: union if intersect, then remove the old two.  The areas of
\* the parameter file stay closed after it.
ConfiguredAreasAreRespected ==
    \A cell \in configured : CoordinateStatus(cell) = "kViolated"

=============================================================================
