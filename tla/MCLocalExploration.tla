------------------------- MODULE MCLocalExploration -------------------------
(***************************************************************************)
(* The corridor with a side room of MCRepositioning, and the parameter     *)
(* files the node may be started with: two that run, one for each style of *)
(* the shipped ones, and some that are refused.                            *)
(***************************************************************************)
EXTENDS LocalExploration

MCPlaces == (0..2) \X (0..1)
MCFree == MCPlaces \ { <<0, 1>> }
MCHome == <<1, 0>>
Apart(a, b) == IF a < b THEN b - a ELSE a - b
Within(a, b) == IF a < b THEN a..b ELSE b..a
Sign(a, b) == IF a < b THEN 1 ELSE IF a = b THEN 0 ELSE -1
MCDist(p, q) == Apart(p[1], q[1]) + Apart(p[2], q[2])
MCBetween(p, q) == Within(p[1], q[1]) \X Within(p[2], q[2])
MCBearing(p, q) == <<Sign(p[1], q[1]), Sign(p[2], q[2])>>
MCSpan == -2..2
MCZones == { { <<1, 0>> } }
MCSavedMaps == {}
MCSemanticPlaces == {}
MCBudgets == {0, 1, 9}
MCModes == {"kMinBound", "kExactBound"}
MCBounds == { << <<0, 0>>, <<2, 2>> >> }
MCSearchTargets == { <<1, 1>>, <<0, 1>> }

-----------------------------------------------------------------------------
Wide == [type |-> "kCuboid", min_val |-> <<0, 0>>, max_val |-> <<4, 2>>]
Around2 == [type |-> "kCuboid", min_val |-> <<-2, -1>>, max_val |-> <<2, 1>>]
Round2 == [type |-> "kCylinder", min_val |-> <<-2, -2>>, max_val |-> <<2, 2>>]

Normal == [pdf_type |-> "kNormalUniform", sample_mode |-> "kLocal", std_val |-> 4]
Uniform == [pdf_type |-> "kUniform", sample_mode |-> "kLocal"]
Turn == [pdf_type |-> "kUniform", sample_mode |-> "kManual", min_val |-> -3, max_val |-> 3]
Level == [pdf_type |-> "kConst", sample_mode |-> "kManual", const_val |-> 0]
Axes4(axis) == [X |-> axis, Y |-> axis, Heading |-> Turn, Pitch |-> Level]

Robot == [size |-> 1, size_extension_min |-> 0, safety_extension |-> 1]

\* As the caves and the tunnels are explored.
Cave ==
    [SensorParams |-> [VLP16 |-> 1], RobotParams |-> Robot, Global |-> Wide, Local |-> Around2,
     LocalSearch |-> Around2,
     SamplerForExploration |-> Axes4(Normal), SamplerForSearching |-> Axes4(Uniform),
     PlanningParams |->
        [yaw_tangent_correction |-> TRUE, path_safety_enhance_enable |-> TRUE,
         auto_homing_enable |-> TRUE, passage_axis_sampling_ratio |-> "sometimes",
         exploration_vertex_budget |-> 3, exploration_edge_budget |-> 3,
         num_loops_cutoff |-> 1, num_loops_max |-> 2]]

\* With zones, landing, a round space and one distribution.
Plain ==
    [SensorParams |-> [VLP16 |-> 1], RobotParams |-> Robot, Global |-> Wide, Local |-> Round2,
     LocalSearch |-> Around2, GeofenceParams |-> [AreaList |-> 0],
     SamplerForExploration |-> Axes4(Uniform), SamplerForSearching |-> Axes4(Uniform),
     PlanningParams |->
        [geofence_checking_enable |-> TRUE, auto_landing_enable |-> TRUE,
         auto_homing_enable |-> TRUE, path_safety_enhance_enable |-> TRUE,
         exploration_vertex_budget |-> 3, exploration_edge_budget |-> 2,
         num_loops_cutoff |-> 2, num_loops_max |-> 2]]

\* Files of which a part the node cannot do without is missing.
Without(file, key) == [k \in DOMAIN file \ {key} |-> file[k]]
MCFiles ==
    { Cave, Plain,
      Without(Cave, "SensorParams"), Without(Cave, "LocalSearch"),
      [Cave EXCEPT !.RobotParams = Without(Robot, "size")],
      [Cave EXCEPT !.Local = [type |-> "kSphere", min_val |-> <<0, 0>>]],
      [Cave EXCEPT !.SamplerForExploration.X = Without(Normal, "std_val")],
      [Cave EXCEPT !.SamplerForSearching.Heading = Without(Turn, "min_val")],
      [Cave EXCEPT !.SamplerForSearching.Pitch = Without(Level, "sample_mode")] }
=============================================================================
