----------------------------- MODULE Parameters -----------------------------
(***************************************************************************)
(* loadParams: what the planner node reads when it starts.  A parameter    *)
(* file is a record of blocks and a block a record of the keys it has.     *)
(* A key that is missing has a default, disables what needs it, or makes   *)
(* the node give up; and some keys change what others mean.                *)
(*                                                                         *)
(* The robot flies at one height: positions, spaces and the axes of the    *)
(* samplers are X and Y.  The ratios of setBoundMode are kept as integers. *)
(***************************************************************************)
EXTENDS Integers, Sequences

Has(block, key) == key \in DOMAIN block
Get(block, key, default) == IF Has(block, key) THEN block[key] ELSE default

\* A block the file does not have has no keys.
Block(file, name) == Get(file, name, [key \in {} |-> 0])

LesserOf(a, b) == IF a <= b THEN a ELSE b
Magnitude(a) == IF a < 0 THEN -a ELSE a

-----------------------------------------------------------------------------
(* BoundedSpaceParams.                                                     *)

SpaceLoads(block) ==
    \/ /\ Get(block, "type", "none") \in {"kCuboid", "kCylinder"}
       /\ Has(block, "min_val") /\ Has(block, "max_val")
    \/ Get(block, "type", "none") = "kSphere" /\ Has(block, "radius")

\* A cuboid has no radius and a sphere no corners: what is there is not set.
Space(block) ==
    LET min == Get(block, "min_val", <<0, 0>>)
        max == Get(block, "max_val", <<0, 0>>)
        inner == LesserOf(Magnitude(min[1]), Magnitude(max[1]))
    IN  [type |-> block.type, min |-> min, max |-> max,
         radius |-> IF block.type = "kCuboid" THEN 0 ELSE Get(block, "radius", inner)]

\* isInsideSpace after setCenter without the extensions.
InsideSpace(space, center, p) ==
    LET x == p[1] - center[1]
        y == p[2] - center[2]
    IN  IF space.type = "kCuboid"
        THEN /\ x >= space.min[1] /\ x <= space.max[1]
             /\ y >= space.min[2] /\ y <= space.max[2]
        ELSE x * x + y * y <= space.radius * space.radius

-----------------------------------------------------------------------------
(* One axis of a sampler.                                                  *)

Distributions == {"kUniform", "kNormal", "kCauchy", "kConst", "kNormalUniform"}
Truncating == {"kNormal", "kNormalUniform"}

\* RandomSamplerBase::loadParams.  A missing mode leaves the name of the
\* distribution in the string that is compared next: no mode has that name.
AxisLoads(block) ==
    LET pdf == Get(block, "pdf_type", "none")
        mode == Get(block, "sample_mode", "none")
        Needs(keys) == \A key \in keys : Has(block, key)
    IN  /\ pdf \in Distributions
        /\ mode \in {"kManual", "kLocal", "kGlobal", "kExploredMap"}
        /\ pdf \in Truncating => Needs({"std_val"})
        /\ mode = "kManual" =>
              CASE pdf = "kUniform" -> Needs({"min_val", "max_val"})
                [] pdf \in Truncating -> Needs({"mean_val"})
                [] pdf = "kConst" -> Needs({"const_val"})
                [] OTHER -> TRUE

\* An axis as loaded: its distribution objects are built by reset, a uniform
\* one as the values it gives.
Axis(block) ==
    [pdf |-> block.pdf_type, init |-> block.pdf_type, mode |-> block.sample_mode,
     min |-> Get(block, "min_val", 0), max |-> Get(block, "max_val", 0),
     mean |-> Get(block, "mean_val", 0), const |-> Get(block, "const_val", 0),
     std |-> Get(block, "std_val", 0), initStd |-> Get(block, "std_val", 0),
     uniform |-> {}, normal |-> <<>>]

Axes == <<"X", "Y", "Heading", "Pitch">>

\* RandomSampler::loadParams.
SamplerLoads(block) == \A i \in DOMAIN Axes : AxisLoads(Block(block, Axes[i]))
Sampler(block) == [i \in DOMAIN Axes |-> Axis(block[Axes[i]])]

-----------------------------------------------------------------------------
(* RobotParams and PlanningParams.                                         *)

\* RobotParams::loadParams; what else it reads has a default.
RobotLoads(block) ==
    \A key \in {"size", "size_extension_min", "safety_extension"} : Has(block, key)

\* PlanningParams::loadParams never refuses.  The keys that decide how a
\* round goes; the ranges and budgets are constants of the model.
Planning(block) ==
    [type |-> Get(block, "type", "kBasicExploration"),
     buildMode |-> Get(block, "exploration_graph_update_mode", "kBasic"),
     yawTangent |-> Get(block, "yaw_tangent_correction", FALSE),
     vertices |-> Get(block, "exploration_vertex_budget", 500),
     edges |-> Get(block, "exploration_edge_budget", 5000),
     cutoff |-> Get(block, "num_loops_cutoff", 1000),
     loops |-> Get(block, "num_loops_max", 10000)]

\* ... and those further down that switch its parts on and off.
Switches(block) ==
    [enhance |-> Get(block, "path_safety_enhance_enable", FALSE),
     geofence |-> Get(block, "geofence_checking_enable", FALSE),
     autoHoming |-> Get(block, "auto_homing_enable", FALSE),
     autoLanding |-> Get(block, "auto_landing_enable", FALSE),
     guidance |-> /\ Get(block, "passage_guided_sampling_enable", TRUE)
                  /\ ~Get(block, "disable_passage_guided_sampling", FALSE),
     ratio |-> Get(block, "passage_axis_sampling_ratio", "never"),
     fineGain |-> Get(block, "fine_gain_evaluation_enable", TRUE)]

-----------------------------------------------------------------------------
(* loadParams of the planner.                                              *)

\* What the node cannot do without.
Loads(file) ==
    /\ Has(file, "SensorParams")
    /\ RobotLoads(Block(file, "RobotParams"))
    /\ \A name \in {"Global", "Local", "LocalSearch"} : SpaceLoads(Block(file, name))
    /\ \A name \in {"SamplerForExploration", "SamplerForSearching"} :
           SamplerLoads(Block(file, name))

\* What it reads, after one setting has switched others off: no tangent yaw,
\* no path refinement; landing, no homing; no zones in the file, no zones.
Settings(file) ==
    LET block == Block(file, "PlanningParams")
        planning == Planning(block)
        switches == Switches(block)
    IN  [planning |-> planning,
         switches |->
            [switches EXCEPT
                !.enhance = @ /\ planning.yawTangent,
                !.autoHoming = @ /\ ~switches.autoLanding,
                !.geofence = @ /\ Has(file, "GeofenceParams")],
         global |-> Space(file["Global"]), center |-> <<0, 0>>,
         default |-> Space(file["Global"]),
         local |-> Space(file["Local"]),
         search |-> Space(file["LocalSearch"])]

\* setBoundMode: how many vertices and edges a round may add.  kExactBound
\* and kNoBound keep what the mode before them allowed.
Limits(planning, mode, before) ==
    CASE mode = "kExtendedBound" -> [vertices |-> planning.vertices, edges |-> planning.edges]
      [] mode = "kRelaxedBound" -> [vertices |-> (13 * planning.vertices) \div 10,
                                    edges |-> (13 * planning.edges) \div 10]
      [] mode = "kMinBound" -> [vertices |-> (169 * planning.vertices) \div 100,
                                edges |-> (169 * planning.edges) \div 100]
      [] OTHER -> before

=============================================================================
