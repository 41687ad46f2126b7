------------------------------ MODULE Sampling ------------------------------
(***************************************************************************)
(* RandomSampler and sampleVertex: where the next vertex of a graph may be *)
(* tried.  Each axis draws from a distribution object built from its       *)
(* bounds, mean and deviation by reset(), which every change of these has  *)
(* to be followed by; some axes start with one distribution and change to  *)
(* another half way through a round.  A draw may be replaced by one along  *)
(* a passable direction, from a field that is kept while the robot stays,  *)
(* or be pulled towards the axis of exploration; then it is tested.        *)
(***************************************************************************)
EXTENDS CognitiveMap, Parameters

CONSTANT
    Span             \* bound: offsets a draw without bounds is followed to

-----------------------------------------------------------------------------
(* The distributions of a sampler.                                         *)

\* reset of an axis: the object of the distribution it has now.
ResetAxis(a) ==
    CASE a.pdf = "kUniform" -> [a EXCEPT !.uniform = a.min..a.max]
      [] a.pdf = "kNormal" -> [a EXCEPT !.normal = <<a.mean, a.std>>]
      [] a.pdf = "kCauchy" -> [a EXCEPT !.normal = <<0, a.std>>]
      [] OTHER -> a
Reset(sampler) == [i \in DOMAIN sampler |-> ResetAxis(sampler[i])]

\* Fault: the distribution is named and not built.
SetPDFNamed(a, pdf) == [a EXCEPT !.pdf = pdf]

SetPDF(a, pdf) == ResetAxis([a EXCEPT !.pdf = pdf])

\* The loops over the axes that change their distribution; Pitch is none.
ChangePDF(sampler, pdf) ==
    [i \in DOMAIN sampler |->
        IF i < 4 /\ sampler[i].init = "kNormalUniform" THEN SetPDF(sampler[i], pdf)
        ELSE sampler[i]]
Changes(sampler) == \E i \in 1..3 : sampler[i].init = "kNormalUniform"

\* RandomSamplerBase::setParams: the bounds of the space the mode names.
AxisParams(a, i, whole, around) ==
    LET space == IF a.mode = "kGlobal" THEN whole ELSE around
    IN  IF a.mode \notin {"kGlobal", "kLocal"} \/ a.pdf \in {"kCauchy", "kConst"} THEN a
        ELSE IF space.type = "kCuboid"
        THEN [a EXCEPT !.min = space.min[i], !.max = space.max[i]]
        ELSE [a EXCEPT !.min = -space.radius, !.max = space.radius]

\* setSTD: the deviations keep the proportions of the ranges, and are not a
\* number when there are none.
ScaleSTD(sampler, axes) ==
    LET range(i) == sampler[i].max - sampler[i].min
        larger == Max({0} \cup { range(i) : i \in axes })
    IN  [i \in DOMAIN sampler |->
            IF i \notin axes THEN sampler[i]
            ELSE [sampler[i] EXCEPT !.std =
                     IF larger = 0 THEN 0 ELSE (sampler[i].initStd * range(i)) \div larger]]

\* RandomSampler::setParams.
SetParams(sampler, whole, around) ==
    LET axes == {1, 2}
        bounded == [i \in DOMAIN sampler |->
                       IF i \in axes THEN AxisParams(sampler[i], i, whole, around) ELSE sampler[i]]
    IN  Reset(ScaleSTD(bounded, axes))

\* initializeParams.
InitialSampler(sampler, whole, around) == SetParams(ChangePDF(sampler, "kNormal"), whole, around)

\* generate: what an axis may draw, as an offset from the root, for all modes.
\* A normal draw is repeated while it is out of bounds, not for ever.
Offsets(a) ==
    CASE a.pdf = "kUniform" -> a.uniform
      [] a.pdf \in {"kNormal", "kCauchy"} -> Span
      [] a.pdf = "kConst" -> {a.const}
      [] OTHER -> {0}
Draws(sampler, root) ==
    { <<root[1] + x, root[2] + y>> : x \in Offsets(sampler[1]), y \in Offsets(sampler[2]) }

\* An axis that can be drawn from: its object is there, of what it is now,
\* and it is one the library defines.
Drawable(a) ==
    CASE a.pdf = "kUniform" -> a.uniform = a.min..a.max /\ a.uniform # {}
      [] a.pdf = "kNormal" -> a.normal = <<a.mean, a.std>> /\ a.std > 0
      [] a.pdf = "kCauchy" -> a.normal = <<0, a.std>> /\ a.std > 0
      [] OTHER -> a.pdf = "kConst"

-----------------------------------------------------------------------------
(* The field of passable directions.                                       *)

\* Points one long edge out from the robot, which the field is spread from.
FieldAnchors(from, around) ==
    {from} \cup { p \in Places : /\ Dist(from, p) = LargerOf(EdgeMax, 2 * EdgeMin)
                                 /\ InsideSpace(around, from, p)
                                 /\ PathFree(from, p, TRUE) /\ BoxFree(p) }

\* updatePassableDirectionField: the targets of all directions from all
\* anchors; their scores decide which are drawn how often.
DirectionField(from, around) ==
    { t \in Places :
        /\ Dist(from, t) > EdgeMin
        /\ InsideSpace(around, from, t)
        /\ \E anchor \in FieldAnchors(from, around) :
               anchor # t /\ Dist(anchor, t) <= 2 * EdgeMax /\ PathFree(anchor, t, TRUE) }

\* It is kept as long as the robot is where it was computed.
Field(field, from, around) ==
    IF field.at = <<from>> THEN field
    ELSE [at |-> <<from>>, targets |-> DirectionField(from, around)]

-----------------------------------------------------------------------------
(* sampleVertex.                                                           *)

Guided(switches) == switches.guidance /\ switches.ratio # "never"

\* samplePassableDirection, on the way to a target of the field.
GuidedDraws(field, root) == UNION { Between(root, t) : t \in field.targets } \ {root}

\* applyAxisBiasedSampling pulls the draw towards the root.
BiasedDraws(draws, root) == draws \cup UNION { Between(root, p) : p \in draws \cap Places }

\* What a try may give, of the exploration sampler and of another.
ExplorationDraws(settings, sampler, field, root) ==
    LET plain == Draws(sampler, root)
        guided == GuidedDraws(field, root)
        biased == BiasedDraws(plain, root)
    IN  CASE ~Guided(settings.switches) -> plain
          [] settings.switches.ratio = "always" -> IF guided = {} THEN biased ELSE guided
          [] OTHER -> biased \cup guided

\* sampleVertexCandidate, the tests of a try.  The space and the zones; and
\* every voxel around it is known to be free.
Admitted(settings, p, root, exploring) ==
    /\ p \in Places
    /\ InsideSpace(settings.global, settings.center, p)
    /\ exploring /\ settings.local.type = "kCylinder" => InsideSpace(settings.local, root, p)
    /\ exploring /\ settings.switches.geofence => FenceOK(p, p)
    /\ BoxFree(p)

\* What may come of it: the best of the first few tries that pass; it may
\* also be none, when some try does not.
SampleVertex(settings, draws, root, exploring) ==
    LET admitted == { p \in draws : Admitted(settings, p, root, exploring) }
    IN  { <<p>> : p \in admitted } \cup (IF admitted = draws THEN {} ELSE { <<>> })

=============================================================================
