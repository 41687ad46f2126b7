----------------------- MODULE ExplorationTree_proofs -----------------------
(***************************************************************************)
(* Safety of the behaviour tree's replies, for every number of retries and *)
(* every configuration of the planner.                                     *)
(***************************************************************************)
EXTENDS ExplorationTree, TLAPS

\* The leaves between which a reply is complete: it may be sent as it is.
Checks == {"idle", "LocalExpExhaustedCheck", "GlobalExpExhaustedCheck"}

\* The flag is up only from the local planner to the leaf that clears it, and
\* then the reply holds no local path.
ExhaustedInv ==
    /\ exhausted => node \in {"LocalExpExhaustedCheck", "GlobalExploration"}
    /\ exhausted /\ node = "LocalExpExhaustedCheck" => res.path # "local"
    /\ node = "GlobalExploration" => res.path # "local"

\* Homing runs only once it is decided, and so is a way home in a reply.
DecidedInv ==
    /\ node \in {"SubHoming", "MainHoming"} => decided
    /\ node \in Checks /\ res.path = "home" => decided

\* The flag of a complete reply agrees with its path.
FlagInv ==
    node \in Checks =>
        /\ res.path = "global" => res.fallback
        /\ res.path = "local" => ~res.fallback

IInv == TypeOK /\ ExhaustedInv /\ DecidedInv /\ FlagInv

USE TreeAssumption DEF TreeAssumption

\* A reply of the four shapes in the model has its fields.
LEMMA ReplyFields ==
    ASSUME NEW st \in StatusCodes, NEW path \in Paths, NEW fallback \in BOOLEAN
    PROVE  /\ Reply(st, path, fallback) \in
                  [status : StatusCodes, path : Paths, fallback : BOOLEAN]
           /\ Reply(st, path, fallback).status = st
           /\ Reply(st, path, fallback).path = path
           /\ Reply(st, path, fallback).fallback = fallback
  BY DEF Reply

\* plan() never yields a local path, leads home only with kHoming, and leaves
\* its flags well typed.
LEMMA PlanEnds ==
    ASSUME TypeOK,
           NEW tgt \in Targets, NEW t \in BOOLEAN,
           NEW st \in StatusCodes, NEW path \in Paths,
           GlobalPlan(tgt, t, st, path)
    PROVE  /\ path # "local"
           /\ path = "home" => st = "kHoming"
           /\ st \in {"kHoming", "kRepositioning"}
           /\ frontiers' \in BOOLEAN
           /\ target' \in Targets
  BY DEF GlobalPlan, TypeOK, Targets

\* The history stays well typed and remembers a decision.
LEMMA RecordTyped ==
    ASSUME TypeOK, NEW st, NEW path, Record(st, path)
    PROVE  /\ decided' \in BOOLEAN
           /\ decided' <=> (decided \/ st = "kHoming")
           /\ planned' \in BOOLEAN
  BY DEF Record, TypeOK

\* The failure counters stay within their range.
LEMMA CountersTyped ==
    ASSUME TypeOK, NEW r \in Retriers, Fails(r) \/ Succeeds(r)
    PROVE  failed' \in [Retriers -> 0..MaxTries + 1]
<1>1. ASSUME Succeeds(r) PROVE failed' \in [Retriers -> 0..MaxTries + 1]
  BY <1>1 DEF TypeOK, Succeeds
<1>2. ASSUME Fails(r) PROVE failed' \in [Retriers -> 0..MaxTries + 1]
  BY <1>2 DEF TypeOK, Fails
<1> QED
  BY <1>1, <1>2

\* The tree starts with nothing decided.
LEMMA InitEstablishes == Init => IInv
<1> SUFFICES ASSUME Init PROVE IInv
  OBVIOUS
<1>1. res \in [status : StatusCodes, path : Paths, fallback : BOOLEAN]
      /\ res.path = "none"
  <2>1. "kForward" \in StatusCodes /\ "none" \in Paths /\ FALSE \in BOOLEAN
    BY DEF StatusCodes, Paths
  <2> QED
    BY <2>1 DEF Init, Reply
<1>2. TypeOK
  <2>1. failed \in [Retriers -> 0..MaxTries + 1]
    BY DEF Init
  <2>2. stage \in Stages /\ target \in Targets /\ planned \in BOOLEAN
    BY DEF Init, Stages, Targets
  <2> QED
    BY <1>1, <2>1, <2>2, Zenon DEF Init, TypeOK
<1>3. ExhaustedInv /\ DecidedInv /\ FlagInv
  BY <1>1 DEF Init, ExhaustedInv, DecidedInv, FlagInv
<1> QED
  BY <1>2, <1>3 DEF IInv

\* Callbacks reach the idle node and leave the reply alone; only a new call
\* resets the history, and then no reply is complete any more.
LEMMA CallbacksPreserve ==
    ASSUME IInv, Callbacks
    PROVE  IInv'
<1> USE DEF IInv, treeVars, planVars
<1>1. CASE PlannerService
  <2>1. planned' \in BOOLEAN /\ node' \in Leaves /\ decided' \in BOOLEAN
    BY <1>1 DEF PlannerService, Leaves
  <2>2. TypeOK'
    BY <1>1, <2>1 DEF PlannerService, TypeOK
  <2>3. (ExhaustedInv /\ DecidedInv /\ FlagInv)'
    BY <1>1 DEF PlannerService, ExhaustedInv, DecidedInv, FlagInv, Checks
  <2> QED
    BY <2>2, <2>3
<1>2. CASE HomingService \/ CoordinatorStop
  <2>1. homingRequired' \in BOOLEAN
    BY <1>2 DEF HomingService, CoordinatorStop
  <2>2. UNCHANGED <<config, node, stage, failed, exhausted, res, planVars, decided, planned>>
    BY <1>2 DEF HomingService, CoordinatorStop
  <2>3. TypeOK'
    BY <2>1, <2>2 DEF TypeOK
  <2>4. (ExhaustedInv /\ DecidedInv /\ FlagInv)'
    BY <2>2 DEF ExhaustedInv, DecidedInv, FlagInv
  <2> QED
    BY <2>3, <2>4
<1>3. CASE PlannerStop \/ Drift
  <2>1. trig' \in BOOLEAN /\ target' \in Targets /\ frontiers' \in BOOLEAN
    BY <1>3 DEF PlannerStop, Drift, TypeOK, Targets
  <2>2. UNCHANGED <<config, node, treeVars, exhausted, res, decided, planned>>
    BY <1>3 DEF PlannerStop, Drift
  <2>3. TypeOK'
    BY <2>1, <2>2 DEF TypeOK
  <2>4. (ExhaustedInv /\ DecidedInv /\ FlagInv)'
    BY <2>2 DEF ExhaustedInv, DecidedInv, FlagInv
  <2> QED
    BY <2>3, <2>4
<1>4. CASE GlobalService
  <2>1. frontiers' \in BOOLEAN /\ target' \in Targets
    BY <1>4, PlanEnds DEF GlobalService, TypeOK, Targets
  <2>2. UNCHANGED <<config, node, treeVars, exhausted, res, trig, decided, planned>>
    BY <1>4 DEF GlobalService
  <2> QED
    BY <2>1, <2>2 DEF TypeOK, ExhaustedInv, DecidedInv, FlagInv
<1> QED
  BY <1>1, <1>2, <1>3, <1>4 DEF Callbacks

\* The leaf that checks whether it is time to return.
LEMMA HomingCheckPreserves ==
    ASSUME IInv, HomingCheck
    PROVE  IInv'
<1> USE DEF IInv, planVars
<1>1. UNCHANGED <<config, failed, homingRequired, exhausted, trig, target,
                  frontiers, planned>>
  BY DEF HomingCheck
<1>2. ~exhausted
  BY DEF HomingCheck, ExhaustedInv
<1>3. CASE node' = "MainHoming"
  <2>1. decided' = TRUE /\ stage' \in Stages
    BY <1>3 DEF HomingCheck, HaltExploration, TypeOK, Stages
  <2>2. res' \in [status : StatusCodes, path : Paths, fallback : BOOLEAN]
    BY <1>3, ReplyFields DEF HomingCheck, HomingRequired, HaltExploration, TypeOK, StatusCodes, Paths
  <2> QED
    BY <1>1, <1>2, <1>3, <2>1, <2>2
       DEF TypeOK, Leaves, ExhaustedInv, DecidedInv, FlagInv, Checks
<1>4. CASE node' # "MainHoming"
  <2>1. PICK path \in {"none", "home"} : res' = Reply("kHoming", path, res.fallback)
    BY <1>4 DEF HomingCheck, HomingRequired, HaltExploration
  <2>2. /\ stage' = stage /\ decided' = (stage = "homing")
        /\ node' = CASE stage = "local"  -> "LocalExploration"
                     [] stage = "global" -> "GlobalExploration"
                     [] stage = "homing" -> "SubHoming"
    BY <1>4 DEF HomingCheck, HaltExploration
  <2>3. res' \in [status : StatusCodes, path : Paths, fallback : BOOLEAN]
        /\ res'.path # "local"
    BY <2>1, ReplyFields DEF TypeOK, StatusCodes, Paths
  <2> QED
    BY <1>1, <1>2, <2>2, <2>3
       DEF TypeOK, Leaves, Stages, ExhaustedInv, DecidedInv, FlagInv, Checks
<1> QED
  BY <1>3, <1>4

\* What a local result must satisfy to keep the invariant.
LEMMA LocalResultSafe ==
    ASSUME IInv, node = "LocalExploration",
           NEW st \in StatusCodes, NEW path \in Paths, NEW fallback \in BOOLEAN,
           NEW ok \in BOOLEAN,
           LocalResult(st, path, fallback, ok),
           path = "local" => st = "kForward" /\ ~fallback,
           path = "home" => st = "kHoming",
           path = "global" => fallback,
           node' = "LocalExpExhaustedCheck"
    PROVE  /\ res' \in [status : StatusCodes, path : Paths, fallback : BOOLEAN]
           /\ exhausted' \in BOOLEAN
           /\ decided' \in BOOLEAN
           /\ planned' \in BOOLEAN
           /\ (ExhaustedInv /\ DecidedInv /\ FlagInv)'
<1>1. res' \in [status : StatusCodes, path : Paths, fallback : BOOLEAN]
      /\ res'.path = path /\ res'.fallback = fallback
  BY ReplyFields DEF LocalResult
<1>2. ~exhausted /\ exhausted \in BOOLEAN
  BY DEF IInv, ExhaustedInv, TypeOK
<1>3. exhausted' <=> (ok /\ (st # "kForward" \/ fallback))
  BY <1>2 DEF LocalResult
<1>4. exhausted' \in BOOLEAN
  BY DEF LocalResult
<1>5. /\ decided' \in BOOLEAN
      /\ decided' <=> (decided \/ st = "kHoming")
      /\ planned' \in BOOLEAN
  BY RecordTyped DEF LocalResult, IInv
<1> QED
  BY <1>1, <1>3, <1>4, <1>5 DEF ExhaustedInv, DecidedInv, FlagInv, Checks

\* The leaf that asks for a local path.
LEMMA LocalExplorationPreserves ==
    ASSUME IInv, LocalExploration
    PROVE  IInv'
<1> DEFINE Rest == /\ res' \in [status : StatusCodes, path : Paths, fallback : BOOLEAN]
                   /\ exhausted' \in BOOLEAN
                   /\ decided' \in BOOLEAN
                   /\ planned' \in BOOLEAN
                   /\ (ExhaustedInv /\ DecidedInv /\ FlagInv)'
<1>1. /\ node = "LocalExploration" /\ node' = "LocalExpExhaustedCheck"
      /\ UNCHANGED <<config, stage, failed, homingRequired>>
  BY DEF LocalExploration, treeVars
<1>2. ASSUME NEW path \in {"local", "none"}, NEW ok \in BOOLEAN,
             LocalResult("kForward", path, FALSE, ok)
      PROVE  Rest
  BY <1>1, <1>2, LocalResultSafe DEF StatusCodes, Paths
<1>3. ASSUME NEW path \in {"home", "none"}, LocalResult("kHoming", path, FALSE, TRUE)
      PROVE  Rest
  BY <1>1, <1>3, LocalResultSafe DEF StatusCodes, Paths
<1>4. ASSUME LocalResult("kAutoCustomPath", "none", FALSE, TRUE)
      PROVE  Rest
  BY <1>1, <1>4, LocalResultSafe DEF StatusCodes, Paths
<1>5. CASE BuildRefused
  <2>1. Rest
    BY <1>2, <1>5 DEF BuildRefused
  <2> QED
    BY <1>1, <1>5, <2>1 DEF BuildRefused, IInv, TypeOK, Leaves
<1>6. CASE BestPath
  <2>1. Rest
    BY <1>2, <1>3, <1>6 DEF BestPath
  <2> QED
    BY <1>1, <1>6, <2>1 DEF BestPath, IInv, TypeOK, Leaves, Targets
<1>7. CASE LocalFallback
  <2>1. PICK t \in BOOLEAN, st \in StatusCodes, path \in Paths :
             /\ trig' = t
             /\ GlobalPlan("none", t, st, path)
             /\ LocalResult(st, path, path # "none", path # "none" \/ st = "kHoming")
    BY <1>7 DEF LocalFallback
  <2>2. /\ path # "local"
        /\ path = "home" => st = "kHoming"
        /\ frontiers' \in BOOLEAN /\ target' \in Targets
    BY <2>1, PlanEnds DEF IInv, Targets
  <2>3. Rest
    BY <1>1, <2>1, <2>2, LocalResultSafe
  <2> QED
    BY <1>1, <2>1, <2>2, <2>3 DEF IInv, TypeOK, Leaves
<1>8. CASE LocalGivesUp
  <2>1. Rest
    BY <1>2, <1>4, <1>8 DEF LocalGivesUp
  <2> QED
    BY <1>1, <1>8, <2>1 DEF LocalGivesUp, IInv, TypeOK, Leaves, Targets
<1> QED
  BY <1>5, <1>6, <1>7, <1>8 DEF LocalExploration

\* The leaf that checks what the local planner has answered.
LEMMA LocalCheckPreserves ==
    ASSUME IInv, LocalExpExhaustedCheck
    PROVE  IInv'
<1> USE DEF IInv, LocalExpExhaustedCheck, planVars
<1>1. TypeOK'
  BY DEF TypeOK, Leaves, Stages
<1>2. (ExhaustedInv /\ DecidedInv /\ FlagInv)'
  BY DEF ExhaustedInv, DecidedInv, FlagInv, Checks
<1> QED
  BY <1>1, <1>2

\* The leaf that asks for a global path.
LEMMA GlobalExplorationPreserves ==
    ASSUME IInv, GlobalExploration
    PROVE  IInv'
<1>1. PICK st \in StatusCodes, path \in Paths :
           /\ GlobalPlan(target, trig, st, path)
           /\ Record(st, path)
           /\ Fails("GlobalExploration") \/ Succeeds("GlobalExploration")
           /\ \E code \in StatusCodes : GlobalReply(code, path)
           /\ node' \in {"idle", "GlobalExpExhaustedCheck"}
  BY DEF GlobalExploration, StatusCodes
<1>2. /\ path # "local"
      /\ path = "home" => st = "kHoming"
      /\ frontiers' \in BOOLEAN /\ target' \in Targets
  BY <1>1, PlanEnds DEF IInv, TypeOK
<1>3. /\ decided' \in BOOLEAN /\ planned' \in BOOLEAN
      /\ decided' <=> (decided \/ st = "kHoming")
  BY <1>1, RecordTyped DEF IInv
<1>4. failed' \in [Retriers -> 0..MaxTries + 1]
  BY <1>1, CountersTyped DEF IInv, Retriers
<1>5. /\ res' \in [status : StatusCodes, path : Paths, fallback : BOOLEAN]
      /\ res'.path = path
      /\ res'.fallback <=> path # "none"
  <2>1. PICK code \in StatusCodes : res' = Reply(code, path, path # "none")
    BY <1>1 DEF GlobalReply
  <2>2. (path # "none") \in BOOLEAN
    OBVIOUS
  <2> DEFINE flag == path # "none"
  <2>3. flag \in BOOLEAN /\ res' = Reply(code, path, flag)
    BY <2>1, <2>2
  <2> HIDE DEF flag
  <2>4. /\ res' \in [status : StatusCodes, path : Paths, fallback : BOOLEAN]
        /\ res'.path = path
        /\ res'.fallback = flag
    BY <2>3, ReplyFields
  <2> QED
    BY <2>4 DEF flag
<1>6. ~exhausted' /\ exhausted' \in BOOLEAN /\ UNCHANGED <<config, stage, homingRequired, trig>>
  BY DEF GlobalExploration
<1>7. TypeOK'
  BY <1>1, <1>2, <1>3, <1>4, <1>5, <1>6 DEF IInv, TypeOK, Leaves
<1>8. (ExhaustedInv /\ DecidedInv /\ FlagInv)'
  BY <1>1, <1>2, <1>3, <1>5, <1>6 DEF ExhaustedInv, DecidedInv, FlagInv, Checks
<1> QED
  BY <1>7, <1>8 DEF IInv

\* The leaf that checks what the global planner has answered.
LEMMA GlobalCheckPreserves ==
    ASSUME IInv, GlobalExpExhaustedCheck
    PROVE  IInv'
<1>1. PICK st \in StatusCodes, path \in Paths :
           /\ GlobalPlan(target, trig, st, path)
           /\ Record(st, path)
           /\ \/ st = "kHoming" /\ node' = "SubHoming" /\ stage' = "homing" /\ res' = res
              \/ /\ st # "kHoming" /\ node' = "idle" /\ stage' = "local"
                 /\ res' = [res EXCEPT !.status = "kAutoCustomPath"]
  BY DEF GlobalExpExhaustedCheck
<1>2. frontiers' \in BOOLEAN /\ target' \in Targets
  BY <1>1, PlanEnds DEF IInv, TypeOK
<1>3. /\ decided' \in BOOLEAN /\ planned' \in BOOLEAN
      /\ decided' <=> (decided \/ st = "kHoming")
  BY <1>1, RecordTyped DEF IInv
<1>4. /\ res' \in [status : StatusCodes, path : Paths, fallback : BOOLEAN]
      /\ res'.path = res.path /\ res'.fallback = res.fallback
  BY <1>1 DEF IInv, TypeOK, StatusCodes
<1>5. UNCHANGED <<config, failed, homingRequired, exhausted, trig>>
      /\ node = "GlobalExpExhaustedCheck"
  BY DEF GlobalExpExhaustedCheck
<1>6. TypeOK'
  BY <1>1, <1>2, <1>3, <1>4, <1>5 DEF IInv, TypeOK, Leaves, Stages
<1>7. (ExhaustedInv /\ DecidedInv /\ FlagInv)'
  BY <1>1, <1>3, <1>4, <1>5 DEF IInv, ExhaustedInv, DecidedInv, FlagInv, Checks
<1> QED
  BY <1>6, <1>7 DEF IInv

\* Both Homing leaves leave a way home or nothing in a decided reply.
LEMMA HomingPreserves ==
    ASSUME IInv, SubHoming \/ MainHoming
    PROVE  IInv'
<1>1. PICK r \in Retriers : Homing(r)
  BY DEF SubHoming, MainHoming, Retriers
<1>2. /\ res' \in [status : StatusCodes, path : Paths, fallback : BOOLEAN]
      /\ res'.path \in {"home", "none"}
  BY <1>1 DEF Homing, IInv, TypeOK, StatusCodes, Paths
<1>3. failed' \in [Retriers -> 0..MaxTries + 1]
  BY <1>1, CountersTyped DEF Homing, IInv
<1>4. /\ node \in {"SubHoming", "MainHoming"} /\ node' = "idle"
      /\ UNCHANGED <<config, homingRequired, exhausted, planVars, decided, planned>>
  BY DEF SubHoming, MainHoming
<1>5. stage' \in Stages
  BY DEF SubHoming, MainHoming, IInv, TypeOK, Stages
<1>6. TypeOK'
  BY <1>2, <1>3, <1>4, <1>5 DEF IInv, TypeOK, planVars
<1>7. (ExhaustedInv /\ DecidedInv /\ FlagInv)'
  BY <1>2, <1>4 DEF IInv, ExhaustedInv, DecidedInv, FlagInv, Checks
<1> QED
  BY <1>6, <1>7 DEF IInv

\* Every step keeps the invariant.
LEMMA StepPreserves == IInv /\ [Next]_vars => IInv'
<1> SUFFICES ASSUME IInv, [Next]_vars PROVE IInv'
  OBVIOUS
<1>1. CASE Callbacks
  BY <1>1, CallbacksPreserve
<1>2. CASE Tick
  BY <1>2, HomingCheckPreserves, LocalExplorationPreserves, LocalCheckPreserves,
     GlobalExplorationPreserves, GlobalCheckPreserves, HomingPreserves DEF Tick
<1>3. CASE UNCHANGED vars
  BY <1>3 DEF vars, treeVars, planVars, IInv, TypeOK, ExhaustedInv, DecidedInv, FlagInv
<1> QED
  BY <1>1, <1>2, <1>3 DEF Next

\* The strengthening is an invariant of every behaviour.
THEOREM Inductive == Spec => []IInv
  BY InitEstablishes, StepPreserves, PTL DEF Spec

\* Every variable keeps its type; in particular no failure counter passes the
\* number of tries by more than one.
THEOREM Typing == Spec => []TypeOK
<1>1. IInv => TypeOK
  BY DEF IInv
<1> QED
  BY <1>1, Inductive, PTL

\* An exhausted local graph never makes a later call discard a local path.
THEOREM ExhaustionConsumed == Spec => []ExhaustionIsConsumed
<1>1. IInv => ExhaustionIsConsumed
  BY DEF IInv, ExhaustedInv, ExhaustionIsConsumed
<1> QED
  BY <1>1, Inductive, PTL

\* No reply sends the robot home unless a leaf decided so in that call.
THEOREM HomeDecided == Spec => []HomeOnlyWhenDecided
<1>1. IInv => HomeOnlyWhenDecided
  BY DEF IInv, DecidedInv, HomeOnlyWhenDecided, Checks
<1> QED
  BY <1>1, Inductive, PTL

\* The fallback flag of a reply along the local graph or to a frontier is
\* right, however the calls before it ended.
THEOREM RepositioningFlagged == Spec => []RepositioningIsFlagged
<1>1. IInv => RepositioningIsFlagged
  BY DEF IInv, FlagInv, RepositioningIsFlagged, Checks
<1> QED
  BY <1>1, Inductive, PTL

=============================================================================
