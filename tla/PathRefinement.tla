--------------------------- MODULE PathRefinement ---------------------------
(***************************************************************************)
(* improveFreePath: a path of the local graph, or one home, is moved away  *)
(* from obstacles before it is driven.  Short segments are joined; then    *)
(* each pose in turn is moved into the middle of the free corridor that    *)
(* modifyPath finds, a convex region among the obstacles.  Here the region *)
(* gives any cell near the pose, or the obstacles leave none: what the     *)
(* refinement promises must hold for every corridor.                       *)
(***************************************************************************)
EXTENDS CognitiveMap

CONSTANTS
    MinSegment,      \* kSegmentLenMin: shorter segments are joined
    SafetyReach      \* how far safety_extension lets a pose be moved

\* A path is a sequence of places; fenced is geofence_checking_enable.
Passes(p, q, fenced) == fenced => FenceOK(p, q)

\* A pose left out when the way past it is clear, unknown space included.
Joinable(path, i, fenced) ==
    /\ Dist(path[i], path[i + 1]) < MinSegment
    /\ PathFree(path[i], path[i + 2], FALSE)
    /\ Passes(path[i], path[i + 2], fenced)

\* The joining of short segments, from the front, until there are none.
JoinShort(path, fenced) ==
    LET joinable(s) == { i \in 1..(Len(s) - 2) : Joinable(s, i, fenced) }
        join(s, round) == IF joinable(s) = {} THEN s ELSE RemoveAt(s, Min(joinable(s)) + 1)
    IN  FoldLeft(join, path, [round \in DOMAIN path |-> round])

\* p1_parallel: the pose moved as the one before it was.
Shifted(from, p0, p1) == [k \in DOMAIN p1 |-> from[k] + p1[k] - p0[k]]

\* Where pose i may be moved from: beside the pose, or where it was, when the
\* way there from the pose before is known to be free.
Targets(path, i, from) ==
    LET beside == Shifted(from, path[i - 1], path[i])
        free(p) == p \in Places /\ PathFree(from, p, TRUE)
    IN  IF free(beside) THEN {beside} ELSE { p \in {path[i]} : free(p) }

\* modifyPath: what it may make of the target when it finds a corridor.
Modified(target) == { p \in Places : Dist(p, target) <= SafetyReach }

\* Fault: the way on to the next pose is not looked at.
ClearBehind(path, i, from, p, fenced) ==
    PathFree(from, p, TRUE) /\ Passes(from, p, fenced)

\* A pose may be moved when the way to it is clear, and the way on.
Clear(path, i, from, p, fenced) ==
    /\ PathFree(from, p, TRUE) /\ Passes(from, p, fenced)
    /\ i < Len(path) => /\ PathFree(p, path[i + 1], TRUE)
                        /\ Passes(p, path[i + 1], fenced)

\* One pose.  It keeps its place when no way to it is known to be free, or
\* no corridor is found, and nothing is checked then; it also does when the
\* place found is not clear, and the refinement has failed.
RefinePose(path, i, s, fenced) ==
    LET from == Last(s.poses)
        found == UNION { Modified(t) : t \in Targets(path, i, from) }
        clear == { p \in found : Clear(path, i, from, p, fenced) }
        kept(ok) == [poses |-> Append(s.poses, path[i]), ok |-> ok]
    IN  { kept(s.ok) }
        \cup { [poses |-> Append(s.poses, p), ok |-> s.ok] : p \in clear }
        \cup (IF found = clear THEN {} ELSE { kept(FALSE) })

\* improveFreePath: what it may return, [poses, ok].
ImproveFreePath(path, fenced) ==
    LET refined(joined) ==
            FoldLeft(LAMBDA S, i : UNION { RefinePose(joined, i, s, fenced) : s \in S },
                     { [poses |-> <<joined[1]>>, ok |-> TRUE] },
                     [i \in 1..(Len(joined) - 1) |-> i + 1])
        outcome(joined) == IF Len(joined) <= 2 THEN { [poses |-> path, ok |-> FALSE] }
                           ELSE refined(joined)
    IN  outcome(JoinShort(path, fenced))

=============================================================================
