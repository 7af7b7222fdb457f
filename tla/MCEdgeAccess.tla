---------------------------- MODULE MCEdgeAccess ----------------------------
(* EdgeAccess with a bound on how many admin operations are begun: the      *)
(* first MaxOverlapping whenever they like, the others when none runs.      *)
EXTENDS EdgeAccess, TLC
CONSTANTS MaxBegun, MaxOverlapping
VARIABLE begun

AdminSymmetry == Permutations(Admin)

BoundedInit == AccessInit /\ begun = 0

MayBegin == begun < MaxOverlapping \/ (begun < MaxBegun /\ \A a \in Admin : op[a] = IdleOp)

BoundedNext ==
    \/ MayBegin /\ AdminBegins /\ begun' = begun + 1
    \/ (ViewerNext \/ AdminContinues \/ AccessTick) /\ UNCHANGED begun

BoundedSpec == BoundedInit /\ [][BoundedNext]_<<accessVars, begun>>
=============================================================================
