-------------------------- MODULE FragmentGrouping ---------------------------
(***************************************************************************)
(* group_fragments (src/src/worker/services/fragment_grouping.py) with     *)
(* balloon_join: the fragments of one balloon, or of one panel, become     *)
(* regions.  Fragments that are close form components; a component the     *)
(* owner veto rejects is cut and judged again, one that covers too much of *)
(* the page is grouped again with half the budget; inside a balloon, pairs *)
(* of groups are then joined under a larger budget.                        *)
(*                                                                         *)
(* Boxes have whole coordinates and their distances are computed.  What    *)
(* the owner decision (owner_assignment.py), the waist of the balloon    *)
(* and its walls say is given with the scene.  The order of groups and of  *)
(* the pieces in a group is left out: merge_ocr_regions sorts them.        *)
(***************************************************************************)
EXTENDS Integers, FiniteSets, Functions

CONSTANTS Fragment,
          Scenes,         \* boxes, and what is not computed from them
          Budget,         \* threshold_ratio, in units of MIN_THRESHOLD_RATIO
          Unit,           \* units in one character, 20
          JoinBudget,     \* OCR_BALLOON_JOIN_BUDGET
          MaxLines,       \* OCR_BALLOON_JOIN_MAX_LINES
          MaxArea         \* component_max_area_fraction of the page area

VARIABLES pc,
          scene,
          groups,
          joined,         \* joined_any
          decision        \* the group whose owner decision a fragment carries

vars == <<pc, scene, groups, joined, decision>>

IsPartition(P, c) == UNION P = c /\ {} \notin P /\ \A A, B \in P : A = B \/ A \cap B = {}

(* What the proofs take for granted: owner_split answers None, which is {}, or
   with each piece of the component in one part. *)
GroupingAssumption ==
    /\ IsFiniteSet(Fragment) /\ Budget \in Nat /\ JoinBudget \in Nat
    /\ \A s \in Scenes, c \in SUBSET Fragment : s.parts[c] = {} \/ IsPartition(s.parts[c], c)

Low(S) == CHOOSE x \in S : \A y \in S : x <= y
High(S) == CHOOSE x \in S : \A y \in S : x >= y
Singly(c) == {{f} : f \in c}

X(f) == scene.box[f].x
Y(f) == scene.box[f].y
W(f) == scene.box[f].w
H(f) == scene.box[f].h
Width(c) == High({X(f) + W(f) : f \in c}) - Low({X(f) : f \in c})
Height(c) == High({Y(f) + H(f) : f \in c}) - Low({Y(f) : f \in c})

Overlap(a, la, b, lb) == Low({a + la, b + lb}) - High({a, b})

(* resolve_vertical: boxes clearly longer than wide (6 : 5) vote with their
   longer side; without a majority of 3 in 5 the binding direction stands. *)
Vertical(S) ==
    LET tall == {f \in S : 5 * H(f) >= 6 * W(f)}
        wide == {f \in S : 5 * W(f) >= 6 * H(f)}
        t == SumFunction([f \in tall |-> H(f)])
        w == SumFunction([f \in wide |-> W(f)])
    IN  IF t + w = 0 THEN scene.binding
        ELSE IF 5 * t >= 3 * (t + w) THEN TRUE
        ELSE IF 5 * w >= 3 * (t + w) THEN FALSE
        ELSE scene.binding

(* _should_merge: on each axis the boxes overlap or the gap is within budget.
   A character is the average size of the fragments of the call. *)
ShouldMerge(f, g, S, budget) ==
    LET x == Overlap(X(f), W(f), X(g), W(g))
        y == Overlap(Y(f), H(f), Y(g), H(g))
        width == SumFunction([e \in S |-> W(e)])
        height == SumFunction([e \in S |-> H(e)])
        Within(overlap, sum) == -overlap * Unit * Cardinality(S) <= sum * budget
    IN  /\ x > 0 \/ Within(x, width)
        /\ y > 0 \/ Within(y, IF Vertical(S) THEN width ELSE height)

(* _boxes_overlap: one block, with no white space between the two. *)
BoxesOverlap(f, g) ==
    LET x == Overlap(X(f), W(f), X(g), W(g))
        y == Overlap(Y(f), H(f), Y(g), H(g))
    IN  /\ x >= 0 /\ y >= 0
        /\ 2 * x >= Low({W(f), W(g)}) \/ 2 * y >= Low({H(f), H(g)})

(* _waist_veto: the balloon is too narrow between two boxes that are apart. *)
WaistVeto(f, g) == {f, g} \in scene.waist /\ ~BoxesOverlap(f, g)

(* _connected_components of what distance joins and no waist keeps apart: the
   smallest sets that no edge leaves. *)
Components(S, budget) ==
    LET edges == {e \in S \X S : ShouldMerge(e[1], e[2], S, budget) /\ ~WaistVeto(e[1], e[2])}
        Closed(c) == \A e \in edges : e[1] \in c <=> e[2] \in c
        closed == {c \in (SUBSET S) \ {{}} : Closed(c)}
    IN  {c \in closed : \A d \in closed : d \subseteq c => d = c}

Vetoed(c) == Cardinality(c) > 1 /\ c \in scene.vetoed     \* owner_veto

Oversized(c) == Cardinality(c) > 1 /\ Width(c) * Height(c) > MaxArea

(* _split_oversized: half the budget, until every piece fits or the budget is
   less than its floor.  The owner veto is not asked again. *)
SplitOversized(component, budget) ==
    LET pieces[b \in 0 .. budget] == [c \in SUBSET component |->
            LET Pieces(p) == IF Oversized(p) THEN pieces[b \div 2][p] ELSE {p}
            IN  IF b \div 2 < 1 THEN Singly(c)
                ELSE UNION {Pieces(p) : p \in Components(c, b \div 2)}]
    IN  pieces[budget][component]

(* mistake: the parts of a rejected component are taken as they are *)
PartsUnjudged(c, bounded) == scene.parts[c]

(* The parts of a rejected component are judged in their turn. *)
Parts(c, bounded) == UNION {bounded[p] : p \in scene.parts[c]}

(* owner_split has a proposal that makes the pieces smaller. *)
CanSplit(c) ==
    /\ Cardinality(c) > 2
    /\ Cardinality(scene.parts[c]) \in 2 .. Cardinality(c) - 1

(* mistake: what is too large stays *)
BoundUnsized(c, budget) == {c}

Bound(c, budget) == IF Oversized(c) THEN SplitOversized(c, budget) ELSE {c}

(* _bound_components for one component. *)
BoundComponent(component, budget) ==
    LET bounded[c \in SUBSET component] ==
            IF ~Vetoed(c) THEN Bound(c, budget)
            ELSE IF CanSplit(c) THEN Parts(c, bounded)
            ELSE Singly(c)
    IN  bounded[component]

(* group_fragments without the join. *)
GroupFragments(S, budget) == UNION {BoundComponent(c, budget) : c \in Components(S, budget)}

(* attach_live_owner_decisions, called with each component the veto is asked
   about: the smallest one a fragment is in comes last. *)
Judged(component) ==
    LET judged[c \in SUBSET component] ==
            {c} \cup (IF Vetoed(c) /\ CanSplit(c) THEN UNION {judged[p] : p \in scene.parts[c]} ELSE {})
    IN  judged[component]

LastJudged(f, components) ==
    LET about == {c \in UNION {Judged(k) : k \in components} : f \in c}
    IN  CHOOSE c \in about : \A d \in about : c \subseteq d
-----------------------------------------------------------------------------
Init ==
    /\ pc = "group"
    /\ scene \in Scenes
    /\ groups = {Fragment}
    /\ joined = FALSE
    /\ decision = [f \in Fragment |-> {}]

Group ==
    /\ pc = "group"
    /\ groups' = GroupFragments(Fragment, Budget)
    /\ decision' = [f \in Fragment |-> LastJudged(f, Components(Fragment, Budget))]
    /\ pc' = IF scene.balloon THEN "join" ELSE "done"
    /\ UNCHANGED <<scene, joined>>

(* The pieces of two groups, regrouped on their own with the larger budget,
   make one group, and no outline of a balloon runs between them. *)
Joins(A, B) ==
    /\ Cardinality(A \cup B) <= MaxLines
    /\ GroupFragments(A \cup B, JoinBudget) = {A \cup B}
    /\ \A f \in A, g \in B : {f, g} \notin scene.walls

(* mistake: the second group is not deleted *)
JoinBeside(A, B) == (groups \ {A}) \cup {A \cup B}

Joined(A, B) == (groups \ {A, B}) \cup {A \cup B}

JoinPair ==
    /\ pc = "join"
    /\ \E A, B \in groups :
          /\ A # B /\ Joins(A, B)
          /\ groups' = Joined(A, B)
    /\ joined' = TRUE
    /\ UNCHANGED <<pc, scene, decision>>

(* mistake: the decisions of before the join are left *)
RecordNothing == decision

(* The trials judged copies; what the joined groups are is recorded now. *)
Record ==
    [f \in Fragment |-> LET g == CHOOSE c \in groups : f \in c
                        IN  IF joined /\ Cardinality(g) > 1 THEN g ELSE decision[f]]

JoinDone ==
    /\ pc = "join"
    /\ \A A, B \in groups : A # B => ~Joins(A, B)
    /\ decision' = Record
    /\ pc' = "done"
    /\ UNCHANGED <<scene, groups, joined>>

Next == Group \/ JoinPair \/ JoinDone

Spec == Init /\ [][Next]_vars
-----------------------------------------------------------------------------
(* A piece of a component that was too large; its owner veto was asked about
   the whole. *)
Piece(g) == \E c \in Components(Fragment, Budget) : \E k \in Judged(c) : g \subseteq k /\ Oversized(k)

(* Every fragment is in exactly one group, through every cut and join: the text
   of a fragment is neither lost nor said twice. *)
GroupsPartition ==
    UNION groups = Fragment /\ \A A, B \in groups : A = B \/ A \cap B = {}

(* What the owner decision rejects is never one region, not even as the join of
   groups that were kept apart before: a veto can be cut around, not undone. *)
NoVetoedGroup ==
    pc # "group" => \A g \in groups : Vetoed(g) => Piece(g)

(* R2: no region but a single fragment covers more of the page than it may. *)
NoOversizedGroup ==
    pc # "group" => \A g \in groups : ~Oversized(g)

(* The decision that is stored with the members of a region is the one about
   that region, not about a component it was cut from or a part of it. *)
DecisionIsItsOwn ==
    pc = "done" =>
        \A g \in groups : Cardinality(g) > 1 /\ ~Piece(g) => \A f \in g : decision[f] = g
=============================================================================
