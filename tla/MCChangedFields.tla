----------------------------- MODULE MCChangedFields -----------------------------
(******************************************************************************)
(* ChangedFields for TLC: the pairs of small objects of two types.            *)
(******************************************************************************)
EXTENDS ChangedFields

Leaves == {Leaf(0), Leaf(1)}
Slices(S) == {Slice(s) : s \in {<<>>} \cup [1..1 -> S] \cup [1..2 -> S]}
Maps(S) == {Map(f) : f \in UNION {[K -> S] : K \in SUBSET {"a", "b"}}}

\* A condition with the time of its last transition behind a pointer, and one that
\* holds it as a metav1.Time, whose fields are not exported.
PointerConditions == {Struct([type |-> x]) : x \in Leaves}
TimeConditions ==
  {Struct([type |-> x, time |-> Struct([wall |-> Leaf(0)])]) : x \in Leaves}

\* The status of a route has slices within slices, that of a workload has maps too.
RouteStatuses ==
  {Struct([ingress |-> s]) :
     s \in Slices({Struct([host |-> x, conditions |-> c]) :
                     x \in Leaves, c \in {Slice(<<>>)} \cup
                                         {Slice(<<d>>) : d \in PointerConditions}})}
WorkloadStatuses ==
  {Struct([conditions |-> c, labels |-> m]) :
     c \in {Slice(<<>>)} \cup {Slice(<<d>>) : d \in TimeConditions},
     m \in Maps({Slice(<<>>)} \cup {Slice(<<x>>) : x \in Leaves})}

Object(spec, status) == Struct([Spec |-> spec, Status |-> status])

MCObjects ==
  UNION {{[old |-> Object(Leaf(0), x), new |-> Object(y, z)] :
            x \in S, y \in Leaves, z \in S} : S \in {RouteStatuses, WorkloadStatuses}}

=============================================================================
