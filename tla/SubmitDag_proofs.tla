--------------------------- MODULE SubmitDag_proofs ---------------------------
(***************************************************************************)
(* Proofs, for any finite set of stages and any dependencies among them,   *)
(* of what skipping stages and building the tree of a flow keep of the     *)
(* dependencies: what a job waits for, and what is left out.               *)
(***************************************************************************)
EXTENDS SubmitDag, FiniteSetTheorems, WellFoundedInduction, TLAPS
-----------------------------------------------------------------------------
\* What is reached is the least closed set.

LEMMA ReachContains ==
    ASSUME NEW S \in SUBSET Stages, NEW next
    PROVE  S \subseteq Reach(S, next)
  BY DEF Reach

LEMMA ReachIsLeast ==
    ASSUME NEW S, NEW next, NEW T \in SUBSET Stages, S \subseteq T, Closed(T, next)
    PROVE  Reach(S, next) \subseteq T
  BY DEF Reach

LEMMA ReachIsClosed ==
    ASSUME NEW S, NEW next, \A d \in DOMAIN next : next[d] \subseteq Stages
    PROVE  Closed(Reach(S, next), next)
  <1> SUFFICES ASSUME NEW d \in Reach(S, next), d \in DOMAIN next,
                      NEW e \in next[d], NEW T \in SUBSET Stages,
                      S \subseteq T, Closed(T, next)
               PROVE  e \in T
    BY DEF Closed, Reach
  <1>1. d \in T
    BY DEF Reach
  <1>2. QED
    BY <1>1 DEF Closed

LEMMA ReachIsStages ==
    ASSUME NEW S, NEW next
    PROVE  Reach(S, next) \in SUBSET Stages
  BY DEF Reach

\* Whatever is reached was there, or follows something that is reached.
LEMMA ReachComesFrom ==
    ASSUME NEW S \in SUBSET Stages, NEW next, NEW t \in Reach(S, next), t \notin S,
           \A d \in DOMAIN next : next[d] \subseteq Stages
    PROVE  \E d \in Reach(S, next) \cap DOMAIN next : t \in next[d]
  <1> SUFFICES ASSUME \A d \in Reach(S, next) \cap DOMAIN next : t \notin next[d]
               PROVE  FALSE
    OBVIOUS
  <1> DEFINE T == Reach(S, next) \ {t}
  <1>1. T \in SUBSET Stages /\ S \subseteq T
    BY ReachIsStages, ReachContains
  <1>2. Closed(T, next)
    BY ReachIsClosed DEF Closed
  <1>3. QED
    BY <1>1, <1>2, ReachIsLeast

-----------------------------------------------------------------------------
\* The graph of the active stages, and the tree built from it.

\* Skipping stages leaves a graph of the others.
LEMMA ResolvedIsGraph ==
    ASSUME NEW deps \in Graphs, NEW skipped \in SUBSET Stages
    PROVE  /\ Resolved(deps, skipped) \in [Stages \ skipped -> SUBSET (Stages \ skipped)]
           /\ Stages \ skipped \in SUBSET Stages
  <1>1. \A s \in Stages \ skipped :
            Reach(deps[s], [d \in skipped |-> deps[d]]) \ skipped \in SUBSET (Stages \ skipped)
    BY ReachIsStages
  <1>2. QED
    BY <1>1 DEF Resolved

LEMMA RootHasNoDependent ==
    ASSUME NEW D \in SUBSET Stages, NEW graph \in [D -> SUBSET D], BuildsTree(graph)
    PROVE  Root(graph) \in D /\ \A s \in D : Root(graph) \notin graph[s]
  <1>1. Roots(graph) # {}
    BY FS_EmptySet DEF BuildsTree
  <1>2. Root(graph) \in Roots(graph)
    BY <1>1 DEF Root
  <1>3. QED
    BY <1>2 DEF Roots

LEMMA VisitedIsClosed ==
    ASSUME NEW D \in SUBSET Stages, NEW graph \in [D -> SUBSET D], BuildsTree(graph)
    PROVE  /\ Visited(graph) \in SUBSET D
           /\ Root(graph) \in Visited(graph)
           /\ \A s \in Visited(graph) : graph[s] \subseteq Visited(graph)
  <1>1. Root(graph) \in D
    BY RootHasNoDependent
  <1>2. Closed(D, graph)
    BY DEF Closed
  <1>3. Visited(graph) \in SUBSET D
    BY <1>1, <1>2, ReachIsLeast DEF Visited
  <1>4. Root(graph) \in Visited(graph)
    BY <1>1, ReachContains DEF Visited
  <1>5. Closed(Visited(graph), graph)
    BY ReachIsClosed DEF Visited
  <1>6. QED
    BY <1>3, <1>4, <1>5 DEF Closed

\* A visited stage has one dependent that is visited, which is its parent.
LEMMA ParentIsTheDependent ==
    ASSUME NEW D \in SUBSET Stages, NEW graph \in [D -> SUBSET D], BuildsTree(graph),
           NEW d \in Visited(graph), NEW s \in graph[d]
    PROVE  s \in Visited(graph) /\ s # Root(graph) /\ Tree(graph)[s] = d
  <1>1. s \in Visited(graph) /\ s # Root(graph) /\ d \in D
    BY VisitedIsClosed, RootHasNoDependent
  <1>2. d \in Dependents(graph, s)
    BY DEF Dependents
  <1>3. \A e \in Dependents(graph, s) : e = d
    <2> SUFFICES ASSUME NEW e \in Dependents(graph, s), e # d
                 PROVE  FALSE
      OBVIOUS
    <2>1. Dependents(graph, s) \subseteq Stages
      BY VisitedIsClosed DEF Dependents
    <2>2. IsFiniteSet(Dependents(graph, s))
      BY <2>1, StagesAreFinite, FS_Subset
    <2>3. {d, e} \subseteq Dependents(graph, s)
      BY <1>2
    <2>4. Cardinality({d, e}) <= Cardinality(Dependents(graph, s))
      BY <2>2, <2>3, FS_Subset
    <2>5. Cardinality({d}) = 1 /\ IsFiniteSet({d})
      BY FS_Singleton
    <2>a. Cardinality({d} \cup {e}) =
            IF e \in {d} THEN Cardinality({d}) ELSE Cardinality({d}) + 1
      BY <2>5, FS_AddElement, Zenon
    <2>b. e \notin {d}
      OBVIOUS
    <2>6. Cardinality({d} \cup {e}) = 2
      BY <2>5, <2>a, <2>b
    <2>7. {d} \cup {e} = {d, e}
      OBVIOUS
    <2>8. Cardinality(Dependents(graph, s)) <= 1
      BY <1>1 DEF BuildsTree
    <2>9. Cardinality(Dependents(graph, s)) \in Nat
      BY <2>2, FS_CardinalityType
    <2>10. QED
      BY <2>4, <2>6, <2>7, <2>8, <2>9
  <1>4. (CHOOSE e \in Dependents(graph, s) : TRUE) = d
    BY <1>2, <1>3
  <1>5. QED
    BY <1>1, <1>4 DEF Tree

\* The tree is over the visited stages, with one root.
LEMMA TreeShape ==
    ASSUME NEW D \in SUBSET Stages, NEW graph \in [D -> SUBSET D], BuildsTree(graph)
    PROVE  /\ DOMAIN Tree(graph) = Visited(graph)
           /\ Tree(graph)[Root(graph)] = NoStage
           /\ \A s \in Visited(graph) \ {Root(graph)} :
                 Tree(graph)[s] \in Visited(graph) /\ s \in graph[Tree(graph)[s]]
  <1>1. DOMAIN Tree(graph) = Visited(graph)
    BY DEF Tree
  <1>2. Tree(graph)[Root(graph)] = NoStage
    BY VisitedIsClosed DEF Tree
  <1>3. ASSUME NEW s \in Visited(graph), s # Root(graph)
        PROVE  Tree(graph)[s] \in Visited(graph) /\ s \in graph[Tree(graph)[s]]
    <2>1. {Root(graph)} \in SUBSET Stages
      BY VisitedIsClosed
    <2>2. \E d \in Visited(graph) \cap DOMAIN graph : s \in graph[d]
      BY <1>3, <2>1, ReachComesFrom DEF Visited
    <2>3. PICK d \in Visited(graph) : s \in graph[d]
      BY <2>2
    <2>4. Tree(graph)[s] = d
      BY <2>3, ParentIsTheDependent
    <2>5. QED
      BY <2>3, <2>4
  <1>4. QED
    BY <1>1, <1>2, <1>3

\* What is passed from the root of the tree to the children reaches every job.
LEMMA TreeHangsTogether ==
    ASSUME NEW D \in SUBSET Stages, NEW graph \in [D -> SUBSET D], BuildsTree(graph),
           NEW T \in SUBSET Stages, Root(graph) \in T,
           \A p \in T \cap Visited(graph) :
               {c \in Visited(graph) : Tree(graph)[c] = p} \subseteq T
    PROVE  Visited(graph) \subseteq T
  <1> DEFINE U == T \cap Visited(graph)
  <1>1. Closed(U, graph)
    <2> SUFFICES ASSUME NEW p \in U, NEW c \in graph[p]
                 PROVE  c \in U
      BY DEF Closed
    <2>1. c \in Visited(graph) /\ Tree(graph)[c] = p
      BY ParentIsTheDependent
    <2>2. QED
      BY <2>1
  <1>2. {Root(graph)} \subseteq U
    BY VisitedIsClosed
  <1>3. Visited(graph) \subseteq U
    BY <1>1, <1>2, ReachIsLeast DEF Visited
  <1>4. QED
    BY <1>3

\* No job of the flow waits for itself: the entry of a cycle would have two parents.
LEMMA NoJobWaitsForItself ==
    ASSUME NEW D \in SUBSET Stages, NEW graph \in [D -> SUBSET D], BuildsTree(graph),
           NEW s \in Visited(graph)
    PROVE  s \notin Reach(graph[s], graph)
  <1> DEFINE V == Visited(graph)
             C == Reach(graph[s], graph)
  <1> SUFFICES ASSUME s \in C
               PROVE  FALSE
    OBVIOUS
  <1>1. /\ V \in SUBSET D /\ Root(graph) \in V
        /\ \A d \in V : graph[d] \subseteq V
    BY VisitedIsClosed
  <1>2. C \subseteq V
    <2>1. Closed(V, graph) /\ graph[s] \subseteq V /\ V \in SUBSET Stages
      BY <1>1 DEF Closed
    <2>2. QED
      BY <2>1, ReachIsLeast
  <1>3. ASSUME NEW c \in C
        PROVE  Tree(graph)[c] \in C
    <2>1. CASE c \in graph[s]
      BY <2>1, ParentIsTheDependent
    <2>2. CASE c \notin graph[s]
      <3>1. graph[s] \in SUBSET Stages /\ \A d \in DOMAIN graph : graph[d] \subseteq Stages
        BY <1>1
      <3>2. PICK d \in C \cap DOMAIN graph : c \in graph[d]
        BY <2>2, <3>1, ReachComesFrom
      <3>3. Tree(graph)[c] = d
        BY <1>2, <3>2, ParentIsTheDependent
      <3>4. QED
        BY <3>2, <3>3
    <2>3. QED
      BY <2>1, <2>2
  <1>4. Root(graph) \notin C
    BY <1>3, TreeShape, NoStageIsNone, ReachIsStages
  <1>5. Closed(V \ C, graph)
    <2> SUFFICES ASSUME NEW d \in V \ C, NEW c \in graph[d]
                 PROVE  c \in V \ C
      BY DEF Closed
    <2>1. c \in V /\ Tree(graph)[c] = d
      BY ParentIsTheDependent
    <2>2. QED
      BY <1>3, <2>1
  <1>6. V \subseteq V \ C
    <2>1. V \ C \in SUBSET Stages /\ {Root(graph)} \subseteq V \ C
      BY <1>1, <1>4
    <2>2. QED
      BY <1>5, <2>1, ReachIsLeast DEF Visited
  <1>7. QED
    BY <1>6

\* All that a stage waits for in the graph is below its job in the tree.
LEMMA TreeKeepsTheGraph ==
    ASSUME NEW D \in SUBSET Stages, NEW graph \in [D -> SUBSET D], BuildsTree(graph),
           NEW s \in Visited(graph)
    PROVE  Reach(graph[s], graph) \subseteq Subtree(Tree(graph), s) \ {s}
  <1> DEFINE V == Visited(graph)
             tree == Tree(graph)
             m == [p \in V |-> {c \in V : tree[c] = p}]
             U == Reach({s}, m) \cap V
  <1>1. Subtree(tree, s) = Reach({s}, m)
    BY TreeShape DEF Subtree
  <1>2. V \in SUBSET D /\ \A d \in V : graph[d] \subseteq V
    BY VisitedIsClosed
  <1>3. Closed(Reach({s}, m), m)
    <2>1. \A d \in DOMAIN m : m[d] \subseteq Stages
      BY <1>2
    <2> HIDE DEF m
    <2>2. QED
      BY <2>1, ReachIsClosed
  <1>4. s \in U
    BY <1>2, ReachContains
  <1>5. ASSUME NEW p \in U, NEW c \in graph[p]
        PROVE  c \in U
    <2>1. c \in V /\ tree[c] = p
      BY ParentIsTheDependent
    <2>2. c \in m[p] /\ p \in DOMAIN m
      BY <2>1
    <2>3. c \in Reach({s}, m)
      BY <1>3, <2>2 DEF Closed
    <2>4. QED
      BY <2>1, <2>3
  <1>6. U \in SUBSET Stages /\ graph[s] \subseteq U /\ Closed(U, graph)
    BY <1>2, <1>4, <1>5 DEF Closed
  <1>7. Reach(graph[s], graph) \subseteq U
    BY <1>6, ReachIsLeast
  <1>8. QED
    BY <1>1, <1>7, NoJobWaitsForItself

\* Skipping stages keeps what the others wait for, through the skipped ones.
LEMMA ResolvedKeepsTheGraph ==
    ASSUME NEW deps \in Graphs, NEW skipped \in SUBSET Stages, NEW s \in Stages \ skipped
    PROVE  Reach(deps[s], deps) \ skipped
               \subseteq Reach(Resolved(deps, skipped)[s], Resolved(deps, skipped))
  <1> DEFINE graph == Resolved(deps, skipped)
             m == [d \in skipped |-> deps[d]]
             R == Reach(graph[s], graph)
             U == {t \in Stages : IF t \in skipped
                                  THEN Reach({t}, m) \ skipped \subseteq R
                                  ELSE t \in R}
  <1>1. /\ deps \in [Stages -> SUBSET Stages]
        /\ graph \in [Stages \ skipped -> SUBSET (Stages \ skipped)]
        /\ \A x \in Stages \ skipped : graph[x] = Reach(deps[x], m) \ skipped
    BY ResolvedIsGraph DEF Graphs, Resolved
  <1>2. \A d \in DOMAIN m : m[d] \subseteq Stages
    BY <1>1
  <1>3. ASSUME NEW S \in SUBSET Stages, NEW t \in Reach(S, m)
        PROVE  Reach({t}, m) \subseteq Reach(S, m)
    <2>1. Closed(Reach(S, m), m) /\ Reach(S, m) \in SUBSET Stages
      BY <1>2, ReachIsClosed, ReachIsStages
    <2>2. QED
      BY <2>1, ReachIsLeast
  <1>4. ASSUME NEW x \in Stages \ skipped, graph[x] \subseteq R
        PROVE  deps[x] \subseteq U
    <2> SUFFICES ASSUME NEW t \in deps[x]
                 PROVE  t \in U
      OBVIOUS
    <2>1. deps[x] \in SUBSET Stages
      BY <1>1
    <2>2. t \in Reach(deps[x], m)
      BY <2>1, ReachContains
    <2>3. Reach({t}, m) \subseteq Reach(deps[x], m)
      BY <1>3, <2>1, <2>2
    <2>4. QED
      BY <1>1, <1>4, <2>1, <2>2, <2>3
  <1>5. deps[s] \subseteq U
    <2>1. graph[s] \subseteq R
      BY <1>1, ReachContains
    <2>2. QED
      BY <1>4, <2>1
  <1>6. ASSUME NEW t \in U
        PROVE  deps[t] \subseteq U
    <2>1. CASE t \in skipped
      <3> SUFFICES ASSUME NEW e \in deps[t]
                   PROVE  e \in U
        OBVIOUS
      <3>1. e \in Stages /\ {t} \in SUBSET Stages
        BY <1>1
      <3>2. t \in Reach({t}, m) /\ Closed(Reach({t}, m), m)
        BY <1>2, <3>1, ReachContains, ReachIsClosed
      <3>3. e \in Reach({t}, m)
        BY <2>1, <3>2 DEF Closed
      <3>4. Reach({e}, m) \subseteq Reach({t}, m)
        BY <1>3, <3>1, <3>3
      <3>5. QED
        BY <2>1, <3>1, <3>3, <3>4
    <2>2. CASE t \notin skipped
      <3>1. Closed(R, graph)
        <4>1. \A d \in DOMAIN graph : graph[d] \subseteq Stages
          BY <1>1
        <4> HIDE DEF graph
        <4>2. QED
          BY <4>1, ReachIsClosed
      <3>2. t \in R /\ t \in DOMAIN graph
        BY <1>1, <2>2
      <3>3. graph[t] \subseteq R
        BY <3>1, <3>2 DEF Closed
      <3>4. QED
        BY <1>4, <2>2, <3>3
    <2>3. QED
      BY <2>1, <2>2
  <1>7. U \in SUBSET Stages /\ Closed(U, deps)
    BY <1>1, <1>6 DEF Closed
  <1>8. Reach(deps[s], deps) \subseteq U
    BY <1>5, <1>7, ReachIsLeast
  <1>9. QED
    BY <1>8

\* A job of a flow that can be built waits for all that its stage depends on.
LEMMA SubmissionsAwait ==
    ASSUME NEW x \in Submissions
    PROVE  Awaits(x[1], x[2], x[3])
  <1>1. PICK y \in Inputs : x = <<Tree(Resolved(y[1], y[2])), y[1], y[2]>>
    BY DEF Submissions
  <1> DEFINE graph == Resolved(y[1], y[2])
  <1>2. x[1] = Tree(graph) /\ x[2] = y[1] /\ x[3] = y[2]
    BY <1>1
  <1>3. y[1] \in Graphs /\ y[2] \in SUBSET Stages /\ BuildsTree(graph)
    BY DEF Inputs
  <1>4. /\ graph \in [Stages \ y[2] -> SUBSET (Stages \ y[2])]
        /\ Stages \ y[2] \in SUBSET Stages
    BY <1>3, ResolvedIsGraph
  <1> HIDE DEF graph
  <1> SUFFICES ASSUME NEW s \in DOMAIN Tree(graph)
               PROVE  Reach(y[1][s], y[1]) \ y[2] \subseteq Subtree(Tree(graph), s) \ {s}
    BY <1>2 DEF Awaits
  <1>5. s \in Visited(graph) /\ Visited(graph) \subseteq Stages \ y[2]
    BY <1>3, <1>4, TreeShape, VisitedIsClosed
  <1>6. Reach(y[1][s], y[1]) \ y[2] \subseteq Reach(graph[s], graph)
    BY <1>3, <1>5, ResolvedKeepsTheGraph DEF graph
  <1>7. Reach(graph[s], graph) \subseteq Subtree(Tree(graph), s) \ {s}
    BY <1>3, <1>4, <1>5, TreeKeepsTheGraph
  <1>8. QED
    BY <1>6, <1>7

-----------------------------------------------------------------------------
\* What is left out of a tree.

\* Of some sets of stages, one has none of the others within it.
LEMMA SmallestSet ==
    ASSUME NEW F \in SUBSET SUBSET Stages, F # {}
    PROVE  \E S \in F : \A T \in F : T \subseteq S => T = S
  <1>1. FiniteSubsetsOf(Stages) = SUBSET Stages
    BY StagesAreFinite, FS_FiniteSubsetsOfFinite
  <1>2. IsWellFoundedOn(StrictSubsetOrdering(Stages), SUBSET Stages)
    BY <1>1, FS_StrictSubsetOrderingWellFounded
  <1>3. \E S \in F : \A T \in F : ~ (<<T, S>> \in StrictSubsetOrdering(Stages))
    BY <1>2, WFMin
  <1>4. QED
    BY <1>3 DEF StrictSubsetOrdering

\* What is reached from something that is reached is reached.
LEMMA ReachIsTransitive ==
    ASSUME NEW S, NEW next, \A d \in DOMAIN next : next[d] \subseteq Stages,
           NEW t \in Reach(S, next)
    PROVE  Reach({t}, next) \subseteq Reach(S, next)
  <1>1. Reach(S, next) \in SUBSET Stages /\ Closed(Reach(S, next), next)
    BY ReachIsStages, ReachIsClosed
  <1>2. QED
    BY <1>1, ReachIsLeast

\* Some job of the flow waits for none, so that the flow can start.
LEMMA SomeJobWaitsForNone ==
    ASSUME NEW D \in SUBSET Stages, NEW graph \in [D -> SUBSET D], BuildsTree(graph)
    PROVE  \E s \in Visited(graph) : \A c \in Visited(graph) : Tree(graph)[c] # s
  <1> DEFINE R(y) == Reach({y}, graph)
             F == {R(y) : y \in Visited(graph)}
  <1>0. /\ Visited(graph) \in SUBSET D /\ Root(graph) \in Visited(graph)
        /\ \A s \in Visited(graph) : graph[s] \subseteq Visited(graph)
        /\ \A d \in DOMAIN graph : graph[d] \subseteq Stages
    BY VisitedIsClosed
  <1>1. F \in SUBSET SUBSET Stages /\ F # {}
    <2>1. \A y \in Visited(graph) : R(y) \in SUBSET Stages
      BY ReachIsStages
    <2> HIDE DEF R
    <2>2. QED
      BY <1>0, <2>1
  <1>2. PICK S \in F : \A T \in F : T \subseteq S => T = S
    <2> HIDE DEF F
    <2>1. QED
      BY <1>1, SmallestSet
  <1>3. PICK s \in Visited(graph) : \A c \in Visited(graph) : R(c) \subseteq R(s) => R(c) = R(s)
    <2>1. PICK s \in Visited(graph) : S = R(s)
      OBVIOUS
    <2>2. \A c \in Visited(graph) : R(c) \in F
      OBVIOUS
    <2> HIDE DEF F, R
    <2>3. QED
      BY <1>2, <2>1, <2>2
  <1>4. ASSUME NEW c \in graph[s]
        PROVE  FALSE
    <2>1. s \in R(s) /\ c \in R(c) /\ c \in Visited(graph)
      BY <1>0, ReachContains
    <2>2. Closed(R(s), graph)
      BY <1>0, ReachIsClosed
    <2>3. c \in R(s)
      BY <1>0, <2>1, <2>2 DEF Closed
    <2>4. R(c) \subseteq R(s)
      BY <1>0, <2>3, ReachIsTransitive
    <2>5. s \in R(c)
      BY <1>3, <2>1, <2>4
    <2>6. c \in Reach(graph[s], graph)
      BY <1>0, ReachContains
    <2>7. R(c) \subseteq Reach(graph[s], graph)
      BY <1>0, <2>6, ReachIsTransitive
    <2>8. QED
      BY <2>5, <2>7, NoJobWaitsForItself
  <1>5. ASSUME NEW c \in Visited(graph), Tree(graph)[c] = s
        PROVE  FALSE
    <2>1. c # Root(graph)
      BY <1>0, <1>5, TreeShape, NoStageIsNone
    <2>2. c \in graph[s]
      BY <1>5, <2>1, TreeShape
    <2>3. QED
      BY <1>4, <2>2
  <1>6. QED
    BY <1>5

\* Every stage but the root has a dependent.
LEMMA OnlyTheRootHasNoDependent ==
    ASSUME NEW D \in SUBSET Stages, NEW graph \in [D -> SUBSET D], BuildsTree(graph),
           NEW s \in D, s # Root(graph)
    PROVE  \E d \in D : s \in graph[d]
  <1>1. Roots(graph) \subseteq Stages /\ IsFiniteSet(Roots(graph))
    BY StagesAreFinite, FS_Subset DEF Roots
  <1>2. PICK r : Roots(graph) = {r}
    BY <1>1, FS_Singleton DEF BuildsTree
  <1>3. Root(graph) = r
    BY <1>2 DEF Root
  <1>4. s \notin Roots(graph)
    BY <1>2, <1>3
  <1>5. QED
    BY <1>4 DEF Roots

\* A stage that is left out can be followed upwards for ever, through dependents that
\* are left out as well: there are finitely many, so one of them waits for itself.
LEMMA LeftOutIsCyclic ==
    ASSUME NEW D \in SUBSET Stages, NEW graph \in [D -> SUBSET D], BuildsTree(graph)
    PROVE  LeavesOutCycles(Tree(graph), graph)
  <1> DEFINE W == {c \in D : c \in Reach(graph[c], graph)}
             R(y) == Reach({y}, graph)
  <1>0. \A d \in DOMAIN graph : graph[d] \subseteq Stages
    OBVIOUS
  <1> SUFFICES ASSUME NEW x \in D \ Visited(graph), x \notin Reach(W, graph)
               PROVE  FALSE
    BY TreeShape DEF LeavesOutCycles
  <1> DEFINE U == {y \in D : x \in R(y)}
  <1>1. x \in U
    BY ReachContains
  <1>2. ASSUME NEW y \in U
        PROVE  y \notin Visited(graph) /\ y \notin W
    <2>1. y \notin Visited(graph)
      BY <1>0, ReachIsTransitive DEF Visited
    <2>2. ASSUME y \in W
          PROVE  FALSE
      <3>1. y \in Reach(W, graph)
        BY <2>2, ReachContains
      <3>2. R(y) \subseteq Reach(W, graph)
        BY <1>0, <3>1, ReachIsTransitive
      <3>3. QED
        BY <3>2
    <2>3. QED
      BY <2>1, <2>2
  <1>3. ASSUME NEW y \in U
        PROVE  \E z \in U : R(y) \subseteq R(z) /\ R(y) # R(z)
    <2>1. y # Root(graph)
      BY <1>2, VisitedIsClosed
    <2>2. PICK z \in D : y \in graph[z]
      BY <2>1, OnlyTheRootHasNoDependent
    <2>3. z \in R(z) /\ Closed(R(z), graph)
      BY <1>0, ReachContains, ReachIsClosed
    <2>4. R(y) \subseteq R(z)
      <3>1. y \in R(z)
        BY <2>2, <2>3 DEF Closed
      <3>2. QED
        BY <1>0, <3>1, ReachIsTransitive
    <2>5. z \in U
      BY <2>4
    <2>6. ASSUME z \in R(y)
          PROVE  FALSE
      <3>1. y \in Reach(graph[z], graph)
        BY <2>2, ReachContains
      <3>2. R(y) \subseteq Reach(graph[z], graph)
        BY <1>0, <3>1, ReachIsTransitive
      <3>3. z \in W
        BY <2>6, <3>2
      <3>4. QED
        BY <1>2, <2>5, <3>3
    <2>7. QED
      BY <2>3, <2>4, <2>5, <2>6
  <1> DEFINE F == {Stages \ R(y) : y \in U}
  <1>4. F \in SUBSET SUBSET Stages /\ F # {}
    <2>1. \A y \in U : Stages \ R(y) \in SUBSET Stages
      OBVIOUS
    <2>2. Stages \ R(x) \in F
      BY <1>1
    <2>3. QED
      BY <2>1, <2>2
  <1>5. PICK S \in F : \A T \in F : T \subseteq S => T = S
    <2> HIDE DEF F
    <2>1. QED
      BY <1>4, SmallestSet
  <1>6. PICK y \in U : S = Stages \ R(y)
    OBVIOUS
  <1>7. PICK z \in U : R(y) \subseteq R(z) /\ R(y) # R(z)
    BY <1>3
  <1>8. Stages \ R(z) \in F /\ Stages \ R(z) \subseteq S
    BY <1>6, <1>7
  <1>9. Stages \ R(z) = S
    BY <1>5, <1>8
  <1>10. R(y) \in SUBSET Stages /\ R(z) \in SUBSET Stages
    BY ReachIsStages
  <1>11. QED
    BY <1>6, <1>7, <1>9, <1>10

\* So it is with every flow that can be built.
LEMMA SubmissionsLeaveOutCycles ==
    ASSUME NEW x \in Submissions
    PROVE  LeavesOutCycles(x[1], Resolved(x[2], x[3]))
  <1>1. PICK y \in Inputs : x = <<Tree(Resolved(y[1], y[2])), y[1], y[2]>>
    BY DEF Submissions
  <1> DEFINE graph == Resolved(y[1], y[2])
  <1>2. x[1] = Tree(graph) /\ x[2] = y[1] /\ x[3] = y[2]
    BY <1>1
  <1>3. y[1] \in Graphs /\ y[2] \in SUBSET Stages /\ BuildsTree(graph)
    BY DEF Inputs
  <1>4. /\ graph \in [Stages \ y[2] -> SUBSET (Stages \ y[2])]
        /\ Stages \ y[2] \in SUBSET Stages
    BY <1>3, ResolvedIsGraph
  <1> HIDE DEF graph
  <1>5. LeavesOutCycles(Tree(graph), graph)
    BY <1>3, <1>4, LeftOutIsCyclic
  <1>6. QED
    BY <1>2, <1>5 DEF graph

-----------------------------------------------------------------------------
\* What the queue is given.

(***************************************************************************)
(* Every flow that submitDailyPipeline adds is a tree as FlowQueue assumes *)
(* it, whatever the dependencies, skips and cycles it was built from: what *)
(* is proved of the queue is proved of every submission (submit.ts:137).   *)
(***************************************************************************)
THEOREM SubmissionsAreOneTree ==
    ASSUME NEW x \in Submissions
    PROVE  IsOneTree(x[1])
  <1>1. PICK y \in Inputs : x = <<Tree(Resolved(y[1], y[2])), y[1], y[2]>>
    BY DEF Submissions
  <1> DEFINE graph == Resolved(y[1], y[2])
             D == Stages \ y[2]
  <1>2. x[1] = Tree(graph)
    BY <1>1
  <1>3. y[1] \in Graphs /\ y[2] \in SUBSET Stages /\ BuildsTree(graph)
    BY DEF Inputs
  <1>4. graph \in [D -> SUBSET D] /\ D \in SUBSET Stages
    BY <1>3, ResolvedIsGraph
  <1> HIDE DEF graph, D
  <1> DEFINE tree == Tree(graph)
             jobs == Visited(graph)
             r == Root(graph)
  <1>5. /\ DOMAIN tree = jobs /\ jobs \in SUBSET D /\ r \in jobs /\ tree[r] = NoStage
        /\ \A s \in jobs \ {r} : tree[s] \in jobs
    BY <1>3, <1>4, TreeShape, VisitedIsClosed
  <1>6. NoStage \notin jobs
    BY <1>4, <1>5, NoStageIsNone
  <1>7. tree \in [jobs -> jobs \cup {NoStage}]
    <2>1. tree = [s \in jobs |-> tree[s]]
      BY DEF Tree
    <2>2. \A s \in jobs : tree[s] \in jobs \cup {NoStage}
      BY <1>5
    <2> HIDE DEF tree
    <2>3. QED
      BY <2>1, <2>2
  <1>8. \A s \in jobs : tree[s] = NoStage <=> s = r
    BY <1>5, <1>6
  <1>9. (CHOOSE s \in jobs : tree[s] = NoStage) = r
    BY <1>5, <1>8
  <1>10. ASSUME NEW below \in SUBSET jobs, r \in below,
                \A s \in below : {c \in jobs : tree[c] = s} \subseteq below
         PROVE  below = jobs
    <2>1. below \in SUBSET Stages
      BY <1>4, <1>5
    <2>2. jobs \subseteq below
      BY <1>3, <1>4, <1>10, <2>1, TreeHangsTogether
    <2>3. QED
      BY <2>2
  <1>11. PICK s \in jobs : \A c \in jobs : tree[c] # s
    BY <1>3, <1>4, SomeJobWaitsForNone
  <1> HIDE DEF tree, jobs, r
  <1>12. IsOneTree(tree)
    BY <1>5, <1>6, <1>7, <1>8, <1>9, <1>10, <1>11 DEF IsOneTree
  <1>13. QED
    BY <1>2, <1>12 DEF tree

=============================================================================
