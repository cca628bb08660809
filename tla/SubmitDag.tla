------------------------------ MODULE SubmitDag ------------------------------
(***************************************************************************)
(* The shape of a flow: resolveSkips and buildDAGTree of                   *)
(* packages/queue/src/submit.ts.  A graph gives every stage the set of its *)
(* dependsOn; the tree built from it gives every job its BullMQ parent,    *)
(* the one job that waits for it.  What is reached is the least set closed *)
(* under a step, so the operators hold of cyclic graphs too.               *)
(***************************************************************************)
EXTENDS FiniteSets, Naturals

CONSTANTS Stages, NoStage

ASSUME NoStageIsNone == NoStage \notin Stages
ASSUME StagesAreFinite == IsFiniteSet(Stages)

Graphs == [Stages -> SUBSET Stages]

Closed(S, next) == \A d \in S \cap DOMAIN next : next[d] \subseteq S

\* What is reached from S by any number of steps of `next`.
Reach(S, next) ==
    {t \in Stages : \A T \in SUBSET Stages : S \subseteq T /\ Closed(T, next) => t \in T}

\* A mutant: a skipped dependency is dropped, and with it what it waited for.
ResolvedByDropping(deps, skipped) ==
    [s \in Stages \ skipped |-> deps[s] \ skipped]
\* resolveSkips: a skipped stage is replaced by what it waited for, transitively.
Resolved(deps, skipped) ==
    [s \in Stages \ skipped |->
        Reach(deps[s], [d \in skipped |-> deps[d]]) \ skipped]

\* buildDAGTree, over the graph of the active stages.
Roots(graph) == DOMAIN graph \ UNION {graph[s] : s \in DOMAIN graph}
Root(graph) == CHOOSE r \in Roots(graph) : TRUE
Visited(graph) == Reach({Root(graph)}, graph)
Dependents(graph, s) == {d \in Visited(graph) : s \in graph[d]}

\* A mutant: of several roots the first is taken.
BuildsTreeOfOneRoot(graph) ==
    /\ Roots(graph) # {}
    /\ \A s \in Visited(graph) : Cardinality(Dependents(graph, s)) <= 1
\* One root, and no job reached twice.
BuildsTree(graph) ==
    /\ Cardinality(Roots(graph)) = 1
    /\ \A s \in Visited(graph) : Cardinality(Dependents(graph, s)) <= 1

Tree(graph) ==
    [s \in Visited(graph) |->
        IF s = Root(graph) THEN NoStage
        ELSE CHOOSE d \in Dependents(graph, s) : TRUE]

-----------------------------------------------------------------------------
\* What a submission may be given, and what the flow keeps of it.

\* A graph and the stages to skip, of which a flow can be built.
Inputs == {x \in Graphs \X SUBSET Stages :
              BuildsTree(Resolved(x[1], x[2]))}

\* The trees that can be built, each with an input it is built from.
Submissions == {<<Tree(Resolved(x[1], x[2])), x[1], x[2]>> : x \in Inputs}

\* s and everything a job waits for in the tree, directly or not.
Subtree(tree, s) ==
    Reach({s}, [p \in DOMAIN tree |-> {c \in DOMAIN tree : tree[c] = p}])

\* A job waits for every unskipped stage that its stage depends on, through whatever
\* skipped stages the path may lead.
Awaits(tree, deps, skipped) ==
    \A s \in DOMAIN tree :
        Reach(deps[s], deps) \ skipped \subseteq Subtree(tree, s) \ {s}

\* The active stages that are left out wait for themselves, or are waited for by
\* such stages.
LeavesOutCycles(tree, graph) ==
    LET waitsForItself == {c \in DOMAIN graph : c \in Reach(graph[c], graph)}
    IN  DOMAIN graph \ DOMAIN tree \subseteq Reach(waitsForItself, graph)

\* What FlowQueue assumes of the tree that it works off: one root, every job below it,
\* and a job to start with.
IsOneTree(tree) ==
    LET jobs == DOMAIN tree
        root == CHOOSE s \in jobs : tree[s] = NoStage
    IN  /\ NoStage \notin jobs
        /\ tree \in [jobs -> jobs \cup {NoStage}]
        /\ \E r \in jobs : \A s \in jobs : tree[s] = NoStage <=> s = r
        /\ \A below \in SUBSET jobs :
              root \in below /\ (\A s \in below : {c \in jobs : tree[c] = s} \subseteq below)
                  => below = jobs
        /\ \E s \in jobs : {c \in jobs : tree[c] = s} = {}

=============================================================================
