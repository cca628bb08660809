------------------------ MODULE FlowRetirement_proofs ------------------------
(***************************************************************************)
(* Proofs, for any finite set of stages, of what the retirement of a flow  *)
(* leaves behind, with its workers, trimming and reconciler about it, and  *)
(* of what the flow in the queue keeps of the dependencies it was built    *)
(* from.                                                                   *)
(***************************************************************************)
EXTENDS FlowRetirement, SubmitDag_proofs

-----------------------------------------------------------------------------
\* The invariant, initially.

LEMMA StepsAre ==
    Steps = {"inspect", "measure", "fresh", "remaining", "idle", "intent", "recheck",
             "remove", "supersede", "outcome"}
  BY DEF Steps, Measuring

LEMMA ReadsAreFive == Len(ReadOrder) = 5
  BY DEF ReadOrder

LEMMA InitInv == Init => IInv
  <1> SUFFICES ASSUME Init
               PROVE  IInv
    OBVIOUS
  <1>1. Jobs = {}
    BY DEF Init, Jobs
  <1>2. TypeOK
    <2>1. 0 \in 0..Len(ReadOrder)
      BY ReadsAreFive
    <2>2. job \in [Stages -> JobStates \cup Absent] /\ \A s \in Stages : job[s] = "none"
      BY DEF Init, Absent
    <2>3. /\ census = {} /\ token = {} /\ plan = {} /\ parent = <<>>
          /\ earlier \in [Stages -> SUBSET Stages]
      BY DEF Init, Nothing
    <2>4. QED
      BY <1>1, <2>1, <2>2, <2>3, StepsAre DEF Init, TypeOK
  <1>3. TreeInv /\ OrderInv /\ RootInv /\ PlanInv /\ EvidenceInv
    BY <1>1 DEF Init, TreeInv, OrderInv, RootInv, PlanInv, EvidenceInv, EvidenceIsTrue
  <1>4. QED
    BY <1>2, <1>3 DEF IInv

-----------------------------------------------------------------------------
\* What hangs together goes together.

\* Once the root is done every job is.
LEMMA RootIsLast ==
    ASSUME IInv, NEW r \in Jobs, IsRoot(r)
    PROVE  /\ job[r] \in {"completed", "gone"} =>
                 \A s \in Jobs : job[s] \in {"completed", "gone"}
           /\ job[r] = "gone" => AllGone
  <1> USE DEF IInv
  <1>1. ASSUME job[r] \in {"completed", "gone"}
        PROVE  \A s \in Jobs : job[s] \in {"completed", "gone"}
    <2> DEFINE T == {t \in Stages : t \in Jobs => job[t] \in {"completed", "gone"}}
    <2>1. r \in T /\ T \in SUBSET Stages
      BY <1>1 DEF TypeOK
    <2>2. \A p \in T \cap Jobs : Children(p) \subseteq T
      BY DEF TypeOK, OrderInv, Children
    <2>3. Jobs \subseteq T
      BY <2>1, <2>2 DEF TreeInv
    <2>4. QED
      BY <2>3
  <1>2. ASSUME job[r] = "gone"
        PROVE  AllGone
    <2> DEFINE T == {t \in Stages : t \in Jobs => job[t] = "gone"}
    <2>1. r \in T /\ T \in SUBSET Stages
      BY <1>2 DEF TypeOK
    <2>2. \A p \in T \cap Jobs : Children(p) \subseteq T
      BY DEF TypeOK, OrderInv, Children
    <2>3. Jobs \subseteq T
      BY <2>1, <2>2 DEF TreeInv
    <2>4. QED
      BY <2>3 DEF TypeOK, AllGone, Present, Absent
  <1>3. QED
    BY <1>1, <1>2

\* A job, and all that it waits for.
LEMMA SubtreeShape ==
    ASSUME IInv, NEW s \in Jobs
    PROVE  /\ s \in Subtree(parent, s) /\ Subtree(parent, s) \subseteq Jobs
           /\ \A p \in Subtree(parent, s) : Children(p) \subseteq Subtree(parent, s)
           /\ IsRoot(s) => Subtree(parent, s) = Jobs
           /\ \A r \in Jobs : IsRoot(r) /\ r # s => r \notin Subtree(parent, s)
  <1> DEFINE m == [p \in DOMAIN parent |-> {c \in DOMAIN parent : parent[c] = p}]
             S == Subtree(parent, s)
  <1>1. Jobs \in SUBSET Stages
    BY DEF IInv, TypeOK
  <1>2. /\ DOMAIN m = Jobs /\ \A p \in Jobs : m[p] = Children(p) /\ m[p] \subseteq Jobs
        /\ S = Reach({s}, m)
    BY DEF Jobs, Children, Subtree
  <1>3. Closed(Jobs, m) /\ Closed(S, m)
    <2>1. \A d \in DOMAIN m : m[d] \subseteq Stages
      BY <1>1, <1>2
    <2>2. Closed(Jobs, m)
      BY <1>2 DEF Closed
    <2>3. Closed(Reach({s}, m), m)
      <3> HIDE DEF m
      <3>1. QED
        BY <2>1, ReachIsClosed
    <2>4. QED
      BY <1>2, <2>2, <2>3
  <1>4. s \in S /\ S \subseteq Jobs
    <2>1. {s} \in SUBSET Stages /\ {s} \subseteq Jobs
      BY <1>1
    <2> HIDE DEF m
    <2>2. QED
      BY <1>1, <1>2, <1>3, <2>1, ReachContains, ReachIsLeast
  <1>5. ASSUME NEW p \in S
        PROVE  Children(p) \subseteq S
    <2>1. p \in Jobs /\ p \in DOMAIN m /\ m[p] = Children(p)
      BY <1>2, <1>4
    <2> HIDE DEF m, S
    <2>2. QED
      BY <1>3, <2>1 DEF Closed
  <1>6. IsRoot(s) => S = Jobs
    BY <1>1, <1>4, <1>5 DEF IInv, TreeInv
  <1>7. ASSUME NEW r \in Jobs, IsRoot(r), r # s
        PROVE  r \notin S
    <2>1. Closed(Jobs \ {r}, m)
      BY <1>1, <1>2, <1>7, NoStageIsNone DEF Closed, Children, IsRoot
    <2>2. {s} \subseteq Jobs \ {r} /\ Jobs \ {r} \in SUBSET Stages
      BY <1>1, <1>7
    <2> HIDE DEF m
    <2>3. S \subseteq Jobs \ {r}
      BY <1>2, <2>1, <2>2, ReachIsLeast
    <2>4. QED
      BY <2>3
  <1>8. QED
    BY <1>4, <1>5, <1>6, <1>7

\* What a release does.
LEMMA ReleaseShape ==
    ASSUME NEW j \in [Stages -> JobStates \cup Absent], NEW s \in Jobs, Jobs \subseteq Stages
    PROVE  /\ Releasing(s, j) \in [Stages -> JobStates \cup Absent]
           /\ \A t \in Stages :
                 \/ Releasing(s, j)[t] = j[t]
                 \/ /\ t \in Jobs /\ t = parent[s] /\ j[t] = "waiting-children"
                    /\ Releasing(s, j)[t] = "wait"
                    /\ \A c \in Children(t) : j[c] \in {"completed", "gone"}
  BY DEF Releasing, Pending, JobStates, Runnable

-----------------------------------------------------------------------------
\* The flow's own steps.

\* The steps that change neither the flow nor its jobs.
LEMMA FlowKept ==
    ASSUME IInv, UNCHANGED <<row, parent, job, earlier>>
    PROVE  TreeInv' /\ OrderInv' /\ RootInv'
  BY DEF IInv, TreeInv, OrderInv, RootInv, Jobs, Children, IsRoot, AllGone, Present

\* The tree stays as it is while the jobs change, once the flow is submitted.
LEMMA TreeKept ==
    ASSUME IInv, UNCHANGED parent, row' = "absent" => row = "absent"
    PROVE  TreeInv'
  BY DEF IInv, TreeInv, Jobs, Children, IsRoot

LEMMA SubmitStep ==
    ASSUME IInv, Submit
    PROVE  TypeOK' /\ TreeInv' /\ OrderInv' /\ RootInv' /\ Jobs = {}
  <1>0. Jobs = {}
    BY DEF Submit, IInv, TreeInv
  <1>1. PICK deps \in Graphs, skipped \in SUBSET Stages \ {Stages} :
            LET graph == Resolved(deps, skipped)
            IN  IF BuildsTree(graph)
                THEN /\ row' = "running"
                     /\ parent' = Tree(graph)
                     /\ job' = [s \in Stages |->
                           IF s \notin DOMAIN parent' THEN "none"
                           ELSE IF \E c \in DOMAIN parent' : parent'[c] = s
                           THEN "waiting-children" ELSE "wait"]
                ELSE row' = "failed" /\ UNCHANGED <<parent, job>>
    BY DEF Submit
  <1> DEFINE graph == Resolved(deps, skipped)
             r == Root(graph)
  <1>2. UNCHANGED <<earlier, worker, pc, step, census, token, plan, intent, began, outcome>>
    BY DEF Submit, tool, measuring, report
  <1>3. census = {} /\ token = {} /\ plan = {}
    BY <1>0 DEF IInv, TypeOK
  <1>4. CASE BuildsTree(graph)
    <2>1. /\ graph \in [Stages \ skipped -> SUBSET (Stages \ skipped)]
          /\ Stages \ skipped \in SUBSET Stages
      BY ResolvedIsGraph
    <2>2. /\ row' = "running" /\ parent' = Tree(graph)
          /\ job' = [s \in Stages |->
                           IF s \notin DOMAIN parent' THEN "none"
                           ELSE IF \E c \in DOMAIN parent' : parent'[c] = s
                           THEN "waiting-children" ELSE "wait"]
      BY <1>1, <1>4
    <2> HIDE DEF graph
    <2>3. /\ Jobs' = Visited(graph) /\ r \in Jobs' /\ Jobs' \subseteq Stages
          /\ parent'[r] = NoStage
          /\ \A s \in Jobs' \ {r} : parent'[s] \in Jobs'
      BY <1>4, <2>1, <2>2, TreeShape, VisitedIsClosed DEF Jobs
    <2>4. \A s \in Jobs' : parent'[s] = NoStage <=> s = r
      BY <2>3, NoStageIsNone
    <2>5. ASSUME NEW T \in SUBSET Stages, r \in T,
                 \A p \in T \cap Jobs' : Children(p)' \subseteq T
          PROVE  Jobs' \subseteq T
      <3>1. \A p \in T \cap Visited(graph) :
                {c \in Visited(graph) : Tree(graph)[c] = p} \subseteq T
        BY <2>2, <2>3, <2>5 DEF Children, Jobs
      <3>2. QED
        BY <1>4, <2>1, <2>3, <2>5, <3>1, TreeHangsTogether
    <2>6. TreeInv'
      BY <2>2, <2>3, <2>4, <2>5 DEF TreeInv, IsRoot
    <2>7. \A s \in Jobs' : IF Children(s)' = {} THEN job'[s] = "wait"
                                                ELSE job'[s] = "waiting-children"
      BY <2>2, <2>3 DEF Children, Jobs
    <2>8. OrderInv'
      BY <2>7 DEF OrderInv
    <2>9. RootInv'
      BY <2>2, <2>7 DEF RootInv
    <2>10. /\ job' \in [Stages -> JobStates \cup Absent]
           /\ \A s \in Stages : job'[s] = "none" <=> s \notin Jobs'
      BY <2>2 DEF JobStates, Runnable, TerminalOrParked, Absent, Jobs
    <2>11. TypeOK'
      BY <1>2, <1>3, <2>2, <2>3, <2>10 DEF TypeOK, IInv
    <2>12. QED
      BY <1>0, <2>6, <2>8, <2>9, <2>11
  <1>5. CASE ~BuildsTree(graph)
    <2>1. row' = "failed" /\ UNCHANGED <<parent, job>> /\ Jobs' = {}
      BY <1>0, <1>1, <1>5 DEF Jobs
    <2>2. TreeInv' /\ OrderInv' /\ RootInv'
      BY <2>1 DEF TreeInv, OrderInv, RootInv
    <2>3. TypeOK'
      BY <1>0, <1>2, <1>3, <2>1 DEF TypeOK, IInv
    <2>4. QED
      BY <1>0, <2>2, <2>3
  <1>6. QED
    BY <1>4, <1>5

\* A job that is taken, or put back.
LEMMA MoveStep ==
    ASSUME IInv, NEW s \in Jobs, Take(s) \/ Again(s)
    PROVE  OrderInv' /\ RootInv'
  <1>1. /\ job[s] \in Runnable /\ s \in Stages /\ UNCHANGED <<row, parent, earlier>>
        /\ \E l \in Runnable : job' = [job EXCEPT ![s] = l]
    BY DEF Take, Again, Runnable, IInv, TypeOK
  <1>2. PICK l \in Runnable : job' = [job EXCEPT ![s] = l]
    BY <1>1
  <1>3. \A t \in Stages \ {s} : job'[t] = job[t]
    BY <1>2 DEF IInv, TypeOK
  <1>4. job'[s] = l
    BY <1>1, <1>2 DEF IInv, TypeOK
  <1>5. OrderInv'
    BY <1>1, <1>3, <1>4 DEF IInv, TypeOK, OrderInv, Children, Jobs, Runnable
  <1>6. ~AllGone
    BY <1>1 DEF AllGone, Present, Absent, Runnable
  <1>7. RootInv'
    BY <1>1, <1>3, <1>4, <1>6 DEF IInv, TypeOK, RootInv, IsRoot, Jobs, Runnable
  <1>8. QED
    BY <1>5, <1>7

LEMMA CompleteStep ==
    ASSUME IInv, NEW s \in Jobs, Complete(s)
    PROVE  OrderInv' /\ RootInv'
  <1> DEFINE j == [job EXCEPT ![s] = "completed"]
  <1>1. /\ job[s] = "active" /\ s \in Stages /\ Jobs \subseteq Stages
        /\ UNCHANGED parent /\ job' = Releasing(s, j)
        /\ earlier' = [earlier EXCEPT ![s] = {t \in Jobs : job[t] = "completed"}]
        /\ row' = IF parent[s] = NoStage THEN "success" ELSE row
    BY DEF Complete, IInv, TypeOK
  <1>2. /\ j \in [Stages -> JobStates \cup Absent] /\ j[s] = "completed"
        /\ \A t \in Stages \ {s} : j[t] = job[t]
    BY <1>1 DEF IInv, TypeOK, JobStates, TerminalOrParked
  <1> HIDE DEF j
  <1>3. \A t \in Stages :
            \/ job'[t] = j[t]
            \/ /\ t \in Jobs /\ t = parent[s] /\ j[t] = "waiting-children"
               /\ job'[t] = "wait"
               /\ \A c \in Children(t) : j[c] \in {"completed", "gone"}
    BY <1>1, <1>2, ReleaseShape
  <1>4. Jobs' = Jobs /\ \A p \in Jobs : Children(p)' = Children(p) /\ Children(p) \subseteq Jobs
    BY <1>1 DEF Jobs, Children
  <1>5. OrderInv'
    <2> SUFFICES ASSUME NEW p \in Jobs, NEW c \in Children(p)
                 PROVE  /\ job'[p] # "waiting-children" => job'[c] \in {"completed", "gone"}
                        /\ job'[p] = "completed" => job'[c] = "gone" \/ c \in earlier'[p]
                        /\ job'[p] = "gone" => job'[c] = "gone"
      BY <1>4 DEF OrderInv
    <2>1. c \in Jobs /\ p \in Stages /\ c \in Stages
      BY <1>1, <1>4
    <2>2. /\ job[p] # "waiting-children" => job[c] \in {"completed", "gone"}
          /\ job[p] = "completed" => job[c] = "gone" \/ c \in earlier[p]
          /\ job[p] = "gone" => job[c] = "gone"
      BY DEF IInv, OrderInv
    <2>3. CASE p = s
      <3>1. job[c] \in {"completed", "gone"} /\ c # s
        BY <1>1, <2>2, <2>3
      <3>2. job'[c] = job[c]
        BY <1>2, <1>3, <2>1, <3>1
      <3>3. job'[s] = "completed"
        BY <1>1, <1>2, <1>3
      <3>4. job[c] = "completed" => c \in earlier'[s]
        BY <1>1, <2>1 DEF IInv, TypeOK
      <3>5. QED
        BY <2>3, <3>1, <3>2, <3>3, <3>4
    <2>4. CASE p # s /\ job'[p] = j[p]
      <3>1. job'[p] = job[p] /\ earlier'[p] = earlier[p]
        BY <1>1, <1>2, <2>1, <2>4 DEF IInv, TypeOK
      <3>2. CASE job[p] = "waiting-children"
        BY <3>1, <3>2
      <3>3. CASE job[p] # "waiting-children"
        <4>1. job[c] \in {"completed", "gone"} /\ c # s
          BY <1>1, <2>2, <3>3
        <4>2. job'[c] = job[c]
          BY <1>2, <1>3, <2>1, <4>1
        <4>3. QED
          BY <2>2, <3>1, <4>1, <4>2
      <3>4. QED
        BY <3>2, <3>3
    <2>5. CASE p # s /\ job'[p] # j[p]
      <3>1. job'[p] = "wait" /\ j[c] \in {"completed", "gone"}
        BY <1>3, <2>1, <2>5
      <3>2. job'[c] = j[c]
        BY <1>3, <2>1, <3>1
      <3>3. QED
        BY <3>1, <3>2
    <2>6. QED
      BY <2>3, <2>4, <2>5
  <1>6. RootInv'
    <2>1. ~AllGone /\ row # "superseded"
      BY <1>1 DEF AllGone, Present, Absent, IInv, RootInv
    <2>2. row' # "superseded"
      BY <1>1, <2>1
    <2>3. ASSUME NEW r \in Jobs, IsRoot(r), job'[r] \in {"completed", "gone"}
          PROVE  row' = "success"
      <3>1. CASE r = s
        BY <1>1, <2>3, <3>1 DEF IsRoot
      <3>2. CASE r # s
        <4>1. job[r] \in {"completed", "gone"}
          BY <1>1, <1>2, <1>3, <2>3, <3>2
        <4>2. row = "success"
          BY <2>1, <2>3, <4>1 DEF IInv, RootInv
        <4>3. QED
          BY <1>1, <4>2
      <3>3. QED
        BY <3>1, <3>2
    <2>4. QED
      BY <1>1, <1>4, <2>2, <2>3 DEF RootInv, IsRoot
  <1>7. QED
    BY <1>5, <1>6

LEMMA FailStep ==
    ASSUME IInv, NEW s \in Jobs, Fail(s)
    PROVE  OrderInv' /\ RootInv'
  <1>1. /\ job[s] = "active" /\ s \in Stages /\ row' \in {"failed", row}
        /\ UNCHANGED <<parent, earlier>> /\ job' = [job EXCEPT ![s] = "failed"]
    BY DEF Fail, IInv, TypeOK
  <1>2. job'[s] = "failed" /\ \A t \in Stages \ {s} : job'[t] = job[t]
    BY <1>1 DEF IInv, TypeOK
  <1>3. OrderInv'
    BY <1>1, <1>2 DEF IInv, TypeOK, OrderInv, Children, Jobs
  <1>4. \A r \in Jobs : IsRoot(r) => job'[r] \notin {"completed", "gone"}
    <2>1. \A r \in Jobs : IsRoot(r) => job[r] \notin {"completed", "gone"}
      BY <1>1, RootIsLast
    <2>2. QED
      BY <1>2, <2>1 DEF IInv, TypeOK
  <1>5. row # "superseded"
    BY <1>1 DEF IInv, RootInv, AllGone, Present, Absent
  <1>6. RootInv'
    BY <1>1, <1>4, <1>5 DEF RootInv, IsRoot, Jobs
  <1>7. QED
    BY <1>3, <1>6

LEMMA TrimStep ==
    ASSUME IInv, Trim
    PROVE  OrderInv' /\ RootInv'
  <1>1. PICK s \in Jobs : /\ job[s] = "completed" /\ \A t \in earlier[s] : job[t] # "completed"
                          /\ job' = [job EXCEPT ![s] = "gone"]
    BY DEF Trim
  <1>2. UNCHANGED <<row, parent, earlier>> /\ s \in Stages /\ Jobs \subseteq Stages
    BY DEF Trim, IInv, TypeOK
  <1>3. job'[s] = "gone" /\ \A t \in Stages \ {s} : job'[t] = job[t]
    BY <1>1, <1>2 DEF IInv, TypeOK
  <1>4. Jobs' = Jobs /\ \A p \in Jobs : Children(p)' = Children(p) /\ Children(p) \subseteq Jobs
    BY <1>2 DEF Jobs, Children
  <1>5. OrderInv'
    <2> SUFFICES ASSUME NEW p \in Jobs, NEW c \in Children(p)
                 PROVE  /\ job'[p] # "waiting-children" => job'[c] \in {"completed", "gone"}
                        /\ job'[p] = "completed" => job'[c] = "gone" \/ c \in earlier[p]
                        /\ job'[p] = "gone" => job'[c] = "gone"
      BY <1>2, <1>4 DEF OrderInv
    <2>1. c \in Jobs /\ p \in Stages /\ c \in Stages
      BY <1>2, <1>4
    <2>2. /\ job[p] # "waiting-children" => job[c] \in {"completed", "gone"}
          /\ job[p] = "completed" => job[c] = "gone" \/ c \in earlier[p]
          /\ job[p] = "gone" => job[c] = "gone"
      BY DEF IInv, OrderInv
    <2>3. CASE p = s
      <3>1. job[c] = "gone" \/ (job[c] = "completed" /\ c \in earlier[s])
        BY <1>1, <2>2, <2>3
      <3>2. job'[c] = "gone"
        BY <1>1, <1>3, <2>1, <3>1
      <3>3. QED
        BY <1>3, <2>3, <3>2
    <2>4. CASE p # s
      BY <1>1, <1>3, <2>1, <2>2, <2>4
    <2>5. QED
      BY <2>3, <2>4
  <1>6. ~AllGone
    BY <1>1, <1>2 DEF AllGone, Present, Absent
  <1>7. RootInv'
    BY <1>1, <1>2, <1>3, <1>4, <1>6 DEF IInv, RootInv, IsRoot
  <1>8. QED
    BY <1>5, <1>7

LEMMA ReconcileStep ==
    ASSUME IInv, Reconcile
    PROVE  OrderInv' /\ RootInv'
  <1>1. row = "running" /\ row' = "failed" /\ UNCHANGED <<parent, job, earlier>>
    BY DEF Reconcile
  <1>2. OrderInv'
    BY <1>1 DEF IInv, OrderInv, Jobs, Children
  <1>3. RootInv'
    BY <1>1 DEF IInv, RootInv, IsRoot, Jobs, AllGone, Present
  <1>4. QED
    BY <1>2, <1>3

-----------------------------------------------------------------------------
\* The tool's steps.

\* What a removal leaves: everything below the job is gone, and nothing else is.
LEMMA RemoveShape ==
    ASSUME IInv, Remove
    PROVE  \E s \in ParentsFirst(plan) :
              /\ s \in Jobs /\ plan' = plan \ {s}
              /\ \/ job[s] \in Absent /\ UNCHANGED <<job, began>>
                 \/ /\ job[s] \notin Absent /\ began' = TRUE
                    /\ job' \in [Stages -> JobStates \cup Absent]
                    /\ \A t \in Subtree(parent, s) : job'[t] = "gone"
                    /\ \A t \in Stages \ Subtree(parent, s) :
                          \/ job'[t] = job[t]
                          \/ /\ t \in Jobs /\ t = parent[s] /\ job[t] = "waiting-children"
                             /\ job'[t] = "wait"
                             /\ \A c \in Children(t) : c \in Subtree(parent, s)
                                                       \/ job[c] \in {"completed", "gone"}
  <1>1. PICK s \in ParentsFirst(plan) :
            LET taken == {t \in Subtree(parent, s) : job[t] # "gone"}
            IN  /\ plan' = plan \ {s}
                /\ IF job[s] \in Absent
                   THEN UNCHANGED <<job, began>>
                   ELSE /\ job' = Releasing(s, [t \in Stages |->
                                      IF t \in taken THEN "gone" ELSE job[t]])
                        /\ began' = TRUE
    BY DEF Remove
  <1>2. s \in Jobs /\ Jobs \subseteq Stages
    BY DEF ParentsFirst, IInv, TypeOK
  <1>3. CASE job[s] \in Absent
    BY <1>1, <1>2, <1>3
  <1>4. CASE job[s] \notin Absent
    <2> DEFINE taken == {t \in Subtree(parent, s) : job[t] # "gone"}
               j == [t \in Stages |-> IF t \in taken THEN "gone" ELSE job[t]]
    <2>1. job' = Releasing(s, j) /\ began' = TRUE /\ plan' = plan \ {s}
      BY <1>1, <1>4
    <2>2. /\ j \in [Stages -> JobStates \cup Absent]
          /\ \A t \in Subtree(parent, s) : t \in Stages /\ j[t] = "gone"
          /\ \A t \in Stages \ Subtree(parent, s) : j[t] = job[t]
      BY <1>2, SubtreeShape DEF IInv, TypeOK, Absent
    <2> HIDE DEF j
    <2>3. /\ job' \in [Stages -> JobStates \cup Absent]
          /\ \A t \in Stages :
                \/ job'[t] = j[t]
                \/ /\ t \in Jobs /\ t = parent[s] /\ j[t] = "waiting-children"
                   /\ job'[t] = "wait"
                   /\ \A c \in Children(t) : j[c] \in {"completed", "gone"}
      BY <1>2, <2>1, <2>2, ReleaseShape
    <2>4. \A t \in Subtree(parent, s) : job'[t] = "gone"
      BY <2>2, <2>3
    <2>5. ASSUME NEW t \in Stages \ Subtree(parent, s)
          PROVE  \/ job'[t] = job[t]
                 \/ /\ t \in Jobs /\ t = parent[s] /\ job[t] = "waiting-children"
                    /\ job'[t] = "wait"
                    /\ \A c \in Children(t) : c \in Subtree(parent, s)
                                              \/ job[c] \in {"completed", "gone"}
      <3>1. \A c \in Children(t) : c \in Stages
        BY <1>2 DEF Children
      <3>2. QED
        BY <2>2, <2>3, <2>5, <3>1
    <2>6. QED
      BY <1>2, <1>4, <2>1, <2>3, <2>4, <2>5
  <1>5. QED
    BY <1>3, <1>4

LEMMA RemoveStep ==
    ASSUME IInv, Remove
    PROVE  TypeOK' /\ OrderInv' /\ RootInv' /\ PlanInv'
  <1>1. PICK s \in ParentsFirst(plan) :
              /\ s \in Jobs /\ plan' = plan \ {s}
              /\ \/ job[s] \in Absent /\ UNCHANGED <<job, began>>
                 \/ /\ job[s] \notin Absent /\ began' = TRUE
                    /\ job' \in [Stages -> JobStates \cup Absent]
                    /\ \A t \in Subtree(parent, s) : job'[t] = "gone"
                    /\ \A t \in Stages \ Subtree(parent, s) :
                          \/ job'[t] = job[t]
                          \/ /\ t \in Jobs /\ t = parent[s] /\ job[t] = "waiting-children"
                             /\ job'[t] = "wait"
                             /\ \A c \in Children(t) : c \in Subtree(parent, s)
                                                       \/ job[c] \in {"completed", "gone"}
    BY RemoveShape
  <1>2. /\ UNCHANGED <<row, parent, earlier, worker, pc, step, census, token, intent, outcome>>
        /\ pc = "remove" /\ s \in plan /\ s \in Stages /\ Jobs \subseteq Stages
    BY <1>1 DEF Remove, measuring, ParentsFirst, IInv, TypeOK
  <1>3. Jobs' = Jobs /\ \A p \in Jobs : Children(p)' = Children(p) /\ Children(p) \subseteq Jobs
    BY <1>2 DEF Jobs, Children
  <1>4. \A t \in Stages : job[t] = "gone" => job'[t] = "gone"
    BY <1>1, <1>2
  <1>5. job'[s] = "gone"
    <2>1. job[s] \in Absent => job[s] = "gone"
      BY <1>1, <1>2 DEF Absent, IInv, TypeOK
    <2>2. s \in Subtree(parent, s)
      BY <1>1, SubtreeShape
    <2>3. QED
      BY <1>1, <2>1, <2>2
  <1>6. PlanInv'
    <2>1. PICK r \in Jobs : IsRoot(r) /\ (r \in plan \/ job[r] = "gone")
      BY <1>2 DEF IInv, PlanInv
    <2>2. IsRoot(r)' /\ (r \in plan' \/ job'[r] = "gone")
      BY <1>1, <1>2, <1>3, <1>4, <1>5, <2>1 DEF IsRoot
    <2>3. ASSUME NEW t \in plan'
          PROVE  parent'[t] \in plan' \cup {NoStage} \/ job'[parent'[t]] = "gone"
      <3>1. t \in plan /\ t \in Jobs
        BY <1>1, <2>3 DEF IInv, TypeOK
      <3>2. parent[t] \in Stages \cup {NoStage}
        BY <1>2, <3>1 DEF IInv, TypeOK
      <3>3. parent[t] \in plan \cup {NoStage} \/ job[parent[t]] = "gone"
        BY <1>2, <3>1 DEF IInv, PlanInv
      <3>4. QED
        BY <1>1, <1>2, <1>4, <1>5, <3>2, <3>3
    <2>4. QED
      BY <1>2, <1>3, <2>2, <2>3 DEF PlanInv
  <1>7. CASE UNCHANGED <<job, began>>
    <2>1. TypeOK'
      BY <1>1, <1>2, <1>3, <1>7 DEF IInv, TypeOK
    <2>2. OrderInv' /\ RootInv'
      BY <1>2, <1>7, FlowKept
    <2>3. QED
      BY <1>6, <2>1, <2>2
  <1>8. CASE /\ job[s] \notin Absent /\ began' = TRUE
             /\ job' \in [Stages -> JobStates \cup Absent]
             /\ \A t \in Subtree(parent, s) : job'[t] = "gone"
             /\ \A t \in Stages \ Subtree(parent, s) :
                   \/ job'[t] = job[t]
                   \/ /\ t \in Jobs /\ t = parent[s] /\ job[t] = "waiting-children"
                      /\ job'[t] = "wait"
                      /\ \A c \in Children(t) : c \in Subtree(parent, s)
                                                \/ job[c] \in {"completed", "gone"}
    <2> DEFINE S == Subtree(parent, s)
    <2>0. /\ s \in S /\ S \subseteq Jobs
          /\ \A p \in S : Children(p) \subseteq S
          /\ IsRoot(s) => S = Jobs
          /\ \A r \in Jobs : IsRoot(r) /\ r # s => r \notin S
      BY <1>1, SubtreeShape
    <2> HIDE DEF S
    <2>1. /\ \A t \in S : job'[t] = "gone"
          /\ \A t \in Stages \ S :
                   \/ job'[t] = job[t]
                   \/ /\ t \in Jobs /\ t = parent[s] /\ job[t] = "waiting-children"
                      /\ job'[t] = "wait"
                      /\ \A c \in Children(t) : c \in S \/ job[c] \in {"completed", "gone"}
      BY <1>8 DEF S
    <2>2. TypeOK'
      <3>1. \A t \in Stages : job'[t] = "none" <=> t \notin Jobs
        BY <1>2, <2>0, <2>1 DEF IInv, TypeOK
      <3>2. QED
        BY <1>1, <1>2, <1>3, <1>8, <3>1 DEF IInv, TypeOK
    <2>3. OrderInv'
      <3> SUFFICES ASSUME NEW p \in Jobs, NEW c \in Children(p)
                   PROVE  /\ job'[p] # "waiting-children" => job'[c] \in {"completed", "gone"}
                          /\ job'[p] = "completed" => job'[c] = "gone" \/ c \in earlier[p]
                          /\ job'[p] = "gone" => job'[c] = "gone"
        BY <1>2, <1>3 DEF OrderInv
      <3>1. c \in Jobs /\ p \in Stages /\ c \in Stages
        BY <1>2, <1>3
      <3>2. /\ job[p] # "waiting-children" => job[c] \in {"completed", "gone"}
            /\ job[p] = "completed" => job[c] = "gone" \/ c \in earlier[p]
            /\ job[p] = "gone" => job[c] = "gone"
        BY DEF IInv, OrderInv
      <3>3. CASE c \in S
        BY <2>1, <3>3
      <3>4. CASE c \notin S /\ job'[p] = job[p]
        <4>1. job[c] \in {"completed", "gone"} => job'[c] = job[c]
          BY <2>1, <3>1, <3>4
        <4>2. QED
          BY <3>2, <3>4, <4>1
      <3>5. CASE c \notin S /\ job'[p] # job[p]
        <4>1. p \notin S
          BY <2>0, <3>5
        <4>2. job'[p] = "wait" /\ job[c] \in {"completed", "gone"}
          BY <2>1, <3>1, <3>5, <4>1
        <4>3. job'[c] = job[c]
          BY <2>1, <3>1, <3>5, <4>2
        <4>4. QED
          BY <4>2, <4>3
      <3>6. QED
        BY <3>3, <3>4, <3>5
    <2>4. RootInv'
      <3>1. ~AllGone /\ row # "superseded"
        BY <1>2, <1>8 DEF AllGone, Present, IInv, RootInv
      <3>2. ASSUME NEW r \in Jobs, IsRoot(r), job'[r] \in {"completed", "gone"}
            PROVE  row = "success" \/ AllGone'
        <4>1. CASE r = s
          <5>1. \A t \in Stages : job'[t] \in Absent
            BY <1>2, <2>0, <2>1, <2>2, <3>2, <4>1, <1>3 DEF TypeOK, Absent
          <5>2. QED
            BY <5>1 DEF AllGone, Present
        <4>2. CASE r # s
          <5>1. r \notin S /\ r \in Stages
            BY <1>2, <2>0, <3>2, <4>2
          <5>2. job[r] \in {"completed", "gone"}
            BY <2>1, <3>2, <5>1
          <5>3. QED
            BY <3>1, <3>2, <5>2 DEF IInv, RootInv
        <4>3. QED
          BY <4>1, <4>2
      <3>3. QED
        BY <1>2, <1>3, <3>1, <3>2 DEF RootInv, IsRoot
    <2>5. QED
      BY <1>6, <2>2, <2>3, <2>4
  <1>9. QED
    BY <1>1, <1>7, <1>8

LEMMA SupersedeStep ==
    ASSUME IInv, Supersede
    PROVE  OrderInv' /\ RootInv' /\ (row' = "superseded" => AllGone)
  <1>1. PICK r \in Jobs : IsRoot(r) /\ job[r] = "gone"
    BY DEF Supersede, IInv, PlanInv
  <1>2. AllGone
    BY <1>1, RootIsLast
  <1>3. UNCHANGED <<parent, job, earlier>>
    BY DEF Supersede
  <1>4. OrderInv'
    BY <1>3 DEF IInv, OrderInv, Jobs, Children
  <1>5. AllGone'
    BY <1>2, <1>3 DEF AllGone, Present
  <1>6. QED
    BY <1>2, <1>4, <1>5 DEF RootInv

\* A job's state stays a state, and the stages that have a job keep one.
LEMMA JobTypes ==
    ASSUME IInv, NEW s \in Jobs, Take(s) \/ Complete(s) \/ Fail(s) \/ Again(s)
    PROVE  /\ job' \in [Stages -> JobStates \cup Absent]
           /\ \A t \in Stages : job'[t] = "none" <=> t \notin Jobs
  <1>1. s \in Stages /\ job[s] \in Runnable /\ Jobs \subseteq Stages
    BY DEF IInv, TypeOK, Take, Complete, Fail, Again, Runnable
  <1>2. CASE Take(s) \/ Fail(s) \/ Again(s)
    <2>1. \E l \in JobStates : job' = [job EXCEPT ![s] = l]
      BY <1>2 DEF Take, Fail, Again, JobStates, Runnable, TerminalOrParked
    <2>2. QED
      BY <1>1, <2>1 DEF IInv, TypeOK, JobStates, Runnable, TerminalOrParked
  <1>3. CASE Complete(s)
    <2> DEFINE j == [job EXCEPT ![s] = "completed"]
    <2>1. j \in [Stages -> JobStates \cup Absent] /\ job' = Releasing(s, j)
          /\ \A t \in Stages : j[t] = "none" <=> t \notin Jobs
      BY <1>1, <1>3 DEF IInv, TypeOK, Complete, JobStates, TerminalOrParked
    <2> HIDE DEF j
    <2>2. QED
      BY <1>1, <2>1, ReleaseShape
  <1>4. QED
    BY <1>2, <1>3

\* Every step keeps the types.
LEMMA TypeStep ==
    ASSUME IInv, [Next]_vars
    PROVE  TypeOK'
  <1> USE DEF IInv, TypeOK, flow, tool, measuring, report
  <1>0. /\ 0 \in 0..Len(ReadOrder)
        /\ \A n \in 0..Len(ReadOrder) : n < Len(ReadOrder) =>
              n + 1 \in 0..Len(ReadOrder) /\ n + 1 \in 1..5
        /\ \A n \in 1..5 : ReadOrder[n] \in JobStates
    BY ReadsAreFive DEF ReadOrder, JobStates, Runnable, TerminalOrParked
  <1>1. CASE Submit
    BY <1>1, SubmitStep
  <1>2. CASE Attach \/ Detach
    BY <1>2 DEF Attach, Detach, Jobs
  <1>3. CASE Trim
    BY <1>3 DEF Trim, Jobs, Absent, JobStates, Runnable, TerminalOrParked
  <1>4. CASE Reconcile
    BY <1>4 DEF Reconcile, Jobs
  <1>5. ASSUME NEW s \in Jobs, Take(s) \/ Fail(s) \/ Again(s)
        PROVE  TypeOK'
    <2>1. /\ job' \in [Stages -> JobStates \cup Absent]
          /\ \A t \in Stages : job'[t] = "none" <=> t \notin Jobs
      BY <1>5, JobTypes
    <2>2. QED
      BY <1>5, <2>1 DEF Take, Fail, Again, Jobs
  <1>6. ASSUME NEW s \in Jobs, Complete(s)
        PROVE  TypeOK'
    <2>1. /\ job' \in [Stages -> JobStates \cup Absent]
          /\ \A t \in Stages : job'[t] = "none" <=> t \notin Jobs
      BY <1>6, JobTypes
    <2>2. earlier' \in [Stages -> SUBSET Stages]
      BY <1>6 DEF Complete
    <2>3. QED
      BY <1>6, <2>1, <2>2 DEF Complete, Jobs
  <1>7. CASE Begin
    BY <1>0, <1>7, StepsAre DEF Begin, Jobs
  <1>8. CASE Read
    <2>1. census' \in SUBSET (Jobs \X JobStates)
      BY <1>0, <1>8 DEF Read
    <2>2. QED
      BY <1>0, <1>8, <2>1 DEF Read, Jobs
  <1>9. CASE Inspect
    BY <1>9, StepsAre DEF Inspect, Jobs
  <1>10. CASE Authorize
    BY <1>10, StepsAre DEF Authorize, Jobs
  <1>11. CASE PublishIntent
    BY <1>0, <1>11, StepsAre DEF PublishIntent, Jobs
  <1>12. CASE Recheck
    <2>1. Seen(census) \in SUBSET Jobs
      BY DEF Seen
    <2>2. QED
      BY <1>12, <2>1, StepsAre DEF Recheck, Jobs
  <1>13. CASE RecheckWorkers
    BY <1>13, StepsAre DEF RecheckWorkers, Jobs
  <1>14. CASE Remove
    BY <1>14, RemoveStep
  <1>15. CASE Collect
    BY <1>0, <1>15, StepsAre DEF Collect, Jobs
  <1>16. CASE VerifyRemoval
    BY <1>16, StepsAre DEF VerifyRemoval, Jobs
  <1>17. CASE Supersede
    BY <1>17, StepsAre DEF Supersede, Jobs
  <1>18. CASE Throw \/ End
    BY <1>18, StepsAre DEF Throw, End, Jobs
  <1>19. CASE UNCHANGED vars
    BY <1>19 DEF vars, Jobs
  <1>20. QED
    BY <1>1, <1>2, <1>3, <1>4, <1>5, <1>6, <1>7, <1>8, <1>9, <1>10, <1>11, <1>12,
       <1>13, <1>14, <1>15, <1>16, <1>17, <1>18, <1>19 DEF Next, Flow, Tool

\* Every step keeps the flow in order.
LEMMA FlowStep ==
    ASSUME IInv, [Next]_vars
    PROVE  TreeInv' /\ OrderInv' /\ RootInv'
  <1>1. CASE Submit
    BY <1>1, SubmitStep
  <1>2. CASE Attach \/ Detach
    BY <1>2, FlowKept DEF Attach, Detach
  <1>3. CASE Trim
    <2>1. UNCHANGED <<row, parent>>
      BY <1>3 DEF Trim
    <2>2. QED
      BY <1>3, <2>1, TreeKept, TrimStep
  <1>4. CASE Reconcile
    <2>1. row' # "absent" /\ UNCHANGED parent
      BY <1>4 DEF Reconcile
    <2>2. QED
      BY <1>4, <2>1, TreeKept, ReconcileStep
  <1>5. ASSUME NEW s \in Jobs, Take(s) \/ Again(s)
        PROVE  TreeInv' /\ OrderInv' /\ RootInv'
    <2>1. UNCHANGED <<row, parent>>
      BY <1>5 DEF Take, Again
    <2>2. QED
      BY <1>5, <2>1, TreeKept, MoveStep
  <1>6. ASSUME NEW s \in Jobs, Complete(s)
        PROVE  TreeInv' /\ OrderInv' /\ RootInv'
    <2>1. (row' = "absent" => row = "absent") /\ UNCHANGED parent
      BY <1>6 DEF Complete
    <2>2. QED
      BY <1>6, <2>1, TreeKept, CompleteStep
  <1>7. ASSUME NEW s \in Jobs, Fail(s)
        PROVE  TreeInv' /\ OrderInv' /\ RootInv'
    <2>1. (row' = "absent" => row = "absent") /\ UNCHANGED parent
      BY <1>7 DEF Fail
    <2>2. QED
      BY <1>7, <2>1, TreeKept, FailStep
  <1>8. CASE Remove
    <2>1. UNCHANGED <<row, parent>>
      BY <1>8 DEF Remove
    <2>2. QED
      BY <1>8, <2>1, TreeKept, RemoveStep
  <1>9. CASE Supersede
    <2>1. (row' = "absent" => row = "absent") /\ UNCHANGED parent
      BY <1>9 DEF Supersede
    <2>2. QED
      BY <1>9, <2>1, TreeKept, SupersedeStep
  <1>10. CASE \/ Begin \/ Read \/ Inspect \/ Authorize \/ PublishIntent \/ Recheck
              \/ RecheckWorkers \/ Collect \/ VerifyRemoval \/ Throw \/ End
              \/ UNCHANGED vars
    <2>1. UNCHANGED flow
      BY <1>10 DEF Begin, Read, Inspect, Authorize, PublishIntent, Recheck,
                   RecheckWorkers, Collect, VerifyRemoval, Throw, End, vars
    <2>2. QED
      BY <2>1, FlowKept DEF flow
  <1>11. QED
    BY <1>1, <1>2, <1>3, <1>4, <1>5, <1>6, <1>7, <1>8, <1>9, <1>10
    DEF Next, Flow, Tool

\* What is gone stays gone, and the tree stays as it is.
LEMMA GoneStays ==
    ASSUME IInv, Flow, ~Submit
    PROVE  /\ UNCHANGED <<parent, tool>>
           /\ \A t \in Stages : job[t] = "gone" => job'[t] = "gone"
  <1>1. CASE Attach \/ Detach \/ Trim \/ Reconcile
    BY <1>1 DEF Attach, Detach, Trim, Reconcile, IInv, TypeOK
  <1>2. ASSUME NEW s \in Jobs, Take(s) \/ Fail(s) \/ Again(s)
        PROVE  /\ UNCHANGED <<parent, tool>>
               /\ \A t \in Stages : job[t] = "gone" => job'[t] = "gone"
    BY <1>2 DEF Take, Fail, Again, IInv, TypeOK
  <1>3. ASSUME NEW s \in Jobs, Complete(s)
        PROVE  /\ UNCHANGED <<parent, tool>>
               /\ \A t \in Stages : job[t] = "gone" => job'[t] = "gone"
    <2> DEFINE j == [job EXCEPT ![s] = "completed"]
    <2>1. /\ j \in [Stages -> JobStates \cup Absent] /\ job' = Releasing(s, j)
          /\ \A t \in Stages : job[t] = "gone" => j[t] = "gone"
          /\ UNCHANGED <<parent, tool>> /\ Jobs \subseteq Stages
      BY <1>3 DEF IInv, TypeOK, Complete, JobStates, TerminalOrParked
    <2> HIDE DEF j
    <2>2. QED
      BY <2>1, ReleaseShape
  <1>4. QED
    BY <1>1, <1>2, <1>3 DEF Flow

\* Every step keeps the plan rooted, and downwards.
LEMMA PlanStep ==
    ASSUME IInv, [Next]_vars
    PROVE  PlanInv'
  <1>1. CASE Submit
    <2>1. Jobs = {} /\ plan = {} /\ UNCHANGED <<pc, plan>>
      BY <1>1, SubmitStep DEF Submit, tool, IInv, TypeOK
    <2>2. pc \notin {"recheck", "remove", "remaining", "supersede"}
      BY <2>1 DEF IInv, PlanInv
    <2>3. QED
      BY <2>1, <2>2 DEF PlanInv
  <1>2. CASE Flow /\ ~Submit
    <2>1. /\ UNCHANGED <<parent, pc, plan>> /\ Jobs' = Jobs /\ Jobs \subseteq Stages
          /\ \A t \in Stages : job[t] = "gone" => job'[t] = "gone"
      BY <1>2, GoneStays DEF tool, Jobs, IInv, TypeOK
    <2>2. \A t \in plan : parent[t] \in Stages \cup {NoStage}
      BY <2>1 DEF IInv, TypeOK
    <2>3. NoStage \in plan \cup {NoStage}
      OBVIOUS
    <2>4. QED
      BY <2>1, <2>2, <2>3 DEF IInv, PlanInv, IsRoot
  <1>3. CASE Recheck
    <2>1. CASE pc' = "recheck"
      <3>1. /\ Reviewable(census) /\ plan' = Seen(census) /\ UNCHANGED <<parent, job>>
        BY <1>3, <2>1 DEF Recheck, Retirable, flow
      <3>2. {s \in Seen(census) : parent[s] = NoStage} # {}
        BY <3>1, FS_EmptySet DEF Reviewable
      <3>3. Seen(census) \subseteq Jobs
        BY DEF Seen, IInv, TypeOK
      <3>4. QED
        BY <2>1, <3>1, <3>2, <3>3 DEF PlanInv, Reviewable, IsRoot, Jobs
    <2>2. CASE pc' # "recheck"
      BY <1>3, <2>2 DEF Recheck, PlanInv
    <2>3. QED
      BY <2>1, <2>2
  <1>4. CASE Remove
    BY <1>4, RemoveStep
  <1>5. CASE Collect
    BY <1>5 DEF Collect, flow, IInv, PlanInv, IsRoot, Jobs
  <1>6. CASE RecheckWorkers \/ VerifyRemoval
    BY <1>6 DEF RecheckWorkers, VerifyRemoval, Measured, flow, IInv, PlanInv, IsRoot, Jobs
  <1>7. CASE Begin \/ Inspect \/ Authorize \/ PublishIntent \/ Supersede \/ Throw \/ End
    BY <1>7 DEF Begin, Inspect, Authorize, PublishIntent, Supersede, Throw, End, PlanInv
  <1>8. CASE Read \/ UNCHANGED vars
    BY <1>8 DEF Read, Measuring, vars, flow, tool, IInv, PlanInv, IsRoot, Jobs
  <1>9. QED
    BY <1>1, <1>2, <1>3, <1>4, <1>5, <1>6, <1>7, <1>8 DEF Next, Tool

\* A superseded row stays superseded: nothing is left to run.
LEMMA SupersededStays ==
    ASSUME IInv, Flow, row = "superseded"
    PROVE  row' = "superseded"
  <1>1. \A t \in Jobs : job[t] \in Absent
    BY DEF IInv, RootInv, TypeOK, AllGone, Present
  <1>2. QED
    BY <1>1 DEF Flow, Submit, Attach, Detach, Trim, Reconcile, Take, Complete, Fail,
                Again, Absent

\* Every step keeps the evidence true.
LEMMA EvidenceStep ==
    ASSUME IInv, [Next]_vars
    PROVE  EvidenceInv'
  <1> USE DEF IInv, EvidenceInv, EvidenceIsTrue, measuring, report
  <1>1. CASE Flow
    <2>1. UNCHANGED <<pc, intent, began, outcome>>
      BY <1>1 DEF Flow, Submit, Attach, Detach, Trim, Reconcile, Take, Complete, Fail,
                  Again, tool
    <2>2. QED
      BY <1>1, <2>1, SupersededStays
  <1>2. CASE Begin \/ Read \/ Inspect
    BY <1>2 DEF Begin, Read, Inspect, Measuring, Measured, flow
  <1>3. CASE Authorize \/ PublishIntent
    BY <1>3 DEF Authorize, PublishIntent, Measured, flow
  <1>4. CASE Recheck \/ RecheckWorkers
    BY <1>4 DEF Recheck, RecheckWorkers, Measured, flow
  <1>5. CASE Remove
    <2>1. UNCHANGED <<row, pc, intent, outcome>> /\ pc = "remove"
      BY <1>5 DEF Remove
    <2>2. intent /\ outcome = "unknown"
      BY <2>1
    <2>3. QED
      BY <2>1, <2>2
  <1>6. CASE Collect \/ VerifyRemoval
    BY <1>6 DEF Collect, VerifyRemoval, Measured, flow
  <1>7. CASE Supersede
    BY <1>7 DEF Supersede
  <1>8. CASE Throw \/ End
    BY <1>8 DEF Throw, End, flow
  <1>9. CASE UNCHANGED vars
    BY <1>9 DEF vars, flow, tool
  <1>10. QED
    BY <1>1, <1>2, <1>3, <1>4, <1>5, <1>6, <1>7, <1>8, <1>9 DEF Next, Tool

-----------------------------------------------------------------------------
\* The theorems.

(* The strengthened invariant holds for ever. *)
THEOREM Invariance == Spec => []IInv
  <1>1. IInv /\ [Next]_vars => IInv'
    BY TypeStep, FlowStep, PlanStep, EvidenceStep DEF IInv
  <1>2. QED
    BY <1>1, InitInv, PTL DEF Spec

(* A superseded date has no job left that could run for it: flow-cleanup.ts:6-9. *)
THEOREM SupersededFlowsAreGone == Spec => []SupersededMeansGone
  <1>1. IInv => SupersededMeansGone
    BY DEF IInv, RootInv, AllGone, SupersededMeansGone
  <1>2. QED
    BY <1>1, Invariance, PTL

(* The evidence of an attempt is true of it: retire-failed-flow.ts:19-25. *)
THEOREM EvidenceStaysTrue == Spec => []EvidenceIsTrue
  <1>1. IInv => EvidenceIsTrue
    BY DEF IInv, EvidenceInv
  <1>2. QED
    BY <1>1, Invariance, PTL

(* What trimming leaves of a flow hangs together, root and all, so that no census of
   one moment is refused for its shape: flow-cleanup.ts:85-131. *)
THEOREM FlowsStayReviewable == Spec => []TrimmedFlowIsReviewable
  <1>1. ASSUME IInv, Census # {}
        PROVE  Reviewable(Census)
    <2>1. \A s \in Jobs : job[s] \in JobStates \cup {"gone"}
      BY <1>1 DEF IInv, TypeOK, Absent
    <2>2. Seen(Census) = {s \in Jobs : job[s] # "gone"}
      <3>1. ASSUME NEW s \in Jobs, job[s] # "gone"
            PROVE  s \in Seen(Census)
        <4>1. <<s, job[s]>> \in Census
          BY <2>1, <3>1 DEF Census
        <4>2. QED
          BY <4>1 DEF Seen
      <3>2. ASSUME NEW s \in Seen(Census)
            PROVE  s \in Jobs /\ job[s] # "gone"
        BY <3>2 DEF Seen, Census, JobStates, Runnable, TerminalOrParked
      <3>3. QED
        BY <3>1, <3>2
    <2>3. PICK r \in Jobs : IsRoot(r)
      BY <1>1 DEF Census, IInv, TreeInv
    <2>4. r \in Seen(Census)
      <3>1. ~AllGone
        <4>1. PICK x \in Census : TRUE
          BY <1>1
        <4>2. x[1] \in Jobs /\ job[x[1]] \in JobStates
          BY <4>1 DEF Census
        <4>3. QED
          BY <1>1, <4>2 DEF AllGone, Present, Absent, JobStates, Runnable,
                            TerminalOrParked, IInv, TypeOK
      <3>2. job[r] # "gone"
        BY <1>1, <2>3, <3>1, RootIsLast
      <3>3. QED
        BY <2>2, <3>2
    <2>5. {s \in Seen(Census) : parent[s] = NoStage} = {r}
      BY <1>1, <2>2, <2>3, <2>4 DEF IInv, TreeInv, IsRoot
    <2>6. Cardinality({s \in Seen(Census) : parent[s] = NoStage}) = 1
      BY <2>5, FS_Singleton
    <2>7. \A x, y \in Census : x[1] = y[1] => x = y
      BY DEF Census
    <2>8. ASSUME NEW s \in Seen(Census), parent[s] # NoStage
          PROVE  parent[s] \in Seen(Census)
      <3>1. s \in Jobs /\ job[s] # "gone" /\ parent[s] \in Jobs
        BY <1>1, <2>2, <2>8 DEF IInv, TypeOK
      <3>2. job[parent[s]] # "gone"
        BY <1>1, <3>1 DEF IInv, OrderInv, Children
      <3>3. QED
        BY <2>2, <3>1, <3>2
    <2>9. QED
      BY <2>6, <2>7, <2>8 DEF Reviewable
  <1>2. IInv => TrimmedFlowIsReviewable
    BY <1>1 DEF TrimmedFlowIsReviewable
  <1>3. QED
    BY <1>2, Invariance, PTL

(* Removing a job makes no other executable: flow-cleanup.ts:6-9. *)
THEOREM RemovalsReleaseNobody == Spec => RemovalReleasesNobody
  <1> DEFINE Quiet == pc = "remove" /\ plan' # plan
                        => \A s \in Stages : job'[s] \in Runnable => job[s] \in Runnable
  <1>1. ASSUME IInv, [Next]_vars
        PROVE  [Quiet]_vars
    <2> SUFFICES ASSUME pc = "remove", plan' # plan
                 PROVE  \A s \in Stages : job'[s] \in Runnable => job[s] \in Runnable
      OBVIOUS
    <2>1. Remove
      BY <1>1 DEF Next, Flow, Tool, Submit, Attach, Detach, Trim, Reconcile, Take,
                  Complete, Fail, Again, Begin, Read, Inspect, Authorize,
                  PublishIntent, Recheck, RecheckWorkers, Collect, VerifyRemoval,
                  Supersede, Throw, End, Measured, vars, tool
    <2>2. PICK s \in ParentsFirst(plan) :
              /\ s \in Jobs
              /\ \/ UNCHANGED job
                 \/ /\ \A t \in Subtree(parent, s) : job'[t] = "gone"
                    /\ \A t \in Stages \ Subtree(parent, s) :
                          \/ job'[t] = job[t]
                          \/ t = parent[s] /\ job[t] = "waiting-children"
      BY <1>1, <2>1, RemoveShape
    <2>3. s \in plan /\ parent[s] \notin plan
      BY DEF ParentsFirst
    <2>4. parent[s] = NoStage \/ job[parent[s]] = "gone"
      BY <1>1, <2>3 DEF IInv, PlanInv
    <2>5. \A t \in Stages \ Subtree(parent, s) : job'[t] = job[t] \/ UNCHANGED job
      BY <2>2, <2>4, NoStageIsNone
    <2>6. QED
      BY <2>2, <2>5 DEF Runnable
  <1>2. QED
    BY <1>1, Invariance, PTL DEF Spec, RemovalReleasesNobody

-----------------------------------------------------------------------------
\* The flow in the queue is one that can be built.

FlowIsBuilt == Jobs # {} => \E x \in Submissions : x[1] = parent

LEMMA SubmittedFlowIsBuilt ==
    ASSUME Submit, FlowIsBuilt
    PROVE  FlowIsBuilt'
  <1>1. PICK deps \in Graphs, skipped \in SUBSET Stages \ {Stages} :
            IF BuildsTree(Resolved(deps, skipped))
            THEN parent' = Tree(Resolved(deps, skipped))
            ELSE UNCHANGED parent
    BY Zenon DEF Submit
  <1>2. CASE BuildsTree(Resolved(deps, skipped))
    <2> DEFINE y == <<deps, skipped>>
               x == <<Tree(Resolved(y[1], y[2])), y[1], y[2]>>
    <2>1. y[1] = deps /\ y[2] = skipped /\ y \in Graphs \X SUBSET Stages
      OBVIOUS
    <2>2. y \in Inputs
      BY <1>2, <2>1 DEF Inputs
    <2>3. x \in Submissions
      BY <2>2 DEF Submissions
    <2>4. x[1] = parent'
      BY <1>1, <1>2, <2>1
    <2>5. QED
      BY <2>3, <2>4 DEF FlowIsBuilt
  <1>3. CASE ~BuildsTree(Resolved(deps, skipped))
    BY <1>1, <1>3 DEF FlowIsBuilt, Jobs
  <1>4. QED
    BY <1>2, <1>3

\* Only the submission makes the tree.
LEMMA FlowStaysBuilt == Spec => []FlowIsBuilt
  <1>1. Init => FlowIsBuilt
    BY DEF Init, FlowIsBuilt, Jobs
  <1>2. FlowIsBuilt /\ [Next]_vars => FlowIsBuilt'
    <2> SUFFICES ASSUME FlowIsBuilt, [Next]_vars
                 PROVE  FlowIsBuilt'
      OBVIOUS
    <2>1. CASE Submit
      BY <2>1, SubmittedFlowIsBuilt
    <2>2. CASE ~Submit
      <3>1. UNCHANGED parent
        BY <2>2 DEF Next, Flow, Tool, Attach, Detach, Trim, Reconcile, Take, Complete, Fail,
           Again, Begin, Read, Inspect, Authorize, PublishIntent, Recheck, RecheckWorkers,
           Remove, Collect, VerifyRemoval, Supersede, Throw, End, vars, flow
      <3>2. QED
        BY <3>1 DEF FlowIsBuilt, Jobs
    <2>3. QED
      BY <2>1, <2>2
  <1>3. QED
    BY <1>1, <1>2, PTL DEF Spec

(***************************************************************************)
(* A job of the flow in the queue waits for all that its stage depends on, *)
(* through whatever was skipped, of any graph that the flow can have been  *)
(* built from (submit.ts:83-92).                                           *)
(***************************************************************************)
THEOREM DependenciesAreAwaited == Spec => []EveryDependencyIsAwaited
  <1>1. FlowIsBuilt => EveryDependencyIsAwaited
    BY SubmissionsAwait DEF FlowIsBuilt, EveryDependencyIsAwaited
  <1>2. QED
    BY <1>1, FlowStaysBuilt, PTL

(***************************************************************************)
(* The flow in the queue has been built from some graph, and of any that   *)
(* it can have been built from, only cycles, and what none but they wait   *)
(* for, are missing from it without an error: buildDAGTree checks the      *)
(* roots and not the cycles (submit.ts:144).                               *)
(***************************************************************************)
THEOREM OnlyCyclesAreLost == Spec => [](FlowIsBuilt /\ OnlyCyclesAreDropped)
  <1>1. OnlyCyclesAreDropped
    BY SubmissionsLeaveOutCycles DEF OnlyCyclesAreDropped
  <1>2. QED
    BY <1>1, FlowStaysBuilt, PTL

-----------------------------------------------------------------------------
\* What the tool and the flow do to a run as the others know it.

\* A run that succeeded has had its root complete, and the tool removes the flow of no
\* run that is neither failed nor, since the census, completed after all.
RowInv ==
    /\ row = "success" => \E r \in Jobs : IsRoot(r) /\ job[r] \in {"completed", "gone"}
    /\ pc \in {"recheck", "remove"} => row \in {"failed", "success"}

\* What is done stays done.
LEMMA DoneStays ==
    ASSUME IInv, [Next]_vars, ~Submit
    PROVE  /\ UNCHANGED parent /\ Jobs' = Jobs
           /\ \A t \in Stages :
                 job[t] \in {"completed", "gone"} => job'[t] \in {"completed", "gone"}
  <1>1. UNCHANGED parent /\ Jobs' = Jobs
    BY DEF Next, Flow, Tool, Attach, Detach, Trim, Reconcile, Take, Complete, Fail,
           Again, Begin, Read, Inspect, Authorize, PublishIntent, Recheck, RecheckWorkers,
           Remove, Collect, VerifyRemoval, Supersede, Throw, End, vars, flow, Jobs
  <1> SUFFICES \A t \in Stages :
                 job[t] \in {"completed", "gone"} => job'[t] \in {"completed", "gone"}
    BY <1>1
  <1>2. CASE UNCHANGED job
    BY <1>2
  <1>3. CASE Trim
    BY <1>3 DEF Trim, IInv, TypeOK
  <1>4. ASSUME NEW s \in Jobs, Take(s) \/ Fail(s) \/ Again(s)
        PROVE  \A t \in Stages :
                 job[t] \in {"completed", "gone"} => job'[t] \in {"completed", "gone"}
    BY <1>4 DEF Take, Fail, Again, IInv, TypeOK
  <1>5. ASSUME NEW s \in Jobs, Complete(s)
        PROVE  \A t \in Stages :
                 job[t] \in {"completed", "gone"} => job'[t] \in {"completed", "gone"}
    <2> DEFINE j == [job EXCEPT ![s] = "completed"]
    <2>1. /\ j \in [Stages -> JobStates \cup Absent] /\ job' = Releasing(s, j)
          /\ \A t \in Stages : job[t] \in {"completed", "gone"} => j[t] \in {"completed", "gone"}
          /\ Jobs \subseteq Stages
      BY <1>5 DEF IInv, TypeOK, Complete, JobStates, TerminalOrParked
    <2> HIDE DEF j
    <2>2. QED
      BY <2>1, ReleaseShape
  <1>6. CASE Remove
    <2>1. PICK s \in ParentsFirst(plan) :
              /\ s \in Jobs
              /\ \/ UNCHANGED job
                 \/ /\ \A t \in Subtree(parent, s) : job'[t] = "gone"
                    /\ \A t \in Stages \ Subtree(parent, s) :
                          \/ job'[t] = job[t]
                          \/ t = parent[s] /\ job[t] = "waiting-children"
      BY <1>6, RemoveShape
    <2>2. QED
      BY <2>1
  <1>7. QED
    BY <1>2, <1>3, <1>4, <1>5, <1>6
    DEF Next, Flow, Tool, Attach, Detach, Reconcile, Begin, Read, Inspect, Authorize,
        PublishIntent, Recheck, RecheckWorkers, Collect, VerifyRemoval, Supersede, Throw,
        End, vars, flow

\* The job that completes is completed.
LEMMA CompletedIsDone ==
    ASSUME IInv, NEW s \in Jobs, Complete(s)
    PROVE  job'[s] = "completed"
  <1> DEFINE j == [job EXCEPT ![s] = "completed"]
  <1>1. /\ j \in [Stages -> JobStates \cup Absent] /\ job' = Releasing(s, j)
        /\ j[s] = "completed" /\ s \in Stages /\ Jobs \subseteq Stages
    BY DEF IInv, TypeOK, Complete, JobStates, TerminalOrParked
  <1> HIDE DEF j
  <1>2. QED
    BY <1>1, ReleaseShape

\* Every step keeps what the row says in order.
LEMMA RowStep ==
    ASSUME IInv, RowInv, [Next]_vars
    PROVE  RowInv'
  <1>1. CASE Submit
    <2>1. row' \in {"running", "failed"} /\ row = "absent" /\ UNCHANGED pc
      BY <1>1 DEF Submit, tool
    <2>2. QED
      BY <2>1 DEF RowInv
  <1>2. CASE ~Submit
    <2>1. /\ UNCHANGED parent /\ Jobs' = Jobs /\ Jobs \subseteq Stages
          /\ \A t \in Stages :
                job[t] \in {"completed", "gone"} => job'[t] \in {"completed", "gone"}
      BY <1>2, DoneStays DEF IInv, TypeOK
    <2>2. ASSUME row = "success"
          PROVE  \E r \in Jobs' : IsRoot(r)' /\ job'[r] \in {"completed", "gone"}
      BY <2>1, <2>2 DEF RowInv, IsRoot
    <2>3. CASE Flow
      <3>1. UNCHANGED pc
        BY <1>2, <2>3, GoneStays DEF tool
      <3>2. CASE UNCHANGED row
        BY <2>2, <3>1, <3>2 DEF RowInv
      <3>3. CASE row' = "failed"
        BY <3>1, <3>3 DEF RowInv
      <3>4. ASSUME NEW s \in Jobs, Complete(s), row' = "success"
            PROVE  RowInv'
        <4>1. CASE parent[s] = NoStage
          <5>1. job'[s] = "completed"
            BY <3>4, CompletedIsDone
          <5>2. QED
            BY <2>1, <3>4, <4>1, <5>1 DEF RowInv, IsRoot
        <4>2. CASE parent[s] # NoStage
          <5>1. UNCHANGED row
            BY <3>4, <4>2 DEF Complete
          <5>2. QED
            BY <3>2, <5>1
        <4>3. QED
          BY <4>1, <4>2
      <3>5. QED
        BY <1>2, <2>3, <3>2, <3>3, <3>4
        DEF Flow, Attach, Detach, Trim, Reconcile, Take, Complete, Fail, Again
    <2>4. CASE Supersede
      BY <2>2, <2>4 DEF Supersede, RowInv
    <2>5. CASE Recheck
      <3>1. UNCHANGED row /\ (pc' \in {"recheck", "remove"} => row = "failed")
        BY <2>5 DEF Recheck, Retirable, flow
      <3>2. QED
        BY <2>2, <3>1 DEF RowInv
    <2>6. CASE RecheckWorkers \/ Remove
      <3>1. UNCHANGED row /\ pc \in {"recheck", "remove"}
        BY <2>6 DEF RecheckWorkers, Remove, flow
      <3>2. QED
        BY <2>2, <3>1 DEF RowInv
    <2>7. CASE Read \/ UNCHANGED vars
      <3>1. UNCHANGED <<row, pc>>
        BY <2>7 DEF Read, vars, flow, tool
      <3>2. QED
        BY <2>2, <3>1 DEF RowInv
    <2>8. CASE \/ Begin \/ Inspect \/ Authorize \/ PublishIntent \/ Collect
               \/ VerifyRemoval \/ Throw \/ End
      <3>1. UNCHANGED row /\ pc' \notin {"recheck", "remove"}
        BY <2>8 DEF Begin, Inspect, Authorize, PublishIntent, Collect, VerifyRemoval,
                    Throw, End, flow
      <3>2. QED
        BY <2>2, <3>1 DEF RowInv
    <2>9. QED
      BY <1>2, <2>3, <2>4, <2>5, <2>6, <2>7, <2>8 DEF Next, Tool
  <1>3. QED
    BY <1>1, <1>2

\* A flow that is submitted is live, or there is none.
LEMMA SubmittedIsLive ==
    ASSUME IInv, Submit
    PROVE  /\ row = "absent" /\ Phase = "none"
           /\ \/ row' = "running" /\ Phase' = "live"
              \/ row' = "failed" /\ Phase' = "none"
  <1>1. row = "absent" /\ Jobs = {} /\ Phase = "none"
    BY SubmitStep DEF Submit, Phase
  <1>2. PICK deps \in Graphs, skipped \in SUBSET Stages \ {Stages} :
            LET graph == Resolved(deps, skipped)
            IN  IF BuildsTree(graph)
                THEN /\ row' = "running"
                     /\ parent' = Tree(graph)
                     /\ job' = [s \in Stages |->
                           IF s \notin DOMAIN parent' THEN "none"
                           ELSE IF \E c \in DOMAIN parent' : parent'[c] = s
                           THEN "waiting-children" ELSE "wait"]
                ELSE row' = "failed" /\ UNCHANGED <<parent, job>>
    BY DEF Submit
  <1> DEFINE graph == Resolved(deps, skipped)
  <1>3. CASE BuildsTree(graph)
    <2>1. /\ graph \in [Stages \ skipped -> SUBSET (Stages \ skipped)]
          /\ Stages \ skipped \in SUBSET Stages
      BY ResolvedIsGraph
    <2>2. /\ row' = "running" /\ parent' = Tree(graph)
          /\ job' = [s \in Stages |->
                           IF s \notin DOMAIN parent' THEN "none"
                           ELSE IF \E c \in DOMAIN parent' : parent'[c] = s
                           THEN "waiting-children" ELSE "wait"]
      BY <1>2, <1>3
    <2> HIDE DEF graph
    <2>3. Jobs' = Visited(graph) /\ Jobs' \subseteq Stages
      BY <1>3, <2>1, <2>2, TreeShape, VisitedIsClosed DEF Jobs
    <2>4. PICK s \in Jobs' : \A c \in Jobs' : parent'[c] # s
      BY <1>3, <2>1, <2>2, <2>3, SomeJobWaitsForNone
    <2>5. job'[s] = "wait" /\ s \in Stages
      BY <2>2, <2>3, <2>4 DEF Jobs
    <2>6. ~AllGone'
      BY <2>5 DEF AllGone, Present, Absent
    <2>7. QED
      BY <1>1, <2>2, <2>5, <2>6 DEF Phase, Runnable
  <1>4. CASE ~BuildsTree(graph)
    <2>1. row' = "failed" /\ Jobs' = {}
      BY <1>1, <1>2, <1>4 DEF Jobs
    <2>2. QED
      BY <1>1, <2>1 DEF Phase
  <1>5. QED
    BY <1>3, <1>4

\* While a job runs the run is live, and what follows is that it still is or has stopped.
LEMMA JobPhase ==
    ASSUME IInv, NEW s \in Jobs, Take(s) \/ Complete(s) \/ Fail(s) \/ Again(s)
    PROVE  /\ Phase = "live" /\ Phase' \in {"live", "parked", "completed"}
           /\ row \in {"running", "success", "failed"}
           /\ UNCHANGED row \/ row' \in {"success", "failed"}
  <1>1. job[s] \in Runnable /\ s \in Stages /\ Jobs' = Jobs
    BY DEF Take, Complete, Fail, Again, Runnable, IInv, TypeOK, Jobs
  <1>2. ~AllGone
    BY <1>1 DEF AllGone, Present, Absent, Runnable
  <1>3. Phase = "live"
    BY <1>1, <1>2 DEF Phase
  <1>4. row \in {"running", "success", "failed"}
    BY <1>2 DEF IInv, TypeOK, TreeInv, RootInv
  <1>5. job'[s] \in {"active", "wait", "completed", "failed"}
    BY <1>1, CompletedIsDone DEF Take, Fail, Again, IInv, TypeOK
  <1>6. ~AllGone'
    BY <1>1, <1>5 DEF AllGone, Present, Absent
  <1>7. Phase' \in {"live", "parked", "completed"}
    BY <1>1, <1>6 DEF Phase
  <1>8. UNCHANGED row \/ row' \in {"success", "failed"}
    BY DEF Take, Complete, Fail, Again
  <1>9. QED
    BY <1>3, <1>4, <1>7, <1>8

\* Trimming a flow is nothing to the run: when the root is trimmed, the run succeeded.
LEMMA TrimPhase ==
    ASSUME IInv, Trim
    PROVE  UNCHANGED <<row, Phase>>
  <1>1. PICK s \in Jobs : job[s] = "completed" /\ job' = [job EXCEPT ![s] = "gone"]
    BY DEF Trim
  <1>2. UNCHANGED <<row, parent>> /\ s \in Stages /\ Jobs \subseteq Stages /\ Jobs' = Jobs
    BY DEF Trim, IInv, TypeOK, Jobs
  <1>3. job'[s] = "gone" /\ \A t \in Stages \ {s} : job'[t] = job[t]
    BY <1>1, <1>2 DEF IInv, TypeOK
  <1>4. ~AllGone
    BY <1>1, <1>2 DEF AllGone, Present, Absent
  <1>5. ASSUME AllGone'
        PROVE  row = "success"
    <2>1. PICK r \in Jobs : IsRoot(r)
      BY DEF IInv, TreeInv
    <2>2. job[r] \in {"completed", "gone"}
      <3>1. job'[r] \in Absent
        BY <1>2, <1>5 DEF AllGone, Present
      <3>2. job[r] # "none"
        BY <1>2 DEF IInv, TypeOK
      <3>3. QED
        BY <1>1, <1>2, <1>3, <3>1, <3>2 DEF Absent
    <2>3. QED
      BY <1>4, <2>1, <2>2 DEF IInv, RootInv
  <1>6. (\E t \in Jobs : job[t] \in Runnable) <=> (\E t \in Jobs : job'[t] \in Runnable)
    BY <1>1, <1>2, <1>3 DEF Runnable
  <1>7. (\E r \in Jobs : IsRoot(r) /\ job[r] \in {"completed", "gone"})
            <=> (\E r \in Jobs : IsRoot(r) /\ job'[r] \in {"completed", "gone"})
    BY <1>1, <1>2, <1>3
  <1>8. \A r \in Jobs : IsRoot(r)' <=> IsRoot(r)
    BY <1>2 DEF IsRoot
  <1>9. QED
    BY <1>2, <1>4, <1>5, <1>6, <1>7, <1>8 DEF Phase

\* The tool removes the flow of a failed run whole, with the root; of a run that has
\* succeeded since it removes what has completed.
LEMMA RemovePhase ==
    ASSUME IInv, RowInv, Remove
    PROVE  /\ UNCHANGED row
           /\ \/ UNCHANGED Phase
              \/ /\ row = "failed" /\ Phase \in {"live", "parked", "completed"}
                 /\ Phase' = "removed"
  <1>1. PICK s \in ParentsFirst(plan) :
              /\ s \in Jobs /\ plan' = plan \ {s}
              /\ \/ job[s] \in Absent /\ UNCHANGED <<job, began>>
                 \/ /\ job[s] \notin Absent /\ began' = TRUE
                    /\ \A t \in Subtree(parent, s) : job'[t] = "gone"
    BY RemoveShape
  <1>2. /\ UNCHANGED <<row, parent>> /\ pc = "remove" /\ s \in plan /\ parent[s] \notin plan
        /\ s \in Stages /\ Jobs \subseteq Stages /\ Jobs' = Jobs
    BY <1>1 DEF Remove, ParentsFirst, IInv, TypeOK, Jobs
  <1>3. CASE UNCHANGED job
    BY <1>2, <1>3 DEF Phase, AllGone, Present, IsRoot
  <1>4. CASE job[s] \notin Absent /\ \A t \in Subtree(parent, s) : job'[t] = "gone"
    <2>1. IsRoot(s)
      <3>1. parent[s] = NoStage \/ job[parent[s]] = "gone"
        BY <1>2 DEF IInv, PlanInv
      <3>2. CASE parent[s] # NoStage
        <4>1. parent[s] \in Jobs /\ job[parent[s]] = "gone" /\ s \in Children(parent[s])
          BY <1>1, <3>1, <3>2 DEF IInv, TypeOK, Children
        <4>2. job[s] = "gone"
          BY <4>1 DEF IInv, OrderInv
        <4>3. QED
          BY <1>4, <4>2 DEF Absent
      <3>3. QED
        BY <1>1, <3>2 DEF IsRoot
    <2>2. \A t \in Jobs : job'[t] = "gone"
      BY <1>1, <1>4, <2>1, SubtreeShape
    <2>3. ~AllGone
      BY <1>2, <1>4 DEF AllGone, Present
    <2>4. CASE row = "failed"
      <3>1. AllGone'
        BY <1>2, <2>2, RemoveStep DEF AllGone, Present, Absent, TypeOK
      <3>2. Phase' = "removed"
        BY <1>1, <1>2, <2>4, <3>1 DEF Phase
      <3>3. Phase \in {"live", "parked", "completed"}
        BY <1>1, <2>3 DEF Phase
      <3>4. QED
        BY <1>2, <2>4, <3>2, <3>3
    <2>5. CASE row = "success"
      <3>1. PICK r \in Jobs : IsRoot(r) /\ job[r] \in {"completed", "gone"}
        BY <2>5 DEF RowInv
      <3>2. \A t \in Jobs : job[t] \in {"completed", "gone"}
        BY <3>1, RootIsLast
      <3>3. Phase = "completed"
        BY <2>5, <3>1, <3>2 DEF Phase, Runnable
      <3>4. Phase' = "completed"
        BY <1>1, <1>2, <2>1, <2>2, <2>5 DEF Phase, Runnable, IsRoot
      <3>5. QED
        BY <1>2, <3>3, <3>4
    <2>6. QED
      BY <1>2, <2>4, <2>5 DEF RowInv
  <1>5. QED
    BY <1>1, <1>3, <1>4

\* The row is closed or superseded, and the flow left alone.
LEMMA RowPhase ==
    ASSUME IInv, RowInv, Reconcile \/ Supersede
    PROVE  /\ UNCHANGED Phase
           /\ \/ UNCHANGED row
              \/ row = "running" /\ row' = "failed"
              \/ row = "failed" /\ Phase = "removed" /\ row' = "superseded"
  <1>1. UNCHANGED <<parent, job>> /\ Jobs' = Jobs
    BY DEF Reconcile, Supersede, Jobs
  <1>2. row # "success" => row' # "success"
    BY DEF Reconcile, Supersede
  <1>3. row = "success" => row' = "success"
    BY DEF Reconcile, Supersede
  <1>4. UNCHANGED Phase
    BY <1>1, <1>2, <1>3 DEF Phase, AllGone, Present, IsRoot
  <1>5. CASE Reconcile
    BY <1>4, <1>5 DEF Reconcile
  <1>6. CASE Supersede
    <2>1. PICK r \in Jobs : IsRoot(r) /\ job[r] = "gone"
      BY <1>6 DEF Supersede, IInv, PlanInv
    <2>2. AllGone
      BY <2>1, RootIsLast
    <2>3. row = "failed" => Phase = "removed"
      BY <2>1, <2>2 DEF Phase
    <2>4. QED
      BY <1>4, <1>6, <2>3 DEF Supersede
  <1>7. QED
    BY <1>5, <1>6

(***************************************************************************)
(* Whatever tree was submitted, the run lives the life that DailyScheduler *)
(* gives it and FlowQueue works off: its flow is removed whole, and from a *)
(* failed run only, and neither trimming nor a removal lets a flow that    *)
(* has stopped run again (flow-cleanup.ts:6-9).                            *)
(***************************************************************************)
THEOREM ImplementsRun == Spec => ImplementsScheduledRun
  <1>1. Init => Run!Init /\ RowInv
    <2> SUFFICES ASSUME Init
                 PROVE  Run!Init /\ RowInv
      OBVIOUS
    <2>1. Jobs = {}
      BY DEF Init, Jobs
    <2>2. QED
      BY <2>1 DEF Init, Run!Init, Phase, RowInv
  <1>2. IInv /\ RowInv /\ [Next]_vars => RowInv'
    BY RowStep
  <1>3. IInv /\ RowInv /\ [Next]_vars => [Run!Next]_(Run!run)
    <2> SUFFICES ASSUME IInv, RowInv, [Next]_vars
                 PROVE  Run!Next \/ UNCHANGED <<row, Phase>>
      BY DEF Run!run
    <2> USE DEF Run!Next, Run!Close
    <2>1. CASE Submit
      BY <2>1, SubmittedIsLive DEF Run!Submit, Run!Refuse
    <2>2. ASSUME NEW s \in Jobs, Take(s) \/ Complete(s) \/ Fail(s) \/ Again(s)
          PROVE  Run!Next \/ UNCHANGED <<row, Phase>>
      <3>1. /\ Phase = "live" /\ Phase' \in {"live", "parked", "completed"}
            /\ row \in {"running", "success", "failed"}
            /\ UNCHANGED row \/ row' \in {"success", "failed"}
        BY <2>2, JobPhase
      <3>2. QED
        BY <3>1 DEF Run!CloseRow, Run!Stop
    <2>3. CASE Trim
      BY <2>3, TrimPhase
    <2>4. CASE Remove
      BY <2>4, RemovePhase DEF Run!Remove
    <2>5. CASE Reconcile \/ Supersede
      BY <2>5, RowPhase DEF Run!CloseRow, Run!Supersede
    <2>6. CASE \/ Attach \/ Detach \/ Begin \/ Read \/ Inspect \/ Authorize
               \/ PublishIntent \/ Recheck \/ RecheckWorkers \/ Collect \/ VerifyRemoval
               \/ Throw \/ End \/ UNCHANGED vars
      <3>1. UNCHANGED <<row, parent, job>>
        BY <2>6 DEF Attach, Detach, Begin, Read, Inspect, Authorize, PublishIntent,
                    Recheck, RecheckWorkers, Collect, VerifyRemoval, Throw, End, vars, flow
      <3>2. QED
        BY <3>1 DEF Phase, Jobs, AllGone, Present, IsRoot
    <2>7. QED
      BY <2>1, <2>2, <2>3, <2>4, <2>5, <2>6 DEF Next, Flow, Tool
  <1>4. QED
    BY <1>1, <1>2, <1>3, Invariance, PTL DEF Spec, ImplementsScheduledRun, Run!Spec

=============================================================================
