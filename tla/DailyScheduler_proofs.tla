----------------------- MODULE DailyScheduler_proofs -----------------------
(***************************************************************************)
(* Proofs, for any number of fires, dates and incidents, that a date has   *)
(* at most one live flow, that what a scheduler files is what it approved, *)
(* that the whole implements the once-per-day contract of OncePerDay, and  *)
(* that its lock and each of its runs are those of SubmitAuthority and     *)
(* ScheduledRun.                                                           *)
(***************************************************************************)
EXTENDS DailyScheduler, TLAPS

USE DatesAssumption, BystandersBoolean, MaxIncidentsNat

-----------------------------------------------------------------------------
(* What the steps do to the table, element by element. *)

(* Appending keeps every element and adds one. *)
LEMMA Appended ==
  ASSUME NEW S, NEW t \in Seq(S), NEW x \in S, NEW u, u = Append(t, x)
  PROVE  /\ u \in Seq(S) /\ Len(u) = Len(t) + 1 /\ Len(t) \in Nat
         /\ DOMAIN t = 1..Len(t) /\ DOMAIN u = 1..Len(t)+1
         /\ \A i \in DOMAIN t : u[i] = t[i]
         /\ u[Len(t) + 1] = x
  OBVIOUS

(* Overwriting one element keeps the others. *)
LEMMA Overwritten ==
  ASSUME NEW S, NEW t \in Seq(S), NEW r \in DOMAIN t, NEW x \in S,
         NEW u, u = [t EXCEPT ![r] = x]
  PROVE  /\ u \in Seq(S) /\ Len(u) = Len(t) /\ DOMAIN u = DOMAIN t
         /\ DOMAIN t = 1..Len(t)
         /\ \A i \in DOMAIN t : i # r => u[i] = t[i]
         /\ u[r] = x
  OBVIOUS

\* What a submission that is not refused by the index does to the table.
Inserted(p) ==
    /\ rows' \in Seq(Rows) /\ flow' \in Seq(FlowStates)
    /\ Len(rows') = Len(rows) + 1 /\ Len(flow') = Len(rows')
    /\ DOMAIN rows = 1..Len(rows) /\ DOMAIN rows' = 1..Len(rows) + 1
    /\ \A i \in DOMAIN rows : rows'[i] = rows[i] /\ flow'[i] = flow[i]
    /\ rows'[Len(rows) + 1].date = approved[p]
    /\ ~rows'[Len(rows) + 1].superseded
    /\ flow'[Len(rows) + 1] = "none"
    /\ row' = [row EXCEPT ![p] = Len(rows) + 1]
    /\ pc' = [pc EXCEPT ![p] = "addFlow"]
    /\ ~Conflicts(approved[p])

(* A submission is refused, or inserts. *)
LEMMA Insertion ==
  ASSUME TypeOK, NEW p \in Fires, RecordStart(p)
  PROVE  Inserted(p) \/ (UNCHANGED <<row, store>> /\ pc' = [pc EXCEPT ![p] = "exit"])
  <1> DEFINE new == [date |-> approved[p], status |-> "running", superseded |-> FALSE]
  <1>1. CASE Conflicts(approved[p])
    BY <1>1 DEF RecordStart, LogicalDate, Goto
  <1>2. CASE ~Conflicts(approved[p])
    <2>1. new \in Rows /\ "none" \in FlowStates
      BY DEF Rows, Statuses, FlowStates, TypeOK
    <2>2. rows' = Append(rows, new) /\ flow' = Append(flow, "none")
      BY <1>2 DEF RecordStart, LogicalDate
    <2>3. rows \in Seq(Rows) /\ flow \in Seq(FlowStates) /\ Len(flow) = Len(rows)
      BY DEF TypeOK
    <2>4. /\ rows' \in Seq(Rows) /\ Len(rows') = Len(rows) + 1
          /\ DOMAIN rows = 1..Len(rows) /\ DOMAIN rows' = 1..Len(rows) + 1
          /\ \A i \in DOMAIN rows : rows'[i] = rows[i]
          /\ rows'[Len(rows) + 1] = new
      BY <2>1, <2>2, <2>3, Appended
    <2>5. /\ flow' \in Seq(FlowStates) /\ Len(flow') = Len(flow) + 1
          /\ DOMAIN flow = 1..Len(flow)
          /\ \A i \in DOMAIN flow : flow'[i] = flow[i]
          /\ flow'[Len(flow) + 1] = "none"
      BY <2>1, <2>2, <2>3, Appended
    <2>6. row' = [row EXCEPT ![p] = Len(rows) + 1] /\ pc' = [pc EXCEPT ![p] = "addFlow"]
      BY <1>2 DEF RecordStart, LogicalDate, Goto
    <2>7. QED
      BY <1>2, <2>3, <2>4, <2>5, <2>6 DEF Inserted
  <1>3. QED
    BY <1>1, <1>2


\* What closing a row keeps.
KeepsStanding ==
    /\ rows' \in Seq(Rows) /\ Len(rows') = Len(rows) /\ DOMAIN rows' = DOMAIN rows
    /\ \A i \in DOMAIN rows :
          /\ rows'[i].date = rows[i].date
          /\ rows'[i].superseded = rows[i].superseded

\* What a step of the flow of a row does.
FlowBecomes(r, x) ==
    /\ flow' \in Seq(FlowStates) /\ Len(flow') = Len(flow) /\ DOMAIN flow' = DOMAIN flow
    /\ \A i \in DOMAIN flow : i # r => flow'[i] = flow[i]
    /\ flow'[r] = x

(* The two columns of the table have the same rows. *)
LEMMA Table ==
  ASSUME TypeOK
  PROVE  /\ DOMAIN rows = 1..Len(rows) /\ DOMAIN flow = 1..Len(rows)
         /\ Len(rows) \in Nat
  BY DEF TypeOK

(* Closing a row keeps the rows' dates and standing. *)
LEMMA Ended ==
  ASSUME TypeOK, NEW r \in DOMAIN rows, NEW st \in Statuses, RecordEnd(r, st)
  PROVE  KeepsStanding
  <1> DEFINE x == [rows[r] EXCEPT !.status = st]
  <1>1. rows \in Seq(Rows) /\ rows[r] \in Rows
    BY DEF TypeOK
  <1>2. x \in Rows /\ x.date = rows[r].date /\ x.superseded = rows[r].superseded
    BY <1>1 DEF Rows
  <1>3. rows' = [rows EXCEPT ![r] = x]
    BY DEF RecordEnd
  <1>4. /\ rows' \in Seq(Rows) /\ Len(rows') = Len(rows) /\ DOMAIN rows' = DOMAIN rows
        /\ \A i \in DOMAIN rows : i # r => rows'[i] = rows[i]
        /\ rows'[r] = x
    BY <1>1, <1>2, <1>3, Overwritten
  <1>5. QED
    BY <1>2, <1>4 DEF KeepsStanding

\* What superseding a row does.
Supersedes(r) ==
    /\ rows' \in Seq(Rows) /\ Len(rows') = Len(rows) /\ DOMAIN rows' = DOMAIN rows
    /\ \A i \in DOMAIN rows : rows'[i].date = rows[i].date
    /\ \A i \in DOMAIN rows : i # r => rows'[i] = rows[i]
    /\ rows'[r].superseded

(* A supersession keeps the dates and every other row. *)
LEMMA Supersession ==
  ASSUME TypeOK, NEW r \in DOMAIN rows, SupersedeRow(r)
  PROVE  Supersedes(r)
  <1> DEFINE x == [rows[r] EXCEPT !.superseded = TRUE]
  <1>1. rows \in Seq(Rows) /\ rows[r] \in Rows
    BY DEF TypeOK
  <1>2. x \in Rows /\ x.date = rows[r].date /\ x.superseded
    BY <1>1 DEF Rows
  <1>3. rows' = [rows EXCEPT ![r] = x]
    BY DEF SupersedeRow
  <1>4. /\ rows' \in Seq(Rows) /\ Len(rows') = Len(rows) /\ DOMAIN rows' = DOMAIN rows
        /\ \A i \in DOMAIN rows : i # r => rows'[i] = rows[i]
        /\ rows'[r] = x
    BY <1>1, <1>2, <1>3, Overwritten
  <1>5. QED
    BY <1>2, <1>4 DEF Supersedes

(* A flow's step is of that flow alone. *)
LEMMA FlowStep ==
  ASSUME TypeOK, NEW r \in DOMAIN rows, NEW x \in FlowStates, flow' = [flow EXCEPT ![r] = x]
  PROVE  FlowBecomes(r, x)
  <1>1. flow \in Seq(FlowStates) /\ r \in DOMAIN flow
    BY Table DEF TypeOK
  <1>2. QED
    BY <1>1, Overwritten DEF FlowBecomes

(* An eligible date has no run and had become due. *)
LEMMA EligibleDates ==
  ASSUME TypeOK, RowInv, NEW d \in Dates, Eligible(d)
  PROVE  RunsFor(d) = {} /\ HadBecomeDue(d)
  <1>1. SUFFICES ASSUME NEW r \in RunsFor(d) PROVE FALSE
    BY DEF Eligible, Assess
  <1>2. \A s \in RunsFor(d) : s = r
    BY DEF RunsFor, RowInv, Dates
  <1>3. r \in RunsFor(d) /\ r \in DOMAIN rows /\ r <= r
    BY Table DEF RunsFor
  <1>4. (CHOOSE x \in RunsFor(d) : \A s \in RunsFor(d) : s <= x) = r
    BY <1>2, <1>3
  <1>5. rows[r].status \in Statuses
    <2>1. rows[r] \in Rows
      BY <1>3 DEF TypeOK
    <2>2. QED
      BY <2>1 DEF Rows
  <1>6. QED
    BY <1>1, <1>4, <1>5 DEF Eligible, Assess, Statuses

-----------------------------------------------------------------------------

(* The invariant holds initially. *)
LEMMA InitInv == Init => IInv
  <1> SUFFICES ASSUME Init
               PROVE  IInv
    OBVIOUS
  <1> USE DEF Init, Lock!Init
  <1>1. TypeOK
    <2>1. 1 \in Dates /\ 0 \in 0..MaxIncidents
      BY DEF Dates
    <2>2. /\ rows \in Seq(Rows) /\ flow \in Seq(FlowStates)
          /\ Len(rows) = 0 /\ Len(flow) = 0
      OBVIOUS
    <2>3. /\ row \in [Fires -> 0..Len(rows)]
          /\ pc \in [Fires -> Labels]
          /\ approved \in [Fires -> Dates \cup {NoDate}]
      BY <2>2 DEF Labels
    <2>4. QED
      BY <2>1, <2>2, <2>3 DEF TypeOK
  <1>2. RowInv
    BY DEF RowInv
  <1>3. SubmitterInv /\ LockInv /\ ApprovalInv
    BY DEF SubmitterInv, LockInv, ApprovalInv
  <1>4. QED
    BY <1>1, <1>2, <1>3 DEF IInv

(* Every step keeps the types. *)
LEMMA TypeStep == IInv /\ [Next]_vars => TypeOK'
  <1> SUFFICES ASSUME IInv, [Next]_vars
               PROVE  TypeOK'
    OBVIOUS
  <1>0. TypeOK /\ RowInv /\ SubmitterInv /\ LockInv /\ ApprovalInv
    BY DEF IInv
  <1> USE <1>0, Table DEF Goto, clock, store, Incident, Lock!Acquire, Lock!GiveUp, LogicalDate, TypeOK, Labels
  <1>1. ASSUME NEW p \in Fires, Evaluate(p) PROVE TypeOK'
    BY <1>1 DEF Evaluate
  <1>2. ASSUME NEW p \in Fires, AcquireLock(p) PROVE TypeOK'
    BY <1>2 DEF AcquireLock
  <1>3. ASSUME NEW p \in Fires, LoseLock(p) PROVE TypeOK'
    BY <1>3 DEF LoseLock
  <1>4. ASSUME NEW p \in Fires, Recheck(p) PROVE TypeOK'
    BY <1>4 DEF Recheck
  <1>5. ASSUME NEW p \in Fires, Refuse(p) PROVE TypeOK'
    BY <1>5 DEF Refuse
  <1>6. ASSUME NEW p \in Fires, PassPreflight(p) PROVE TypeOK'
    BY <1>6 DEF PassPreflight
  <1>7. ASSUME NEW p \in Fires, RecordStart(p) PROVE TypeOK'
    <2>1. CASE Inserted(p)
      BY <1>7, <2>1 DEF Inserted, RecordStart
    <2>2. CASE UNCHANGED <<row, store>> /\ pc' = [pc EXCEPT ![p] = "exit"]
      BY <1>7, <2>2 DEF RecordStart
    <2>3. QED
      BY <1>7, <2>1, <2>2, Insertion
  <1>8. ASSUME NEW p \in Fires, AddFlow(p) PROVE TypeOK'
    <2>1. row[p] \in DOMAIN rows /\ "live" \in FlowStates
      BY <1>8 DEF AddFlow, SubmitterInv, TypeOK, FlowStates
    <2>2. FlowBecomes(row[p], "live") \/ UNCHANGED flow
      BY <1>8, <2>1, FlowStep DEF AddFlow
    <2>3. QED
      BY <1>8, <2>1, <2>2 DEF AddFlow, FlowBecomes
  <1>9. ASSUME NEW p \in Fires, CloseFailed(p) PROVE TypeOK'
    <2>1. CASE UNCHANGED rows
      BY <1>9, <2>1 DEF CloseFailed
    <2>2. CASE RecordEnd(row[p], "failed")
      <3>1. row[p] \in DOMAIN rows /\ "failed" \in Statuses
        BY <1>9 DEF CloseFailed, SubmitterInv, TypeOK, Statuses
      <3>2. KeepsStanding
        BY <2>2, <3>1, Ended
      <3>3. QED
        BY <1>9, <3>2 DEF CloseFailed, KeepsStanding
    <2>3. QED
      BY <1>9, <2>1, <2>2 DEF CloseFailed
  <1>10. ASSUME NEW p \in Fires, Exit(p) PROVE TypeOK'
    BY <1>10 DEF Exit
  <1>11. ASSUME NEW p \in Fires, Crash(p) PROVE TypeOK'
    BY <1>11 DEF Crash
  <1>12. ASSUME NEW p \in Fires, Orphan(p) PROVE TypeOK'
    BY <1>12 DEF Orphan
  <1>13. ASSUME NEW p \in Fires, SubmitByHand(p) PROVE TypeOK'
    BY <1>13 DEF SubmitByHand
  <1>14. ASSUME NEW r \in DOMAIN rows, CloseRow(r) PROVE TypeOK'
    <2>1. "failed" \in Statuses /\ "success" \in Statuses
      BY DEF Statuses
    <2>2. KeepsStanding
      BY <1>14, <2>1, Ended DEF CloseRow
    <2>3. QED
      BY <1>14, <2>2 DEF CloseRow, KeepsStanding
  <1>15. ASSUME NEW r \in DOMAIN rows, EndFlow(r) PROVE TypeOK'
    <2>1. "completed" \in FlowStates /\ "parked" \in FlowStates
      BY DEF FlowStates
    <2>2. FlowBecomes(r, "completed") \/ FlowBecomes(r, "parked")
      BY <1>15, <2>1, FlowStep DEF EndFlow
    <2>3. QED
      BY <1>15, <2>2 DEF EndFlow, FlowBecomes
  <1>16. ASSUME NEW r \in DOMAIN rows, Reconcile(r) PROVE TypeOK'
    <2>1. "failed" \in Statuses /\ "success" \in Statuses
      BY DEF Statuses
    <2>2. KeepsStanding
      BY <1>16, <2>1, Ended DEF Reconcile
    <2>3. QED
      BY <1>16, <2>2 DEF Reconcile, KeepsStanding
  <1>17. ASSUME NEW r \in DOMAIN rows, RemoveFailedFlow(r) PROVE TypeOK'
    <2>1. "removed" \in FlowStates
      BY DEF FlowStates
    <2>2. FlowBecomes(r, "removed")
      BY <1>17, <2>1, FlowStep DEF RemoveFailedFlow
    <2>3. QED
      BY <1>17, <2>2 DEF RemoveFailedFlow, FlowBecomes
  <1>18. ASSUME NEW r \in DOMAIN rows, SupersedeRow(r) PROVE TypeOK'
    <2>1. Supersedes(r)
      BY <1>18, Supersession
    <2>2. QED
      BY <1>18, <2>1 DEF SupersedeRow, Supersedes
  <1>19. ASSUME DueHourComes PROVE TypeOK'
    BY <1>19 DEF DueHourComes
  <1>20. ASSUME Midnight PROVE TypeOK'
    <2>1. today' \in Dates
      BY <1>20 DEF Midnight, Dates
    <2>2. QED
      BY <1>20, <2>1 DEF Midnight
  <1>21. ASSUME UNCHANGED vars PROVE TypeOK'
    BY <1>21 DEF vars
  <1>22. QED
    BY <1>1, <1>2, <1>3, <1>4, <1>5, <1>6, <1>7, <1>8, <1>9, <1>10, <1>11, <1>12, <1>13, <1>14, <1>15, <1>16, <1>17, <1>18, <1>19, <1>20, <1>21 DEF Next, Submit

(* Every step keeps one standing row per date. *)
LEMMA RowStep == IInv /\ [Next]_vars => RowInv'
  <1> SUFFICES ASSUME IInv, [Next]_vars
               PROVE  RowInv'
    OBVIOUS
  <1>0. TypeOK /\ RowInv /\ SubmitterInv /\ LockInv /\ ApprovalInv
    BY DEF IInv
  <1> USE <1>0, Table DEF Goto, clock, store, Incident, Lock!Acquire, Lock!GiveUp, LogicalDate, RowInv
  <1>1. ASSUME NEW p \in Fires, Evaluate(p) PROVE RowInv'
    BY <1>1 DEF Evaluate
  <1>2. ASSUME NEW p \in Fires, AcquireLock(p) PROVE RowInv'
    BY <1>2 DEF AcquireLock
  <1>3. ASSUME NEW p \in Fires, LoseLock(p) PROVE RowInv'
    BY <1>3 DEF LoseLock
  <1>4. ASSUME NEW p \in Fires, Recheck(p) PROVE RowInv'
    BY <1>4 DEF Recheck
  <1>5. ASSUME NEW p \in Fires, Refuse(p) PROVE RowInv'
    BY <1>5 DEF Refuse
  <1>6. ASSUME NEW p \in Fires, PassPreflight(p) PROVE RowInv'
    BY <1>6 DEF PassPreflight
  <1>7. ASSUME NEW p \in Fires, RecordStart(p) PROVE RowInv'
    <2>1. CASE Inserted(p)
      <3> DEFINE n == Len(rows) + 1
      <3>1. \A r \in DOMAIN rows :
               rows[r].date = approved[p] /\ approved[p] # NoDate => rows[r].superseded
        BY <2>1 DEF Inserted, Conflicts, RunsFor
      <3>2. /\ DOMAIN rows' = DOMAIN rows \cup {n} /\ n \notin DOMAIN rows
            /\ \A i \in DOMAIN rows : rows'[i] = rows[i] /\ flow'[i] = flow[i]
            /\ rows'[n].date = approved[p] /\ ~rows'[n].superseded
        BY <2>1 DEF Inserted
      <3>3. QED
        BY <3>1, <3>2
    <2>2. CASE UNCHANGED <<row, store>> /\ pc' = [pc EXCEPT ![p] = "exit"]
      BY <1>7, <2>2 DEF RecordStart
    <2>3. QED
      BY <1>7, <2>1, <2>2, Insertion
  <1>8. ASSUME NEW p \in Fires, AddFlow(p) PROVE RowInv'
    <2>1. row[p] \in DOMAIN rows /\ "live" \in FlowStates
      BY <1>8 DEF AddFlow, SubmitterInv, TypeOK, FlowStates
    <2>2. FlowBecomes(row[p], "live") \/ UNCHANGED flow
      BY <1>8, <2>1, FlowStep DEF AddFlow
    <2>3. QED
      BY <1>8, <2>1, <2>2 DEF AddFlow, FlowBecomes, SubmitterInv
  <1>9. ASSUME NEW p \in Fires, CloseFailed(p) PROVE RowInv'
    <2>1. CASE UNCHANGED rows
      BY <1>9, <2>1 DEF CloseFailed
    <2>2. CASE RecordEnd(row[p], "failed")
      <3>1. row[p] \in DOMAIN rows /\ "failed" \in Statuses
        BY <1>9 DEF CloseFailed, SubmitterInv, TypeOK, Statuses
      <3>2. KeepsStanding
        BY <2>2, <3>1, Ended
      <3>3. QED
        BY <1>9, <3>2 DEF CloseFailed, KeepsStanding
    <2>3. QED
      BY <1>9, <2>1, <2>2 DEF CloseFailed
  <1>10. ASSUME NEW p \in Fires, Exit(p) PROVE RowInv'
    BY <1>10 DEF Exit
  <1>11. ASSUME NEW p \in Fires, Crash(p) PROVE RowInv'
    BY <1>11 DEF Crash
  <1>12. ASSUME NEW p \in Fires, Orphan(p) PROVE RowInv'
    BY <1>12 DEF Orphan
  <1>13. ASSUME NEW p \in Fires, SubmitByHand(p) PROVE RowInv'
    BY <1>13 DEF SubmitByHand
  <1>14. ASSUME NEW r \in DOMAIN rows, CloseRow(r) PROVE RowInv'
    <2>1. "failed" \in Statuses /\ "success" \in Statuses
      BY DEF Statuses
    <2>2. KeepsStanding
      BY <1>14, <2>1, Ended DEF CloseRow
    <2>3. QED
      BY <1>14, <2>2 DEF CloseRow, KeepsStanding
  <1>15. ASSUME NEW r \in DOMAIN rows, EndFlow(r) PROVE RowInv'
    <2>1. "completed" \in FlowStates /\ "parked" \in FlowStates
      BY DEF FlowStates
    <2>2. FlowBecomes(r, "completed") \/ FlowBecomes(r, "parked")
      BY <1>15, <2>1, FlowStep DEF EndFlow
    <2>3. QED
      BY <1>15, <2>2 DEF EndFlow, FlowBecomes
  <1>16. ASSUME NEW r \in DOMAIN rows, Reconcile(r) PROVE RowInv'
    <2>1. "failed" \in Statuses /\ "success" \in Statuses
      BY DEF Statuses
    <2>2. KeepsStanding
      BY <1>16, <2>1, Ended DEF Reconcile
    <2>3. QED
      BY <1>16, <2>2 DEF Reconcile, KeepsStanding
  <1>17. ASSUME NEW r \in DOMAIN rows, RemoveFailedFlow(r) PROVE RowInv'
    <2>1. "removed" \in FlowStates
      BY DEF FlowStates
    <2>2. FlowBecomes(r, "removed")
      BY <1>17, <2>1, FlowStep DEF RemoveFailedFlow
    <2>3. QED
      BY <1>17, <2>2 DEF RemoveFailedFlow, FlowBecomes
  <1>18. ASSUME NEW r \in DOMAIN rows, SupersedeRow(r) PROVE RowInv'
    <2>1. Supersedes(r)
      BY <1>18, Supersession
    <2>2. QED
      BY <1>18, <2>1 DEF SupersedeRow, Supersedes
  <1>19. ASSUME DueHourComes PROVE RowInv'
    BY <1>19 DEF DueHourComes
  <1>20. ASSUME Midnight PROVE RowInv'
    BY <1>20 DEF Midnight
  <1>21. ASSUME UNCHANGED vars PROVE RowInv'
    BY <1>21 DEF vars
  <1>22. QED
    BY <1>1, <1>2, <1>3, <1>4, <1>5, <1>6, <1>7, <1>8, <1>9, <1>10, <1>11, <1>12, <1>13, <1>14, <1>15, <1>16, <1>17, <1>18, <1>19, <1>20, <1>21 DEF Next, Submit

(* Every step keeps the submitters apart. *)
LEMMA SubmitterStep == IInv /\ [Next]_vars => SubmitterInv'
  <1> SUFFICES ASSUME IInv, [Next]_vars
               PROVE  SubmitterInv'
    OBVIOUS
  <1>0. TypeOK /\ RowInv /\ SubmitterInv /\ LockInv /\ ApprovalInv
    BY DEF IInv
  <1> USE <1>0, Table DEF Goto, clock, store, Incident, Lock!Acquire, Lock!GiveUp, LogicalDate, SubmitterInv, TypeOK, Labels
  <1>1. ASSUME NEW p \in Fires, Evaluate(p) PROVE SubmitterInv'
    BY <1>1 DEF Evaluate
  <1>2. ASSUME NEW p \in Fires, AcquireLock(p) PROVE SubmitterInv'
    BY <1>2 DEF AcquireLock
  <1>3. ASSUME NEW p \in Fires, LoseLock(p) PROVE SubmitterInv'
    BY <1>3 DEF LoseLock
  <1>4. ASSUME NEW p \in Fires, Recheck(p) PROVE SubmitterInv'
    BY <1>4 DEF Recheck
  <1>5. ASSUME NEW p \in Fires, Refuse(p) PROVE SubmitterInv'
    BY <1>5 DEF Refuse
  <1>6. ASSUME NEW p \in Fires, PassPreflight(p) PROVE SubmitterInv'
    BY <1>6 DEF PassPreflight
  <1>7. ASSUME NEW p \in Fires, RecordStart(p) PROVE SubmitterInv'
    <2>1. CASE Inserted(p)
      BY <1>7, <2>1 DEF Inserted, RecordStart
    <2>2. CASE UNCHANGED <<row, store>> /\ pc' = [pc EXCEPT ![p] = "exit"]
      BY <1>7, <2>2 DEF RecordStart
    <2>3. QED
      BY <1>7, <2>1, <2>2, Insertion
  <1>8. ASSUME NEW p \in Fires, AddFlow(p) PROVE SubmitterInv'
    <2>1. row[p] \in DOMAIN rows /\ "live" \in FlowStates
      BY <1>8 DEF AddFlow, FlowStates
    <2>2. FlowBecomes(row[p], "live") \/ UNCHANGED flow
      BY <1>8, <2>1, FlowStep DEF AddFlow
    <2>3. ASSUME NEW q \in Fires, pc'[q] = "addFlow"
          PROVE  pc[q] = "addFlow" /\ q # p
      BY <1>8, <2>3 DEF AddFlow
    <2>4. ASSUME NEW q \in Fires, pc'[q] = "addFlow"
          PROVE  flow'[row[q]] = "none"
      <3>1. row[q] \in DOMAIN flow /\ row[q] # row[p] /\ flow[row[q]] = "none"
        BY <1>8, <2>3, <2>4 DEF AddFlow
      <3>2. QED
        BY <2>2, <3>1 DEF FlowBecomes
    <2>5. row' = row /\ pc' \in [Fires -> Labels]
      BY <1>8 DEF AddFlow
    <2>6. QED
      BY <1>8, <2>3, <2>4, <2>5 DEF AddFlow
  <1>9. ASSUME NEW p \in Fires, CloseFailed(p) PROVE SubmitterInv'
    BY <1>9 DEF CloseFailed
  <1>10. ASSUME NEW p \in Fires, Exit(p) PROVE SubmitterInv'
    BY <1>10 DEF Exit
  <1>11. ASSUME NEW p \in Fires, Crash(p) PROVE SubmitterInv'
    BY <1>11 DEF Crash
  <1>12. ASSUME NEW p \in Fires, Orphan(p) PROVE SubmitterInv'
    BY <1>12 DEF Orphan
  <1>13. ASSUME NEW p \in Fires, SubmitByHand(p) PROVE SubmitterInv'
    BY <1>13 DEF SubmitByHand
  <1>14. ASSUME NEW r \in DOMAIN rows, CloseRow(r) PROVE SubmitterInv'
    BY <1>14 DEF CloseRow
  <1>15. ASSUME NEW r \in DOMAIN rows, EndFlow(r) PROVE SubmitterInv'
    <2>1. "completed" \in FlowStates /\ "parked" \in FlowStates
      BY DEF FlowStates
    <2>2. FlowBecomes(r, "completed") \/ FlowBecomes(r, "parked")
      BY <1>15, <2>1, FlowStep DEF EndFlow
    <2>3. QED
      BY <1>15, <2>2 DEF EndFlow, FlowBecomes
  <1>16. ASSUME NEW r \in DOMAIN rows, Reconcile(r) PROVE SubmitterInv'
    BY <1>16 DEF Reconcile
  <1>17. ASSUME NEW r \in DOMAIN rows, RemoveFailedFlow(r) PROVE SubmitterInv'
    <2>1. "removed" \in FlowStates
      BY DEF FlowStates
    <2>2. FlowBecomes(r, "removed")
      BY <1>17, <2>1, FlowStep DEF RemoveFailedFlow
    <2>3. QED
      BY <1>17, <2>2 DEF RemoveFailedFlow, FlowBecomes
  <1>18. ASSUME NEW r \in DOMAIN rows, SupersedeRow(r) PROVE SubmitterInv'
    BY <1>18 DEF SupersedeRow
  <1>19. ASSUME DueHourComes PROVE SubmitterInv'
    BY <1>19 DEF DueHourComes
  <1>20. ASSUME Midnight PROVE SubmitterInv'
    BY <1>20 DEF Midnight
  <1>21. ASSUME UNCHANGED vars PROVE SubmitterInv'
    BY <1>21 DEF vars
  <1>22. QED
    BY <1>1, <1>2, <1>3, <1>4, <1>5, <1>6, <1>7, <1>8, <1>9, <1>10, <1>11, <1>12, <1>13, <1>14, <1>15, <1>16, <1>17, <1>18, <1>19, <1>20, <1>21 DEF Next, Submit

(* Every step keeps the lock exclusive. *)
LEMMA LockStep == IInv /\ [Next]_vars => LockInv'
  <1> SUFFICES ASSUME IInv, [Next]_vars
               PROVE  LockInv'
    OBVIOUS
  <1>0. TypeOK /\ RowInv /\ SubmitterInv /\ LockInv /\ ApprovalInv
    BY DEF IInv
  <1> USE <1>0, Table DEF Goto, clock, store, Incident, Lock!Acquire, Lock!GiveUp, LogicalDate, LockInv, TypeOK
  <1>1. ASSUME NEW p \in Fires, Evaluate(p) PROVE LockInv'
    BY <1>1 DEF Evaluate
  <1>2. ASSUME NEW p \in Fires, AcquireLock(p) PROVE LockInv'
    BY <1>2 DEF AcquireLock
  <1>3. ASSUME NEW p \in Fires, LoseLock(p) PROVE LockInv'
    BY <1>3 DEF LoseLock
  <1>4. ASSUME NEW p \in Fires, Recheck(p) PROVE LockInv'
    BY <1>4 DEF Recheck
  <1>5. ASSUME NEW p \in Fires, Refuse(p) PROVE LockInv'
    BY <1>5 DEF Refuse
  <1>6. ASSUME NEW p \in Fires, PassPreflight(p) PROVE LockInv'
    BY <1>6 DEF PassPreflight
  <1>7. ASSUME NEW p \in Fires, RecordStart(p) PROVE LockInv'
    BY <1>7 DEF RecordStart
  <1>8. ASSUME NEW p \in Fires, AddFlow(p) PROVE LockInv'
    BY <1>8 DEF AddFlow
  <1>9. ASSUME NEW p \in Fires, CloseFailed(p) PROVE LockInv'
    BY <1>9 DEF CloseFailed
  <1>10. ASSUME NEW p \in Fires, Exit(p) PROVE LockInv'
    BY <1>10 DEF Exit
  <1>11. ASSUME NEW p \in Fires, Crash(p) PROVE LockInv'
    BY <1>11 DEF Crash
  <1>12. ASSUME NEW p \in Fires, Orphan(p) PROVE LockInv'
    BY <1>12 DEF Orphan
  <1>13. ASSUME NEW p \in Fires, SubmitByHand(p) PROVE LockInv'
    BY <1>13 DEF SubmitByHand
  <1>14. ASSUME NEW r \in DOMAIN rows, CloseRow(r) PROVE LockInv'
    BY <1>14 DEF CloseRow
  <1>15. ASSUME NEW r \in DOMAIN rows, EndFlow(r) PROVE LockInv'
    BY <1>15 DEF EndFlow
  <1>16. ASSUME NEW r \in DOMAIN rows, Reconcile(r) PROVE LockInv'
    BY <1>16 DEF Reconcile
  <1>17. ASSUME NEW r \in DOMAIN rows, RemoveFailedFlow(r) PROVE LockInv'
    BY <1>17 DEF RemoveFailedFlow
  <1>18. ASSUME NEW r \in DOMAIN rows, SupersedeRow(r) PROVE LockInv'
    BY <1>18 DEF SupersedeRow
  <1>19. ASSUME DueHourComes PROVE LockInv'
    BY <1>19 DEF DueHourComes
  <1>20. ASSUME Midnight PROVE LockInv'
    BY <1>20 DEF Midnight
  <1>21. ASSUME UNCHANGED vars PROVE LockInv'
    BY <1>21 DEF vars
  <1>22. QED
    BY <1>1, <1>2, <1>3, <1>4, <1>5, <1>6, <1>7, <1>8, <1>9, <1>10, <1>11, <1>12, <1>13, <1>14, <1>15, <1>16, <1>17, <1>18, <1>19, <1>20, <1>21 DEF Next, Submit

(* Every step keeps approvals due. *)
LEMMA ApprovalStep == IInv /\ [Next]_vars => ApprovalInv'
  <1> SUFFICES ASSUME IInv, [Next]_vars
               PROVE  ApprovalInv'
    OBVIOUS
  <1>0. TypeOK /\ RowInv /\ SubmitterInv /\ LockInv /\ ApprovalInv
    BY DEF IInv
  <1> USE <1>0, Table DEF Goto, clock, store, Incident, Lock!Acquire, Lock!GiveUp, LogicalDate, Dates, TypeOK, ApprovalInv, LockInv, HadBecomeDue
  <1>1. ASSUME NEW p \in Fires, Evaluate(p) PROVE ApprovalInv'
    <2>1. HadBecomeDue(today)
      BY <1>1, EligibleDates DEF Evaluate
    <2>2. QED
      BY <1>1, <2>1 DEF Evaluate
  <1>2. ASSUME NEW p \in Fires, AcquireLock(p) PROVE ApprovalInv'
    BY <1>2 DEF AcquireLock
  <1>3. ASSUME NEW p \in Fires, LoseLock(p) PROVE ApprovalInv'
    BY <1>3 DEF LoseLock
  <1>4. ASSUME NEW p \in Fires, Recheck(p) PROVE ApprovalInv'
    BY <1>4 DEF Recheck
  <1>5. ASSUME NEW p \in Fires, Refuse(p) PROVE ApprovalInv'
    BY <1>5 DEF Refuse
  <1>6. ASSUME NEW p \in Fires, PassPreflight(p) PROVE ApprovalInv'
    BY <1>6 DEF PassPreflight
  <1>7. ASSUME NEW p \in Fires, RecordStart(p) PROVE ApprovalInv'
    BY <1>7 DEF RecordStart
  <1>8. ASSUME NEW p \in Fires, AddFlow(p) PROVE ApprovalInv'
    BY <1>8 DEF AddFlow
  <1>9. ASSUME NEW p \in Fires, CloseFailed(p) PROVE ApprovalInv'
    BY <1>9 DEF CloseFailed
  <1>10. ASSUME NEW p \in Fires, Exit(p) PROVE ApprovalInv'
    BY <1>10 DEF Exit
  <1>11. ASSUME NEW p \in Fires, Crash(p) PROVE ApprovalInv'
    BY <1>11 DEF Crash
  <1>12. ASSUME NEW p \in Fires, Orphan(p) PROVE ApprovalInv'
    BY <1>12 DEF Orphan
  <1>13. ASSUME NEW p \in Fires, SubmitByHand(p) PROVE ApprovalInv'
    BY <1>13 DEF SubmitByHand
  <1>14. ASSUME NEW r \in DOMAIN rows, CloseRow(r) PROVE ApprovalInv'
    BY <1>14 DEF CloseRow
  <1>15. ASSUME NEW r \in DOMAIN rows, EndFlow(r) PROVE ApprovalInv'
    BY <1>15 DEF EndFlow
  <1>16. ASSUME NEW r \in DOMAIN rows, Reconcile(r) PROVE ApprovalInv'
    BY <1>16 DEF Reconcile
  <1>17. ASSUME NEW r \in DOMAIN rows, RemoveFailedFlow(r) PROVE ApprovalInv'
    BY <1>17 DEF RemoveFailedFlow
  <1>18. ASSUME NEW r \in DOMAIN rows, SupersedeRow(r) PROVE ApprovalInv'
    BY <1>18 DEF SupersedeRow
  <1>19. ASSUME DueHourComes PROVE ApprovalInv'
    BY <1>19 DEF DueHourComes
  <1>20. ASSUME Midnight PROVE ApprovalInv'
    BY <1>20 DEF Midnight
  <1>21. ASSUME UNCHANGED vars PROVE ApprovalInv'
    BY <1>21 DEF vars
  <1>22. QED
    BY <1>1, <1>2, <1>3, <1>4, <1>5, <1>6, <1>7, <1>8, <1>9, <1>10, <1>11, <1>12, <1>13, <1>14, <1>15, <1>16, <1>17, <1>18, <1>19, <1>20, <1>21 DEF Next, Submit

(* The invariant is inductive. *)
LEMMA InvStep == IInv /\ [Next]_vars => IInv'
  BY TypeStep, RowStep, SubmitterStep, LockStep, ApprovalStep DEF IInv

(* IInv holds in every reachable state of the scheduler. *)
THEOREM Invariance == Spec => []IInv
  <1>1. Init => IInv
    BY InitInv
  <1>2. IInv /\ [Next]_vars => IInv'
    BY InvStep
  <1>3. QED
    BY <1>1, <1>2, PTL DEF Spec

(* Two flows of one scheduled date are never live together. *)
THEOREM OneLiveFlow == Spec => []AtMostOneLiveFlow
  <1>1. IInv => AtMostOneLiveFlow
    BY DEF IInv, RowInv, AtMostOneLiveFlow
  <1>2. QED
    BY <1>1, Invariance, PTL

(* What a lock holder files had become due: every other step leaves the row it
   remembers alone or forgets it. *)
THEOREM FiledDatesWereDue == Spec => ScheduledDateWasDue
  <1> DEFINE A == \A p \in holders :
                     row[p] = 0 /\ row'[p] # 0 => HadBecomeDue(rows'[row'[p]].date)
  <1>1. IInv /\ [Next]_vars => A
    <2> SUFFICES ASSUME IInv, [Next]_vars, NEW p \in holders, row[p] = 0, row'[p] # 0
                 PROVE  HadBecomeDue(rows'[row'[p]].date)
      OBVIOUS
    <2> USE DEF store
    <2>0. TypeOK /\ ApprovalInv /\ SubmitterInv /\ p \in Fires
      BY DEF IInv, TypeOK
    <2>1. RecordStart(p)
      BY <2>0 DEF Next, Submit, vars, TypeOK, Evaluate, AcquireLock, LoseLock, Recheck,
         Refuse, PassPreflight, RecordStart, AddFlow, CloseFailed, Exit, Crash, Orphan,
         SubmitByHand, CloseRow, EndFlow, Reconcile, RemoveFailedFlow, SupersedeRow,
         DueHourComes, Midnight
    <2>2. Inserted(p)
      BY <2>0, <2>1, Insertion
    <2>3. rows'[row'[p]].date = approved[p]
      BY <2>0, <2>2 DEF Inserted, TypeOK
    <2>4. QED
      BY <2>0, <2>3 DEF ApprovalInv
  <1>2. IInv /\ [Next]_vars => [A]_vars
    BY <1>1
  <1>3. QED
    BY <1>2, Invariance, PTL DEF Spec, ScheduledDateWasDue

(* The recheck gives a date up only to a run of that date. *)
THEOREM ApprovalsAreKept == Spec => ApprovedRunIsNotDiscarded
  <1> DEFINE A == \A p \in Fires :
                     pc[p] = "recheck" /\ pc'[p] = "exit" => RunsFor(approved[p]) # {}
  <1>1. IInv /\ [Next]_vars => A
    <2> SUFFICES ASSUME IInv, [Next]_vars, NEW p \in Fires,
                        pc[p] = "recheck", pc'[p] = "exit"
                 PROVE  RunsFor(approved[p]) # {}
      OBVIOUS
    <2>0. pc \in [Fires -> Labels] /\ HadBecomeDue(approved[p])
      BY DEF IInv, TypeOK, ApprovalInv
    <2>1. Recheck(p)
      BY <2>0 DEF Next, Submit, vars, Goto, Evaluate, AcquireLock, LoseLock, Recheck,
         Refuse, PassPreflight, RecordStart, AddFlow, CloseFailed, Exit, Crash, Orphan,
         SubmitByHand, CloseRow, EndFlow, Reconcile, RemoveFailedFlow, SupersedeRow,
         DueHourComes, Midnight
    <2>2. ~Eligible(approved[p])
      BY <2>0, <2>1 DEF Recheck, Goto
    <2>3. QED
      BY <2>0, <2>2 DEF Eligible, Assess
  <1>2. IInv /\ [Next]_vars => [A]_vars
    BY <1>1
  <1>3. QED
    BY <1>2, Invariance, PTL DEF Spec, ApprovedRunIsNotDiscarded

-----------------------------------------------------------------------------

(* Where nothing submits beside the lock, the rows of a date that a holder has
   rechecked can only be written by that holder. *)
LEMMA RecheckStep ==
  ~Bystanders /\ IInv /\ RecheckHolds /\ [Next]_vars => RecheckHolds'
  <1> SUFFICES ASSUME ~Bystanders, IInv, RecheckHolds, [Next]_vars,
                      NEW p \in holders', pc'[p] \in {"submit", "recordStart"}
               PROVE  ~Conflicts(approved[p])'
    BY DEF RecheckHolds
  <1>0. TypeOK /\ RowInv /\ SubmitterInv /\ LockInv /\ ApprovalInv
    BY DEF IInv
  <1>1. ASSUME UNCHANGED rows,
               p \in holders, pc[p] \in {"submit", "recordStart"}, approved'[p] = approved[p]
        PROVE  ~Conflicts(approved[p])'
    BY <1>1 DEF RecheckHolds, Conflicts, RunsFor
  <1>2. ASSUME KeepsStanding \/ \E r \in DOMAIN rows : Supersedes(r),
               p \in holders, pc[p] \in {"submit", "recordStart"}, approved'[p] = approved[p]
        PROVE  ~Conflicts(approved[p])'
    BY <1>2 DEF RecheckHolds, Conflicts, RunsFor, KeepsStanding, Supersedes
  <1>3. ASSUME NEW q \in Fires, Evaluate(q) \/ AcquireLock(q) \/ LoseLock(q) \/ Refuse(q)
                                \/ PassPreflight(q) \/ AddFlow(q) \/ Exit(q)
                                \/ Crash(q) \/ Orphan(q) \/ SubmitByHand(q)
        PROVE  ~Conflicts(approved[p])'
    <2>1. /\ UNCHANGED rows
          /\ p \in holders /\ pc[p] \in {"submit", "recordStart"} /\ approved'[p] = approved[p]
      BY <1>0, <1>3 DEF Evaluate, AcquireLock, LoseLock, Refuse, PassPreflight, AddFlow,
         Exit, Crash, Orphan, SubmitByHand, Goto, store, TypeOK, LockInv,
         Lock!Acquire, Lock!GiveUp
    <2>2. QED
      BY <1>1, <2>1
  <1>4. ASSUME NEW q \in Fires, Recheck(q)
        PROVE  ~Conflicts(approved[p])'
    <2>1. CASE p = q
      <3>1. Eligible(approved[p]) /\ approved[p] \in Dates
        BY <1>0, <1>4, <2>1 DEF Recheck, Goto, TypeOK, ApprovalInv
      <3>2. RunsFor(approved[p]) = {}
        BY <1>0, <3>1, EligibleDates
      <3>3. QED
        BY <1>4, <2>1, <3>2 DEF Recheck, store, Conflicts, RunsFor
    <2>2. CASE p # q
      BY <1>0, <1>1, <1>4, <2>2 DEF Recheck, Goto, store, TypeOK
    <2>3. QED
      BY <2>1, <2>2
  <1>5. ASSUME NEW q \in Fires, RecordStart(q)
        PROVE  ~Conflicts(approved[p])'
    <2>1. q \in holders /\ p \in holders
      BY <1>0, <1>5 DEF RecordStart, LockInv
    <2>2. p = q
      BY <1>0, <2>1 DEF LockInv
    <2>3. pc'[p] \in {"addFlow", "exit"}
      BY <1>0, <1>5, <2>2 DEF RecordStart, Goto, TypeOK
    <2>4. QED
      BY <2>3
  <1>6. ASSUME NEW q \in Fires, CloseFailed(q)
        PROVE  ~Conflicts(approved[p])'
    <2>1. KeepsStanding \/ UNCHANGED rows
      <3>1. row[q] \in DOMAIN rows /\ "failed" \in Statuses
        BY <1>0, <1>6, Table DEF CloseFailed, SubmitterInv, TypeOK, Statuses
      <3>2. QED
        BY <1>0, <1>6, <3>1, Ended DEF CloseFailed
    <2>2. p \in holders /\ pc[p] \in {"submit", "recordStart"} /\ approved'[p] = approved[p]
      BY <1>0, <1>6 DEF CloseFailed, Goto, TypeOK
    <2>3. QED
      BY <1>1, <1>2, <2>1, <2>2
  <1>7. ASSUME NEW r \in DOMAIN rows,
               CloseRow(r) \/ EndFlow(r) \/ Reconcile(r) \/ RemoveFailedFlow(r)
               \/ SupersedeRow(r)
        PROVE  ~Conflicts(approved[p])'
    <2>1. p \in holders /\ pc[p] \in {"submit", "recordStart"} /\ approved'[p] = approved[p]
      BY <1>7 DEF CloseRow, EndFlow, Reconcile, RemoveFailedFlow, SupersedeRow
    <2>2. "failed" \in Statuses /\ "success" \in Statuses
      BY DEF Statuses
    <2>3. KeepsStanding \/ Supersedes(r) \/ UNCHANGED rows
      BY <1>0, <1>7, <2>2, Ended, Supersession
         DEF CloseRow, EndFlow, Reconcile, RemoveFailedFlow
    <2>4. QED
      BY <1>1, <1>2, <2>1, <2>3
  <1>8. ASSUME DueHourComes \/ Midnight \/ UNCHANGED vars
        PROVE  ~Conflicts(approved[p])'
    BY <1>1, <1>8 DEF DueHourComes, Midnight, vars, store
  <1>9. QED
    BY <1>3, <1>4, <1>5, <1>6, <1>7, <1>8 DEF Next, Submit

(* The unique index never has to refuse a scheduler, where only schedulers
   submit. *)
THEOREM IndexIsNeverNeeded == ~Bystanders => (Spec => []RecheckHolds)
  <1> SUFFICES ASSUME ~Bystanders
               PROVE  Spec => []RecheckHolds
    OBVIOUS
  <1>1. Init => RecheckHolds
    BY DEF Init, Lock!Init, RecheckHolds
  <1>2. IInv /\ RecheckHolds /\ [Next]_vars => RecheckHolds'
    BY RecheckStep
  <1>3. QED
    BY <1>1, <1>2, Invariance, PTL DEF Spec

-----------------------------------------------------------------------------

\* The phase OncePerDay gives a date whose run's flow is in state x.
FlowPhase(x) ==
    IF x = "live" THEN "launched" ELSE IF x = "none" THEN "claimed" ELSE "over"

\* Phase, without the quantifiers: one run answers for a date, or none does.
Phases ==
    \A d \in Dates :
        /\ RunsFor(d) = {} => Phase(d) = "open"
        /\ \A r \in RunsFor(d) : Phase(d) = FlowPhase(flow[r])

(* The phase of a date is that of its only run. *)
LEMMA PhaseIsOfTheRun == IInv => Phases
  <1> SUFFICES ASSUME IInv, NEW d \in Dates
               PROVE  /\ RunsFor(d) = {} => Phase(d) = "open"
                      /\ \A r \in RunsFor(d) : Phase(d) = FlowPhase(flow[r])
    BY DEF Phases
  <1>1. ASSUME NEW r \in RunsFor(d)
        PROVE  RunsFor(d) = {r}
    BY <1>1 DEF IInv, RowInv, RunsFor, Dates
  <1>2. QED
    BY <1>1 DEF Phase, FlowPhase

\* A step of OncePerDay on one date.
DateStep(d) ==
    \/ Phase(d)' = Phase(d)
    \/ Phase(d) = "open" /\ Phase(d)' = "claimed"
    \/ Phase(d) = "claimed" /\ Phase(d)' = "launched"
    \/ Phase(d) = "launched" /\ Phase(d)' = "over"
    \/ Phase(d) = "over" /\ Phase(d)' = "open"

\* The dates' phases may change for at most one date, and by such a step.
OneDateSteps ==
    \/ \A d \in Dates : Phase(d)' = Phase(d)
    \/ \E e \in Dates :
          /\ DateStep(e)
          /\ \A d \in Dates \ {e} : Phase(d)' = Phase(d)

(* That is a step of OncePerDay, or none. *)
LEMMA OneDateIsAStep ==
  OneDateSteps => [Contract!Next]_([d \in Dates |-> Phase(d)])
  <1> SUFFICES ASSUME OneDateSteps
               PROVE  [Contract!Next]_([d \in Dates |-> Phase(d)])
    OBVIOUS
  <1> DEFINE ph == [d \in Dates |-> Phase(d)]
  <1>1. CASE \A d \in Dates : Phase(d)' = Phase(d)
    BY <1>1
  <1>2. ASSUME NEW e \in Dates, DateStep(e), Phase(e)' # Phase(e),
               \A d \in Dates \ {e} : Phase(d)' = Phase(d)
        PROVE  [Contract!Next]_ph
    <2>1. ph' = [ph EXCEPT ![e] = Phase(e)']
      <3>1. ph' = [d \in Dates |-> IF d = e THEN Phase(e)' ELSE ph[d]]
        BY <1>2 DEF Phase, RunsFor
      <3>2. QED
        BY <3>1
    <2>2. QED
      BY <1>2, <2>1 DEF DateStep, Contract!Next, Contract!Claim, Contract!Launch,
         Contract!End, Contract!Reopen, Contract!Become
  <1>3. QED
    BY <1>1, <1>2 DEF OneDateSteps

(* A step that keeps the rows' standing and the flows' phases is not seen. *)
LEMMA StandingKept ==
  ASSUME TypeOK, Phases, Phases',
         DOMAIN rows' = DOMAIN rows,
         \A i \in DOMAIN rows : /\ rows'[i].date = rows[i].date
                                /\ rows'[i].superseded = rows[i].superseded
                                /\ FlowPhase(flow'[i]) = FlowPhase(flow[i])
  PROVE  OneDateSteps
  <1>1. \A d \in Dates : RunsFor(d)' = RunsFor(d)
    BY DEF RunsFor
  <1>2. ASSUME NEW d \in Dates PROVE Phase(d)' = Phase(d)
    <2>1. CASE RunsFor(d) = {}
      BY <1>1, <2>1 DEF Phases
    <2>2. CASE RunsFor(d) # {}
      <3>1. PICK r \in RunsFor(d) : TRUE
        BY <2>2
      <3>2. QED
        BY <1>1, <3>1 DEF Phases, RunsFor
    <2>3. QED
      BY <2>1, <2>2
  <1>3. QED
    BY <1>2 DEF OneDateSteps

\* The ways a flow goes on that OncePerDay sees.
Advances(r, x) ==
    \/ flow[r] = "none" /\ x = "live"
    \/ flow[r] = "live" /\ x \in {"parked", "completed"}

(* A flow that goes on is seen as a step of its row's date, if the row stands. *)
LEMMA FlowAdvances ==
  ASSUME TypeOK, RowInv, Phases, Phases', NEW r \in DOMAIN rows, NEW x,
         UNCHANGED rows \/ KeepsStanding, FlowBecomes(r, x), Advances(r, x)
  PROVE  OneDateSteps
  <1>1. \A d \in Dates : RunsFor(d)' = RunsFor(d)
    BY DEF RunsFor, KeepsStanding
  <1>2. DOMAIN flow = DOMAIN rows
    BY Table
  <1>3. ASSUME NEW d \in Dates, r \notin RunsFor(d) PROVE Phase(d)' = Phase(d)
    <2>1. CASE RunsFor(d) = {}
      BY <1>1, <2>1 DEF Phases
    <2>2. CASE RunsFor(d) # {}
      <3>1. PICK s \in RunsFor(d) : s # r /\ s \in DOMAIN flow
        BY <1>2, <1>3, <2>2 DEF RunsFor
      <3>2. flow'[s] = flow[s]
        BY <3>1 DEF FlowBecomes
      <3>3. QED
        BY <1>1, <3>1, <3>2 DEF Phases
    <2>3. QED
      BY <2>1, <2>2
  <1>4. ASSUME NEW d \in Dates, r \in RunsFor(d) PROVE DateStep(d)
    <2>1. Phase(d) = FlowPhase(flow[r]) /\ Phase(d)' = FlowPhase(x)
      BY <1>1, <1>4 DEF Phases, FlowBecomes
    <2>2. QED
      BY <2>1 DEF FlowPhase, DateStep, Advances
  <1>5. ASSUME NEW d \in Dates, NEW e \in Dates, r \in RunsFor(d), r \in RunsFor(e)
        PROVE  d = e
    BY <1>5 DEF RunsFor
  <1>6. QED
    <2>1. CASE \E e \in Dates : r \in RunsFor(e)
      BY <1>3, <1>4, <1>5, <2>1 DEF OneDateSteps
    <2>2. CASE \A e \in Dates : r \notin RunsFor(e)
      BY <1>3, <2>2 DEF OneDateSteps
    <2>3. QED
      BY <2>1, <2>2

(* A new row claims an open date. *)
LEMMA InsertionClaims ==
  ASSUME TypeOK, Phases, Phases', NEW p \in Fires, Inserted(p)
  PROVE  OneDateSteps
  <1> DEFINE n == Len(rows) + 1
  <1>0. n \notin DOMAIN rows /\ DOMAIN rows' = DOMAIN rows \cup {n}
    BY Table DEF Inserted
  <1>1. ASSUME NEW d \in Dates, d # approved[p] PROVE Phase(d)' = Phase(d)
    <2>1. RunsFor(d)' = RunsFor(d)
      BY <1>0, <1>1 DEF RunsFor, Inserted
    <2>2. CASE RunsFor(d) = {}
      BY <2>1, <2>2 DEF Phases
    <2>3. CASE RunsFor(d) # {}
      <3>1. PICK s \in RunsFor(d) : flow'[s] = flow[s]
        BY <2>3 DEF RunsFor, Inserted
      <3>2. QED
        BY <2>1, <3>1 DEF Phases
    <2>4. QED
      BY <2>2, <2>3
  <1>2. ASSUME approved[p] \in Dates PROVE DateStep(approved[p])
    <2>1. RunsFor(approved[p]) = {}
      BY <1>2 DEF Inserted, Conflicts, Dates
    <2>2. n \in {r \in DOMAIN rows' : rows'[r].date = approved[p] /\ ~rows'[r].superseded}
      BY <1>0 DEF Inserted
    <2>3. \A d \in Dates : d = approved[p] => n \in RunsFor(d)'
      BY <2>2 DEF RunsFor
    <2>4. \A d \in Dates : d = approved[p] => Phase(d)' = "claimed"
      BY <2>3 DEF Phases, Inserted, FlowPhase
    <2>5. \A d \in Dates : d = approved[p] => Phase(d) = "open" /\ DateStep(d)
      BY <2>1, <2>4 DEF Phases, DateStep
    <2>6. QED
      BY <1>2, <2>5
  <1>3. QED
    BY <1>1, <1>2 DEF OneDateSteps

(* Superseding a run whose flow is removed opens its date again. *)
LEMMA SupersessionReopens ==
  ASSUME TypeOK, RowInv, Phases, Phases', NEW r \in DOMAIN rows, SupersedeRow(r)
  PROVE  OneDateSteps
  <1>0. Supersedes(r) /\ flow' = flow /\ flow[r] = "removed" /\ ~rows[r].superseded
    BY Supersession DEF SupersedeRow
  <1>1. \A d \in Dates : RunsFor(d)' = RunsFor(d) \ {r}
    BY <1>0 DEF RunsFor, Supersedes
  <1>2. ASSUME NEW d \in Dates, r \notin RunsFor(d) PROVE Phase(d)' = Phase(d)
    <2>1. CASE RunsFor(d) = {}
      BY <1>1, <2>1 DEF Phases
    <2>2. CASE RunsFor(d) # {}
      BY <1>0, <1>1, <1>2, <2>2 DEF Phases
    <2>3. QED
      BY <2>1, <2>2
  <1>3. ASSUME NEW d \in Dates, r \in RunsFor(d) PROVE DateStep(d)
    <2>1. RunsFor(d) = {r}
      BY <1>3 DEF RunsFor, RowInv, Dates
    <2>2. Phase(d)' = "open" /\ Phase(d) = "over"
      BY <1>0, <1>1, <1>3, <2>1 DEF Phases, FlowPhase
    <2>3. QED
      BY <2>2 DEF DateStep
  <1>4. ASSUME NEW d \in Dates, NEW e \in Dates, r \in RunsFor(d), r \in RunsFor(e)
        PROVE  d = e
    BY <1>4 DEF RunsFor
  <1>5. QED
    <2>1. CASE \E e \in Dates : r \in RunsFor(e)
      BY <1>2, <1>3, <1>4, <2>1 DEF OneDateSteps
    <2>2. CASE \A e \in Dates : r \notin RunsFor(e)
      BY <1>2, <2>2 DEF OneDateSteps
    <2>3. QED
      BY <2>1, <2>2

(* Every step is a step of OncePerDay, or none. *)
LEMMA ContractStep ==
  IInv /\ IInv' /\ Phases /\ Phases' /\ [Next]_vars => OneDateSteps
  <1> SUFFICES ASSUME IInv, Phases, Phases', [Next]_vars
               PROVE  OneDateSteps
    OBVIOUS
  <1>0. TypeOK /\ RowInv /\ SubmitterInv
    BY DEF IInv
  <1> USE Table
  <1>1. ASSUME UNCHANGED store PROVE OneDateSteps
    BY <1>0, <1>1, StandingKept DEF store
  <1>2. ASSUME NEW p \in Fires, RecordStart(p) PROVE OneDateSteps
    BY <1>0, <1>1, <1>2, Insertion, InsertionClaims
  <1>3. ASSUME NEW p \in Fires, AddFlow(p) PROVE OneDateSteps
    <2>1. row[p] \in DOMAIN rows /\ "live" \in FlowStates /\ flow[row[p]] = "none"
      BY <1>0, <1>3 DEF AddFlow, SubmitterInv, TypeOK, FlowStates
    <2>2. CASE UNCHANGED flow
      BY <1>1, <1>3, <2>2 DEF AddFlow, store
    <2>3. CASE flow' = [flow EXCEPT ![row[p]] = "live"]
      <3>1. FlowBecomes(row[p], "live")
        BY <1>0, <2>1, <2>3, FlowStep
      <3>2. rows' = rows
        BY <1>3 DEF AddFlow
      <3>3. PICK r \in DOMAIN rows : r = row[p]
        BY <2>1
      <3>4. FlowBecomes(r, "live") /\ Advances(r, "live")
        BY <2>1, <3>1, <3>3 DEF Advances
      <3>5. QED
        BY <1>0, <3>2, <3>4, FlowAdvances
    <2>4. QED
      BY <1>3, <2>2, <2>3 DEF AddFlow
  <1>4. ASSUME NEW p \in Fires, CloseFailed(p) PROVE OneDateSteps
    <2>1. row[p] \in DOMAIN rows /\ "failed" \in Statuses
      BY <1>0, <1>4 DEF CloseFailed, SubmitterInv, TypeOK, Statuses
    <2>2. KeepsStanding \/ UNCHANGED rows
      BY <1>0, <1>4, <2>1, Ended DEF CloseFailed
    <2>3. flow' = flow
      BY <1>4 DEF CloseFailed
    <2>4. QED
      BY <1>0, <2>2, <2>3, StandingKept DEF KeepsStanding
  <1>5. ASSUME NEW r \in DOMAIN rows, EndFlow(r) PROVE OneDateSteps
    <2>1. "parked" \in FlowStates /\ "completed" \in FlowStates
      BY DEF FlowStates
    <2>2. FlowBecomes(r, "parked") \/ FlowBecomes(r, "completed")
      BY <1>0, <1>5, <2>1, FlowStep DEF EndFlow
    <2>3. rows' = rows /\ Advances(r, "parked") /\ Advances(r, "completed")
      BY <1>5 DEF EndFlow, Advances
    <2>4. QED
      BY <1>0, <2>2, <2>3, FlowAdvances
  <1>6. ASSUME NEW r \in DOMAIN rows, CloseRow(r) \/ Reconcile(r) PROVE OneDateSteps
    <2>1. KeepsStanding
      <3>1. "failed" \in Statuses /\ "success" \in Statuses
        BY DEF Statuses
      <3>2. QED
        BY <1>0, <1>6, <3>1, Ended DEF CloseRow, Reconcile
    <2>2. flow' = flow
      BY <1>6 DEF CloseRow, Reconcile
    <2>3. QED
      BY <1>0, <2>1, <2>2, StandingKept DEF KeepsStanding
  <1>7. ASSUME NEW r \in DOMAIN rows, RemoveFailedFlow(r) PROVE OneDateSteps
    <2>1. "removed" \in FlowStates
      BY DEF FlowStates
    <2>2. FlowBecomes(r, "removed") /\ UNCHANGED rows /\ flow[r] \in {"parked", "completed"}
      BY <1>0, <1>7, <2>1, FlowStep DEF RemoveFailedFlow
    <2>3. \A i \in DOMAIN rows : FlowPhase(flow'[i]) = FlowPhase(flow[i])
      BY <1>0, <2>2 DEF FlowBecomes, FlowPhase
    <2>4. QED
      BY <1>0, <2>2, <2>3, StandingKept
  <1>8. ASSUME NEW r \in DOMAIN rows, SupersedeRow(r) PROVE OneDateSteps
    BY <1>0, <1>8, SupersessionReopens
  <1>9. CASE UNCHANGED vars
    BY <1>1, <1>9 DEF vars, store
  <1>10. QED
    BY <1>1, <1>2, <1>3, <1>4, <1>5, <1>6, <1>7, <1>8, <1>9
       DEF Next, Submit, Evaluate, AcquireLock, LoseLock, Recheck, Refuse, PassPreflight,
           Exit, Crash, Orphan, SubmitByHand, DueHourComes, Midnight

(* The rows and flows of the scheduler's dates implement OncePerDay. *)
THEOREM ImplementsContract == Spec => ImplementsOncePerDay
  <1> DEFINE ph == [d \in Dates |-> Phase(d)]
  <1>1. Init => Contract!Init
    BY DEF Init, Contract!Init, Phase, RunsFor
  <1>2. IInv /\ IInv' /\ Phases /\ Phases' /\ [Next]_vars => [Contract!Next]_ph
    BY ContractStep, OneDateIsAStep
  <1>3. QED
    BY <1>1, <1>2, Invariance, PhaseIsOfTheRun, PTL
       DEF Spec, ImplementsOncePerDay, Contract!Spec

-----------------------------------------------------------------------------
(* The levels below: the lock, and the life of one run. *)

(***************************************************************************)
(* The lock as the scheduler uses it, crashes and orphans included, is the *)
(* authority that SchedulerLock implements: it is taken when nobody has    *)
(* it, and given up by the one who had it (daily-scheduler.sh:313-315).    *)
(***************************************************************************)
THEOREM LockIsAuthority == Spec => Lock!Spec
  <1>1. Init => Lock!Init
    BY DEF Init
  <1>2. IInv /\ [Next]_vars => [Lock!Next]_holders
    <2> SUFFICES ASSUME IInv, [Next]_vars
                 PROVE  Lock!Next \/ UNCHANGED holders
      OBVIOUS
    <2>1. CASE \E p \in Fires : AcquireLock(p)
      BY <2>1 DEF AcquireLock, Lock!Next
    <2>2. CASE \E p \in Fires : Exit(p) \/ Orphan(p)
      BY <2>2 DEF Exit, Orphan, Lock!Next
    <2>3. ASSUME NEW p \in Fires, Crash(p)
          PROVE  Lock!Next \/ UNCHANGED holders
      <3>1. holders' = holders \ {p}
        BY <2>3 DEF Crash
      <3>2. holders = {p} \/ p \notin holders
        BY DEF IInv, LockInv
      <3>3. QED
        BY <3>1, <3>2 DEF Lock!Next, Lock!GiveUp
    <2>4. CASE \E p \in Fires : \/ Evaluate(p) \/ LoseLock(p) \/ Recheck(p) \/ Refuse(p)
                                \/ PassPreflight(p) \/ RecordStart(p) \/ AddFlow(p)
                                \/ CloseFailed(p) \/ SubmitByHand(p)
      BY <2>4 DEF Evaluate, LoseLock, Recheck, Refuse, PassPreflight, RecordStart, AddFlow,
                  CloseFailed, SubmitByHand
    <2>5. CASE \E r \in DOMAIN rows : \/ CloseRow(r) \/ EndFlow(r) \/ Reconcile(r)
                                      \/ RemoveFailedFlow(r) \/ SupersedeRow(r)
      BY <2>5 DEF CloseRow, EndFlow, Reconcile, RemoveFailedFlow, SupersedeRow
    <2>6. CASE DueHourComes \/ Midnight \/ UNCHANGED vars
      BY <2>6 DEF DueHourComes, Midnight, vars
    <2>7. QED
      BY <2>1, <2>2, <2>3, <2>4, <2>5, <2>6 DEF Next, Submit
  <1>3. QED
    BY <1>1, <1>2, Invariance, PTL DEF Spec, Lock!Spec

\* The phase of the run of row n.
PhaseOf(n) == IF n \in DOMAIN rows THEN flow[n] ELSE "none"

\* Row n's run takes a step of its own, or none.
RunSteps(n) == Run(n)!Next \/ UNCHANGED <<Status(n), PhaseOf(n)>>

(* Closing a row is a step of its run, and of no other. *)
LEMMA ClosingSteps ==
  ASSUME TypeOK, NEW r \in DOMAIN rows, NEW st \in {"success", "failed"}, RecordEnd(r, st),
         UNCHANGED flow, NEW n
  PROVE  RunSteps(n)
  <1> DEFINE x == [rows[r] EXCEPT !.status = st]
  <1>1. rows \in Seq(Rows) /\ rows[r] \in Rows /\ st \in Statuses
    BY DEF TypeOK, Statuses
  <1>2. /\ x \in Rows /\ x.status = st /\ x.superseded = rows[r].superseded
        /\ rows[r].status \in {"running", "success", "failed"}
    BY <1>1 DEF Rows, Statuses
  <1>3. rows' = [rows EXCEPT ![r] = x]
    BY DEF RecordEnd
  <1>4. /\ DOMAIN rows' = DOMAIN rows
        /\ \A i \in DOMAIN rows : i # r => rows'[i] = rows[i]
        /\ rows'[r] = x
    BY <1>1, <1>2, <1>3, Overwritten
  <1> HIDE DEF x
  <1>5. UNCHANGED PhaseOf(n)
    BY <1>4 DEF PhaseOf
  <1>6. CASE n = r
    BY <1>2, <1>4, <1>5, <1>6
    DEF RunSteps, Status, PhaseOf, Run!Next, Run!CloseRow, Run!Close
  <1>7. CASE n # r
    BY <1>4, <1>5, <1>7 DEF RunSteps, Status
  <1>8. QED
    BY <1>6, <1>7

(* So is a step of its flow. *)
LEMMA FlowSteps ==
  ASSUME TypeOK, NEW r \in DOMAIN rows, NEW x \in FlowStates, flow' = [flow EXCEPT ![r] = x],
         UNCHANGED rows, NEW n
  PROVE  /\ UNCHANGED Status(n)
         /\ n # r => UNCHANGED PhaseOf(n)
         /\ n = r => PhaseOf(n) = flow[r] /\ PhaseOf(n)' = x
  BY Table, FlowStep DEF FlowBecomes, Status, PhaseOf

(* Every step is a step of each row's run, or leaves it alone. *)
LEMMA RunStep ==
  ASSUME IInv, [Next]_vars, NEW n
  PROVE  RunSteps(n)
  <1>0. TypeOK /\ RowInv /\ SubmitterInv
    BY DEF IInv
  <1> USE DEF Run!Next
  <1>1. ASSUME UNCHANGED store
        PROVE  RunSteps(n)
    BY <1>1 DEF store, RunSteps, Status, PhaseOf
  <1>2. ASSUME NEW p \in Fires, RecordStart(p)
        PROVE  RunSteps(n)
    <2>1. CASE UNCHANGED store
      BY <1>1, <2>1
    <2>2. CASE ~Conflicts(approved[p])
      <3> DEFINE new == [date |-> approved[p], status |-> "running", superseded |-> FALSE]
      <3>1. rows \in Seq(Rows) /\ flow \in Seq(FlowStates) /\ Len(flow) = Len(rows)
        BY <1>0 DEF TypeOK
      <3>2. new \in Rows /\ "none" \in FlowStates
        BY <1>0 DEF Rows, Statuses, FlowStates, TypeOK
      <3>3. rows' = Append(rows, new) /\ flow' = Append(flow, "none")
        BY <1>2, <2>2 DEF RecordStart, LogicalDate
      <3>4. /\ DOMAIN rows = 1..Len(rows) /\ DOMAIN rows' = 1..Len(rows) + 1
            /\ Len(rows) \in Nat
            /\ \A i \in DOMAIN rows : rows'[i] = rows[i]
            /\ rows'[Len(rows) + 1] = new
        BY <3>1, <3>2, <3>3, Appended
      <3>5. /\ \A i \in DOMAIN rows : flow'[i] = flow[i]
            /\ flow'[Len(rows) + 1] = "none"
        BY <3>1, <3>2, <3>3, <3>4, Appended
      <3>6. CASE n \in DOMAIN rows
        BY <3>4, <3>5, <3>6 DEF RunSteps, Status, PhaseOf
      <3>7. CASE n = Len(rows) + 1
        BY <3>4, <3>5, <3>7 DEF RunSteps, Status, PhaseOf, Run!Submit
      <3>8. CASE n \notin DOMAIN rows'
        BY <3>4, <3>8 DEF RunSteps, Status, PhaseOf
      <3>9. QED
        BY <3>4, <3>6, <3>7, <3>8
    <2>3. QED
      BY <1>2, <2>1, <2>2 DEF RecordStart, LogicalDate
  <1>3. ASSUME NEW p \in Fires, AddFlow(p)
        PROVE  RunSteps(n)
    <2>1. /\ row[p] \in DOMAIN rows /\ "live" \in FlowStates /\ flow[row[p]] = "none"
          /\ UNCHANGED rows
      BY <1>0, <1>3, Table DEF AddFlow, SubmitterInv, TypeOK, FlowStates
    <2>2. CASE flow' = [flow EXCEPT ![row[p]] = "live"]
      <3>1. rows[row[p]] \in Rows
        BY <1>0, <2>1 DEF TypeOK
      <3>2. Status(row[p]) # "absent"
        BY <2>1, <3>1 DEF Status, Rows, Statuses
      <3>3. /\ UNCHANGED Status(n)
            /\ n # row[p] => UNCHANGED PhaseOf(n)
            /\ n = row[p] => PhaseOf(n) = flow[row[p]] /\ PhaseOf(n)' = "live"
        BY <1>0, <2>1, <2>2, FlowSteps
      <3>4. QED
        BY <2>1, <3>2, <3>3 DEF RunSteps, PhaseOf, Run!Add
    <2>3. CASE UNCHANGED flow
      BY <1>1, <2>1, <2>3 DEF store
    <2>4. QED
      BY <1>3, <2>2, <2>3 DEF AddFlow
  <1>4. ASSUME NEW p \in Fires, CloseFailed(p)
        PROVE  RunSteps(n)
    <2>1. row[p] \in DOMAIN rows /\ UNCHANGED flow
      BY <1>0, <1>4, Table DEF CloseFailed, SubmitterInv, TypeOK
    <2>2. CASE RecordEnd(row[p], "failed")
      BY <1>0, <2>1, <2>2, ClosingSteps
    <2>3. CASE UNCHANGED rows
      BY <1>1, <2>1, <2>3 DEF store
    <2>4. QED
      BY <1>4, <2>2, <2>3 DEF CloseFailed
  <1>5. ASSUME NEW r \in DOMAIN rows, CloseRow(r) \/ Reconcile(r)
        PROVE  RunSteps(n)
    BY <1>0, <1>5, ClosingSteps DEF CloseRow, Reconcile
  <1>6. ASSUME NEW r \in DOMAIN rows, EndFlow(r)
        PROVE  RunSteps(n)
    <2>1. PICK x \in {"completed", "parked"} : flow' = [flow EXCEPT ![r] = x]
      BY <1>6 DEF EndFlow
    <2>2. x \in FlowStates /\ UNCHANGED rows /\ flow[r] = "live"
      BY <1>6 DEF EndFlow, FlowStates
    <2>3. QED
      <3>1. /\ UNCHANGED Status(n)
            /\ n # r => UNCHANGED PhaseOf(n)
            /\ n = r => PhaseOf(n) = flow[r] /\ PhaseOf(n)' = x
        BY <1>0, <2>1, <2>2, FlowSteps
      <3>2. QED
        BY <2>2, <3>1 DEF RunSteps, PhaseOf, Run!Stop
  <1>7. ASSUME NEW r \in DOMAIN rows, RemoveFailedFlow(r)
        PROVE  RunSteps(n)
    <2>1. /\ flow' = [flow EXCEPT ![r] = "removed"] /\ UNCHANGED rows
          /\ "removed" \in FlowStates /\ flow[r] \in {"parked", "completed"}
          /\ Status(r) = "failed"
      BY <1>7 DEF RemoveFailedFlow, FlowStates, Status
    <2>2. QED
      <3>1. /\ UNCHANGED Status(n)
            /\ n # r => UNCHANGED PhaseOf(n)
            /\ n = r => PhaseOf(n) = flow[r] /\ PhaseOf(n)' = "removed"
        BY <1>0, <2>1, FlowSteps
      <3>2. QED
        BY <2>1, <3>1 DEF RunSteps, PhaseOf, Run!Remove
  <1>8. ASSUME NEW r \in DOMAIN rows, SupersedeRow(r)
        PROVE  RunSteps(n)
    <2>1. Supersedes(r) /\ UNCHANGED flow /\ flow[r] = "removed" /\ Status(r) = "failed"
      BY <1>0, <1>8, Supersession DEF SupersedeRow, Status
    <2>2. QED
      BY <2>1 DEF Supersedes, RunSteps, Status, PhaseOf, Run!Supersede
  <1>9. ASSUME NEW p \in Fires,
               \/ Evaluate(p) \/ AcquireLock(p) \/ LoseLock(p) \/ Recheck(p) \/ Refuse(p)
               \/ PassPreflight(p) \/ Exit(p) \/ Crash(p) \/ Orphan(p) \/ SubmitByHand(p)
        PROVE  UNCHANGED store
    BY <1>9 DEF Evaluate, AcquireLock, LoseLock, Recheck, Refuse, PassPreflight, Exit, Crash,
                Orphan, SubmitByHand, store
  <1>10. CASE DueHourComes \/ Midnight \/ UNCHANGED vars
    BY <1>1, <1>10 DEF DueHourComes, Midnight, vars, store
  <1>11. QED
    BY <1>1, <1>2, <1>3, <1>4, <1>5, <1>6, <1>7, <1>8, <1>9, <1>10 DEF Next, Submit

(***************************************************************************)
(* Whatever fires, people and clocks do, the run of every row lives the    *)
(* life of ScheduledRun, which FlowQueue and FlowRetirement implement too: *)
(* the three agree on what can become of a run (submit.ts:221,             *)
(* flow-cleanup.ts:6-9).                                                   *)
(***************************************************************************)
THEOREM RunsLiveOnce ==
  ASSUME NEW CONSTANT n
  PROVE  Spec => ImplementsScheduledRun(n)
  <1>1. Init => Run(n)!Init
    BY DEF Init, Run!Init, Status
  <1>2. IInv /\ [Next]_vars => [Run(n)!Next]_(Run(n)!run)
    <2>1. ASSUME IInv, [Next]_vars
          PROVE  [Run(n)!Next]_(Run(n)!run)
      BY <2>1, RunStep DEF RunSteps, PhaseOf, Run!run
    <2>2. QED
      BY <2>1
  <1>3. QED
    BY <1>1, <1>2, Invariance, PTL DEF Spec, ImplementsScheduledRun, Run!Spec

=============================================================================
