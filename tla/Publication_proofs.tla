-------------------------- MODULE Publication_proofs ------------------------
(***************************************************************************)
(* What is at the names of a record, and what a receipt is for, is one     *)
(* inductive invariant of a publication phase.  From it follow, for any    *)
(* number of faults and of directories of others, that the phase destroys  *)
(* nothing but its own and that what it returns survives a loss of power.  *)
(***************************************************************************)
EXTENDS Publication, TLAPS

(***************************************************************************)
(* The initial states satisfy the invariant.                               *)
(***************************************************************************)
LEMMA InitInvariant == Init => IInv
<1> SUFFICES ASSUME Init PROVE IInv
  OBVIOUS
<1>1. dir \in [Names -> Directories] /\ \A n \in Names : dir[n] = Absent
  BY DEF Init, Directories, Absent, Nobody
<1>2. TypeOK
  <2>1. mine \in 0..made /\ moving \in 0..made /\ receipt \in 0..made /\ made \in Nat
    BY DEF Init, Nobody
  <2> QED
    BY <1>1, <2>1 DEF Init, TypeOK, Stages, Scratches
<1>3. IdentityInv /\ ReceiptInv /\ DurableInv
  BY <1>1 DEF Init, IdentityInv, ReceiptInv, DurableInv, Absent, Nobody, Present,
              Verified, Names, Scratches
<1>4. SlotInv /\ RecordSurvives
  BY <1>1 DEF Init, SlotInv, RecordSurvives, Absent, Nobody, Verified, Names,
              Scratches
<1> QED
  BY <1>1, <1>2, <1>3, <1>4 DEF IInv, Init

(***************************************************************************)
(* choosePublication looks, and clears only what it has the receipt of.    *)
(***************************************************************************)
LEMMA ChooseKeeps == IInv /\ power /\ Choose => IInv'
<1> SUFFICES ASSUME IInv, power, Choose PROVE IInv'
  OBVIOUS
<1> USE MaxFaultsNat, MaxArrivalsNat
        DEF IInv, TypeOK, IdentityInv, ReceiptInv, SlotInv, DurableInv,
            RecordSurvives, Directories, Absent, Nobody, Present, Verified,
            Stages, Scratches, Names, world, Goto, Fault, NoFault, Refused,
            Unverified, TakeReceipt
<1>1. CASE InspectDiagnostic
  BY <1>1 DEF InspectDiagnostic, Look, Disposition, Dispositions
<1>2. CASE InspectRetry
  BY <1>2 DEF InspectRetry, Look, Disposition, Dispositions
<1>3. CASE Discard
  <2>1. CASE UNCHANGED dir
    BY <1>3, <2>1 DEF Discard, MayClear
  <2>2. CASE dir' = [dir EXCEPT !["retry"] = Absent] /\ stage' = "check"
    BY <1>3, <2>2 DEF Discard, MayClear
  <2>3. CASE /\ dir' = [dir EXCEPT !["retry"].body = "partial", !["retry"].claim = FALSE]
             /\ stage' = "choose" /\ MayClear /\ receipt' = Nobody
    <3>1. dir'["retry"] = [dir["retry"] EXCEPT !.body = "partial", !.claim = FALSE]
      BY <2>3
    <3>2. \A n \in Names \ {"retry"} : dir'[n] = dir[n]
      BY <2>3
    <3>3. UNCHANGED <<slot, mine, moving, latch, world, unsynced>> /\ stage = "discard"
      BY <1>3 DEF Discard
    <3>4. TypeOK' /\ IdentityInv'
      BY <2>3, <3>1, <3>2, <3>3, <1>3 DEF MayClear, Discard
    <3>5. ReceiptInv' /\ SlotInv' /\ DurableInv' /\ RecordSurvives'
      BY <2>3, <3>1, <3>2, <3>3
    <3> QED
      BY <2>3, <3>3, <3>4, <3>5
  <2> QED
    BY <1>3, <2>1, <2>2, <2>3 DEF Discard
<1> QED
  BY <1>1, <1>2, <1>3 DEF Choose

(***************************************************************************)
(* Steps 2 to 9 build under a name that was free, and sync.                *)
(***************************************************************************)
LEMMA PrepareKeeps == IInv /\ power /\ Prepare => IInv'
<1> SUFFICES ASSUME IInv, power, Prepare PROVE IInv'
  OBVIOUS
<1> USE MaxFaultsNat, MaxArrivalsNat
        DEF IInv, TypeOK, IdentityInv, ReceiptInv, SlotInv, DurableInv,
            RecordSurvives, Directories, Absent, Nobody, Present, Verified,
            Stages, Scratches, Names, world, Goto, Fault, NoFault, Refused,
            Unverified, TakeReceipt
<1>1. CASE Check
  BY <1>1 DEF Check
<1>2. CASE Create
  <2> DEFINE new == [id |-> made', body |-> "partial", frozen |-> FALSE,
                     durable |-> {}, claim |-> mine' # Nobody]
  <2>1. dir'[slot] = new /\ \A n \in Names \ {slot} : dir'[n] = dir[n]
    BY <1>2 DEF Create
  <2>2. dir' \in [Names -> Directories]
    BY <1>2 DEF Create
  <2>3. /\ stage = "create" /\ stage' = "build" /\ made' = made + 1
        /\ mine' \in {made', Nobody} /\ faults' \in Nat
        /\ UNCHANGED <<slot, moving, receipt, latch, power, unsynced, arrivals>>
    BY <1>2 DEF Create
  <2>4. TypeOK'
    BY <2>2, <2>3
  <2>5. IdentityInv'
    BY <2>1, <2>3
  <2>6. ReceiptInv'
    <3> SUFFICES ASSUME NEW n \in Names, dir'[n].id # Nobody,
                        dir'[n].id \in {mine', receipt'}
                 PROVE  dir'[n].claim
      OBVIOUS
    <3>1. CASE n = slot
      <4>1. dir'[n].id = made + 1 /\ dir'[n].claim = (mine' # Nobody)
        BY <2>1, <2>3, <3>1
      <4>2. receipt' # made + 1
        BY <2>3
      <4>3. mine' = made + 1
        BY <4>1, <4>2
      <4> QED
        BY <4>1, <4>3
    <3>2. CASE n # slot
      <4>1. dir'[n] = dir[n] /\ dir[n].id \in 0..made /\ made \in Nat
        BY <2>1, <3>2
      <4>2. dir[n].id = receipt
        BY <2>3, <4>1
      <4> QED
        BY <4>1, <4>2
    <3> QED
      BY <3>1, <3>2
  <2>7. SlotInv' /\ DurableInv' /\ RecordSurvives'
    BY <2>1, <2>3
  <2> QED
    BY <2>3, <2>4, <2>5, <2>6, <2>7
<1>3. CASE CreateFails
  BY <1>3 DEF CreateFails
<1>4. CASE Build
  BY <1>4 DEF Build
<1>5. CASE Sync
  <2>1. CASE Fault /\ Refused /\ unsynced' = TRUE /\ UNCHANGED dir
    BY <1>5, <2>1 DEF Sync
  <2>2. CASE /\ dir' = [dir EXCEPT ![slot].durable = @ \cup {"body"}]
             /\ stage' = "rename" /\ UNCHANGED <<receipt, unsynced>>
    <3>1. dir'[slot] = [dir[slot] EXCEPT !.durable = @ \cup {"body"}]
      BY <2>2
    <3>2. \A n \in Names \ {slot} : dir'[n] = dir[n]
      BY <2>2
    <3>3. UNCHANGED <<slot, mine, moving, latch, world>> /\ stage = "sync"
      BY <1>5 DEF Sync
    <3>4. TypeOK' /\ IdentityInv'
      BY <2>2, <3>1, <3>2, <3>3, <1>5 DEF Sync
    <3>5. ReceiptInv' /\ SlotInv' /\ DurableInv' /\ RecordSurvives'
      BY <2>2, <3>1, <3>2, <3>3
    <3> QED
      BY <2>2, <3>3, <3>4, <3>5
  <2> QED
    BY <1>5, <2>1, <2>2 DEF Sync
<1> QED
  BY <1>1, <1>2, <1>3, <1>4, <1>5 DEF Prepare

(***************************************************************************)
(* A directory whose root is frozen is a directory.                        *)
(***************************************************************************)
LEMMA FreezeType ==
    ASSUME NEW d \in Directories
    PROVE  /\ [d EXCEPT !.frozen = TRUE] \in Directories
           /\ [d EXCEPT !.frozen = TRUE, !.durable = @ \cup {"mode"}] \in Directories
<1>1. d.durable \cup {"mode"} \in SUBSET {"body", "mode", "name"}
  BY DEF Directories
<1> QED
  BY <1>1 DEF Directories

(***************************************************************************)
(* Steps 10 to 12 move the whole record to a name that was free, and sync  *)
(* it there.                                                               *)
(***************************************************************************)
LEMMA FinalizeKeeps == IInv /\ power /\ Finalize => IInv'
<1> SUFFICES ASSUME IInv, power, Finalize PROVE IInv'
  OBVIOUS
<1> USE MaxFaultsNat, MaxArrivalsNat
        DEF IInv, TypeOK, IdentityInv, ReceiptInv, SlotInv, DurableInv,
            RecordSurvives, Directories, Absent, Nobody, Present, Verified,
            Stages, Scratches, Names, world, Goto, Fault, NoFault, Refused,
            Unverified, TakeReceipt
<1>1. CASE Rename
  <2>1. CASE UNCHANGED dir /\ Refused
    BY <1>1, <2>1 DEF Rename
  <2>3. CASE UNCHANGED <<dir, receipt>> /\ stage' = "resolve"
    <3>1. dir[slot].body = "whole" /\ dir[slot].id # Nobody /\ moving' = dir[slot].id
      BY <1>1 DEF Rename
    <3>2. moving' \in 0..made' /\ faults' \in Nat
      BY <1>1, <3>1 DEF Rename
    <3>3. UNCHANGED <<slot, mine, latch, world, unsynced>>
      BY <1>1 DEF Rename
    <3>4. TypeOK' /\ IdentityInv' /\ ReceiptInv'
      BY <2>3, <3>1, <3>2, <3>3
    <3>5. stage = "rename" /\ slot \in {"diagnostic", "retry"}
      BY <1>1 DEF Rename
    <3>6. SlotInv'
      BY <2>3, <3>1, <3>3, <3>5
    <3>7. DurableInv'
      BY <2>3, <3>3, <3>5
    <3>8. RecordSurvives'
      BY <2>3, <3>3, <3>5
    <3> QED
      BY <2>3, <3>3, <3>4, <3>6, <3>7, <3>8
  <2>2. CASE /\ dir' = Moved /\ ~Present("final")
             /\ stage' \in {"freeze", "resolve"} /\ UNCHANGED receipt
    <3>1. dir'["final"] = [dir[slot] EXCEPT !.durable = @ \ {"name"}]
      BY <2>2 DEF Moved
    <3>2. dir'[slot] = Absent /\ \A n \in Scratches \ {slot} : dir'[n] = dir[n]
      BY <2>2 DEF Moved
    <3>3. /\ UNCHANGED <<slot, mine, latch, world, unsynced>> /\ stage = "rename"
          /\ moving' = dir[slot].id
      BY <1>1 DEF Rename
    <3>4. TypeOK'
      <4>1. dir' \in [Names -> Directories]
        BY <2>2 DEF Moved
      <4> QED
        BY <1>1, <2>2, <4>1, <3>3 DEF Rename
    <3>5. IdentityInv'
      BY <2>2, <3>1, <3>2, <3>3
    <3>6. ReceiptInv' /\ SlotInv' /\ DurableInv' /\ RecordSurvives'
      BY <2>2, <3>1, <3>2, <3>3
    <3> QED
      BY <2>2, <3>3, <3>4, <3>5, <3>6
  <2> QED
    BY <1>1, <2>1, <2>2, <2>3 DEF Rename
<1>2. CASE Resolve
  <2>1. UNCHANGED <<slot, dir, mine, moving, world, unsynced>> /\ stage = "resolve"
    BY <1>2 DEF Resolve
  <2>2. stage' = "freeze" => dir["final"].body = "whole"
    BY <1>2 DEF Resolve
  <2>3. /\ stage' \in {"freeze", "choose", "accept"} /\ receipt' \in {receipt, mine}
        /\ latch' \in BOOLEAN /\ faults' \in Nat
    <3>1. CASE stage' = "freeze" /\ NoFault /\ UNCHANGED <<receipt, latch>>
      BY <3>1
    <3>2. CASE NoFault /\ Refused /\ UNCHANGED latch
      BY <3>2
    <3>3. CASE (NoFault \/ Fault) /\ stage' = "choose" /\ TakeReceipt /\ latch' = TRUE
      BY <3>3
    <3> QED
      BY <1>2, <3>1, <3>2, <3>3 DEF Resolve
  <2>4. TypeOK' /\ IdentityInv' /\ ReceiptInv'
    BY <2>1, <2>3
  <2>5. SlotInv' /\ DurableInv' /\ RecordSurvives'
    BY <2>1, <2>2, <2>3
  <2> QED
    BY <2>1, <2>3, <2>4, <2>5
<1>3. CASE Freeze
  <2>1. UNCHANGED <<slot, mine, moving, latch, world>> /\ stage = "freeze"
    BY <1>3 DEF Freeze
  <2>2. CASE Fault /\ Unverified /\ UNCHANGED <<dir, unsynced>>
    BY <2>1, <2>2
  <2>3. CASE /\ dir' = [dir EXCEPT !["final"].frozen = TRUE]
             /\ unsynced' = TRUE /\ Unverified /\ Fault
    <3> dir' \in [Names -> Directories]
      <4>1. [dir["final"] EXCEPT !.frozen = TRUE] \in Directories
        BY FreezeType
      <4> QED
        BY <2>3, <4>1
    <3>1. dir'["final"] = [dir["final"] EXCEPT !.frozen = TRUE]
      BY <2>3
    <3>2. \A n \in Scratches : dir'[n] = dir[n]
      BY <2>3
    <3>3. TypeOK' /\ IdentityInv'
      BY <2>1, <2>3, <3>1, <3>2
    <3>4. ReceiptInv' /\ SlotInv' /\ DurableInv' /\ RecordSurvives'
      BY <2>1, <2>3, <3>1, <3>2
    <3> QED
      BY <2>1, <2>3, <3>3, <3>4
  <2>4. CASE /\ dir' = [dir EXCEPT !["final"].frozen = TRUE,
                                   !["final"].durable = @ \cup {"mode"}]
             /\ stage' = "parent" /\ UNCHANGED <<receipt, unsynced, faults>>
    <3> dir' \in [Names -> Directories]
      <4>1. [dir["final"] EXCEPT !.frozen = TRUE, !.durable = @ \cup {"mode"}] \in Directories
        BY FreezeType
      <4> QED
        BY <2>4, <4>1
    <3>1. dir'["final"] = [dir["final"] EXCEPT !.frozen = TRUE,
                                               !.durable = @ \cup {"mode"}]
      BY <2>4
    <3>2. \A n \in Scratches : dir'[n] = dir[n]
      BY <2>4
    <3>3. TypeOK' /\ IdentityInv'
      BY <2>1, <2>4, <3>1, <3>2
    <3>4. ReceiptInv' /\ SlotInv' /\ DurableInv' /\ RecordSurvives'
      BY <2>1, <2>4, <3>1, <3>2
    <3> QED
      BY <2>1, <2>4, <3>3, <3>4
  <2> QED
    BY <1>3, <2>2, <2>3, <2>4 DEF Freeze
<1>4. CASE SyncParent
  <2>1. UNCHANGED <<slot, mine, moving, latch, world>> /\ stage = "parent"
    BY <1>4 DEF SyncParent
  <2>2. CASE Fault /\ Unverified /\ unsynced' = TRUE /\ UNCHANGED dir
    BY <2>1, <2>2
  <2>3. CASE /\ dir' = [n \in Names |-> IF Present(n)
                          THEN [dir[n] EXCEPT !.durable = @ \cup {"name"}] ELSE dir[n]]
             /\ stage' = "verify" /\ UNCHANGED <<receipt, unsynced, faults>>
    <3>1. dir' \in [Names -> Directories]
      BY <2>3
    <3>2. \A n \in Names :
            /\ dir'[n].id = dir[n].id /\ dir'[n].body = dir[n].body
            /\ dir'[n].frozen = dir[n].frozen /\ dir'[n].claim = dir[n].claim
            /\ dir[n].durable \subseteq dir'[n].durable
            /\ Present(n) => "name" \in dir'[n].durable
      BY <2>3
    <3>3. Verified
      BY <1>4 DEF SyncParent
    <3>4. TypeOK' /\ IdentityInv' /\ ReceiptInv'
      BY <2>1, <2>3, <3>1, <3>2
    <3>5. SlotInv' /\ DurableInv' /\ RecordSurvives'
      BY <2>1, <2>3, <3>2, <3>3
    <3> QED
      BY <2>1, <2>3, <3>4, <3>5
  <2> QED
    BY <1>4, <2>2, <2>3 DEF SyncParent
<1>5. CASE Verify
  BY <1>5 DEF Verify
<1>6. CASE Accept
  BY <1>6 DEF Accept, Acceptable
<1> QED
  BY <1>1, <1>2, <1>3, <1>4, <1>5, <1>6 DEF Finalize

(***************************************************************************)
(* What a loss of power leaves of a directory.                             *)
(***************************************************************************)
LEMMA Remaining ==
    ASSUME NEW d \in Directories, NEW e \in Remains(d)
    PROVE  /\ e \in Directories
           /\ \/ e = Absent /\ ("name" \in d.durable => FALSE)
              \/ /\ e.id = d.id /\ e.claim = d.claim /\ e.durable = d.durable
                 /\ \/ e.body = d.body
                    \/ d.id # Nobody /\ "body" \notin d.durable /\ e.body = "partial"
                 /\ \/ e.frozen = d.frozen
                    \/ "mode" \notin d.durable /\ ~e.frozen
<1>1. CASE e = Absent /\ "name" \notin d.durable
  BY <1>1 DEF Directories, Absent, Nobody
<1>2. CASE /\ e \in [id : {d.id}, body : {d.body, "partial"},
                     frozen : {d.frozen, FALSE}, durable : {d.durable}, claim : {d.claim}]
           /\ "body" \in d.durable \/ d.id = Nobody => e.body = d.body
           /\ "mode" \in d.durable => e.frozen = d.frozen
  BY <1>2 DEF Directories
<1> QED
  BY <1>1, <1>2 DEF Remains

(***************************************************************************)
(* Others take free names only, and a loss of power takes nothing of what  *)
(* was synced.                                                             *)
(***************************************************************************)
LEMMA EnvironmentKeeps == IInv /\ Environment => IInv'
<1> SUFFICES ASSUME IInv, Environment PROVE IInv'
  OBVIOUS
<1> USE MaxFaultsNat, MaxArrivalsNat
        DEF IInv, TypeOK, IdentityInv, ReceiptInv, SlotInv, DurableInv,
            RecordSurvives, Directories, Absent, Nobody, Present, Verified,
            Stages, Scratches, Names
<1>1. ASSUME NEW n \in Names, Arrive(n) PROVE IInv'
  BY <1>1 DEF Environment, Arrive, Others
<1>2. CASE PowerLoss
  <2>1. /\ power /\ power' = FALSE /\ \A n \in Names : dir'[n] \in Remains(dir[n])
        /\ UNCHANGED <<stage, slot, mine, moving, receipt, latch, made, unsynced,
                       faults, arrivals>>
    BY <1>2 DEF Environment, PowerLoss
  <2>2. \A n \in Names : dir[n] \in Directories /\ Remains(dir[n]) \subseteq Directories
    BY Remaining
  <2>3. \A n \in Names :
          \/ dir'[n] = Absent /\ ("name" \in dir[n].durable => dir[n] = Absent)
          \/ /\ dir'[n].id = dir[n].id /\ dir'[n].claim = dir[n].claim
             /\ dir'[n].durable = dir[n].durable
             /\ \/ dir'[n].body = dir[n].body
                \/ Present(n) /\ "body" \notin dir[n].durable /\ dir'[n].body = "partial"
             /\ \/ dir'[n].frozen = dir[n].frozen
                \/ "mode" \notin dir[n].durable /\ ~dir'[n].frozen
    <3> SUFFICES ASSUME NEW n \in Names
                 PROVE  \/ dir'[n] = Absent /\ ("name" \in dir[n].durable => dir[n] = Absent)
                        \/ /\ dir'[n].id = dir[n].id /\ dir'[n].claim = dir[n].claim
                           /\ dir'[n].durable = dir[n].durable
                           /\ \/ dir'[n].body = dir[n].body
                              \/ /\ Present(n) /\ "body" \notin dir[n].durable
                                 /\ dir'[n].body = "partial"
                           /\ \/ dir'[n].frozen = dir[n].frozen
                              \/ "mode" \notin dir[n].durable /\ ~dir'[n].frozen
      OBVIOUS
    <3> DEFINE d == dir[n]
               e == dir'[n]
    <3>1. d \in Directories /\ e \in Remains(d)
      BY <2>1, <2>2
    <3> HIDE DEF d, e
    <3>2. /\ e \in Directories
          /\ \/ e = Absent /\ ("name" \in d.durable => FALSE)
             \/ /\ e.id = d.id /\ e.claim = d.claim /\ e.durable = d.durable
                /\ \/ e.body = d.body
                   \/ d.id # Nobody /\ "body" \notin d.durable /\ e.body = "partial"
                /\ \/ e.frozen = d.frozen
                   \/ "mode" \notin d.durable /\ ~e.frozen
      BY <3>1, Remaining
    <3> QED
      BY <3>2 DEF d, e
  <2>4. dir' \in [Names -> Directories]
    BY <1>2, <2>1, <2>2 DEF PowerLoss
  <2>9. TypeOK'
    BY <2>1, <2>4
  <2>10. ReceiptInv'
    BY <2>1, <2>3
  <2>5. TypeOK' /\ ReceiptInv'
    BY <2>9, <2>10
  <2>8. IdentityInv'
    BY <2>1, <2>3, <2>4
  <2>6. SlotInv' /\ DurableInv'
    BY <2>1, <2>3
  <2>7. RecordSurvives'
    BY <2>1, <2>3
  <2> QED
    BY <2>1, <2>5, <2>6, <2>7, <2>8
<1> QED
  BY <1>1, <1>2 DEF Environment

(***************************************************************************)
(* The invariant, in every reachable state.                                *)
(***************************************************************************)
THEOREM Invariance == Spec => []IInv
<1>1. IInv /\ [Next]_vars => IInv'
  <2> SUFFICES ASSUME IInv, [Next]_vars PROVE IInv'
    OBVIOUS
  <2>1. CASE Program
    BY <2>1, ChooseKeeps, PrepareKeeps, FinalizeKeeps DEF Program
  <2>2. CASE Environment
    BY <2>2, EnvironmentKeeps
  <2>3. CASE UNCHANGED vars
    BY <2>3 DEF vars, IInv, TypeOK, IdentityInv, ReceiptInv, SlotInv, DurableInv,
                RecordSurvives, Present, Verified
  <2> QED
    BY <2>1, <2>2, <2>3 DEF Next
<1> QED
  BY <1>1, InitInvariant, PTL DEF Spec

(***************************************************************************)
(* What publishPhase returns survives a loss of power, and nothing torn is *)
(* ever found at the final name, if no fsync failed (publishEvidence steps *)
(* 9 to 11).                                                               *)
(***************************************************************************)
THEOREM RecordsSurvive == Spec => []RecordSurvives
<1>1. IInv => RecordSurvives
  BY DEF IInv
<1> QED
  BY <1>1, Invariance, PTL

(***************************************************************************)
(* Nothing that anybody has put at one of the three names is replaced,     *)
(* changed or removed, but for the bundle of this phase (publishEvidence   *)
(* steps 3 and 10, discardScratch).                                        *)
(***************************************************************************)
THEOREM NothingIsLost == Spec => NothingIsDestroyed
<1> DEFINE Kept(n) ==
      \/ dir'[n].id = dir[n].id /\ (dir[n].body = "alien" => dir'[n] = dir[n])
      \/ n \in Scratches /\ dir[n].body = "whole" /\ dir'["final"].id = dir[n].id
      \/ n = "retry" /\ dir[n].claim
<1>1. ASSUME IInv, Next, power', NEW n \in Names, Present(n) PROVE Kept(n)
  <2>1. /\ dir \in [Names -> Directories] /\ slot \in Scratches /\ power
        /\ dir[n].body = "alien" =>
              ~dir[n].claim /\ dir[n].durable = {"body", "mode", "name"}
        /\ dir[n].id \in {mine, receipt} => dir[n].claim
        /\ stage = "build" => dir[slot].body = "partial"
        /\ stage \in {"sync", "rename"} => dir[slot].body = "whole"
        /\ stage \in {"freeze", "parent"} => dir["final"].body = "whole"
    BY <1>1 DEF IInv, TypeOK, IdentityInv, ReceiptInv, SlotInv, Present, Scratches,
                Names, Next, Program, Environment
  <2>2. CASE UNCHANGED dir
    BY <2>2
  <2>3. CASE Discard /\ dir' # dir
    <3>1. MayClear /\ \A m \in Names \ {"retry"} : dir'[m] = dir[m]
      BY <2>1, <2>3 DEF Discard
    <3>2. n = "retry" => dir[n].claim
      BY <2>1, <3>1 DEF MayClear
    <3> QED
      BY <3>1, <3>2
  <2>4. CASE Create
    <3>1. n # slot /\ dir'[n] = dir[n]
      BY <1>1, <2>1, <2>4 DEF Create
    <3> QED
      BY <3>1
  <2>5. CASE Build /\ dir' # dir
    <3>1. stage = "build" /\ dir' = [dir EXCEPT ![slot].body = "whole"]
      BY <2>5 DEF Build
    <3> QED
      BY <2>1, <3>1
  <2>6. CASE Sync /\ dir' # dir
    <3>1. /\ stage = "sync"
          /\ dir' = [dir EXCEPT ![slot].durable = @ \cup {"body"}]
      BY <2>6 DEF Sync
    <3> QED
      BY <2>1, <3>1
  <2>7. CASE Rename /\ dir' # dir
    <3>1. stage = "rename" /\ dir' = Moved /\ ~Present("final")
      BY <2>7 DEF Rename
    <3>2. n # "final"
      BY <1>1, <3>1
    <3>3. n # slot => dir'[n] = dir[n]
      BY <2>1, <3>1, <3>2 DEF Moved
    <3>4. /\ dir'["final"] = [dir[slot] EXCEPT !.durable = @ \ {"name"}]
          /\ dir[slot] \in Directories
      BY <2>1, <3>1 DEF Moved, Names, Scratches
    <3>5. dir'["final"].id = dir[slot].id
      BY <3>4 DEF Directories
    <3> QED
      BY <2>1, <3>1, <3>2, <3>3, <3>5
  <2>8. CASE Freeze /\ dir' # dir
    <3>1. /\ stage = "freeze"
          /\ \A m \in Names : dir'[m].id = dir[m].id
          /\ \A m \in Names \ {"final"} : dir'[m] = dir[m]
      BY <2>1, <2>8 DEF Freeze, Directories
    <3> QED
      BY <2>1, <3>1
  <2>9. CASE SyncParent /\ dir' # dir
    <3>1. dir' = [m \in Names |-> IF Present(m)
                     THEN [dir[m] EXCEPT !.durable = @ \cup {"name"}] ELSE dir[m]]
      BY <2>9 DEF SyncParent
    <3>2. dir'[n] = [dir[n] EXCEPT !.durable = @ \cup {"name"}] /\ dir[n] \in Directories
      BY <1>1, <2>1, <3>1
    <3>3. CASE dir[n].body = "alien"
      <4>1. dir[n].durable \cup {"name"} = dir[n].durable
        BY <2>1, <3>3
      <4> QED
        BY <3>2, <4>1 DEF Directories
    <3>4. CASE dir[n].body # "alien"
      BY <3>2, <3>4 DEF Directories
    <3> QED
      BY <3>3, <3>4
  <2>10. ASSUME NEW m \in Names, Arrive(m) PROVE Kept(n)
    <3>1. n # m /\ dir'[n] = dir[n]
      BY <1>1, <2>1, <2>10 DEF Arrive
    <3> QED
      BY <3>1
  <2>11. ~PowerLoss
    BY <1>1 DEF PowerLoss
  <2>12. CASE InspectDiagnostic \/ InspectRetry \/ Check \/ CreateFails
              \/ Resolve \/ Verify \/ Accept
    BY <2>2, <2>12 DEF InspectDiagnostic, InspectRetry, Check, CreateFails,
                       Resolve, Verify, Accept
  <2> QED
    BY <1>1, <2>2, <2>3, <2>4, <2>5, <2>6, <2>7, <2>8, <2>9, <2>10, <2>11, <2>12
    DEF Next, Program, Environment, Choose, Prepare, Finalize
<1>2. IInv /\ [Next]_vars =>
        [power' => \A n \in Names : Present(n) => Kept(n)]_vars
  BY <1>1
<1> QED
  BY <1>2, Invariance, PTL DEF Spec, NothingIsDestroyed

=============================================================================
