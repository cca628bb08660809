----------------------------- MODULE Publication ----------------------------
(***************************************************************************)
(* One phase of a hold: publishPhase of packages/queue/bin/pg-copy-ops.ts  *)
(* over publishEvidence of packages/db/src/pg-copy/evidence.ts.  One       *)
(* record, its bytes frozen, is to be durable at its final name before the *)
(* hold does anything else.  A bundle is built in a temporary directory    *)
(* and renamed; the first attempt's directory is kept for diagnosis, later *)
(* attempts share one other, which is cleared only by its receipt, the     *)
(* identity of what this phase itself created.                             *)
(*                                                                         *)
(* One action is a step of the publisher whose failure is told apart, with *)
(* the catch block it ends in.  Files and subdirectories are the body of a *)
(* directory; a loop of bounded attempts and pauses is a loop.  Other      *)
(* processes only put directories where there is nothing.                  *)
(***************************************************************************)
EXTENDS Integers

CONSTANTS
    MaxFaults,     \* bound on file operations that fail or do not answer
    MaxArrivals    \* bound on directories of others

ASSUME MaxFaultsNat == MaxFaults \in Nat
ASSUME MaxArrivalsNat == MaxArrivals \in Nat

VARIABLES
    stage,      \* where the phase is
    slot,       \* the temporary name of the present attempt
    dir,        \* what is at each name
    mine,       \* createdIdentity: what this attempt made, if it knows
    moving,     \* temporaryIdentity: what the rename is to move
    receipt,    \* retryReceipt
    latch,      \* indeterminate: a rename did not report and is not resolved
    made,       \* number of directories made, by anybody
    power,      \* is the machine up?
    unsynced,   \* has an fsync of this phase failed?
    faults, arrivals

vars == <<stage, slot, dir, mine, moving, receipt, latch, made, power, unsynced,
          faults, arrivals>>
world == <<made, power, arrivals>>

Scratches == {"diagnostic", "retry"}
Names == Scratches \cup {"final"}
Stages == {"choose", "retry", "discard", "check", "create", "build", "sync",
           "rename", "resolve", "freeze", "parent", "verify", "accept",
           "returned"}

Nobody == 0

\* A directory: its identity; its body, short of the record, the record, or
\* somebody else's; whether its root is frozen; which of body, mode and name
\* survive a loss of power; and whether this phase may ever clear it.
Absent == [id |-> Nobody, body |-> "none", frozen |-> FALSE, durable |-> {},
           claim |-> FALSE]
Others(i) == [id |-> i, body |-> "alien", frozen |-> FALSE,
              durable |-> {"body", "mode", "name"}, claim |-> FALSE]
Present(n) == dir[n].id # Nobody

Init ==
    /\ stage = "choose" /\ slot = "diagnostic"
    /\ dir = [n \in Names |-> Absent]
    /\ mine = Nobody /\ moving = Nobody /\ receipt = Nobody /\ latch = FALSE
    /\ made = 0 /\ power = TRUE /\ unsynced = FALSE
    /\ faults = 0 /\ arrivals = 0

-----------------------------------------------------------------------------
\* How an attempt goes on, and how it ends.

Goto(p, q) == stage = p /\ stage' = q

Fault == faults < MaxFaults /\ faults' = faults + 1
NoFault == UNCHANGED faults

\* A mutant: the first receipt is kept.
ReceiptOnce ==
    receipt' = IF slot = "retry" /\ receipt = Nobody THEN mine ELSE receipt
\* The receipt comes with the error, from the publisher whose mkdir it was.
TakeReceipt ==
    receipt' = IF slot = "retry" /\ mine # Nobody THEN mine ELSE receipt

\* EvidenceRefused before the rename: the next attempt chooses anew, but for a
\* final name that is seen to be taken with no temporary directory beside it.
Refused ==
    /\ stage' \in {"choose"} \cup
          {q \in {"accept"} : Present("final") /\ ~Present(slot)}
    /\ TakeReceipt

\* EvidencePublishedButUnverified: is what is there the record?
Unverified == stage' = "accept" /\ TakeReceipt

-----------------------------------------------------------------------------
\* choosePublication.

\* inspectScratch, of which only the whole record is "complete".  What cannot be
\* read is unproved, or not the record.
Disposition(n) ==
    CASE dir[n].id = Nobody -> "absent"
      [] dir[n].body = "whole" -> "complete"
      [] OTHER -> "incomplete"

Look(n, d) ==
    \/ d = Disposition(n) /\ NoFault
    \/ d = "unproved" /\ Fault
    \/ d = "incomplete" /\ Disposition(n) = "complete" /\ Fault

Dispositions == {"absent", "complete", "incomplete", "unproved"}

InspectDiagnostic ==
    /\ stage = "choose" /\ ~latch
    /\ \E d \in Dispositions :
        /\ Look("diagnostic", d)
        /\ stage' = CASE d = "complete" -> "rename"
                      [] d = "absent" -> "check"
                      [] OTHER -> "retry"
        /\ slot' = IF d \in {"complete", "absent"} THEN "diagnostic" ELSE "retry"
    /\ mine' = Nobody
    /\ UNCHANGED <<dir, moving, receipt, latch, world, unsynced>>

InspectRetry ==
    /\ stage = "retry"
    /\ \E d \in Dispositions :
        /\ Look("retry", d)
        /\ stage' = CASE d = "complete" -> "rename"
                      [] d = "absent" -> "check"
                      [] d = "incomplete" /\ receipt # Nobody -> "discard"
                      [] OTHER -> "choose"
    /\ UNCHANGED <<slot, dir, mine, moving, receipt, latch, world, unsynced>>

\* A mutant: what is at the name is taken for what the receipt was given for.
ClearByName == dir["retry"].id # Nobody
\* planScratchRemoval: the receipt is proved inside the removal.
MayClear == receipt # Nobody /\ dir["retry"].id = receipt

\* discardScratch: the validated tree goes, or nothing is touched, or a removal
\* fails half way and takes the receipt with it.
Discard ==
    /\ stage = "discard"
    /\ \/ /\ MayClear /\ NoFault
          /\ dir' = [dir EXCEPT !["retry"] = Absent]
          /\ stage' = "check"
          /\ UNCHANGED receipt
       \/ /\ IF MayClear THEN Fault ELSE NoFault
          /\ stage' = "choose"
          /\ UNCHANGED <<dir, receipt>>
       \/ /\ MayClear /\ Fault
          /\ dir' = [dir EXCEPT !["retry"].body = "partial", !["retry"].claim = FALSE]
          /\ stage' = "choose"
          /\ receipt' = Nobody
    /\ UNCHANGED <<slot, mine, moving, latch, world, unsynced>>

-----------------------------------------------------------------------------
\* publishEvidence, steps 2 to 9.

\* Step 2.  An occupied name is a collision, unless it is the record.
Check ==
    /\ stage = "check"
    /\ \/ /\ NoFault
          /\ stage' = IF Present("final") \/ Present(slot) THEN "accept" ELSE "create"
          /\ UNCHANGED receipt
       \/ Fault /\ Refused
    /\ UNCHANGED <<slot, dir, mine, moving, latch, world, unsynced>>

\* Step 3: mkdir, exclusive, and the identity of what it made, if that can be
\* read.
Create ==
    /\ Goto("create", "build")
    /\ ~Present(slot)
    /\ made' = made + 1
    /\ \/ mine' = made' /\ NoFault
       \/ mine' = Nobody /\ Fault
    /\ dir' = [dir EXCEPT ![slot] =
                 [id |-> made', body |-> "partial", frozen |-> FALSE,
                  durable |-> {}, claim |-> mine' # Nobody]]
    /\ UNCHANGED <<slot, moving, receipt, latch, power, unsynced, arrivals>>

\* EEXIST, or any other error: nothing was made, and there is no receipt.
CreateFails ==
    /\ stage = "create" /\ Refused
    /\ IF Present(slot) THEN NoFault ELSE Fault
    /\ UNCHANGED <<slot, dir, mine, moving, latch, world, unsynced>>

\* Steps 3b to 8: the files, the manifest, DIGEST, and all but the root frozen.
Build ==
    /\ stage = "build"
    /\ \/ /\ NoFault
          /\ dir' = [dir EXCEPT ![slot].body = "whole"]
          /\ stage' = "sync"
          /\ UNCHANGED receipt
       \/ Fault /\ Refused /\ UNCHANGED dir
    /\ UNCHANGED <<slot, mine, moving, latch, world, unsynced>>

\* A mutant: the files are left to the parent's fsync.
SyncNothing ==
    /\ Goto("sync", "rename")
    /\ NoFault
    /\ UNCHANGED <<slot, dir, mine, moving, receipt, latch, world, unsynced>>
\* Step 9.
Sync ==
    /\ stage = "sync"
    /\ \/ /\ NoFault
          /\ dir' = [dir EXCEPT ![slot].durable = @ \cup {"body"}]
          /\ stage' = "rename"
          /\ UNCHANGED <<receipt, unsynced>>
       \/ Fault /\ Refused /\ unsynced' = TRUE /\ UNCHANGED dir
    /\ UNCHANGED <<slot, mine, moving, latch, world>>

-----------------------------------------------------------------------------
\* finalizeScratch, and the answer to it.

Moved == [dir EXCEPT !["final"] = [dir[slot] EXCEPT !.durable = @ \ {"name"}],
                     ![slot] = Absent]

\* Step 10: renamex_np with RENAME_EXCL, which the helper may do and not report.
Rename ==
    /\ stage = "rename"
    /\ moving' = dir[slot].id
    /\ \/ /\ ~Present("final") /\ NoFault
          /\ dir' = Moved
          /\ stage' = "freeze"
          /\ UNCHANGED receipt
       \/ /\ IF Present("final") THEN NoFault ELSE Fault
          /\ Refused
          /\ UNCHANGED dir
       \/ /\ Fault
          /\ dir' = IF Present("final") THEN dir ELSE Moved
          /\ stage' = "resolve"
          /\ UNCHANGED receipt
       \/ /\ Fault
          /\ stage' = "resolve"
          /\ UNCHANGED <<dir, receipt>>
    /\ UNCHANGED <<slot, mine, latch, world, unsynced>>

\* classifyUnreportedRename: by identity at both names; anything else latches.
Resolve ==
    /\ stage = "resolve"
    /\ \/ /\ ~Present(slot) /\ dir["final"].id = moving
          /\ NoFault
          /\ stage' = "freeze"
          /\ UNCHANGED <<receipt, latch>>
       \/ /\ dir[slot].id = moving
          /\ NoFault
          /\ Refused
          /\ UNCHANGED latch
       \/ /\ IF dir[slot].id # moving /\ (Present(slot) \/ dir["final"].id # moving)
             THEN NoFault ELSE Fault
          /\ stage' = "choose" /\ TakeReceipt
          /\ latch' = TRUE
    /\ UNCHANGED <<slot, dir, mine, moving, world, unsynced>>

\* Step 10b: chmod and fsync of the root.
Freeze ==
    /\ stage = "freeze"
    /\ \/ /\ NoFault
          /\ dir' = [dir EXCEPT !["final"].frozen = TRUE,
                                !["final"].durable = @ \cup {"mode"}]
          /\ stage' = "parent"
          /\ UNCHANGED <<receipt, unsynced>>
       \/ Fault /\ Unverified /\ UNCHANGED <<dir, unsynced>>
       \/ /\ Fault /\ Unverified
          /\ dir' = [dir EXCEPT !["final"].frozen = TRUE]
          /\ unsynced' = TRUE
    /\ UNCHANGED <<slot, mine, moving, latch, world>>

\* Step 11.
SyncParent ==
    /\ stage = "parent"
    /\ \/ /\ NoFault
          /\ dir' = [n \in Names |-> IF Present(n)
                        THEN [dir[n] EXCEPT !.durable = @ \cup {"name"}] ELSE dir[n]]
          /\ stage' = "verify"
          /\ UNCHANGED <<receipt, unsynced>>
       \/ Fault /\ Unverified /\ unsynced' = TRUE /\ UNCHANGED dir
    /\ UNCHANGED <<slot, mine, moving, latch, world>>

Verified == dir["final"].frozen /\ dir["final"].body = "whole"

\* Step 12, and verifyPublishedEvidence once more in publishDurable, whose
\* failure is no class of the publisher's.
Verify ==
    /\ stage = "verify"
    /\ \/ Verified /\ NoFault /\ stage' = "returned" /\ UNCHANGED receipt
       \/ Fault /\ Unverified
       \/ Fault /\ stage' = "choose" /\ UNCHANGED receipt
    /\ UNCHANGED <<slot, dir, mine, moving, latch, world, unsynced>>

\* acceptExistingRecord: a bundle that verifies, with exactly these bytes.
Acceptable == Verified

\* After a collision or an unverified publication, and all that is done once
\* the latch is set.
Accept ==
    /\ stage = "accept" \/ (stage = "choose" /\ latch)
    /\ \/ NoFault /\ stage' = IF Acceptable THEN "returned" ELSE "choose"
       \/ Acceptable /\ Fault /\ stage' = "choose"
    /\ UNCHANGED <<slot, dir, mine, moving, receipt, latch, world, unsynced>>

-----------------------------------------------------------------------------
\* What the phase does not decide.

\* A directory of another process, or of an earlier run.
Arrive(n) ==
    /\ ~Present(n) /\ arrivals < MaxArrivals
    /\ arrivals' = arrivals + 1
    /\ made' = made + 1
    /\ dir' = [dir EXCEPT ![n] = Others(made')]
    /\ UNCHANGED <<stage, slot, mine, moving, receipt, latch, power, unsynced,
                   faults>>

\* What may be found of a directory when the machine is up again.  A renamed
\* one may also be found at its old name, which is to be absent here.
Remains(d) ==
    {e \in [id : {d.id}, body : {d.body, "partial"}, frozen : {d.frozen, FALSE},
            durable : {d.durable}, claim : {d.claim}] :
        /\ "body" \in d.durable \/ d.id = Nobody => e.body = d.body
        /\ "mode" \in d.durable => e.frozen = d.frozen}
    \cup {e \in {Absent} : "name" \notin d.durable}

PowerLoss ==
    /\ power' = FALSE
    /\ \E d \in [Names -> UNION {Remains(dir[n]) : n \in Names}] :
        /\ \A n \in Names : d[n] \in Remains(dir[n])
        /\ dir' = d
    /\ UNCHANGED <<stage, slot, mine, moving, receipt, latch, made, unsynced,
                   faults, arrivals>>

Choose == InspectDiagnostic \/ InspectRetry \/ Discard
Prepare == Check \/ Create \/ CreateFails \/ Build \/ Sync
Finalize == Rename \/ Resolve \/ Freeze \/ SyncParent \/ Verify \/ Accept

Program == power /\ (Choose \/ Prepare \/ Finalize)
Environment == power /\ (PowerLoss \/ \E n \in Names : Arrive(n))

Next == Program \/ Environment

Spec == Init /\ [][Next]_vars

\* The phase has no ceiling: it tries again for as long as it runs.
FairSpec == Spec /\ WF_vars(Program)

-----------------------------------------------------------------------------
\* Properties.

Directories == [id : Nat, body : {"none", "partial", "whole", "alien"},
                frozen : BOOLEAN, durable : SUBSET {"body", "mode", "name"},
                claim : BOOLEAN]

TypeOK ==
    /\ stage \in Stages /\ slot \in Scratches
    /\ dir \in [Names -> Directories]
    /\ mine \in 0..made /\ moving \in 0..made /\ receipt \in 0..made
    /\ latch \in BOOLEAN /\ power \in BOOLEAN /\ unsynced \in BOOLEAN
    /\ made \in Nat /\ faults \in Nat /\ arrivals \in Nat

\* A directory is at one name, and an identity is given once.
IdentityInv ==
    /\ \A n \in Names : dir[n].id <= made
    /\ \A n \in Names : dir[n].id = Nobody <=> dir[n].body = "none"
    /\ \A n, m \in Names : Present(n) /\ dir[n].id = dir[m].id => n = m
    /\ \A n \in Names : dir[n].body = "alien" =>
          ~dir[n].claim /\ dir[n].durable = {"body", "mode", "name"}

\* A receipt is for what this phase made and knows to have made.
ReceiptInv ==
    \A n \in Names : Present(n) /\ dir[n].id \in {mine, receipt} => dir[n].claim

\* Where the attempt's directory is, and that what is renamed is the record.
SlotInv ==
    /\ stage \in {"retry", "discard"} => slot = "retry"
    /\ stage \in {"retry", "discard", "check", "create"} => mine = Nobody
    /\ power /\ stage = "build" => dir[slot].body = "partial"
    /\ power /\ stage \in {"sync", "rename"} => dir[slot].body = "whole"
    /\ power /\ stage = "resolve" =>
          moving # Nobody /\ \E n \in {slot, "final"} :
              dir[n].id = moving /\ dir[n].body = "whole"
    /\ power /\ stage \in {"freeze", "parent", "verify"} =>
          dir["final"].body = "whole"
    /\ \A n \in Scratches : ~dir[n].frozen
    /\ power => dir["final"].body # "partial"
    /\ power /\ stage \in {"parent", "verify"} => Verified

\* Unless an fsync failed, the record has been synced before it is renamed, and
\* what verifies has been synced to the last.
DurableInv ==
    power /\ ~unsynced =>
        /\ \A n \in Names : dir[n].body = "whole" /\ ~(stage = "sync" /\ n = slot)
              => "body" \in dir[n].durable
        /\ Verified => "mode" \in dir["final"].durable
        /\ Verified /\ stage # "parent" => "name" \in dir["final"].durable

\* publishPhase: "do not come back until it is durably on disk and verified"
\* (pg-copy-ops.ts:2435-2436).  What it returns is at its final name, whole, and
\* stays there when the power goes, and nothing torn is ever found there; unless
\* an fsync failed, which is not repeated.
RecordSurvives ==
    ~unsynced =>
        /\ dir["final"].body # "partial"
        /\ stage = "returned" => Verified

\* The inductive invariant, of what is at the names, in which state, and whose.
IInv ==
    /\ TypeOK
    /\ IdentityInv
    /\ ReceiptInv
    /\ SlotInv
    /\ DurableInv
    /\ power /\ stage = "returned" => Verified
    /\ RecordSurvives

\* Nothing of anybody else's is touched, nothing is replaced, only the whole
\* record is ever renamed, and nothing is removed but a retry directory that
\* this phase made.  The diagnostic directory of the first attempt stays.
NothingIsDestroyed ==
    [][ power' => \A n \in Names : Present(n) =>
            \/ dir'[n].id = dir[n].id /\ (dir[n].body = "alien" => dir'[n] = dir[n])
            \/ n \in Scratches /\ dir[n].body = "whole" /\ dir'["final"].id = dir[n].id
            \/ n = "retry" /\ dir[n].claim ]_vars

\* What the phase will never get past: a rename it cannot resolve; a final name
\* taken by another, or by a record whose chmod failed; a whole record beside a
\* final name that is taken, be it by the record itself, since what is retained is
\* only ever renamed; and two names that are taken, the second by what the phase
\* did not make, cannot identify or has half removed.
Blocked ==
    \/ latch
    \/ Present("final") /\ ~Acceptable
    \/ Present("final") /\ \E n \in Scratches : Disposition(n) = "complete"
    \/ /\ Disposition("diagnostic") = "incomplete"
       /\ Disposition("retry") = "incomplete"
       /\ ~dir["retry"].claim

\* publishPhase: "the only way out is the record landing" (pg-copy-ops.ts:2449).
\* But for what it can never get past it comes back, however often it fails.
PhaseReturns == <>(stage = "returned" \/ ~power) \/ <>[]Blocked

=============================================================================
