--------------------------- MODULE ProgressLedger ---------------------------
(***************************************************************************)
(* What TaskProgressService promises for one task, each request in one     *)
(* step: a submission claims more than was approved or is waiting, a       *)
(* submission is decided on once, by somebody else, only an approval moves *)
(* the official progress, and the pending progress is the highest claim    *)
(* that still waits.                                                       *)
(***************************************************************************)
EXTENDS Integers, FiniteSetsExt

CONSTANTS Person, Update, Full

VARIABLES
    updates,   \* the submissions: free, or a row
    approved,  \* official progress
    pending,   \* progress that waits for a review
    status     \* status of the task

vars == <<updates, approved, pending, status>>

Status == {"To_Do", "In_Progress", "Submitted_for_Review", "Approved", "Rework", "Done"}

LegalFrom ==
    [To_Do                |-> {"In_Progress"},
     In_Progress          |-> {"To_Do", "Submitted_for_Review"},
     Submitted_for_Review |-> {"Approved", "Rework"},
     Approved             |-> {"Done"},
     Rework               |-> {"In_Progress", "Submitted_for_Review"},
     Done                 |-> {}]

Waiting == {u \in Update : updates[u].state = "Pending"}
Highest(S) == Max(S \cup {0})
Claimed == Highest({updates[u].percent : u \in Waiting})

Init ==
    /\ updates = [u \in Update |-> [state |-> "free"]]
    /\ approved \in 0..Full
    /\ pending = 0
    /\ status \in Status

Submit(u, p, n) ==
    /\ status \in {"In_Progress", "Rework", "Submitted_for_Review"}
    /\ updates[u].state = "free"
    /\ n > approved /\ n > Claimed
    /\ updates' = [updates EXCEPT ![u] = [state |-> "Pending", percent |-> n, by |-> p,
                                          reviewedBy |-> {}]]
    /\ pending' = n
    /\ status' = "Submitted_for_Review"
    /\ UNCHANGED approved

Review(u, p, decision) ==
    /\ u \in Waiting
    /\ p # updates[u].by
    /\ updates' = [updates EXCEPT ![u].state = decision, ![u].reviewedBy = {p}]
    /\ approved' = IF decision = "Approved" /\ updates[u].percent > approved
                      THEN updates[u].percent ELSE approved
    /\ pending' = Claimed'
    /\ status' = IF pending' > 0 THEN "Submitted_for_Review"
                 ELSE IF decision = "Rework" THEN "Rework"
                 ELSE IF decision = "Approved" /\ approved' >= Full THEN "Approved"
                 ELSE "In_Progress"

SetStatus(s) ==
    /\ s \in LegalFrom[status]
    /\ status' = s
    /\ UNCHANGED <<updates, approved, pending>>

EditProgress(n) ==
    /\ approved' = n
    /\ UNCHANGED <<updates, pending, status>>

Next ==
    \/ \E u \in Update :
          \/ \E p \in Person, n \in 1..Full : Submit(u, p, n)
          \/ \E p \in Person, d \in {"Approved", "Rejected", "Rework"} : Review(u, p, d)
    \/ \E s \in Status : SetStatus(s)
    \/ \E n \in 0..Full : EditProgress(n)

Spec == Init /\ [][Next]_vars
=============================================================================
