--------------------------- MODULE AtomicRollback ---------------------------
(***************************************************************************)
(* What a rollback promises, with no boots, no power losses and no moves   *)
(* of subvolumes: the root and the Home of the system change together, in  *)
(* one step, and only when a rollback is confirmed; every other outcome    *)
(* leaves them as they were; and an outcome is given once.                 *)
(***************************************************************************)
EXTENDS RollbackTransaction

VARIABLES
    system,   \* system[s]: the root and the Home the user can count on
    active,   \* the rollback that is under way
    outcome,  \* outcome[t]: how rollback t ended
    erased    \* has the snapshot history been erased?

atomicVars == <<system, active, outcome, erased>>

AtomicInit ==
    /\ system = [s \in Slots |-> Installed]
    /\ active = NoTxn
    /\ outcome = [t \in Txns |-> "none"]
    /\ erased = FALSE

Begin(t) ==
    /\ active = NoTxn /\ outcome[t] = "none"
    /\ active' = t
    /\ UNCHANGED <<system, outcome, erased>>

Commit ==
    /\ active # NoTxn /\ outcome[active] = "none"
    /\ outcome' = [outcome EXCEPT ![active] = "Confirmed"]
    /\ system' = [s \in Slots |-> IF s \in Affected(Kind[active]) THEN active ELSE system[s]]
    /\ UNCHANGED <<active, erased>>

Abandon(result) ==
    /\ active # NoTxn /\ outcome[active] = "none"
    /\ outcome' = [outcome EXCEPT ![active] = result]
    /\ UNCHANGED <<system, active, erased>>

(* The history may go once a rollback that asked for it is confirmed.      *)
Erase ==
    /\ active # NoTxn /\ outcome[active] = "Confirmed" /\ PurgeHistory(Kind[active])
    /\ erased' = TRUE
    /\ UNCHANGED <<system, active, outcome>>

(* The rollback is over, or it was cancelled before it began.              *)
End ==
    /\ active # NoTxn
    /\ active' = NoTxn
    /\ UNCHANGED <<system, outcome, erased>>

AtomicNext ==
    \/ \E t \in Txns : Begin(t)
    \/ Commit
    \/ \E result \in {"Reverted", "Failed"} : Abandon(result)
    \/ Erase
    \/ End

AtomicSpec == AtomicInit /\ [][AtomicNext]_atomicVars
=============================================================================
