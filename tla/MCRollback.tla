------------------------------ MODULE MCRollback ------------------------------
(* A model of RollbackLifecycle: eight transactions, one for every kind and *)
(* protocol, which all restore the same snapshot.                           *)
EXTENDS RollbackLifecycle

MCTxns == {"sys2", "sys3", "fac2", "fac3", "pur2", "pur3", "hom2", "hom3"}
MCKind == [t \in MCTxns |->
    CASE t \in {"sys2", "sys3"} -> "system"
      [] t \in {"fac2", "fac3"} -> "factoryHome"
      [] t \in {"pur2", "pur3"} -> "factoryPurge"
      [] t \in {"hom2", "hom3"} -> "home"]
MCProtocol == [t \in MCTxns |-> IF t \in {"sys2", "fac2", "pur2", "hom2"} THEN 2 ELSE 3]
MCTarget == [t \in MCTxns |-> "snapshot"]
MCTargets == {"snapshot"}
=============================================================================
