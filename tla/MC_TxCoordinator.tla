-------------------------- MODULE MC_TxCoordinator --------------------------
(* Instantiation of TxCoordinator for TLC.  Chains share nothing in the    *)
(* coordinator (the transaction is in each request's own context), so one  *)
(* chain shows every behaviour; three levels of nesting are what           *)
(* CreateTransactionHandler reaches (handler, service Create, repository   *)
(* Save).                                                                  *)
EXTENDS TxCoordinator
=============================================================================
