-------------------------------- MODULE MCLock --------------------------------
(***************************************************************************)
(* Lock with the makefile's choices spelled out for the configurations.    *)
(* Spin and Yield lead to the same steps.                                  *)
(***************************************************************************)
EXTENDS Lock

AllBuilds == [atomic : AtomicVariants, block : {"Yield", "Wait"}]

OnlyXadd == [atomic : {"ExchangeAndAdd"}, block : {"Yield", "Wait"}]
==============================================================================
