-------------------------------- MODULE MCPhils --------------------------------
(***************************************************************************)
(* The dining philosophers at small tables.                                *)
(***************************************************************************)
EXTENDS Phils

BothOrders == {{}, {0}}

OrderOfTheCode == {{}}
==============================================================================
