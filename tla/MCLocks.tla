-------------------------------- MODULE MCLocks --------------------------------
(***************************************************************************)
(* The two locks in one run: the homemade lock in all its builds (Lock)    *)
(* and the readers-and-writers lock around a string (ReadWrit).  They      *)
(* share nothing: the variable `system' says which of them runs, and the   *)
(* other stays where it begins.                                            *)
(***************************************************************************)
EXTENDS MCLock

CONSTANTS Readers, Writers, Words, Null, Torn

VARIABLES system, s, getters, getable, putable, data, readwrit_pc

R == INSTANCE ReadWrit WITH pc <- readwrit_pc

ASSUME LocksAssumption == R!ReadWritAssumption

readwritVars == <<s, getters, getable, putable, data, readwrit_pc>>

allVars == <<system, vars, readwritVars>>

MCInit ==
  /\ system \in {"lock", "readwrit"}
  /\ Init /\ (system = "lock" \/ build = CHOOSE b \in Builds : TRUE)
  /\ R!Init

MCNext ==
  \/ system = "lock" /\ Next /\ UNCHANGED <<system, readwritVars>>
  \/ system = "readwrit" /\ R!Next /\ UNCHANGED <<system, vars>>

MCSpec ==
  /\ MCInit /\ [][MCNext]_allVars
  /\ \A t \in Threads :
       /\ WF_vars(system = "lock" /\ Step(t))
       /\ SF_vars(system = "lock" /\ StoreExclusive(t))
  /\ \A r \in Readers : WF_readwritVars(system = "readwrit" /\ R!Get(r))
  /\ \A w \in Writers : WF_readwritVars(system = "readwrit" /\ R!Writer(w))

------------------------------------------------------------------------------
(* The properties of both.  What a component promises to do in the end is  *)
(* asked of it when it runs.                                               *)

\* PrintsAllUnlessXadd of Lock.
LockPrintsAll == system = "lock" => PrintsAllUnlessXadd

\* WritersAlone, ImplementsSharedWord and WritersGoOn of ReadWrit.
WritersAlone == R!WritersAlone
ImplementsSharedWord == R!ImplementsSharedWord
WritersGoOn == system = "readwrit" => R!WritersGoOn
==============================================================================
