------------------------------- MODULE MCBuffers -------------------------------
(***************************************************************************)
(* The bounded buffers of C in one run: the producers and consumers with a *)
(* stop (ProducersConsumers) and those of chapters 30 and 31 (ProdCons).   *)
(* They share nothing: the variable `system' says which of them runs, and  *)
(* the other stays where it begins.                                        *)
(***************************************************************************)
EXTENDS ProducersConsumers

CONSTANTS max, Data, Chapters

VARIABLES
  system,
  buf, cnt, beg, end, chapter, mutex, putable, getable, data, prodcons_pc

B == INSTANCE ProdCons WITH pc <- prodcons_pc

ASSUME BuffersAssumption == B!ProdConsAssumption

prodconsVars ==
  <<buf, cnt, beg, end, chapter, mutex, putable, getable, data, prodcons_pc>>

allVars == <<system, vars, prodconsVars>>

MCInit ==
  /\ system \in {"stop", "chapters"}
  /\ Init
  /\ B!Init /\ (system = "chapters" \/ chapter = CHOOSE n \in Chapters : TRUE)

MCNext ==
  \/ system = "stop" /\ Next /\ UNCHANGED <<system, prodconsVars>>
  \/ system = "chapters" /\ B!Next /\ UNCHANGED <<system, vars>>

MCSpec ==
  /\ MCInit /\ [][MCNext]_allVars
  /\ \A p \in Producers : WF_vars(system = "stop" /\ Producer(p))
  /\ \A c \in Consumers : WF_vars(system = "stop" /\ Consumer(c))
  /\ WF_vars(system = "stop" /\ Stopping)
  /\ \A p \in Producers : WF_prodconsVars(system = "chapters" /\ B!Produce(p))
  /\ \A t \in Producers \cup Consumers :
       WF_prodconsVars(system = "chapters" /\ B!prod_cons(t))

------------------------------------------------------------------------------
(* The properties of ProdCons, beside those of ProducersConsumers.         *)

\* NoLostWakeup (chapter 30) and PermitsMatchBuffer (chapter 31) of ProdCons.
NoWakeupOrPermitLost == B!NoWakeupOrPermitLost

\* The queue of ProdCons.
ProdConsImplementsQueue == B!ProdConsImplementsQueue

\* Flow of ProdCons.
Flow == system = "chapters" => B!Flow
==============================================================================
