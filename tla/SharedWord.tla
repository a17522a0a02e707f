------------------------------ MODULE SharedWord ------------------------------
(***************************************************************************)
(* What the thread-safe buffer promises: get returns the word of the last  *)
(* put, both of them taking effect at one moment between call and return.  *)
(***************************************************************************)
CONSTANTS Readers, Writers, Words, Null

VARIABLES
  word,  \* the last word put, Null before the first
  got,   \* what each get that has taken effect will return
  call   \* how far each thread's current call has come

vars == <<word, got, call>>

Init ==
  /\ word = Null
  /\ got = [r \in Readers |-> Null]
  /\ call = [t \in Readers \cup Writers |-> "none"]

Move(t, from, to) == call[t] = from /\ call' = [call EXCEPT ![t] = to]

Call(t) == Move(t, "none", "called") /\ UNCHANGED <<word, got>>

Get(r) ==
  /\ Move(r, "called", "effective")
  /\ got' = [got EXCEPT ![r] = word]
  /\ UNCHANGED word

Put(w, x) ==
  /\ Move(w, "called", "effective")
  /\ word' = x
  /\ UNCHANGED got

Return(t) ==
  /\ Move(t, "effective", "none")
  /\ got' = [r \in Readers |-> IF r = t THEN Null ELSE got[r]]
  /\ UNCHANGED word

Next ==
  \/ \E t \in Readers \cup Writers : Call(t) \/ Return(t)
  \/ \E r \in Readers : Get(r)
  \/ \E w \in Writers, x \in Words : Put(w, x)

Spec == Init /\ [][Next]_vars
==============================================================================
